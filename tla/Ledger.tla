------------------------------- MODULE Ledger -------------------------------
(***************************************************************************)
(* The immutable accounting record: financial events, executions and the   *)
(* two correction lineages that restate them without editing a row.        *)
(*   InitializeAccount      POST /api/accounts/[id]/initialize             *)
(*   SetActive              PUT  /api/accounts/[id]  (isActive)            *)
(*   PostEventWithEffect    POST /api/accounts/[id]/financial-events       *)
(*   CorrectFinancialEvent  POST .../financial-events/[eventId]/correct    *)
(*   PostExecution          postExecutionFill, both fill routes            *)
(*   CorrectExecution       correctExecution, both correction routes       *)
(* The debit and credit postings of an event carry its amount and its time *)
(* and nothing else; the event stands for them.  Rows refer to each other  *)
(* by their place in the table.  Times, which no rule here reads, are left *)
(* out, as is the FIFO replay (PositionBook) that may roll a fill back.    *)
(***************************************************************************)
EXTENDS ExecutionActions, Sequences, FiniteSets, Totals

CONSTANTS
  Accounts,
  PostableTypes,   \* event types the clients post
  Amounts,         \* amounts of money, in hundredths
  Fees,            \* fees a fill may carry; zero is a fill without a fee
  Actions,         \* economic actions of the fills
  ClientKeys,      \* idempotency keys the clients choose
  MaxEvents        \* bound on the rows of financial_events

CashIncreaseTypes == {"opening_balance", "deposit", "dividend", "interest"}
CashDecreaseTypes == {"withdrawal", "fee", "tax"}

\* Of EVENT_TYPES, adjustment and transfer are declared but nothing posts them.
EventTypes == CashIncreaseTypes \cup CashDecreaseTypes
                \cup {"manual_adjustment", "stock_split", "trade_execution"}

\* CORRECTABLE_EVENT_TYPES
CorrectableTypes == CashIncreaseTypes \cup CashDecreaseTypes \cup {"manual_adjustment"}

ASSUME PostableTypesAssumption == PostableTypes \subseteq EventTypes \ {"trade_execution"}
ASSUME AmountsAssumption == Amounts \subseteq Nat \ {0}
ASSUME FeesAssumption == Fees \subseteq Nat
ASSUME ActionsAssumption == Actions \subseteq EconomicActions
ASSUME MaxEventsAssumption == MaxEvents \in Nat

VARIABLES
  active,            \* [Accounts -> is_active]
  events,            \* financial_events with their postings
  eventLineage,      \* financial_event_correction_lineage
  executions,        \* accounting_executions
  executionLineage   \* correction_lineage

ledgerVars == <<active, events, eventLineage, executions, executionLineage>>
-----------------------------------------------------------------------------
(* Idempotency keys.  Each event has at most one: the client's, or one the   *)
(* kernel derives from the execution the event settles.                      *)

NoKey == [kind |-> "none", of |-> 0]
ClientKey(k) == [kind |-> "client", of |-> k]
ExecutionKey(x) == [kind |-> "execution", of |-> x]
FeeKey(x) == [kind |-> "fee", of |-> x]
RefundKey(x) == [kind |-> "refund", of |-> x]

ClientKeyOptions == {NoKey} \cup {ClientKey(k) : k \in ClientKeys}

EventKeyUsed(key) == key # NoKey /\ \E n \in DOMAIN events : events[n].key = key

CorrectionKeyUsed(lineage, key) == key # NoKey /\ \E c \in lineage : c.key = key
-----------------------------------------------------------------------------
(* Lineage.                                                                  *)

Originals(lineage) == {c.original : c \in lineage}
Reversals(lineage) == {c.reversal : c \in lineage}
Constituents(lineage) == Reversals(lineage) \cup {c.replacement : c \in lineage}

\* Mutation of Correctable: the constituents of a correction are open to another.
CorrectableUnlessCorrected(lineage, id) == id \notin Originals(lineage)

\* A row may be corrected once, and never if a correction produced it.
Correctable(lineage, id) == id \notin Constituents(lineage) \cup Originals(lineage)

Superseded(lineage) == Originals(lineage) \cup Reversals(lineage)

Correction(original, reversal, replacement, key) ==
  [original |-> original, reversal |-> reversal, replacement |-> replacement,
   key |-> key]
-----------------------------------------------------------------------------
(* Events.                                                                   *)

Opposite(direction) == IF direction = "increase" THEN "decrease" ELSE "increase"

Magnitude(amount) == IF amount < 0 THEN -amount ELSE amount

\* computeEffect: the type decides, or the sign of a manual adjustment.
EffectDirection(type, amount) ==
  CASE type \in CashIncreaseTypes -> "increase"
    [] type \in CashDecreaseTypes -> "decrease"
    [] type = "manual_adjustment" -> IF amount < 0 THEN "decrease" ELSE "increase"
    [] type = "stock_split" -> "none"

\* `payload` is the amount the event's payload carries, with its sign.
Event(account, type, direction, amount, payload, key) ==
  [account |-> account, type |-> type, direction |-> direction,
   amount |-> amount, payload |-> payload, key |-> key]

RequestedAmounts(type) ==
  CASE type = "stock_split" -> {0}
    [] type = "manual_adjustment" -> Amounts \cup {-m : m \in Amounts}
    [] OTHER -> Amounts

\* Mutation of PostedEvent: a signed adjustment is posted with its sign.
PostedEventWithSign(account, type, amount, key) ==
  Event(account, type, EffectDirection(type, amount), amount, amount, key)

PostedEvent(account, type, amount, key) ==
  Event(account, type, EffectDirection(type, amount), Magnitude(amount), amount, key)

\* Mutation of ReversalEvent: the payload repeats the original's.
ReversalEventWithPayload(original) ==
  Event(original.account, original.type, Opposite(original.direction),
        original.amount, original.payload, NoKey)

\* Mutation of ReversalEvent: the effect is that of the event's type again.
ReversalEventOfType(original) ==
  Event(original.account, original.type, EffectDirection(original.type, 1),
        original.amount, -original.amount, NoKey)

ReversalEvent(original) ==
  Event(original.account, original.type, Opposite(original.direction),
        original.amount,
        IF original.direction = "increase" THEN -original.amount ELSE original.amount,
        NoKey)

\* validateReplacementAmount takes "-0.xx" for zero: a manual adjustment
\* cannot be corrected to an outflow below one unit.
ReplacementAmounts(type) == {m \in RequestedAmounts(type) : ~(m < 0 /\ m > -100)}

ConsiderationEvent(x, row) ==
  Event(row.account, "trade_execution", CashDirection(row.action), row.consideration,
        0, ExecutionKey(x))

FeeEvent(x, row) == Event(row.account, "fee", "decrease", row.fees, 0, FeeKey(x))

\* The events that settle a fill: its consideration, and its fee if it has one.
ExecutionEvents(x, row) ==
  IF row.fees > 0 THEN <<ConsiderationEvent(x, row), FeeEvent(x, row)>>
                  ELSE <<ConsiderationEvent(x, row)>>

\* Mutation of ReversalEvents: the reversal is charged like a fill.
ReversalEventsWithFee(x, row) == ExecutionEvents(x, row)

\* A reversal is correction machinery and never charges a fee of its own.
ReversalEvents(x, row) == <<ConsiderationEvent(x, row)>>

\* Mutation of RefundEvents: the correction leaves the original's fee charged.
RefundEventsNever(x) == <<>>

\* The original's fee is given back once, when it had been charged.
RefundEvents(x) ==
  IF /\ executions[x].fees > 0
     /\ EventKeyUsed(FeeKey(x))
     /\ ~EventKeyUsed(RefundKey(x))
    THEN <<Event(executions[x].account, "manual_adjustment", "increase",
                 executions[x].fees, 0, RefundKey(x))>>
    ELSE <<>>

\* What a correction of x posts for its reversal y and its replacement z.
CorrectionEvents(x, y, reversal, z, replacement) ==
  ReversalEvents(y, reversal) \o ExecutionEvents(z, replacement) \o RefundEvents(x)

Execution(account, action, consideration, fees, key) ==
  [account |-> account, action |-> action, consideration |-> consideration,
   fees |-> fees, key |-> key]

\* Mutation of ExecutionKeyTaken: only the event table is searched.
ExecutionKeyTakenInEvents(key) == EventKeyUsed(key)

ExecutionKeyTaken(key) ==
  key # NoKey /\ \E x \in DOMAIN executions : executions[x].key = key
-----------------------------------------------------------------------------
\* Accounts are created as drafts.
Init ==
  /\ active = [a \in Accounts |-> FALSE]
  /\ events = <<>>
  /\ eventLineage = {}
  /\ executions = <<>>
  /\ executionLineage = {}

AppendEvents(new) ==
  /\ Len(events) + Len(new) <= MaxEvents
  /\ events' = events \o new

PristineDraft(a) ==
  /\ ~active[a]
  /\ \A n \in DOMAIN events : events[n].account # a
  /\ \A x \in DOMAIN executions : executions[x].account # a

\* Opening balance and activation in one transaction; without an amount the
\* account starts at zero and no event is made up.
InitializeAccount(a, amount, key) ==
  /\ PristineDraft(a)
  /\ amount # 0 => ~EventKeyUsed(key)
  /\ AppendEvents(IF amount = 0 THEN <<>>
                  ELSE <<PostedEvent(a, "opening_balance", amount, key)>>)
  /\ active' = [active EXCEPT ![a] = TRUE]
  /\ UNCHANGED <<eventLineage, executions, executionLineage>>

\* The open-trade guards of the route read the journal and are left to
\* TradeLifecycle: here an account may be switched at any time.
SetActive(a, on) ==
  /\ active' = [active EXCEPT ![a] = on]
  /\ UNCHANGED <<events, eventLineage, executions, executionLineage>>

PostEventWithEffect(a, type, amount, key) ==
  /\ active[a]
  /\ ~EventKeyUsed(key)
  /\ AppendEvents(<<PostedEvent(a, type, amount, key)>>)
  /\ UNCHANGED <<active, eventLineage, executions, executionLineage>>

\* Corrections stay possible on an inactive account.
CorrectFinancialEvent(a, n, amount, key) ==
  LET original == events[n] IN
  /\ original.account = a
  /\ original.type \in CorrectableTypes
  /\ ~CorrectionKeyUsed(eventLineage, key)
  /\ Correctable(eventLineage, n)
  /\ amount \in ReplacementAmounts(original.type)
  /\ AppendEvents(<<ReversalEvent(original),
                    PostedEvent(a, original.type, amount, NoKey)>>)
  /\ eventLineage' = eventLineage \cup
       {Correction(n, Len(events) + 1, Len(events) + 2, key)}
  /\ UNCHANGED <<active, executions, executionLineage>>

PostExecution(a, action, consideration, fees, key) ==
  LET row == Execution(a, action, consideration, fees, key) IN
  /\ active[a]
  /\ ~ExecutionKeyTaken(key)
  /\ AppendEvents(ExecutionEvents(Len(executions) + 1, row))
  /\ executions' = Append(executions, row)
  /\ UNCHANGED <<active, eventLineage, executionLineage>>

CorrectExecution(a, x, action, consideration, fees, key) ==
  LET original    == executions[x]
      reversal    == [original EXCEPT !.action = ReverseAction(@), !.key = NoKey]
      replacement == Execution(a, action, consideration, fees, NoKey)
      new         == Len(executions)
  IN /\ original.account = a
     /\ ~CorrectionKeyUsed(executionLineage, key)
     /\ Correctable(executionLineage, x)
     /\ AppendEvents(CorrectionEvents(x, new + 1, reversal, new + 2, replacement))
     /\ executions' = executions \o <<reversal, replacement>>
     /\ executionLineage' = executionLineage \cup
          {Correction(x, new + 1, new + 2, key)}
     /\ UNCHANGED <<active, eventLineage>>

\* One operation on one account.
Operation(a) ==
  \/ \E amount \in Amounts \cup {0}, key \in ClientKeyOptions :
       InitializeAccount(a, amount, key)
  \/ \E type \in PostableTypes, key \in ClientKeyOptions :
       \E amount \in RequestedAmounts(type) : PostEventWithEffect(a, type, amount, key)
  \/ \E n \in DOMAIN events, key \in ClientKeyOptions :
       \E amount \in RequestedAmounts(events[n].type) :
         CorrectFinancialEvent(a, n, amount, key)
  \/ \E action \in Actions, m \in Amounts, fees \in Fees, key \in ClientKeyOptions :
       PostExecution(a, action, m, fees, key)
  \/ \E x \in DOMAIN executions, action \in Actions, m \in Amounts, fees \in Fees,
        key \in ClientKeyOptions : CorrectExecution(a, x, action, m, fees, key)

Next == \E a \in Accounts : Operation(a) \/ \E on \in BOOLEAN : SetActive(a, on)

LedgerSpec == Init /\ [][Next]_ledgerVars
-----------------------------------------------------------------------------
(* Properties *)

\* The keys an event may have when `xs` are the executions, and the event rows.
Keys(xs) ==
  ClientKeyOptions \cup
    [kind : {"execution", "fee", "refund"}, of : xs]

Events(xs) ==
  [account : Accounts, type : EventTypes, direction : {"increase", "decrease", "none"},
   amount : Nat, payload : Int, key : Keys(xs)]

Executions ==
  [account : Accounts, action : EconomicActions, consideration : Nat, fees : Nat,
   key : ClientKeyOptions]

\* A lineage row names three rows that exist, the two it appended after the
\* one they correct.
LineageOK(lineage, rows) ==
  /\ lineage \subseteq [original : DOMAIN rows, reversal : DOMAIN rows,
                         replacement : DOMAIN rows, key : ClientKeyOptions]
  /\ \A c \in lineage : c.original < c.reversal /\ c.replacement = c.reversal + 1

\* Every stored row is one the schema admits, and every deterministic key names
\* an execution that exists.
TypeOK ==
  /\ active \in [Accounts -> BOOLEAN]
  /\ events \in Seq(Events(DOMAIN executions))
  /\ executions \in Seq(Executions)
  /\ LineageOK(eventLineage, events)
  /\ LineageOK(executionLineage, executions)

\* No row is corrected twice, a reversal or a replacement is never itself
\* corrected, and no two corrections share a row.
CorrectedOnceIn(lineage) ==
  /\ \A c \in lineage : c.original \notin Constituents(lineage)
  /\ \A c, d \in lineage :
       c # d => {c.original, c.reversal, c.replacement}
                  \cap {d.original, d.reversal, d.replacement} = {}

\* The correction rules of both kernels hold over any mix of corrections
\* (correction.ts steps 3-5, financial-event-correction.ts steps 4-6).
CorrectedOnce == CorrectedOnceIn(eventLineage) /\ CorrectedOnceIn(executionLineage)

EventsCancel(rows, original, reversal) ==
  /\ rows[reversal].account = rows[original].account
  /\ rows[reversal].type = rows[original].type
  /\ rows[reversal].amount = rows[original].amount
  /\ {rows[reversal].direction, rows[original].direction} = {"increase", "decrease"}

ExecutionsCancel(rows, original, reversal) ==
  /\ rows[reversal].account = rows[original].account
  /\ rows[reversal].consideration = rows[original].consideration
  /\ {CashDirection(rows[reversal].action), CashDirection(rows[original].action)}
       = {"increase", "decrease"}

\* A reversal takes back exactly what its original did, on the same account:
\* cash for an event, the opposite side for an execution, and neither a later
\* operation nor a second correction disturbs the pair.
ReversalsCancel ==
  /\ \A c \in eventLineage : EventsCancel(events, c.original, c.reversal)
  /\ \A c \in executionLineage : ExecutionsCancel(executions, c.original, c.reversal)

UniqueKeys(rows) ==
  \A m, n \in DOMAIN rows : rows[m].key = rows[n].key /\ rows[m].key # NoKey => m = n

UniqueCorrectionKeys(lineage) ==
  \A c, d \in lineage : c.key = d.key /\ c.key # NoKey => c = d

\* An idempotency key, the client's or the kernel's, names at most one event,
\* one execution and one correction of each kind, whatever is retried.
KeysNameOneRow ==
  /\ UniqueKeys(events)
  /\ UniqueKeys(executions)
  /\ UniqueCorrectionKeys(eventLineage)
  /\ UniqueCorrectionKeys(executionLineage)

HasEvent(rows, key) == \E n \in DOMAIN rows : rows[n].key = key

Settled(x, row, rows, lineage) ==
  /\ \E n \in DOMAIN rows :
       /\ rows[n].key = ExecutionKey(x)
       /\ rows[n].account = row.account
       /\ rows[n].amount = row.consideration
       /\ rows[n].direction = CashDirection(row.action)
  /\ HasEvent(rows, FeeKey(x)) <=> row.fees > 0 /\ x \notin Reversals(lineage)
  /\ HasEvent(rows, RefundKey(x)) <=> row.fees > 0 /\ x \in Originals(lineage)

\* Every execution is settled by exactly the events it should have: one for its
\* consideration, a fee event when it carries a fee and is not a reversal, and
\* a refund exactly when it was corrected and had been charged.
ExecutionsSettled ==
  \A x \in DOMAIN executions : Settled(x, executions[x], events, executionLineage)

Signed(direction, amount) ==
  CASE direction = "increase" -> amount
    [] direction = "decrease" -> -amount
    [] direction = "none" -> 0

\* The cash effect of the events of an account among those numbered `ns`.
CashOf(a, rows, ns) ==
  Total([n \in ns |-> IF rows[n].account = a
                        THEN Signed(rows[n].direction, rows[n].amount) ELSE 0])

\* readAccountCash: every event counts, the superseded ones included.
NetCash(a, rows) == CashOf(a, rows, DOMAIN rows)

\* The cash of an account is that of the events that still count: a corrected
\* event and its reversal leave no trace in it.
CashIsEffectiveCash ==
  \A a \in Accounts :
    NetCash(a, events) = CashOf(a, events, DOMAIN events \ Superseded(eventLineage))

SettlementEvents == {n \in DOMAIN events : events[n].key.kind \in {"execution", "fee", "refund"}}

EffectiveExecutions == DOMAIN executions \ Superseded(executionLineage)

\* What the executions that still count should have moved.
ExecutionCash(a) ==
  Total([x \in EffectiveExecutions |->
    IF executions[x].account # a THEN 0
    ELSE Signed(CashDirection(executions[x].action), executions[x].consideration)
           - executions[x].fees])

\* The settlement events of an account add up to its effective executions and
\* their fees, however often executions were corrected (correction.ts steps 7a
\* to 7b.1); what a client corrects by hand is booked on rows of its own.
SettlementMatchesExecutions ==
  \A a \in Accounts : CashOf(a, events, SettlementEvents) = ExecutionCash(a)
=============================================================================
