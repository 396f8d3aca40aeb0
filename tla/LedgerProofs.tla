---------------------------- MODULE LedgerProofs ----------------------------
(***************************************************************************)
(* What the ledger's operations preserve, for any accounts, amounts, fees, *)
(* actions, idempotency keys and length of the tables.                     *)
(***************************************************************************)
EXTENDS AccountPerformance, TableLemmas, SequenceTheorems, TLAPS

-----------------------------------------------------------------------------
(* Appending rows with keys.                                                 *)

\* Rows with keys of their own leave the keys of the table unique.
LEMMA FreshKeys ==
  ASSUME NEW S, NEW s \in Seq(S), NEW t \in Seq(S), UniqueKeys(s), UniqueKeys(t),
         \A i \in DOMAIN s, j \in DOMAIN t : s[i].key = t[j].key => t[j].key = NoKey
  PROVE  UniqueKeys(s \o t)
<1> DEFINE u == s \o t
<1>1. ASSUME NEW m \in DOMAIN u
      PROVE  \/ m \in DOMAIN s /\ u[m] = s[m]
             \/ m - Len(s) \in DOMAIN t /\ u[m] = t[m - Len(s)]
  BY RowsOfEither
<1>2. SUFFICES ASSUME NEW m \in DOMAIN u, NEW n \in DOMAIN u,
                      u[m].key = u[n].key, u[m].key # NoKey
               PROVE  m = n
  BY DEF UniqueKeys
<1>3. CASE m \in DOMAIN s /\ u[m] = s[m]
  BY <1>1, <1>2, <1>3 DEF UniqueKeys
<1>4. CASE m - Len(s) \in DOMAIN t /\ u[m] = t[m - Len(s)]
  <2>1. CASE n \in DOMAIN s /\ u[n] = s[n]
    BY <1>2, <1>4, <2>1
  <2>2. CASE n - Len(s) \in DOMAIN t /\ u[n] = t[n - Len(s)]
    <3>1. m - Len(s) = n - Len(s)  BY <1>2, <1>4, <2>2 DEF UniqueKeys
    <3> QED  BY <3>1, AppendedRows
  <2> QED  BY <1>1, <2>1, <2>2
<1> QED  BY <1>1, <1>3, <1>4

-----------------------------------------------------------------------------
(* The rows an operation writes.                                             *)

\* The direction of a correctable event is never "none".
Directed(e) == e.type \in CorrectableTypes => e.direction \in {"increase", "decrease"}

LEMMA KeysOfMore ==
  ASSUME NEW X, NEW Y, X \subseteq Y
  PROVE  Keys(X) \subseteq Keys(Y) /\ Events(X) \subseteq Events(Y)
  BY DEF Keys, Events

LEMMA RequestedIntegers ==
  ASSUME NEW type
  PROVE  /\ RequestedAmounts(type) \subseteq Int
         /\ \A m \in RequestedAmounts(type) : Magnitude(m) \in Nat
  BY AmountsAssumption DEF RequestedAmounts, Magnitude

LEMMA PostedRow ==
  ASSUME NEW X, NEW a \in Accounts, NEW type \in EventTypes \ {"trade_execution"},
         NEW amount \in Int, NEW key \in ClientKeyOptions
  PROVE  LET e == PostedEvent(a, type, amount, key)
         IN e \in Events(X) /\ Directed(e) /\ e.key = key
<1>1. EffectDirection(type, amount) \in {"increase", "decrease", "none"}
  BY DEF EffectDirection, EventTypes, CashIncreaseTypes, CashDecreaseTypes
<1>2. type \in CorrectableTypes => EffectDirection(type, amount) \in {"increase", "decrease"}
  BY DEF EffectDirection, CorrectableTypes, CashIncreaseTypes, CashDecreaseTypes
<1>3. Magnitude(amount) \in Nat
  BY DEF Magnitude
<1> QED  BY <1>1, <1>2, <1>3 DEF PostedEvent, Event, Events, Keys, Directed

LEMMA ReversalRow ==
  ASSUME NEW X, NEW original \in Events(X), original.type \in CorrectableTypes,
         Directed(original)
  PROVE  LET e == ReversalEvent(original)
         IN /\ e \in Events(X) /\ Directed(e) /\ e.key = NoKey
            /\ e.account = original.account /\ e.type = original.type
            /\ e.amount = original.amount
            /\ {e.direction, original.direction} = {"increase", "decrease"}
<1>1. original.direction \in {"increase", "decrease"}
  BY DEF Directed
<1>2. /\ Opposite(original.direction) \in {"increase", "decrease"}
      /\ {Opposite(original.direction), original.direction} = {"increase", "decrease"}
  BY <1>1 DEF Opposite
<1> DEFINE e == ReversalEvent(original)
<1>3. e.payload \in Int  BY DEF ReversalEvent, Event, Events
<1> QED  BY <1>2, <1>3 DEF ReversalEvent, Event, Events, Directed, Keys, ClientKeyOptions

LEMMA SettlementRows ==
  ASSUME NEW X, NEW x \in X, NEW row \in Executions
  PROVE  /\ ExecutionEvents(x, row) \in Seq(Events(X))
         /\ ReversalEvents(x, row) \in Seq(Events(X))
         /\ \A t \in {ExecutionEvents(x, row), ReversalEvents(x, row)} :
              /\ UniqueKeys(t)
              /\ \A j \in DOMAIN t : /\ Directed(t[j])
                                    /\ t[j].key \in {ExecutionKey(x), FeeKey(x)}
<1> DEFINE fill == ConsiderationEvent(x, row)
           fee == FeeEvent(x, row)
<1>1. fill \in Events(X) /\ Directed(fill) /\ fill.key = ExecutionKey(x)
  BY DEF ConsiderationEvent, Event, Events, Executions, CashDirection, EventTypes, Keys,
         ExecutionKey,
         Directed, CorrectableTypes, CashIncreaseTypes, CashDecreaseTypes
<1>2. fee \in Events(X) /\ Directed(fee) /\ fee.key = FeeKey(x)
  BY DEF FeeEvent, Event, Events, Executions, EventTypes, Keys, FeeKey, Directed,
         CashDecreaseTypes
<1>3. ExecutionKey(x) # FeeKey(x)
  BY DEF ExecutionKey, FeeKey
<1>4. <<fill>> \in Seq(Events(X)) /\ <<fill, fee>> \in Seq(Events(X))
  BY <1>1, <1>2
<1>5. UniqueKeys(<<fill>>) /\ UniqueKeys(<<fill, fee>>)
  BY <1>1, <1>2, <1>3 DEF UniqueKeys
<1> QED  BY <1>1, <1>2, <1>4, <1>5 DEF ExecutionEvents, ReversalEvents

-----------------------------------------------------------------------------
(* Lineage.                                                                  *)

LEMMA KeptLineage ==
  ASSUME NEW S, NEW s \in Seq(S), NEW t \in Seq(S), NEW lineage, LineageOK(lineage, s)
  PROVE  /\ LineageOK(lineage, s \o t)
         /\ \A c \in lineage : /\ (s \o t)[c.original] = s[c.original]
                              /\ (s \o t)[c.reversal] = s[c.reversal]
  BY AppendedRows DEF LineageOK

\* A correction of a correctable row by the first two rows it appends.
LEMMA GrownLineage ==
  ASSUME NEW S, NEW s \in Seq(S), NEW t \in Seq(S), Len(t) >= 2,
         NEW lineage, LineageOK(lineage, s), CorrectedOnceIn(lineage),
         UniqueCorrectionKeys(lineage),
         NEW n \in DOMAIN s, Correctable(lineage, n),
         NEW key \in ClientKeyOptions, ~CorrectionKeyUsed(lineage, key),
         NEW grown, grown = lineage \cup {Correction(n, Len(s) + 1, Len(s) + 2, key)}
  PROVE  LineageOK(grown, s \o t) /\ CorrectedOnceIn(grown) /\ UniqueCorrectionKeys(grown)
<1> DEFINE new == Correction(n, Len(s) + 1, Len(s) + 2, key)
<1>1. LineageOK(lineage, s \o t)
  BY KeptLineage
<1>2. /\ n \in DOMAIN (s \o t)
      /\ Len(s) + 1 \in DOMAIN (s \o t)
      /\ Len(s) + 2 \in DOMAIN (s \o t)
  BY AppendedRows
<1>3. LineageOK(grown, s \o t)
  BY <1>1, <1>2 DEF LineageOK, Correction
<1>4. ASSUME NEW c \in lineage
      PROVE  /\ {c.original, c.reversal, c.replacement} \subseteq DOMAIN s
             /\ n \notin {c.original, c.reversal, c.replacement}
  BY DEF LineageOK, Correctable, Constituents, Originals, Reversals
<1>5. {Len(s) + 1, Len(s) + 2} \cap DOMAIN s = {}
  OBVIOUS
<1>6. CorrectedOnceIn(grown)
  <2>1. ASSUME NEW c \in grown  PROVE c.original \notin Constituents(grown)
    <3>1. Constituents(grown) = Constituents(lineage) \cup {Len(s) + 1, Len(s) + 2}
      <4>1. new.reversal = Len(s) + 1 /\ new.replacement = Len(s) + 2
        BY DEF Correction
      <4>2. /\ {d.reversal : d \in grown} = {d.reversal : d \in lineage} \cup {new.reversal}
            /\ {d.replacement : d \in grown}
                 = {d.replacement : d \in lineage} \cup {new.replacement}
        OBVIOUS
      <4> QED  BY <4>1, <4>2 DEF Constituents, Reversals
    <3>2. c.original \notin Constituents(lineage)
      BY DEF CorrectedOnceIn, Correctable, Correction
    <3>3. c.original \in DOMAIN s
      BY <1>4 DEF Correction
    <3> QED  BY <1>5, <3>1, <3>2, <3>3
  <2>2. ASSUME NEW c \in lineage
        PROVE  {c.original, c.reversal, c.replacement}
                 \cap {new.original, new.reversal, new.replacement} = {}
    BY <1>4, <1>5 DEF Correction
  <2> QED  BY <2>1, <2>2 DEF CorrectedOnceIn
<1>7. UniqueCorrectionKeys(grown)
  BY DEF UniqueCorrectionKeys, CorrectionKeyUsed, Correction
<1> QED  BY <1>3, <1>6, <1>7

-----------------------------------------------------------------------------
(* The inductive invariant.                                                  *)

IInv ==
  /\ TypeOK
  /\ \A n \in DOMAIN events : Directed(events[n])
  /\ CorrectedOnce
  /\ ReversalsCancel
  /\ KeysNameOneRow

LEMMA InitIInv == Init => IInv
  BY DEF Init, IInv, TypeOK, LineageOK, CorrectedOnce, CorrectedOnceIn, ReversalsCancel,
         KeysNameOneRow, UniqueKeys, UniqueCorrectionKeys, Constituents, Reversals

\* What an operation that appends events, and nothing else to them, keeps.
LEMMA AppendedEvents ==
  ASSUME IInv, NEW X, DOMAIN executions \subseteq X, NEW new \in Seq(Events(X)),
         UniqueKeys(new), \A j \in DOMAIN new : Directed(new[j]),
         \A n \in DOMAIN events, j \in DOMAIN new :
           events[n].key = new[j].key => new[j].key = NoKey
  PROVE  LET rows == events \o new
         IN /\ rows \in Seq(Events(X))
            /\ \A n \in DOMAIN rows : Directed(rows[n])
            /\ UniqueKeys(rows)
            /\ LineageOK(eventLineage, rows)
            /\ \A c \in eventLineage : EventsCancel(rows, c.original, c.reversal)
<1> DEFINE rows == events \o new
<1>1. events \in Seq(Events(X))
  BY KeysOfMore, WiderRows DEF IInv, TypeOK
<1>2. rows \in Seq(Events(X))
  BY <1>1, AppendedRows
<1>3. UniqueKeys(rows)
  BY <1>1, FreshKeys DEF IInv, KeysNameOneRow
<1>4. ASSUME NEW n \in DOMAIN rows  PROVE Directed(rows[n])
  <2>1. \/ n \in DOMAIN events /\ rows[n] = events[n]
        \/ n - Len(events) \in DOMAIN new /\ rows[n] = new[n - Len(events)]
    BY <1>1, RowsOfEither
  <2> QED  BY <2>1 DEF IInv
<1>5. /\ LineageOK(eventLineage, rows)
      /\ \A c \in eventLineage : /\ rows[c.original] = events[c.original]
                                /\ rows[c.reversal] = events[c.reversal]
  <2>1. LineageOK(eventLineage, events)
    BY DEF IInv, TypeOK
  <2> QED  BY <1>1, <2>1, KeptLineage
<1>6. \A c \in eventLineage : EventsCancel(rows, c.original, c.reversal)
  BY <1>5 DEF IInv, ReversalsCancel, EventsCancel
<1> QED  BY <1>2, <1>3, <1>4, <1>5, <1>6

-----------------------------------------------------------------------------
(* Each operation keeps the invariant.                                       *)

LEMMA InitializeKeeps ==
  ASSUME IInv, NEW a \in Accounts, NEW amount \in Amounts \cup {0},
         NEW key \in ClientKeyOptions, InitializeAccount(a, amount, key)
  PROVE  IInv'
<1> DEFINE row == PostedEvent(a, "opening_balance", amount, key)
           new == IF amount = 0 THEN <<>> ELSE <<row>>
           X == DOMAIN executions
<1>1. row \in Events(X) /\ Directed(row) /\ row.key = key
  BY PostedRow, AmountsAssumption DEF EventTypes, CashIncreaseTypes
<1>2. new \in Seq(Events(X)) /\ UniqueKeys(new)
  <2>1. CASE amount = 0  BY <2>1 DEF UniqueKeys
  <2>2. CASE amount # 0  BY <1>1, <2>2 DEF UniqueKeys
  <2> QED  BY <2>1, <2>2
<1>3. \A j \in DOMAIN new : Directed(new[j])
  BY <1>1
<1>4. \A n \in DOMAIN events, j \in DOMAIN new :
        events[n].key = new[j].key => new[j].key = NoKey
  BY <1>1 DEF InitializeAccount, EventKeyUsed
<1>5. events' = events \o new /\ UNCHANGED <<eventLineage, executions, executionLineage>>
  BY DEF InitializeAccount, AppendEvents
<1>6. active' \in [Accounts -> BOOLEAN]
  BY DEF InitializeAccount, IInv, TypeOK
<1> HIDE DEF new, row
<1> QED  BY <1>2, <1>3, <1>4, <1>5, <1>6, AppendedEvents
         DEF IInv, TypeOK, CorrectedOnce, ReversalsCancel, KeysNameOneRow

LEMMA PostEventKeeps ==
  ASSUME IInv, NEW a \in Accounts, NEW type \in PostableTypes,
         NEW amount \in RequestedAmounts(type), NEW key \in ClientKeyOptions,
         PostEventWithEffect(a, type, amount, key)
  PROVE  IInv'
<1> DEFINE row == PostedEvent(a, type, amount, key)
           new == <<row>>
           X == DOMAIN executions
<1>1. row \in Events(X) /\ Directed(row) /\ row.key = key
  BY PostedRow, RequestedIntegers, PostableTypesAssumption
<1>2. new \in Seq(Events(X)) /\ UniqueKeys(new) /\ \A j \in DOMAIN new : Directed(new[j])
  BY <1>1 DEF UniqueKeys
<1>3. \A n \in DOMAIN events, j \in DOMAIN new :
        events[n].key = new[j].key => new[j].key = NoKey
  BY <1>1 DEF PostEventWithEffect, EventKeyUsed
<1>4. /\ events' = events \o new
      /\ UNCHANGED <<active, eventLineage, executions, executionLineage>>
  BY DEF PostEventWithEffect, AppendEvents
<1> HIDE DEF new, row
<1> QED  BY <1>2, <1>3, <1>4, AppendedEvents
         DEF IInv, TypeOK, CorrectedOnce, ReversalsCancel, KeysNameOneRow

LEMMA CorrectEventKeeps ==
  ASSUME IInv, NEW a \in Accounts, NEW n \in DOMAIN events,
         NEW amount \in RequestedAmounts(events[n].type), NEW key \in ClientKeyOptions,
         CorrectFinancialEvent(a, n, amount, key)
  PROVE  IInv'
<1> DEFINE original == events[n]
           reversal == ReversalEvent(original)
           replacement == PostedEvent(a, original.type, amount, NoKey)
           new == <<reversal, replacement>>
           X == DOMAIN executions
           rows == events \o new
<1>1. original \in Events(X) /\ original.type \in CorrectableTypes /\ Directed(original)
  BY DEF IInv, TypeOK, CorrectFinancialEvent
<1>2. /\ reversal \in Events(X) /\ Directed(reversal) /\ reversal.key = NoKey
      /\ EventsCancel(<<original, reversal>>, 1, 2)
  BY <1>1, ReversalRow DEF EventsCancel
<1>3. replacement \in Events(X) /\ Directed(replacement) /\ replacement.key = NoKey
  <2>1. NoKey \in ClientKeyOptions  BY DEF ClientKeyOptions
  <2>2. original.type \in EventTypes \ {"trade_execution"}
    BY <1>1 DEF CorrectableTypes, EventTypes, CashIncreaseTypes, CashDecreaseTypes
  <2> QED  BY <2>1, <2>2, PostedRow, RequestedIntegers
<1>4. new \in Seq(Events(X)) /\ \A j \in DOMAIN new : Directed(new[j]) /\ new[j].key = NoKey
  BY <1>2, <1>3
<1>5. UniqueKeys(new)  BY <1>4 DEF UniqueKeys
<1>6. /\ events' = rows
      /\ eventLineage' = eventLineage \cup {Correction(n, Len(events) + 1, Len(events) + 2, key)}
      /\ Correctable(eventLineage, n) /\ ~CorrectionKeyUsed(eventLineage, key)
      /\ UNCHANGED <<active, executions, executionLineage>>
  BY DEF CorrectFinancialEvent, AppendEvents
<1>7. rows[n] = original /\ rows[Len(events) + 1] = reversal
  <2>1. events \in Seq(Events(X))  BY DEF IInv, TypeOK
  <2>2. 1 \in DOMAIN new /\ new[1] = reversal  OBVIOUS
  <2> HIDE DEF new, reversal
  <2> QED  BY <1>4, <2>1, <2>2, AppendedRows
<1>8. Len(new) = 2  OBVIOUS
<1>9. /\ rows \in Seq(Events(X))
      /\ \A m \in DOMAIN rows : Directed(rows[m])
      /\ UniqueKeys(rows)
      /\ \A c \in eventLineage : EventsCancel(rows, c.original, c.reversal)
  <2> HIDE DEF new
  <2> QED  BY <1>4, <1>5, AppendedEvents
<1>10. /\ LineageOK(eventLineage', rows)
       /\ CorrectedOnceIn(eventLineage')
       /\ UniqueCorrectionKeys(eventLineage')
  <2>1. /\ events \in Seq(Events(X)) /\ LineageOK(eventLineage, events)
        /\ CorrectedOnceIn(eventLineage) /\ UniqueCorrectionKeys(eventLineage)
    BY DEF IInv, TypeOK, CorrectedOnce, KeysNameOneRow
  <2>2. new \in Seq(Events(X)) /\ Len(new) >= 2  BY <1>4, <1>8
  <2> HIDE DEF new, X
  <2> QED  BY <1>6, <2>1, <2>2, GrownLineage
<1>11. ASSUME NEW c \in eventLineage'  PROVE EventsCancel(rows, c.original, c.reversal)
  <2>1. CASE c \in eventLineage  BY <1>9, <2>1
  <2>2. CASE c = Correction(n, Len(events) + 1, Len(events) + 2, key)
    <3>1. c.original = n /\ c.reversal = Len(events) + 1  BY <2>2 DEF Correction
    <3> HIDE DEF rows, reversal
    <3> QED  BY <1>2, <1>7, <3>1 DEF EventsCancel
  <2> QED  BY <1>6, <2>1, <2>2
<1> HIDE DEF rows
<1> QED  BY <1>6, <1>9, <1>10, <1>11
         DEF IInv, TypeOK, CorrectedOnce, ReversalsCancel, KeysNameOneRow

\* The keys of an execution that does not exist yet name no event.
LEMMA NewExecutionKeys ==
  ASSUME IInv, NEW x, x \notin DOMAIN executions, NEW n \in DOMAIN events
  PROVE  events[n].key \notin {ExecutionKey(x), FeeKey(x), RefundKey(x)}
<1>1. events[n].key \in Keys(DOMAIN executions)
  <2>1. events[n] \in Events(DOMAIN executions)  BY DEF IInv, TypeOK
  <2> QED  BY <2>1 DEF Events
<1> QED  BY <1>1 DEF Keys, ClientKeyOptions, ClientKey, NoKey, ExecutionKey, FeeKey, RefundKey

LEMMA NewExecutionRow ==
  ASSUME NEW a \in Accounts, NEW action \in Actions, NEW consideration \in Amounts,
         NEW fees \in Fees, NEW key \in ClientKeyOptions
  PROVE  /\ Execution(a, action, consideration, fees, key) \in Executions
         /\ Execution(a, action, consideration, fees, key).key = key
  BY ActionsAssumption, AmountsAssumption, FeesAssumption DEF Execution, Executions

LEMMA PostExecutionKeeps ==
  ASSUME IInv, NEW a \in Accounts, NEW action \in Actions, NEW m \in Amounts,
         NEW fees \in Fees, NEW key \in ClientKeyOptions,
         PostExecution(a, action, m, fees, key)
  PROVE  IInv'
<1> DEFINE row == Execution(a, action, m, fees, key)
           x == Len(executions) + 1
           new == ExecutionEvents(x, row)
           rows == executions \o <<row>>
           X == DOMAIN rows
<1>1. row \in Executions /\ row.key = key /\ executions \in Seq(Executions)
  BY NewExecutionRow DEF IInv, TypeOK
<1>2. /\ rows \in Seq(Executions) /\ x \in X /\ DOMAIN executions \subseteq X
      /\ x \notin DOMAIN executions
  <2>1. <<row>> \in Seq(Executions) /\ 1 \in DOMAIN <<row>>  BY <1>1
  <2> HIDE DEF row
  <2> QED  BY <1>1, <2>1, AppendedRows
<1>3. /\ new \in Seq(Events(X)) /\ UniqueKeys(new)
      /\ \A j \in DOMAIN new : Directed(new[j])
      /\ \A j \in DOMAIN new : new[j].key \in {ExecutionKey(x), FeeKey(x)}
  BY <1>1, <1>2, SettlementRows
<1>4. \A n \in DOMAIN events, j \in DOMAIN new : events[n].key # new[j].key
  BY <1>2, <1>3, NewExecutionKeys
<1>5. /\ events' = events \o new /\ executions' = rows
      /\ UNCHANGED <<active, eventLineage, executionLineage>>
  <2>1. Append(executions, row) = rows  BY <1>1, AppendIsConcat
  <2> QED  BY <2>1 DEF PostExecution, AppendEvents
<1>6. UniqueKeys(rows)
  <2>1. UniqueKeys(executions) /\ UniqueKeys(<<row>>)
    BY DEF IInv, KeysNameOneRow, UniqueKeys
  <2>2. \A y \in DOMAIN executions, j \in DOMAIN <<row>> :
          executions[y].key = <<row>>[j].key => <<row>>[j].key = NoKey
    BY <1>1 DEF PostExecution, ExecutionKeyTaken
  <2>3. <<row>> \in Seq(Executions)  BY <1>1
  <2> HIDE DEF row
  <2> QED  BY <1>1, <2>1, <2>2, <2>3, FreshKeys
<1>7. /\ LineageOK(executionLineage, rows)
      /\ \A c \in executionLineage : ExecutionsCancel(rows, c.original, c.reversal)
  <2>1. <<row>> \in Seq(Executions) /\ LineageOK(executionLineage, executions)
    BY <1>1 DEF IInv, TypeOK
  <2>2. /\ LineageOK(executionLineage, rows)
        /\ \A c \in executionLineage : /\ rows[c.original] = executions[c.original]
                                      /\ rows[c.reversal] = executions[c.reversal]
    <3> HIDE DEF row
    <3> QED  BY <1>1, <2>1, KeptLineage
  <2> QED  BY <2>2 DEF IInv, ReversalsCancel, ExecutionsCancel
<1>8. /\ events' \in Seq(Events(DOMAIN executions'))
      /\ \A n \in DOMAIN events' : Directed(events'[n])
      /\ UniqueKeys(events')
      /\ LineageOK(eventLineage, events')
      /\ \A c \in eventLineage : EventsCancel(events', c.original, c.reversal)
  <2> HIDE DEF new, rows
  <2> QED  BY <1>2, <1>3, <1>4, <1>5, AppendedEvents
<1> HIDE DEF new, rows
<1> QED  BY <1>2, <1>5, <1>6, <1>7, <1>8
         DEF IInv, TypeOK, CorrectedOnce, ReversalsCancel, KeysNameOneRow

\* The opposite side moves cash the other way.
LEMMA ReversedAction ==
  ASSUME NEW action \in EconomicActions
  PROVE  /\ ReverseAction(action) \in EconomicActions
         /\ {CashDirection(ReverseAction(action)), CashDirection(action)}
              = {"increase", "decrease"}
  BY DEF EconomicActions, ReverseAction, CashDirection

LEMMA RefundRow ==
  ASSUME IInv, NEW x \in DOMAIN executions, NEW X, x \in X
  PROVE  /\ RefundEvents(x) \in Seq(Events(X))
         /\ UniqueKeys(RefundEvents(x))
         /\ \A j \in DOMAIN RefundEvents(x) :
              /\ Directed(RefundEvents(x)[j])
              /\ RefundEvents(x)[j].key = RefundKey(x)
              /\ \A n \in DOMAIN events : events[n].key # RefundKey(x)
<1> DEFINE refund == Event(executions[x].account, "manual_adjustment", "increase",
                           executions[x].fees, 0, RefundKey(x))
<1>1. executions[x] \in Executions
  BY DEF IInv, TypeOK
<1>2. refund \in Events(X) /\ Directed(refund) /\ refund.key = RefundKey(x)
  BY <1>1 DEF Event, Events, Executions, EventTypes, Keys, RefundKey, Directed
<1>3. RefundKey(x) # NoKey  BY DEF RefundKey, NoKey
<1>4. CASE RefundEvents(x) = <<>>
  BY <1>4 DEF UniqueKeys
<1>5. CASE RefundEvents(x) = <<refund>> /\ ~EventKeyUsed(RefundKey(x))
  <2>1. \A n \in DOMAIN events : events[n].key # RefundKey(x)
    BY <1>3, <1>5 DEF EventKeyUsed
  <2> QED  BY <1>2, <1>5, <2>1 DEF UniqueKeys
<1> QED  BY <1>4, <1>5 DEF RefundEvents

LEMMA CorrectionRows ==
  ASSUME IInv, NEW x \in DOMAIN executions, NEW y, NEW z, y # z,
         y \notin DOMAIN executions, z \notin DOMAIN executions,
         NEW X, DOMAIN executions \subseteq X, y \in X, z \in X,
         NEW reversal \in Executions, NEW replacement \in Executions
  PROVE  LET new == CorrectionEvents(x, y, reversal, z, replacement)
         IN /\ new \in Seq(Events(X))
            /\ UniqueKeys(new)
            /\ \A j \in DOMAIN new : Directed(new[j])
            /\ \A n \in DOMAIN events, j \in DOMAIN new : events[n].key # new[j].key
<1> DEFINE new == CorrectionEvents(x, y, reversal, z, replacement)
<1> DEFINE r == ReversalEvents(y, reversal)
           s == ExecutionEvents(z, replacement)
           t == RefundEvents(x)
           rs == r \o s
<1>0. new = rs \o t
  BY DEF CorrectionEvents
<1>1. r \in Seq(Events(X)) /\ s \in Seq(Events(X)) /\ t \in Seq(Events(X))
  BY SettlementRows, RefundRow
<1>2. UniqueKeys(r) /\ UniqueKeys(s) /\ UniqueKeys(t)
  BY SettlementRows, RefundRow
<1>3. /\ \A j \in DOMAIN r : Directed(r[j]) /\ r[j].key \in {ExecutionKey(y), FeeKey(y)}
      /\ \A j \in DOMAIN s : Directed(s[j]) /\ s[j].key \in {ExecutionKey(z), FeeKey(z)}
      /\ \A j \in DOMAIN t : Directed(t[j]) /\ t[j].key = RefundKey(x)
  BY SettlementRows, RefundRow
<1>4. /\ {ExecutionKey(y), FeeKey(y)} \cap {ExecutionKey(z), FeeKey(z)} = {}
      /\ RefundKey(x) \notin {ExecutionKey(y), FeeKey(y), ExecutionKey(z), FeeKey(z)}
  BY DEF ExecutionKey, FeeKey, RefundKey
<1>5. \A n \in DOMAIN events :
        events[n].key \notin {ExecutionKey(y), FeeKey(y), ExecutionKey(z), FeeKey(z)}
  BY NewExecutionKeys
<1>6. DOMAIN t # {} => \A n \in DOMAIN events : events[n].key # RefundKey(x)
  BY RefundRow
<1> HIDE DEF r, s, t, new
<1>7. rs \in Seq(Events(X)) /\ UniqueKeys(rs)
  BY <1>1, <1>2, <1>3, <1>4, AppendedRows, FreshKeys
<1>8. \A j \in DOMAIN rs :
        /\ Directed(rs[j])
        /\ rs[j].key \in {ExecutionKey(y), FeeKey(y), ExecutionKey(z), FeeKey(z)}
  BY <1>1, <1>3, RowsOfEither
<1> HIDE DEF rs
<1>9. new \in Seq(Events(X)) /\ UniqueKeys(new)
  <2>1. \A i \in DOMAIN rs, j \in DOMAIN t : rs[i].key # t[j].key
    BY <1>3, <1>4, <1>8
  <2> QED  BY <1>0, <1>1, <1>2, <1>7, <2>1, AppendedRows, FreshKeys
<1>10. \A j \in DOMAIN new :
         /\ Directed(new[j])
         /\ \A n \in DOMAIN events : events[n].key # new[j].key
  <2> SUFFICES ASSUME NEW j \in DOMAIN new
               PROVE  /\ Directed(new[j])
                      /\ \A n \in DOMAIN events : events[n].key # new[j].key
    OBVIOUS
  <2>1. CASE j \in DOMAIN rs /\ new[j] = rs[j]
    BY <1>5, <1>8, <2>1
  <2>2. CASE j - Len(rs) \in DOMAIN t /\ new[j] = t[j - Len(rs)]
    BY <1>3, <1>6, <2>2
  <2> QED  BY <1>0, <1>1, <1>7, <2>1, <2>2, RowsOfEither
<1> QED  BY <1>9, <1>10 DEF new

LEMMA CorrectExecutionKeeps ==
  ASSUME IInv, NEW a \in Accounts, NEW x \in DOMAIN executions, NEW action \in Actions,
         NEW m \in Amounts, NEW fees \in Fees, NEW key \in ClientKeyOptions,
         CorrectExecution(a, x, action, m, fees, key)
  PROVE  IInv'
<1> DEFINE original == executions[x]
           reversal == [original EXCEPT !.action = ReverseAction(@), !.key = NoKey]
           replacement == Execution(a, action, m, fees, NoKey)
           k == Len(executions)
           pair == <<reversal, replacement>>
           rows == executions \o pair
           X == DOMAIN rows
           new == CorrectionEvents(x, k + 1, reversal, k + 2, replacement)
<1>1. executions \in Seq(Executions) /\ original \in Executions
  BY DEF IInv, TypeOK
<1>2. NoKey \in ClientKeyOptions  BY DEF ClientKeyOptions
<1>3. /\ reversal \in Executions /\ reversal.key = NoKey
      /\ ExecutionsCancel(<<original, reversal>>, 1, 2)
  <2>1. ReverseAction(original.action) \in EconomicActions
    BY <1>1, ReversedAction DEF Executions
  <2>2. /\ reversal \in Executions /\ reversal.key = NoKey
        /\ reversal.account = original.account
        /\ reversal.consideration = original.consideration
        /\ reversal.action = ReverseAction(original.action)
    BY <1>1, <1>2, <2>1 DEF Executions
  <2>3. {CashDirection(reversal.action), CashDirection(original.action)}
          = {"increase", "decrease"}
    BY <1>1, <2>2, ReversedAction DEF Executions
  <2> HIDE DEF reversal, original
  <2> QED  BY <2>2, <2>3 DEF ExecutionsCancel
<1>4. replacement \in Executions /\ replacement.key = NoKey
  BY <1>2, NewExecutionRow
<1>5. /\ pair \in Seq(Executions) /\ Len(pair) = 2 /\ UniqueKeys(pair)
      /\ DOMAIN pair = {1, 2} /\ pair[1] = reversal
      /\ \A j \in DOMAIN pair : pair[j].key = NoKey
  <2> HIDE DEF reversal, replacement
  <2> QED  BY <1>3, <1>4 DEF UniqueKeys
<1> HIDE DEF pair
<1>6. /\ rows \in Seq(Executions) /\ DOMAIN executions \subseteq X
      /\ k + 1 \in X /\ k + 2 \in X /\ rows[x] = original /\ rows[k + 1] = reversal
  BY <1>1, <1>5, AppendedRows
<1>7. UniqueKeys(rows)
  <2>1. UniqueKeys(executions)  BY DEF IInv, KeysNameOneRow
  <2> QED  BY <1>1, <1>5, <2>1, FreshKeys
<1>8. /\ new \in Seq(Events(X)) /\ UniqueKeys(new)
      /\ \A j \in DOMAIN new : Directed(new[j])
      /\ \A n \in DOMAIN events, j \in DOMAIN new : events[n].key # new[j].key
  <2>1. /\ k + 1 \notin DOMAIN executions /\ k + 2 \notin DOMAIN executions
        /\ k + 1 # k + 2
    BY <1>1
  <2>2. reversal \in Executions /\ replacement \in Executions
    BY <1>3, <1>4
  <2>3. DOMAIN executions \subseteq X /\ k + 1 \in X /\ k + 2 \in X
    BY <1>6
  <2> HIDE DEF reversal, replacement, X, k, rows, original
  <2> QED  BY <2>1, <2>2, <2>3, CorrectionRows
<1>9. /\ events' = events \o new /\ executions' = rows
      /\ executionLineage' = executionLineage \cup {Correction(x, k + 1, k + 2, key)}
      /\ Correctable(executionLineage, x) /\ ~CorrectionKeyUsed(executionLineage, key)
      /\ UNCHANGED <<active, eventLineage>>
  BY DEF CorrectExecution, AppendEvents, pair
<1> HIDE DEF new, reversal, replacement, original
<1>10. /\ LineageOK(executionLineage', rows)
       /\ CorrectedOnceIn(executionLineage')
       /\ UniqueCorrectionKeys(executionLineage')
  <2>1. /\ LineageOK(executionLineage, executions)
        /\ CorrectedOnceIn(executionLineage) /\ UniqueCorrectionKeys(executionLineage)
    BY DEF IInv, TypeOK, CorrectedOnce, KeysNameOneRow
  <2>2. Len(pair) >= 2  BY <1>5
  <2> QED  BY <1>1, <1>5, <1>9, <2>1, <2>2, GrownLineage
<1>13. \A c \in executionLineage : /\ rows[c.original] = executions[c.original]
                                  /\ rows[c.reversal] = executions[c.reversal]
  <2>1. LineageOK(executionLineage, executions)  BY DEF IInv, TypeOK
  <2>2. pair \in Seq(Executions)  BY <1>5
  <2> QED  BY <1>1, <2>1, <2>2, KeptLineage
<1>11. ASSUME NEW c \in executionLineage'
       PROVE  ExecutionsCancel(rows, c.original, c.reversal)
  <2>1. CASE c \in executionLineage
    <3> HIDE DEF rows
    <3> QED  BY <1>13, <2>1 DEF IInv, ReversalsCancel, ExecutionsCancel
  <2>2. CASE c = Correction(x, k + 1, k + 2, key)
    <3>1. c.original = x /\ c.reversal = k + 1  BY <2>2 DEF Correction
    <3> HIDE DEF rows
    <3> QED  BY <1>3, <1>6, <3>1 DEF ExecutionsCancel
  <2> QED  BY <1>9, <2>1, <2>2
<1>12. /\ events' \in Seq(Events(DOMAIN executions'))
       /\ \A n \in DOMAIN events' : Directed(events'[n])
       /\ UniqueKeys(events')
       /\ LineageOK(eventLineage, events')
       /\ \A c \in eventLineage : EventsCancel(events', c.original, c.reversal)
  <2> HIDE DEF rows
  <2> QED  BY <1>6, <1>8, <1>9, AppendedEvents
<1> HIDE DEF rows
<1> QED  BY <1>6, <1>7, <1>9, <1>10, <1>11, <1>12
         DEF IInv, TypeOK, CorrectedOnce, ReversalsCancel, KeysNameOneRow

-----------------------------------------------------------------------------
(* Settlement: executions and the events that carry their cash.              *)

LEMMA AppendedKey ==
  ASSUME NEW S, NEW s \in Seq(S), NEW t \in Seq(S), NEW key
  PROVE  HasEvent(s \o t, key) <=> HasEvent(s, key) \/ HasEvent(t, key)
<1>1. ASSUME HasEvent(s \o t, key)  PROVE HasEvent(s, key) \/ HasEvent(t, key)
  <2>1. PICK m \in DOMAIN (s \o t) : (s \o t)[m].key = key  BY <1>1 DEF HasEvent
  <2>2. CASE m \in DOMAIN s /\ (s \o t)[m] = s[m]  BY <2>1, <2>2 DEF HasEvent
  <2>3. CASE m - Len(s) \in DOMAIN t /\ (s \o t)[m] = t[m - Len(s)]
    BY <2>1, <2>3 DEF HasEvent
  <2> QED  BY <2>2, <2>3, RowsOfEither
<1>2. ASSUME HasEvent(s, key)  PROVE HasEvent(s \o t, key)
  BY <1>2, AppendedRows DEF HasEvent
<1>3. ASSUME HasEvent(t, key)  PROVE HasEvent(s \o t, key)
  <2>1. PICK j \in DOMAIN t : t[j].key = key  BY <1>3 DEF HasEvent
  <2>2. Len(s) + j \in DOMAIN (s \o t) /\ (s \o t)[Len(s) + j].key = key
    BY <2>1, AppendedRows
  <2> QED  BY <2>2 DEF HasEvent
<1> QED  BY <1>1, <1>2, <1>3

\* Events and corrections that are not about an execution leave it settled.
LEMMA StaysSettled ==
  ASSUME NEW S, NEW s \in Seq(S), NEW t \in Seq(S), NEW x, NEW row,
         NEW lineage, NEW grown, Settled(x, row, s, lineage),
         ~HasEvent(t, FeeKey(x)), ~HasEvent(t, RefundKey(x)),
         x \in Reversals(grown) <=> x \in Reversals(lineage),
         x \in Originals(grown) <=> x \in Originals(lineage)
  PROVE  Settled(x, row, s \o t, grown)
<1>1. PICK n \in DOMAIN s : /\ s[n].key = ExecutionKey(x)
                           /\ s[n].account = row.account
                           /\ s[n].amount = row.consideration
                           /\ s[n].direction = CashDirection(row.action)
  BY DEF Settled
<1>2. n \in DOMAIN (s \o t) /\ (s \o t)[n] = s[n]
  BY AppendedRows
<1> QED  BY <1>1, <1>2, AppendedKey DEF Settled

\* Events without a kernel key.
ClientKeyed(t) == \A j \in DOMAIN t : t[j].key \in ClientKeyOptions

LEMMA ClientKeysSettleNothing ==
  ASSUME NEW t, ClientKeyed(t), NEW x
  PROVE  ~HasEvent(t, FeeKey(x)) /\ ~HasEvent(t, RefundKey(x))
  BY DEF ClientKeyed, HasEvent, ClientKeyOptions, ClientKey, NoKey, FeeKey, RefundKey

LEMMA ClientEventsKeepSettlement ==
  ASSUME IInv, ExecutionsSettled, NEW t \in Seq(Events(DOMAIN executions)),
         ClientKeyed(t), events' = events \o t,
         UNCHANGED <<executions, executionLineage>>
  PROVE  ExecutionsSettled'
<1> SUFFICES ASSUME NEW x \in DOMAIN executions
             PROVE  Settled(x, executions[x], events \o t, executionLineage)
  BY DEF ExecutionsSettled
<1>1. events \in Seq(Events(DOMAIN executions))  BY DEF IInv, TypeOK
<1>2. Settled(x, executions[x], events, executionLineage)  BY DEF ExecutionsSettled
<1>3. ~HasEvent(t, FeeKey(x)) /\ ~HasEvent(t, RefundKey(x))
  BY ClientKeysSettleNothing
<1> QED  BY <1>1, <1>2, <1>3, StaysSettled

LEMMA NoEventYet ==
  ASSUME IInv, NEW x, x \notin DOMAIN executions
  PROVE  /\ ~HasEvent(events, ExecutionKey(x))
         /\ ~HasEvent(events, FeeKey(x)) /\ ~HasEvent(events, RefundKey(x))
         /\ x \notin Reversals(executionLineage) /\ x \notin Originals(executionLineage)
  BY NewExecutionKeys DEF HasEvent, Reversals, Originals, IInv, TypeOK, LineageOK

\* Which keys the events of a fill and of a reversal have.
LEMMA FillKeys ==
  ASSUME NEW x, NEW row
  PROVE  /\ HasEvent(ExecutionEvents(x, row), FeeKey(x)) <=> row.fees > 0
         /\ ~HasEvent(ReversalEvents(x, row), FeeKey(x))
         /\ \A t \in {ExecutionEvents(x, row), ReversalEvents(x, row)} :
              /\ \A y : ~HasEvent(t, RefundKey(y))
              /\ \A y : y # x => ~HasEvent(t, FeeKey(y))
              /\ 1 \in DOMAIN t
              /\ t[1] = ConsiderationEvent(x, row)
<1> DEFINE fill == ConsiderationEvent(x, row)
           fee == FeeEvent(x, row)
<1>1. fill.key = ExecutionKey(x) /\ fee.key = FeeKey(x)
  BY DEF ConsiderationEvent, FeeEvent, Event
<1>2. \A y : ExecutionKey(x) # FeeKey(y) /\ ExecutionKey(x) # RefundKey(y)
             /\ FeeKey(x) # RefundKey(y) /\ (x # y => FeeKey(x) # FeeKey(y))
  BY DEF ExecutionKey, FeeKey, RefundKey
<1> HIDE DEF fill, fee
<1>3. /\ \A key : HasEvent(<<fill>>, key) <=> key = ExecutionKey(x)
      /\ \A key : HasEvent(<<fill, fee>>, key) <=> key \in {ExecutionKey(x), FeeKey(x)}
  BY <1>1 DEF HasEvent
<1>4. /\ ReversalEvents(x, row) = <<fill>>
      /\ ExecutionEvents(x, row) = IF row.fees > 0 THEN <<fill, fee>> ELSE <<fill>>
  BY DEF ReversalEvents, ExecutionEvents, fill, fee
<1> QED  BY <1>2, <1>3, <1>4 DEF fill

\* The events of a new execution settle it.
LEMMA BecomesSettled ==
  ASSUME NEW S, NEW s \in Seq(S), NEW t \in Seq(S), NEW x, NEW row, NEW lineage,
         ~HasEvent(s, FeeKey(x)), ~HasEvent(s, RefundKey(x)),
         HasEvent(t, FeeKey(x)) <=> row.fees > 0 /\ x \notin Reversals(lineage),
         ~HasEvent(t, RefundKey(x)), x \notin Originals(lineage),
         NEW j \in DOMAIN t,
         t[j] = ConsiderationEvent(x, row)
  PROVE  Settled(x, row, s \o t, lineage)
<1>1. Len(s) + j \in DOMAIN (s \o t) /\ (s \o t)[Len(s) + j] = t[j]
  BY AppendedRows
<1>2. \E n \in DOMAIN (s \o t) :
        /\ (s \o t)[n].key = ExecutionKey(x)
        /\ (s \o t)[n].account = row.account
        /\ (s \o t)[n].amount = row.consideration
        /\ (s \o t)[n].direction = CashDirection(row.action)
  BY <1>1 DEF ConsiderationEvent, Event
<1> QED  BY <1>2, AppendedKey DEF Settled

LEMMA PostExecutionSettles ==
  ASSUME IInv, ExecutionsSettled, NEW a \in Accounts, NEW action \in Actions,
         NEW m \in Amounts, NEW fees \in Fees, NEW key \in ClientKeyOptions,
         PostExecution(a, action, m, fees, key)
  PROVE  ExecutionsSettled'
<1> DEFINE row == Execution(a, action, m, fees, key)
           x == Len(executions) + 1
           new == ExecutionEvents(x, row)
           rows == executions \o <<row>>
           X == DOMAIN rows
<1>1. row \in Executions /\ executions \in Seq(Executions)
  BY NewExecutionRow DEF IInv, TypeOK
<1>2. /\ rows \in Seq(Executions) /\ x \in X /\ DOMAIN executions \subseteq X
      /\ x \notin DOMAIN executions /\ X = DOMAIN executions \cup {x} /\ rows[x] = row
      /\ \A y \in DOMAIN executions : rows[y] = executions[y]
  <2>1. <<row>> \in Seq(Executions) /\ 1 \in DOMAIN <<row>> /\ <<row>>[1] = row
        /\ Len(<<row>>) = 1
    BY <1>1
  <2> HIDE DEF row
  <2> QED  BY <1>1, <2>1, AppendedRows
<1>3. new \in Seq(Events(X)) /\ events \in Seq(Events(X))
  <2>1. new \in Seq(Events(X))  BY <1>1, <1>2, SettlementRows
  <2>2. Events(DOMAIN executions) \subseteq Events(X)  BY <1>2, KeysOfMore
  <2>3. events \in Seq(Events(DOMAIN executions))  BY DEF IInv, TypeOK
  <2> HIDE DEF new, X
  <2> QED  BY <2>1, <2>2, <2>3, WiderRows
<1>4. /\ events' = events \o new /\ executions' = rows
      /\ executionLineage' = executionLineage
  <2>1. Append(executions, row) = rows  BY <1>1, AppendIsConcat
  <2> QED  BY <2>1 DEF PostExecution, AppendEvents
<1>5. /\ HasEvent(new, FeeKey(x)) <=> row.fees > 0
      /\ \A y : ~HasEvent(new, RefundKey(y))
      /\ \A y : y # x => ~HasEvent(new, FeeKey(y))
      /\ 1 \in DOMAIN new
      /\ new[1] = ConsiderationEvent(x, row)
  BY FillKeys
<1> HIDE DEF row, new
<1>6. Settled(x, row, events \o new, executionLineage)
  <2>1. /\ ~HasEvent(events, FeeKey(x)) /\ ~HasEvent(events, RefundKey(x))
        /\ x \notin Reversals(executionLineage) /\ x \notin Originals(executionLineage)
    BY <1>2, NoEventYet
  <2> HIDE DEF x, X
  <2> QED  BY <1>3, <1>5, <2>1, BecomesSettled
<1>7. ASSUME NEW y \in DOMAIN executions
      PROVE  Settled(y, executions[y], events \o new, executionLineage)
  <2>1. ~HasEvent(new, FeeKey(y)) /\ ~HasEvent(new, RefundKey(y))
    BY <1>2, <1>5
  <2>2. Settled(y, executions[y], events, executionLineage)
    BY DEF ExecutionsSettled
  <2> HIDE DEF X
  <2> QED  BY <1>3, <2>1, <2>2, StaysSettled
<1> HIDE DEF rows
<1> QED  BY <1>2, <1>4, <1>6, <1>7 DEF ExecutionsSettled

\* Whether a correction refunds the fee of the execution it corrects.
LEMMA RefundKeys ==
  ASSUME NEW x, NEW key
  PROVE  HasEvent(RefundEvents(x), key) <=>
           /\ key = RefundKey(x) /\ executions[x].fees > 0
           /\ HasEvent(events, FeeKey(x)) /\ ~HasEvent(events, RefundKey(x))
<1> DEFINE refund == Event(executions[x].account, "manual_adjustment", "increase",
                           executions[x].fees, 0, RefundKey(x))
           Refunded == /\ executions[x].fees > 0
                       /\ HasEvent(events, FeeKey(x)) /\ ~HasEvent(events, RefundKey(x))
<1>1. refund.key = RefundKey(x)  BY DEF Event
<1>2. RefundEvents(x) = IF Refunded THEN <<refund>> ELSE <<>>
  BY DEF RefundEvents, EventKeyUsed, HasEvent, FeeKey, RefundKey, NoKey
<1> HIDE DEF refund, Refunded
<1>3. HasEvent(<<refund>>, key) <=> key = RefundKey(x)
  BY <1>1 DEF HasEvent
<1>4. ~HasEvent(<<>>, key)
  BY DEF HasEvent
<1> QED  BY <1>2, <1>3, <1>4 DEF Refunded

\* What the events of a correction of x by the rows y and z are to settlement.
SettlesCorrection(new, x, y, reversal, z, replacement) ==
  /\ ~HasEvent(new, FeeKey(y))
  /\ HasEvent(new, FeeKey(z)) <=> replacement.fees > 0
  /\ \A w : w \notin {y, z} => ~HasEvent(new, FeeKey(w))
  /\ \A w : w # x => ~HasEvent(new, RefundKey(w))
  /\ HasEvent(new, RefundKey(x)) <=>
       /\ executions[x].fees > 0
       /\ HasEvent(events, FeeKey(x)) /\ ~HasEvent(events, RefundKey(x))
  /\ \E j \in DOMAIN new : new[j] = ConsiderationEvent(y, reversal)
  /\ \E j \in DOMAIN new : new[j] = ConsiderationEvent(z, replacement)

LEMMA CorrectionKeys ==
  ASSUME NEW S, NEW x, NEW y, NEW z, y # z, NEW reversal, NEW replacement,
         ReversalEvents(y, reversal) \in Seq(S), ExecutionEvents(z, replacement) \in Seq(S),
         RefundEvents(x) \in Seq(S)
  PROVE  LET new == CorrectionEvents(x, y, reversal, z, replacement)
         IN /\ new \in Seq(S)
            /\ SettlesCorrection(new, x, y, reversal, z, replacement)
<1> DEFINE new == CorrectionEvents(x, y, reversal, z, replacement)
           r == ReversalEvents(y, reversal)
           s == ExecutionEvents(z, replacement)
           t == RefundEvents(x)
           rs == r \o s
<1>1. r \in Seq(S) /\ s \in Seq(S) /\ t \in Seq(S)
  OBVIOUS
<1>2. new = rs \o t
  BY DEF CorrectionEvents
<1>3. /\ ~HasEvent(r, FeeKey(y))
      /\ \A w : ~HasEvent(r, RefundKey(w))
      /\ \A w : w # y => ~HasEvent(r, FeeKey(w))
      /\ 1 \in DOMAIN r
      /\ r[1] = ConsiderationEvent(y, reversal)
  BY FillKeys
<1>4. /\ HasEvent(s, FeeKey(z)) <=> replacement.fees > 0
      /\ \A w : ~HasEvent(s, RefundKey(w))
      /\ \A w : w # z => ~HasEvent(s, FeeKey(w))
      /\ 1 \in DOMAIN s
      /\ s[1] = ConsiderationEvent(z, replacement)
  BY FillKeys
<1>5. \A key : HasEvent(t, key) <=>
        /\ key = RefundKey(x) /\ executions[x].fees > 0
        /\ HasEvent(events, FeeKey(x)) /\ ~HasEvent(events, RefundKey(x))
  BY RefundKeys
<1>6. \A w : FeeKey(w) # RefundKey(x) /\ (w # x => RefundKey(w) # RefundKey(x))
  BY DEF FeeKey, RefundKey
<1> HIDE DEF r, s, t, new
<1>7. rs \in Seq(S) /\ new \in Seq(S)
  BY <1>1, <1>2, AppendedRows
<1>8. \A key : HasEvent(new, key) <=>
        HasEvent(r, key) \/ HasEvent(s, key) \/ HasEvent(t, key)
  <2> SUFFICES ASSUME NEW key
               PROVE  HasEvent(new, key) <=>
                        HasEvent(r, key) \/ HasEvent(s, key) \/ HasEvent(t, key)
    OBVIOUS
  <2>1. HasEvent(rs, key) <=> HasEvent(r, key) \/ HasEvent(s, key)
    BY <1>1, AppendedKey
  <2>2. HasEvent(new, key) <=> HasEvent(rs, key) \/ HasEvent(t, key)
    <3> HIDE DEF rs
    <3> QED  BY <1>1, <1>2, <1>7, AppendedKey
  <2> QED  BY <2>1, <2>2
<1>9. 1 \in DOMAIN rs /\ rs[1] = r[1] /\ Len(r) + 1 \in DOMAIN rs /\ rs[Len(r) + 1] = s[1]
  <2>1. \A i \in DOMAIN r : i \in DOMAIN rs /\ rs[i] = r[i]
    BY <1>1, AppendedRows
  <2>2. \A j \in DOMAIN s : Len(r) + j \in DOMAIN rs /\ rs[Len(r) + j] = s[j]
    BY <1>1, AppendedRows
  <2> HIDE DEF rs
  <2> QED  BY <1>3, <1>4, <2>1, <2>2
<1>10. /\ 1 \in DOMAIN new /\ new[1] = r[1]
       /\ Len(r) + 1 \in DOMAIN new /\ new[Len(r) + 1] = s[1]
  <2> HIDE DEF rs
  <2>1. \A i \in DOMAIN rs : i \in DOMAIN new /\ new[i] = rs[i]
    BY <1>1, <1>2, <1>7, AppendedRows
  <2> QED  BY <1>9, <2>1
<1> HIDE DEF rs
<1>11. SettlesCorrection(new, x, y, reversal, z, replacement)
  BY <1>3, <1>4, <1>5, <1>6, <1>8, <1>10 DEF SettlesCorrection
<1> QED  BY <1>7, <1>11 DEF new

LEMMA CorrectExecutionSettles ==
  ASSUME IInv, ExecutionsSettled, NEW a \in Accounts, NEW x \in DOMAIN executions,
         NEW action \in Actions, NEW m \in Amounts, NEW fees \in Fees,
         NEW key \in ClientKeyOptions, CorrectExecution(a, x, action, m, fees, key)
  PROVE  ExecutionsSettled'
<1> DEFINE original == executions[x]
           reversal == [original EXCEPT !.action = ReverseAction(@), !.key = NoKey]
           replacement == Execution(a, action, m, fees, NoKey)
           y == Len(executions) + 1
           z == Len(executions) + 2
           pair == <<reversal, replacement>>
           rows == executions \o pair
           X == DOMAIN rows
           new == CorrectionEvents(x, y, reversal, z, replacement)
           grown == executionLineage \cup {Correction(x, y, z, key)}
<1>1. executions \in Seq(Executions) /\ original \in Executions
  BY DEF IInv, TypeOK
<1>2. reversal \in Executions /\ replacement \in Executions
  <2>1. NoKey \in ClientKeyOptions  BY DEF ClientKeyOptions
  <2>2. ReverseAction(original.action) \in EconomicActions
    BY <1>1, ReversedAction DEF Executions
  <2> QED  BY <1>1, <2>1, <2>2, NewExecutionRow DEF Executions
<1>3. /\ rows \in Seq(Executions) /\ DOMAIN executions \subseteq X
      /\ X = DOMAIN executions \cup {y, z} /\ y \in X /\ z \in X
      /\ rows[y] = reversal /\ rows[z] = replacement
      /\ \A w \in DOMAIN executions : rows[w] = executions[w]
  <2>1. /\ pair \in Seq(Executions) /\ Len(pair) = 2 /\ DOMAIN pair = {1, 2}
        /\ pair[1] = reversal /\ pair[2] = replacement
    <3> HIDE DEF reversal, replacement
    <3> QED  BY <1>2
  <2> HIDE DEF pair, reversal, replacement
  <2> QED  BY <1>1, <2>1, AppendedRows
<1>4. y \notin DOMAIN executions /\ z \notin DOMAIN executions /\ y # z
  BY <1>1
<1>5. /\ events' = events \o new /\ executions' = rows /\ executionLineage' = grown
      /\ Correctable(executionLineage, x)
  BY DEF CorrectExecution, AppendEvents
<1> HIDE DEF rows, X, reversal, replacement, original, y, z
<1>6. events \in Seq(Events(X))
  <2>1. Events(DOMAIN executions) \subseteq Events(X)  BY <1>3, KeysOfMore
  <2>2. events \in Seq(Events(DOMAIN executions))  BY DEF IInv, TypeOK
  <2> QED  BY <2>1, <2>2, WiderRows
<1>7. /\ ReversalEvents(y, reversal) \in Seq(Events(X))
      /\ ExecutionEvents(z, replacement) \in Seq(Events(X))
      /\ RefundEvents(x) \in Seq(Events(X))
  BY <1>2, <1>3, SettlementRows, RefundRow
<1>8. /\ new \in Seq(Events(X))
      /\ SettlesCorrection(new, x, y, reversal, z, replacement)
  BY <1>4, <1>7, CorrectionKeys
<1> HIDE DEF new
<1>9. /\ Originals(grown) = Originals(executionLineage) \cup {x}
      /\ Reversals(grown) = Reversals(executionLineage) \cup {y}
  <2> DEFINE c == Correction(x, y, z, key)
  <2>1. c.original = x /\ c.reversal = y  BY DEF Correction
  <2>2. /\ {d.original : d \in grown} = {d.original : d \in executionLineage} \cup {c.original}
        /\ {d.reversal : d \in grown} = {d.reversal : d \in executionLineage} \cup {c.reversal}
    OBVIOUS
  <2> QED  BY <2>1, <2>2 DEF Originals, Reversals
<1>10. \A w \in {y, z} :
         /\ ~HasEvent(events, FeeKey(w)) /\ ~HasEvent(events, RefundKey(w))
         /\ w \notin Reversals(executionLineage) /\ w \notin Originals(executionLineage)
  BY <1>4, NoEventYet
<1>11. x # y /\ x # z
  BY <1>4
<1> HIDE DEF grown
<1>12. Settled(y, reversal, events \o new, grown)
  <2>1. PICK j \in DOMAIN new : new[j] = ConsiderationEvent(y, reversal)
    BY <1>8 DEF SettlesCorrection
  <2>2. y \in Reversals(grown) /\ y \notin Originals(grown)
    BY <1>9, <1>10, <1>11
  <2>3. ~HasEvent(new, FeeKey(y)) /\ ~HasEvent(new, RefundKey(y))
    BY <1>8, <1>11 DEF SettlesCorrection
  <2> QED  BY <1>6, <1>8, <1>10, <2>1, <2>2, <2>3, BecomesSettled
<1>13. Settled(z, replacement, events \o new, grown)
  <2>1. PICK j \in DOMAIN new : new[j] = ConsiderationEvent(z, replacement)
    BY <1>8 DEF SettlesCorrection
  <2>2. z \notin Reversals(grown) /\ z \notin Originals(grown)
    BY <1>4, <1>9, <1>10, <1>11
  <2>3. /\ HasEvent(new, FeeKey(z)) <=> replacement.fees > 0
        /\ ~HasEvent(new, RefundKey(z))
    BY <1>8, <1>11 DEF SettlesCorrection
  <2> QED  BY <1>6, <1>8, <1>10, <2>1, <2>2, <2>3, BecomesSettled
<1>14. ASSUME NEW w \in DOMAIN executions, w # x
       PROVE  Settled(w, executions[w], events \o new, grown)
  <2>1. Settled(w, executions[w], events, executionLineage)  BY DEF ExecutionsSettled
  <2>2. w # y /\ w # z  BY <1>4
  <2>3. ~HasEvent(new, FeeKey(w)) /\ ~HasEvent(new, RefundKey(w))
    BY <1>8, <1>14, <2>2 DEF SettlesCorrection
  <2>4. /\ w \in Reversals(grown) <=> w \in Reversals(executionLineage)
        /\ w \in Originals(grown) <=> w \in Originals(executionLineage)
    BY <1>9, <1>14, <2>2
  <2> QED  BY <1>6, <1>8, <2>1, <2>3, <2>4, StaysSettled
<1>15. Settled(x, executions[x], events \o new, grown)
  <2>1. Settled(x, executions[x], events, executionLineage)  BY DEF ExecutionsSettled
  <2>2. x \notin Reversals(executionLineage) /\ x \notin Originals(executionLineage)
    BY <1>5 DEF Correctable, Constituents
  <2>3. /\ HasEvent(events, FeeKey(x)) <=> executions[x].fees > 0
        /\ ~HasEvent(events, RefundKey(x))
    BY <2>1, <2>2 DEF Settled
  <2>4. x \notin Reversals(grown) /\ x \in Originals(grown)
    BY <1>9, <1>11, <2>2
  <2>5. ~HasEvent(new, FeeKey(x))
    BY <1>8, <1>11 DEF SettlesCorrection
  <2>6. HasEvent(new, RefundKey(x)) <=> executions[x].fees > 0
    BY <1>8, <2>3 DEF SettlesCorrection
  <2>7. PICK n \in DOMAIN events : /\ events[n].key = ExecutionKey(x)
                                  /\ events[n].account = executions[x].account
                                  /\ events[n].amount = executions[x].consideration
                                  /\ events[n].direction = CashDirection(executions[x].action)
    BY <2>1 DEF Settled
  <2>8. n \in DOMAIN (events \o new) /\ (events \o new)[n] = events[n]
    BY <1>6, <1>8, AppendedRows
  <2>9. \A k : HasEvent(events \o new, k) <=> HasEvent(events, k) \/ HasEvent(new, k)
    BY <1>6, <1>8, AppendedKey
  <2> QED  BY <2>3, <2>4, <2>5, <2>6, <2>7, <2>8, <2>9 DEF Settled
<1> QED  BY <1>3, <1>5, <1>12, <1>13, <1>14, <1>15 DEF ExecutionsSettled, X

-----------------------------------------------------------------------------
(* Cash: what a correction takes back.                                       *)

\* The account, the original of the correction a superseded row belongs to.
OriginalOf(lineage, n) ==
  IF n \in Originals(lineage) THEN n
  ELSE (CHOOSE c \in lineage : c.reversal = n).original

\* A superseded row leads to one correction, its original's.
LEMMA SupersededByOne ==
  ASSUME NEW lineage, CorrectedOnceIn(lineage), NEW c \in lineage
  PROVE  /\ c.original # c.reversal
         /\ {n \in Superseded(lineage) : OriginalOf(lineage, n) = c.original}
              = {c.original, c.reversal}
<1>1. /\ c.original \in Originals(lineage) /\ c.reversal \in Reversals(lineage)
      /\ c.reversal \notin Originals(lineage)
  BY DEF CorrectedOnceIn, Originals, Reversals, Constituents
<1>2. \A d \in lineage : d.reversal = c.reversal \/ d.original = c.original => d = c
  <2> SUFFICES ASSUME NEW d \in lineage, d.reversal = c.reversal \/ d.original = c.original, d # c
               PROVE  FALSE
    OBVIOUS
  <2>1. {c.original, c.reversal, c.replacement} \cap {d.original, d.reversal, d.replacement} = {}
    BY DEF CorrectedOnceIn
  <2> QED  BY <2>1
<1>3. OriginalOf(lineage, c.original) = c.original  BY <1>1 DEF OriginalOf
<1>4. OriginalOf(lineage, c.reversal) = c.original  BY <1>1, <1>2 DEF OriginalOf
<1>5. ASSUME NEW n \in Superseded(lineage), OriginalOf(lineage, n) = c.original
      PROVE  n \in {c.original, c.reversal}
  <2>1. CASE n \in Originals(lineage)  BY <1>5, <2>1 DEF OriginalOf
  <2>2. CASE n \notin Originals(lineage)
    <3>1. \E d \in lineage : d.reversal = n  BY <2>2 DEF Superseded, Reversals
    <3>2. PICK d \in lineage : d.reversal = n /\ d.original = OriginalOf(lineage, n)
      BY <2>2, <3>1 DEF OriginalOf
    <3> QED  BY <1>2, <1>5, <3>2
  <2> QED  BY <2>1, <2>2
<1> QED  BY <1>1, <1>3, <1>4, <1>5 DEF Superseded

\* Terms that a reversal takes back add up to those of the rows that count.
LEMMA PairsCancel ==
  ASSUME NEW S, NEW rows \in Seq(S), NEW lineage, LineageOK(lineage, rows),
         CorrectedOnceIn(lineage), NEW f \in [DOMAIN rows -> Int],
         \A c \in lineage : f[c.reversal] = -f[c.original]
  PROVE  Total(f) = Total(Restrict(f, DOMAIN rows \ Superseded(lineage)))
<1> DEFINE N == DOMAIN rows
           U == Superseded(lineage)
           O == Originals(lineage)
           e == Restrict(f, U)
           p == [n \in U |-> OriginalOf(lineage, n)]
<1>1. /\ IsFiniteSet(N) /\ U \in SUBSET N /\ O \in SUBSET U
      /\ \A c \in lineage : c.original \in U /\ c.reversal \in U
  <2>1. IsFiniteSet(N)  BY FS_Interval
  <2> QED  BY <2>1 DEF LineageOK, Superseded, Originals, Reversals
<1>2. IsFiniteSet(U) /\ IsFiniteSet(O)  BY <1>1, FS_Subset
<1>3. e \in [U -> Int] /\ \A n \in U : e[n] = f[n]  BY <1>1 DEF Restrict
<1>4. p \in [U -> O]
  <2> SUFFICES ASSUME NEW n \in U PROVE OriginalOf(lineage, n) \in O  OBVIOUS
  <2>1. CASE n \in O  BY <2>1 DEF OriginalOf
  <2>2. CASE n \notin O
    <3>1. \E d \in lineage : d.reversal = n  BY <2>2 DEF Superseded, Reversals
    <3>2. PICK d \in lineage : d.original = OriginalOf(lineage, n)
      BY <2>2, <3>1 DEF OriginalOf
    <3> QED  BY <3>2 DEF Originals
  <2> QED  BY <2>1, <2>2
<1>5. ASSUME NEW d \in O PROVE Total(Restrict(e, {x \in U : p[x] = d})) = 0
  <2>1. PICK c \in lineage : c.original = d  BY DEF Originals
  <2>2. {x \in U : p[x] = d} = {c.original, c.reversal} /\ c.original # c.reversal
    BY <2>1, SupersededByOne
  <2>3. c.original \in U /\ c.reversal \in U  BY <1>1
  <2>4. e[c.original] \in Int /\ e[c.reversal] = -e[c.original]  BY <1>1, <1>3
  <2> DEFINE x == c.original
             y == c.reversal
  <2> HIDE DEF e, U, p
  <2>5. Total(Restrict(e, {x, y})) = e[x] + e[y]
    <3> HIDE DEF x, y
    <3>1. x \in U /\ y \in U /\ x # y  BY <2>2, <2>3 DEF x, y
    <3>2. \A m, n \in U : m # n => Total(Restrict(e, {m, n})) = e[m] + e[n]
      BY <1>2, <1>3, TotalOfFew
    <3> QED  BY <3>1, <3>2
  <2>6. e[x] + e[y] = 0  BY <2>4
  <2>7. {k \in U : p[k] = d} = {x, y}  BY <2>2
  <2> HIDE DEF x, y
  <2> QED  BY <2>5, <2>6, <2>7
<1> HIDE DEF N, U, O, e, p
<1>6. Total(e) = 0
  <2> DEFINE g == [d \in O |-> Total(Restrict(e, {x \in U : p[x] = d}))]
  <2>1. Total(e) = Total(g)  BY <1>2, <1>3, <1>4, TotalGrouped
  <2>2. g \in [O -> Int] /\ \A d \in O : g[d] = 0  BY <1>5
  <2> HIDE DEF g
  <2> QED  BY <1>2, <2>1, <2>2, TotalOfZeros
<1>7. f \in [N -> Int]  BY DEF N
<1>8. Total(f) = Total(e) + Total(Restrict(f, N \ U))
  BY <1>1, <1>7, TotalSplit DEF e
<1>9. Total(Restrict(f, N \ U)) \in Int
  <2>1. N \ U \in SUBSET N  OBVIOUS
  <2> QED  BY <1>1, <1>7, <2>1, RestrictedInt
<1> QED  BY <1>6, <1>8, <1>9 DEF N, U

LEMMA SignedInt ==
  ASSUME NEW amount \in Nat, NEW direction \in {"increase", "decrease", "none"}
  PROVE  Signed(direction, amount) \in Int
BY DEF Signed

\* Directions that cancel move an amount there and back.
LEMMA SignedOpposite ==
  ASSUME NEW amount \in Nat, NEW d, NEW e, {d, e} = {"increase", "decrease"}
  PROVE  Signed(d, amount) = -Signed(e, amount)
<1>1. /\ d \in {"increase", "decrease"} /\ e \in {"increase", "decrease"}
      /\ "increase" \in {d, e} /\ "decrease" \in {d, e}
  OBVIOUS
<1> QED  BY <1>1 DEF Signed

\* In every state, the cash of an account is that of the events that count.
LEMMA EffectiveCash == IInv => CashIsEffectiveCash
<1> SUFFICES ASSUME IInv, NEW a \in Accounts
             PROVE  NetCash(a, events)
                      = CashOf(a, events, DOMAIN events \ Superseded(eventLineage))
  BY DEF CashIsEffectiveCash
<1> DEFINE N == DOMAIN events
           E == N \ Superseded(eventLineage)
           f == [n \in N |-> IF events[n].account = a
                               THEN Signed(events[n].direction, events[n].amount) ELSE 0]
           g == [n \in E |-> IF events[n].account = a
                               THEN Signed(events[n].direction, events[n].amount) ELSE 0]
<1>1. /\ events \in Seq(Events(DOMAIN executions)) /\ LineageOK(eventLineage, events)
      /\ CorrectedOnceIn(eventLineage)
  BY DEF IInv, TypeOK, CorrectedOnce
<1>2. \A n \in N : events[n].amount \in Nat
                   /\ events[n].direction \in {"increase", "decrease", "none"}
  <2>1. \A n \in N : events[n] \in Events(DOMAIN executions)  BY <1>1
  <2> QED  BY <2>1 DEF Events
<1>3. f \in [N -> Int]  BY <1>2, SignedInt
<1>4. \A c \in eventLineage : f[c.reversal] = -f[c.original]
  <2> SUFFICES ASSUME NEW c \in eventLineage PROVE f[c.reversal] = -f[c.original]  OBVIOUS
  <2>1. c.original \in N /\ c.reversal \in N  BY <1>1 DEF LineageOK
  <2>2. EventsCancel(events, c.original, c.reversal)  BY DEF IInv, ReversalsCancel
  <2>3. Signed(events[c.reversal].direction, events[c.original].amount)
          = -Signed(events[c.original].direction, events[c.original].amount)
    <3>1. {events[c.reversal].direction, events[c.original].direction} = {"increase", "decrease"}
      BY <2>2 DEF EventsCancel
    <3>2. events[c.original].amount \in Nat  BY <1>2, <2>1
    <3> QED  BY <3>1, <3>2, SignedOpposite
  <2> DEFINE o == Signed(events[c.original].direction, events[c.original].amount)
             r == Signed(events[c.reversal].direction, events[c.reversal].amount)
  <2>4. events[c.reversal].account = events[c.original].account /\ r = -o /\ o \in Int
    <3>1. /\ events[c.reversal].account = events[c.original].account
          /\ events[c.reversal].amount = events[c.original].amount
      BY <2>2 DEF EventsCancel
    <3>2. r = -o  BY <2>3, <3>1
    <3>3. o \in Int  BY <1>2, <2>1, SignedInt
    <3> QED  BY <3>1, <3>2, <3>3
  <2>5. /\ f[c.original] = IF events[c.original].account = a THEN o ELSE 0
        /\ f[c.reversal] = IF events[c.reversal].account = a THEN r ELSE 0
    BY <2>1
  <2> HIDE DEF o, r, f
  <2> QED  BY <2>4, <2>5
<1>5. Restrict(f, E) = g  BY DEF Restrict
<1> HIDE DEF f, g
<1>6. Total(f) = Total(g)  BY <1>1, <1>3, <1>4, <1>5, PairsCancel
<1> QED  BY <1>6 DEF f, g, NetCash, CashOf

-----------------------------------------------------------------------------
(* Settlement in cash: what each settlement event moves.                     *)

RefundEvent(x, row) == Event(row.account, "manual_adjustment", "increase", row.fees, 0, RefundKey(x))

\* A settlement event is the one its execution calls for.
Explained(e, xs) ==
  /\ e.key.kind = "execution" => e = ConsiderationEvent(e.key.of, xs[e.key.of])
  /\ e.key.kind = "fee" => e = FeeEvent(e.key.of, xs[e.key.of])
  /\ e.key.kind = "refund" => e = RefundEvent(e.key.of, xs[e.key.of])

RowsExplained(rows, xs) == \A n \in DOMAIN rows : Explained(rows[n], xs)

\* A row with a kernel key names an execution.
LEMMA KernelKeys ==
  ASSUME NEW X, NEW key \in Keys(X), key.kind \in {"execution", "fee", "refund"}
  PROVE  key.of \in X
BY DEF Keys, ClientKeyOptions, ClientKey, NoKey

\* Executions are not edited: what explained a row explains it still.
LEMMA StaysExplained ==
  ASSUME NEW xs, NEW ys, \A x \in DOMAIN xs : ys[x] = xs[x],
         NEW e \in Events(DOMAIN xs), Explained(e, xs)
  PROVE  Explained(e, ys)
<1>1. e.key \in Keys(DOMAIN xs)  BY DEF Events
<1>2. e.key.kind \in {"execution", "fee", "refund"} => ys[e.key.of] = xs[e.key.of]
  BY <1>1, KernelKeys
<1> QED  BY <1>2 DEF Explained

LEMMA AppendedExplained ==
  ASSUME NEW xs, NEW ys, \A x \in DOMAIN xs : ys[x] = xs[x], NEW S, NEW s \in Seq(S),
         \A n \in DOMAIN s : s[n] \in Events(DOMAIN xs), RowsExplained(s, xs),
         NEW t \in Seq(S), RowsExplained(t, ys)
  PROVE  RowsExplained(s \o t, ys)
<1> SUFFICES ASSUME NEW n \in DOMAIN (s \o t)  PROVE Explained((s \o t)[n], ys)
  BY DEF RowsExplained
<1>1. CASE n \in DOMAIN s /\ (s \o t)[n] = s[n]
  BY <1>1, StaysExplained DEF RowsExplained
<1>2. CASE n - Len(s) \in DOMAIN t /\ (s \o t)[n] = t[n - Len(s)]
  BY <1>2 DEF RowsExplained
<1> QED  BY <1>1, <1>2, RowsOfEither

LEMMA ClientRowsExplained ==
  ASSUME NEW t, ClientKeyed(t), NEW xs
  PROVE  RowsExplained(t, xs)
BY DEF ClientKeyed, RowsExplained, Explained, ClientKeyOptions, ClientKey, NoKey

\* The events of a fill, of a reversal and of a refund are explained.
LEMMA FillExplained ==
  ASSUME NEW x, NEW row, NEW xs, xs[x] = row
  PROVE  RowsExplained(ExecutionEvents(x, row), xs) /\ RowsExplained(ReversalEvents(x, row), xs)
<1>1. Explained(ConsiderationEvent(x, row), xs)
  BY DEF Explained, ConsiderationEvent, Event, ExecutionKey
<1>2. Explained(FeeEvent(x, row), xs)
  BY DEF Explained, FeeEvent, Event, FeeKey
<1> QED  BY <1>1, <1>2 DEF ExecutionEvents, ReversalEvents, RowsExplained

LEMMA RefundExplained ==
  ASSUME NEW x, NEW xs, xs[x] = executions[x]
  PROVE  RowsExplained(RefundEvents(x), xs)
<1>1. Explained(RefundEvent(x, executions[x]), xs)
  BY DEF Explained, RefundEvent, Event, RefundKey
<1> QED  BY <1>1 DEF RefundEvents, RefundEvent, RowsExplained

SettlementExplained == RowsExplained(events, executions)

LEMMA ClientEventsKeepExplained ==
  ASSUME IInv, SettlementExplained, NEW t \in Seq(Events(DOMAIN executions)),
         ClientKeyed(t), events' = events \o t, UNCHANGED executions
  PROVE  SettlementExplained'
<1>1. events \in Seq(Events(DOMAIN executions))
      /\ \A n \in DOMAIN events : events[n] \in Events(DOMAIN executions)
  BY DEF IInv, TypeOK
<1>2. RowsExplained(t, executions)  BY ClientRowsExplained
<1>3. RowsExplained(events \o t, executions)
  BY <1>1, <1>2, AppendedExplained DEF SettlementExplained
<1> QED  BY <1>3 DEF SettlementExplained

LEMMA PostExecutionExplained ==
  ASSUME IInv, SettlementExplained, NEW a \in Accounts, NEW action \in Actions,
         NEW m \in Amounts, NEW fees \in Fees, NEW key \in ClientKeyOptions,
         PostExecution(a, action, m, fees, key)
  PROVE  SettlementExplained'
<1> DEFINE row == Execution(a, action, m, fees, key)
           x == Len(executions) + 1
           new == ExecutionEvents(x, row)
           rows == executions \o <<row>>
           X == DOMAIN rows
<1>1. row \in Executions /\ executions \in Seq(Executions)
  BY NewExecutionRow DEF IInv, TypeOK
<1>2. /\ x \in X /\ DOMAIN executions \subseteq X /\ rows[x] = row
      /\ \A w \in DOMAIN executions : rows[w] = executions[w]
  <2>1. <<row>> \in Seq(Executions) /\ 1 \in DOMAIN <<row>> /\ <<row>>[1] = row  BY <1>1
  <2> HIDE DEF row
  <2> QED  BY <1>1, <2>1, AppendedRows
<1>3. new \in Seq(Events(X)) /\ RowsExplained(new, rows)
  BY <1>1, <1>2, SettlementRows, FillExplained
<1>4. /\ events \in Seq(Events(X))
      /\ \A n \in DOMAIN events : events[n] \in Events(DOMAIN executions)
  <2>1. events \in Seq(Events(DOMAIN executions))  BY DEF IInv, TypeOK
  <2>2. Events(DOMAIN executions) \subseteq Events(X)  BY <1>2, KeysOfMore
  <2> QED  BY <2>1, <2>2, WiderRows
<1>5. events' = events \o new /\ executions' = rows
  <2>1. Append(executions, row) = rows  BY <1>1, AppendIsConcat
  <2> QED  BY <2>1 DEF PostExecution, AppendEvents
<1> HIDE DEF new, rows
<1>6. RowsExplained(events \o new, rows)
  BY <1>2, <1>3, <1>4, AppendedExplained DEF SettlementExplained
<1> QED  BY <1>5, <1>6 DEF SettlementExplained

LEMMA CorrectExecutionExplained ==
  ASSUME IInv, SettlementExplained, NEW a \in Accounts, NEW x \in DOMAIN executions,
         NEW action \in Actions, NEW m \in Amounts, NEW fees \in Fees,
         NEW key \in ClientKeyOptions, CorrectExecution(a, x, action, m, fees, key)
  PROVE  SettlementExplained'
<1> DEFINE original == executions[x]
           reversal == [original EXCEPT !.action = ReverseAction(@), !.key = NoKey]
           replacement == Execution(a, action, m, fees, NoKey)
           y == Len(executions) + 1
           z == Len(executions) + 2
           pair == <<reversal, replacement>>
           rows == executions \o pair
           X == DOMAIN rows
           new == CorrectionEvents(x, y, reversal, z, replacement)
<1>1. executions \in Seq(Executions) /\ original \in Executions
  BY DEF IInv, TypeOK
<1>2. reversal \in Executions /\ replacement \in Executions
  <2>1. NoKey \in ClientKeyOptions  BY DEF ClientKeyOptions
  <2>2. ReverseAction(original.action) \in EconomicActions
    BY <1>1, ReversedAction DEF Executions
  <2> QED  BY <1>1, <2>1, <2>2, NewExecutionRow DEF Executions
<1>3. /\ DOMAIN executions \subseteq X /\ y \in X /\ z \in X
      /\ rows[y] = reversal /\ rows[z] = replacement
      /\ \A w \in DOMAIN executions : rows[w] = executions[w]
  <2>1. /\ pair \in Seq(Executions) /\ Len(pair) = 2 /\ DOMAIN pair = {1, 2}
        /\ pair[1] = reversal /\ pair[2] = replacement
    <3> HIDE DEF reversal, replacement
    <3> QED  BY <1>2
  <2> HIDE DEF pair, reversal, replacement
  <2> QED  BY <1>1, <2>1, AppendedRows
<1>4. events' = events \o new /\ executions' = rows
  BY DEF CorrectExecution, AppendEvents
<1> DEFINE r == ReversalEvents(y, reversal)
           s == ExecutionEvents(z, replacement)
           t == RefundEvents(x)
<1> HIDE DEF rows, X, reversal, replacement, original, y, z
<1>5. /\ r \in Seq(Events(X)) /\ s \in Seq(Events(X)) /\ t \in Seq(Events(X))
      /\ RowsExplained(r, rows) /\ RowsExplained(s, rows) /\ RowsExplained(t, rows)
  BY <1>2, <1>3, SettlementRows, RefundRow, FillExplained, RefundExplained
<1>6. new = (r \o s) \o t  BY DEF CorrectionEvents
<1> HIDE DEF r, s, t, new
<1>7. r \o s \in Seq(Events(X)) /\ RowsExplained(r \o s, rows)
  <2> SUFFICES ASSUME NEW n \in DOMAIN (r \o s)  PROVE Explained((r \o s)[n], rows)
    BY <1>5, AppendedRows DEF RowsExplained
  <2> QED  BY <1>5, RowsOfEither DEF RowsExplained
<1>8. new \in Seq(Events(X)) /\ RowsExplained(new, rows)
  <2> DEFINE rs == r \o s
  <2>1. rs \in Seq(Events(X)) /\ RowsExplained(rs, rows) /\ new = rs \o t  BY <1>6, <1>7
  <2> HIDE DEF rs
  <2>2. new \in Seq(Events(X))  BY <1>5, <2>1, AppendedRows
  <2>3. \A n \in DOMAIN new : Explained(new[n], rows)
    BY <1>5, <2>1, RowsOfEither DEF RowsExplained
  <2> QED  BY <2>2, <2>3 DEF RowsExplained
<1>9. /\ events \in Seq(Events(X))
      /\ \A n \in DOMAIN events : events[n] \in Events(DOMAIN executions)
  <2>1. events \in Seq(Events(DOMAIN executions))  BY DEF IInv, TypeOK
  <2>2. Events(DOMAIN executions) \subseteq Events(X)  BY <1>3, KeysOfMore
  <2> QED  BY <2>1, <2>2, WiderRows
<1>10. RowsExplained(events \o new, rows)
  BY <1>3, <1>8, <1>9, AppendedExplained DEF SettlementExplained
<1> QED  BY <1>4, <1>10 DEF SettlementExplained

-----------------------------------------------------------------------------
(* Settlement in cash: the sum over the events and the sum over the fills.   *)

SettlementFor(x) == {n \in SettlementEvents : events[n].key.of = x}

CashTerm(a, n) ==
  IF events[n].account = a THEN Signed(events[n].direction, events[n].amount) ELSE 0

\* What an execution and its settlement events are worth, corrected or not.
FillTerm(a, x) ==
  IF executions[x].account # a THEN 0
  ELSE Signed(CashDirection(executions[x].action), executions[x].consideration)
         - (IF x \notin Reversals(executionLineage) THEN executions[x].fees ELSE 0)
         + (IF x \in Originals(executionLineage) THEN executions[x].fees ELSE 0)

FillTypes ==
  \A x \in DOMAIN executions :
    /\ executions[x].consideration \in Nat /\ executions[x].fees \in Nat
    /\ CashDirection(executions[x].action) \in {"increase", "decrease"}
    /\ executions[x].action \in EconomicActions

LEMMA FillTypesHold == IInv => FillTypes
<1> SUFFICES ASSUME IInv, NEW x \in DOMAIN executions
             PROVE  /\ executions[x].consideration \in Nat /\ executions[x].fees \in Nat
                    /\ CashDirection(executions[x].action) \in {"increase", "decrease"}
                    /\ executions[x].action \in EconomicActions
  BY DEF FillTypes
<1>1. executions[x] \in Executions  BY DEF IInv, TypeOK
<1> QED  BY <1>1 DEF Executions, CashDirection

\* The settlement events of one execution: the one that pays or receives its
\* consideration, the fee event if there is one, the refund if there is one.
LEMMA SettlementOfOne ==
  ASSUME IInv, ExecutionsSettled, SettlementExplained, NEW a \in Accounts,
         NEW x \in DOMAIN executions,
         NEW f \in [SettlementEvents -> Int], \A n \in SettlementEvents : f[n] = CashTerm(a, n)
  PROVE  Total(Restrict(f, SettlementFor(x))) = FillTerm(a, x)
<1> DEFINE With(key) == {n \in DOMAIN events : events[n].key = key}
           N == SettlementEvents
           row == executions[x]
           paid == IF row.account = a THEN Signed(CashDirection(row.action), row.consideration) ELSE 0
           charged == IF row.account = a /\ x \notin Reversals(executionLineage) THEN -row.fees ELSE 0
           refunded == IF row.account = a /\ x \in Originals(executionLineage) THEN row.fees ELSE 0
           E == With(ExecutionKey(x))
           F == With(FeeKey(x))
           R == With(RefundKey(x))
<1>1. IsFiniteSet(N)
  <2>1. IsFiniteSet(DOMAIN events) /\ N \subseteq DOMAIN events
    <3>1. events \in Seq(Events(DOMAIN executions))  BY DEF IInv, TypeOK
    <3> QED  BY <3>1, FS_Interval DEF SettlementEvents
  <2> QED  BY <2>1, FS_Subset
<1>2. /\ E \in SUBSET N /\ F \in SUBSET N /\ R \in SUBSET N
      /\ E \cap F = {} /\ (E \cup F) \cap R = {} /\ SettlementFor(x) = (E \cup F) \cup R
  <2>1. /\ E \in SUBSET N /\ F \in SUBSET N /\ R \in SUBSET N
        /\ E \cap F = {} /\ (E \cup F) \cap R = {}
    BY DEF SettlementEvents, ExecutionKey, FeeKey, RefundKey
  <2>2. ASSUME NEW n \in SettlementFor(x)  PROVE n \in (E \cup F) \cup R
    <3>1. n \in DOMAIN events /\ events[n].key.kind \in {"execution", "fee", "refund"}
          /\ events[n].key.of = x
      BY DEF SettlementFor, SettlementEvents
    <3>2. events[n].key \in Keys(DOMAIN executions)
      <4>1. events[n] \in Events(DOMAIN executions)  BY <3>1 DEF IInv, TypeOK
      <4> QED  BY <4>1 DEF Events
    <3>3. events[n].key = [kind |-> events[n].key.kind, of |-> x]
      BY <3>1, <3>2 DEF Keys, ClientKeyOptions, ClientKey, NoKey
    <3> QED  BY <3>1, <3>3 DEF ExecutionKey, FeeKey, RefundKey
  <2>3. (E \cup F) \cup R \subseteq SettlementFor(x)
    BY DEF SettlementFor, SettlementEvents, ExecutionKey, FeeKey, RefundKey
  <2> QED  BY <2>1, <2>2, <2>3
<1>3. ASSUME NEW key, key # NoKey, NEW n \in With(key)  PROVE With(key) = {n}
  BY <1>3 DEF IInv, KeysNameOneRow, UniqueKeys
<1>4. ExecutionKey(x) # NoKey /\ FeeKey(x) # NoKey /\ RefundKey(x) # NoKey
  BY DEF ExecutionKey, FeeKey, RefundKey, NoKey
<1>5. Settled(x, row, events, executionLineage)  BY DEF ExecutionsSettled
<1>6. /\ row.consideration \in Nat /\ row.fees \in Nat
      /\ CashDirection(row.action) \in {"increase", "decrease"}
  BY FillTypesHold DEF FillTypes
<1>7. paid \in Int /\ charged \in Int /\ refunded \in Int
  BY <1>6, SignedInt
<1>8. /\ \A n \in E : events[n] = ConsiderationEvent(x, row)
      /\ \A n \in F : events[n] = FeeEvent(x, row)
      /\ \A n \in R : events[n] = RefundEvent(x, row)
  BY DEF SettlementExplained, RowsExplained, Explained, ExecutionKey, FeeKey, RefundKey
<1>9. \E n \in N : E = {n} /\ f[n] = paid
  <2>1. PICK n \in E : TRUE  BY <1>5 DEF Settled
  <2>2. E = {n}  BY <1>3, <1>4, <2>1
  <2>3. n \in N  BY <1>2, <2>1
  <2>4. f[n] = CashTerm(a, n)  BY <2>3
  <2>5. CashTerm(a, n) = paid
    BY <1>8, <2>1 DEF CashTerm, ConsiderationEvent, Event
  <2> QED  BY <2>2, <2>3, <2>4, <2>5
<1>10. (F = {} /\ charged = 0) \/ \E n \in N : F = {n} /\ f[n] = charged
  <2>1. CASE F = {}
    <3>1. ~HasEvent(events, FeeKey(x))  BY <2>1 DEF HasEvent
    <3>2. ~(row.fees > 0 /\ x \notin Reversals(executionLineage))
      BY <1>5, <3>1 DEF Settled
    <3>3. charged = 0  BY <1>6, <3>2
    <3> QED  BY <2>1, <3>3
  <2>2. ASSUME NEW n \in F  PROVE \E k \in N : F = {k} /\ f[k] = charged
    <3>1. F = {n}  BY <1>3, <1>4, <2>2
    <3>2. HasEvent(events, FeeKey(x))  BY DEF HasEvent
    <3>3. x \notin Reversals(executionLineage)  BY <1>5, <3>2 DEF Settled
    <3>4. n \in N  BY <1>2
    <3>5. f[n] = CashTerm(a, n)  BY <3>4
    <3>6. CashTerm(a, n) = charged
      BY <1>6, <1>8, <3>3 DEF CashTerm, FeeEvent, Event, Signed
    <3> QED  BY <3>1, <3>4, <3>5, <3>6
  <2> QED  BY <2>1, <2>2
<1>11. (R = {} /\ refunded = 0) \/ \E n \in N : R = {n} /\ f[n] = refunded
  <2>1. CASE R = {}
    <3>1. ~HasEvent(events, RefundKey(x))  BY <2>1 DEF HasEvent
    <3>2. ~(row.fees > 0 /\ x \in Originals(executionLineage))
      BY <1>5, <3>1 DEF Settled
    <3>3. refunded = 0  BY <1>6, <3>2
    <3> QED  BY <2>1, <3>3
  <2>2. ASSUME NEW n \in R  PROVE \E k \in N : R = {k} /\ f[k] = refunded
    <3>1. R = {n}  BY <1>3, <1>4, <2>2
    <3>2. HasEvent(events, RefundKey(x))  BY DEF HasEvent
    <3>3. x \in Originals(executionLineage)  BY <1>5, <3>2 DEF Settled
    <3>4. n \in N  BY <1>2
    <3>5. f[n] = CashTerm(a, n)  BY <3>4
    <3>6. CashTerm(a, n) = refunded
      BY <1>6, <1>8, <3>3 DEF CashTerm, RefundEvent, Event, Signed
    <3> QED  BY <3>1, <3>4, <3>5, <3>6
  <2> QED  BY <2>1, <2>2
<1>12. FillTerm(a, x) = (paid + charged) + refunded
  <2>1. CASE row.account = a
    <3>1. FillTerm(a, x) = paid
            - (IF x \notin Reversals(executionLineage) THEN row.fees ELSE 0)
            + (IF x \in Originals(executionLineage) THEN row.fees ELSE 0)
      BY <2>1 DEF FillTerm
    <3> QED  BY <1>6, <1>7, <2>1, <3>1
  <2>2. CASE row.account # a  BY <2>2 DEF FillTerm
  <2> QED  BY <2>1, <2>2
<1> HIDE DEF E, F, R, N, paid, charged, refunded, row
<1>13. f \in [N -> Int]  BY DEF N
<1>14. Total(Restrict(f, E)) = paid
  BY <1>1, <1>9, <1>13, TotalOfFew
<1> DEFINE EF == E \cup F
<1>15. Total(Restrict(f, EF)) = Total(Restrict(f, E)) + charged
  <2>1. E \in SUBSET N  BY <1>2
  <2>2. CASE F = {} /\ charged = 0
    <3>1. EF = E  BY <2>2
    <3>2. Total(Restrict(f, E)) \in Int
      <4> HIDE DEF EF
      <4> QED  BY <1>1, <1>13, <2>1, RestrictedInt
    <3> HIDE DEF EF
    <3> QED  BY <2>2, <3>1, <3>2
  <2>3. ASSUME NEW n \in N, F = {n}, f[n] = charged
        PROVE  Total(Restrict(f, EF)) = Total(Restrict(f, E)) + charged
    <3>1. n \notin E /\ EF = E \cup {n}  BY <1>2, <2>3
    <3> HIDE DEF EF
    <3>2. Total(Restrict(f, E \cup {n})) = Total(Restrict(f, E)) + f[n]
      BY <1>1, <1>13, <2>1, <3>1, RestrictionAdded
    <3> QED  BY <2>3, <3>1, <3>2
  <2> QED  BY <1>10, <2>2, <2>3
<1>16. Total(Restrict(f, EF \cup R)) = Total(Restrict(f, EF)) + refunded
  <2>1. EF \in SUBSET N  BY <1>2
  <2>2. CASE R = {} /\ refunded = 0
    <3>1. EF \cup R = EF  BY <2>2
    <3>2. Total(Restrict(f, EF)) \in Int
      <4> HIDE DEF EF
      <4> QED  BY <1>1, <1>13, <2>1, RestrictedInt
    <3> HIDE DEF EF
    <3> QED  BY <2>2, <3>1, <3>2
  <2>3. ASSUME NEW n \in N, R = {n}, f[n] = refunded
        PROVE  Total(Restrict(f, EF \cup R)) = Total(Restrict(f, EF)) + refunded
    <3>1. n \notin EF /\ EF \cup R = EF \cup {n}  BY <1>2, <2>3
    <3> HIDE DEF EF
    <3>2. Total(Restrict(f, EF \cup {n})) = Total(Restrict(f, EF)) + f[n]
      BY <1>1, <1>13, <2>1, <3>1, RestrictionAdded
    <3> QED  BY <2>3, <3>1, <3>2
  <2> QED  BY <1>11, <2>2, <2>3
<1> QED  BY <1>2, <1>12, <1>14, <1>15, <1>16

\* Whatever was corrected, the settlement events of an account add up to its
\* executions that still count and their fees.
LEMMA SettlementCash ==
  IInv /\ ExecutionsSettled /\ SettlementExplained => SettlementMatchesExecutions
<1> SUFFICES ASSUME IInv, ExecutionsSettled, SettlementExplained, NEW a \in Accounts
             PROVE  CashOf(a, events, SettlementEvents) = ExecutionCash(a)
  BY DEF SettlementMatchesExecutions
<1> DEFINE N == SettlementEvents
           X == DOMAIN executions
           f == [n \in N |-> CashTerm(a, n)]
           p == [n \in N |-> events[n].key.of]
           w == [x \in X |-> FillTerm(a, x)]
<1>1. /\ events \in Seq(Events(X)) /\ executions \in Seq(Executions)
      /\ LineageOK(executionLineage, executions) /\ CorrectedOnceIn(executionLineage)
  BY DEF IInv, TypeOK, CorrectedOnce
<1>2. IsFiniteSet(N) /\ IsFiniteSet(X) /\ N \subseteq DOMAIN events
  <2>1. IsFiniteSet(DOMAIN events) /\ N \subseteq DOMAIN events
    BY <1>1, FS_Interval DEF SettlementEvents
  <2> QED  BY <1>1, <2>1, FS_Subset, FS_Interval
<1>3. \A n \in N : events[n] \in Events(X)  BY <1>1, <1>2
<1>4. f \in [N -> Int]
  <2>1. \A n \in N : CashTerm(a, n) \in Int  BY <1>3, SignedInt DEF CashTerm, Events
  <2> QED  BY <2>1
<1>5. p \in [N -> X]
  <2> SUFFICES ASSUME NEW n \in N PROVE events[n].key.of \in X  OBVIOUS
  <2>1. events[n].key \in Keys(X) /\ events[n].key.kind \in {"execution", "fee", "refund"}
    BY <1>3 DEF Events, SettlementEvents
  <2> HIDE DEF X
  <2> QED  BY <2>1, KernelKeys
<1>6. \A x \in X : {n \in N : p[n] = x} = SettlementFor(x)
  BY DEF SettlementFor
<1>7. \A x \in X : Total(Restrict(f, {n \in N : p[n] = x})) = FillTerm(a, x)
  <2>1. f \in [SettlementEvents -> Int] /\ \A n \in SettlementEvents : f[n] = CashTerm(a, n)
    BY <1>4
  <2> HIDE DEF f, p
  <2> QED  BY <1>6, <2>1, SettlementOfOne
<1>8. \A x \in X : FillTerm(a, x) \in Int
  BY FillTypesHold, SignedInt DEF FillTypes, FillTerm
<1>9. \A c \in executionLineage : w[c.reversal] = -w[c.original]
  <2> SUFFICES ASSUME NEW c \in executionLineage PROVE w[c.reversal] = -w[c.original]  OBVIOUS
  <2>1. c.original \in X /\ c.reversal \in X  BY <1>1 DEF LineageOK
  <2>2. /\ c.original \in Originals(executionLineage)
        /\ c.original \notin Reversals(executionLineage)
        /\ c.reversal \in Reversals(executionLineage)
        /\ c.reversal \notin Originals(executionLineage)
    BY <1>1 DEF CorrectedOnceIn, Originals, Reversals, Constituents
  <2>3. ExecutionsCancel(executions, c.original, c.reversal)  BY DEF IInv, ReversalsCancel
  <2> DEFINE o == executions[c.original]
             r == executions[c.reversal]
             so == Signed(CashDirection(o.action), o.consideration)
             sr == Signed(CashDirection(r.action), r.consideration)
  <2>4. o.consideration \in Nat /\ o.fees \in Nat /\ r.fees \in Nat
        /\ CashDirection(o.action) \in {"increase", "decrease"}
    BY <2>1, FillTypesHold DEF FillTypes
  <2>5. so \in Int  BY <2>4, SignedInt
  <2>6. sr = -so
    <3>1. {CashDirection(r.action), CashDirection(o.action)} = {"increase", "decrease"}
          /\ r.consideration = o.consideration
      BY <2>3 DEF ExecutionsCancel
    <3> HIDE DEF r, o
    <3> QED  BY <2>4, <3>1, SignedOpposite
  <2>7. r.account = o.account  BY <2>3 DEF ExecutionsCancel
  <2>8. w[c.original] = IF o.account = a THEN so ELSE 0
    <3>1. FillTerm(a, c.original) = IF o.account # a THEN 0 ELSE so - o.fees + o.fees
      BY <2>2 DEF FillTerm
    <3>2. w[c.original] = FillTerm(a, c.original)  BY <2>1
    <3> HIDE DEF w, so, o
    <3> QED  BY <2>4, <2>5, <3>1, <3>2
  <2>9. w[c.reversal] = IF r.account = a THEN sr ELSE 0
    <3>1. FillTerm(a, c.reversal) = IF r.account # a THEN 0 ELSE sr - 0 + 0
      BY <2>2 DEF FillTerm
    <3>2. w[c.reversal] = FillTerm(a, c.reversal)  BY <2>1
    <3> HIDE DEF w, sr, so, o, r
    <3> QED  BY <2>5, <2>6, <3>1, <3>2
  <2> HIDE DEF w, so, sr, o, r
  <2> QED  BY <2>5, <2>6, <2>7, <2>8, <2>9
<1>10. Restrict(w, EffectiveExecutions)
         = [x \in EffectiveExecutions |->
              IF executions[x].account # a THEN 0
              ELSE Signed(CashDirection(executions[x].action), executions[x].consideration)
                     - executions[x].fees]
  <2>1. ASSUME NEW x \in EffectiveExecutions
        PROVE  w[x] = IF executions[x].account # a THEN 0
                      ELSE Signed(CashDirection(executions[x].action), executions[x].consideration)
                             - executions[x].fees
    <3>1. x \in X /\ x \notin Reversals(executionLineage) /\ x \notin Originals(executionLineage)
      BY DEF EffectiveExecutions, Superseded
    <3> DEFINE s == Signed(CashDirection(executions[x].action), executions[x].consideration)
    <3>2. s \in Int /\ executions[x].fees \in Nat
      BY <3>1, FillTypesHold, SignedInt DEF FillTypes
    <3>3. w[x] = IF executions[x].account # a THEN 0 ELSE s - executions[x].fees + 0
      BY <3>1 DEF FillTerm
    <3> HIDE DEF w, s
    <3>4. w[x] = IF executions[x].account # a THEN 0 ELSE s - executions[x].fees  BY <3>2, <3>3
    <3> QED  BY <3>4 DEF s
  <2> HIDE DEF w
  <2> QED  BY <2>1 DEF Restrict
<1>11. w \in [X -> Int]  BY <1>8
<1> DEFINE g == [x \in X |-> Total(Restrict(f, {n \in N : p[n] = x}))]
<1>12. g = w
  <2> HIDE DEF f, p, N
  <2> QED  BY <1>7
<1>13. CashOf(a, events, N) = Total(f)
  BY DEF CashOf, CashTerm
<1>14. ExecutionCash(a) = Total(Restrict(w, EffectiveExecutions))
  BY <1>10 DEF ExecutionCash
<1> HIDE DEF f, p, w, N
<1>15. Total(f) = Total(g)
  <2> HIDE DEF X
  <2> QED  BY <1>2, <1>4, <1>5, TotalGrouped
<1>16. Total(w) = Total(Restrict(w, EffectiveExecutions))
  BY <1>1, <1>9, <1>11, PairsCancel DEF EffectiveExecutions
<1> QED  BY <1>12, <1>13, <1>14, <1>15, <1>16 DEF N

-----------------------------------------------------------------------------
(* The theorems.                                                             *)

LEMMA NextKeepsIInv == IInv /\ [Next]_ledgerVars => IInv'
<1> SUFFICES ASSUME IInv, [Next]_ledgerVars  PROVE IInv'
  OBVIOUS
<1>1. ASSUME NEW a \in Accounts, Operation(a)  PROVE IInv'
  BY <1>1, InitializeKeeps, PostEventKeeps, CorrectEventKeeps, PostExecutionKeeps,
     CorrectExecutionKeeps DEF Operation
<1>2. ASSUME NEW a \in Accounts, NEW on \in BOOLEAN, SetActive(a, on)  PROVE IInv'
  <2>1. active' \in [Accounts -> BOOLEAN]
    BY <1>2 DEF SetActive, IInv, TypeOK
  <2>2. UNCHANGED <<events, eventLineage, executions, executionLineage>>
    BY <1>2 DEF SetActive
  <2> QED  BY <2>1, <2>2 DEF IInv, TypeOK, CorrectedOnce, ReversalsCancel, KeysNameOneRow
<1>3. CASE UNCHANGED ledgerVars
  BY <1>3 DEF ledgerVars, IInv, TypeOK, CorrectedOnce, ReversalsCancel, KeysNameOneRow
<1> QED  BY <1>1, <1>2, <1>3 DEF Next

THEOREM IInvHolds == LedgerSpec => []IInv
  BY InitIInv, NextKeepsIInv, PTL DEF LedgerSpec

\* An operation posts events without kernel keys and leaves the executions
\* alone, or is one of the two that write executions.
LEMMA ClientOperation ==
  ASSUME IInv, NEW a \in Accounts, Operation(a)
  PROVE  \/ \E t \in Seq(Events(DOMAIN executions)) :
              /\ ClientKeyed(t) /\ events' = events \o t
              /\ UNCHANGED <<executions, executionLineage>>
         \/ \E action \in Actions, m \in Amounts, fees \in Fees, key \in ClientKeyOptions :
              PostExecution(a, action, m, fees, key)
         \/ \E x \in DOMAIN executions, action \in Actions, m \in Amounts, fees \in Fees,
               key \in ClientKeyOptions : CorrectExecution(a, x, action, m, fees, key)
<1> DEFINE Client == \E t \in Seq(Events(DOMAIN executions)) :
                       /\ ClientKeyed(t) /\ events' = events \o t
                       /\ UNCHANGED <<executions, executionLineage>>
<1> USE DEF AppendEvents
<1>1. ASSUME NEW amount \in Amounts \cup {0},
             NEW key \in ClientKeyOptions, InitializeAccount(a, amount, key)
      PROVE  Client
  <2> DEFINE row == PostedEvent(a, "opening_balance", amount, key)
             new == IF amount = 0 THEN <<>> ELSE <<row>>
  <2>1. row \in Events(DOMAIN executions) /\ row.key = key
    BY PostedRow, AmountsAssumption DEF EventTypes, CashIncreaseTypes
  <2>2. new \in Seq(Events(DOMAIN executions)) /\ ClientKeyed(new)
    <3>1. CASE amount = 0  BY <3>1 DEF ClientKeyed
    <3>2. CASE amount # 0  BY <2>1, <3>2 DEF ClientKeyed
    <3> QED  BY <3>1, <3>2
  <2>3. events' = events \o new /\ UNCHANGED <<executions, executionLineage>>
    BY <1>1 DEF InitializeAccount
  <2> HIDE DEF new
  <2> QED  BY <2>2, <2>3
<1>2. ASSUME NEW type \in PostableTypes,
             NEW amount \in RequestedAmounts(type), NEW key \in ClientKeyOptions,
             PostEventWithEffect(a, type, amount, key)
      PROVE  Client
  <2> DEFINE new == <<PostedEvent(a, type, amount, key)>>
  <2>1. new \in Seq(Events(DOMAIN executions)) /\ ClientKeyed(new)
    BY PostedRow, RequestedIntegers, PostableTypesAssumption DEF ClientKeyed
  <2>2. events' = events \o new /\ UNCHANGED <<executions, executionLineage>>
    BY <1>2 DEF PostEventWithEffect
  <2> HIDE DEF new
  <2> QED  BY <2>1, <2>2
<1>3. ASSUME NEW n \in DOMAIN events,
             NEW amount \in RequestedAmounts(events[n].type), NEW key \in ClientKeyOptions,
             CorrectFinancialEvent(a, n, amount, key)
      PROVE  Client
  <2> DEFINE X == DOMAIN executions
             reversal == ReversalEvent(events[n])
             replacement == PostedEvent(a, events[n].type, amount, NoKey)
             new == <<reversal, replacement>>
  <2>1. /\ events[n] \in Events(X) /\ events[n].type \in CorrectableTypes
        /\ Directed(events[n])
    BY <1>3 DEF IInv, TypeOK, CorrectFinancialEvent
  <2>2. reversal \in Events(X) /\ reversal.key = NoKey
    BY <2>1, ReversalRow
  <2>3. NoKey \in ClientKeyOptions  BY DEF ClientKeyOptions
  <2>4. replacement \in Events(X) /\ replacement.key = NoKey
    <3>1. events[n].type \in EventTypes \ {"trade_execution"}
      BY <2>1 DEF CorrectableTypes, EventTypes, CashIncreaseTypes, CashDecreaseTypes
    <3> QED  BY <2>3, <3>1, PostedRow, RequestedIntegers
  <2>5. events' = events \o new /\ UNCHANGED <<executions, executionLineage>>
    BY <1>3 DEF CorrectFinancialEvent
  <2> HIDE DEF reversal, replacement
  <2>6. new \in Seq(Events(X)) /\ ClientKeyed(new)
    BY <2>2, <2>3, <2>4 DEF ClientKeyed
  <2> HIDE DEF new
  <2> QED  BY <2>5, <2>6
<1> HIDE DEF Client
<1>4. \/ Client
      \/ \E action \in Actions, m \in Amounts, fees \in Fees, key \in ClientKeyOptions :
           PostExecution(a, action, m, fees, key)
      \/ \E x \in DOMAIN executions, action \in Actions, m \in Amounts, fees \in Fees,
            key \in ClientKeyOptions : CorrectExecution(a, x, action, m, fees, key)
  BY <1>1, <1>2, <1>3 DEF Operation
<1> QED  BY <1>4 DEF Client

LEMMA NextKeepsSettlement ==
  IInv /\ ExecutionsSettled /\ [Next]_ledgerVars => ExecutionsSettled'
<1> SUFFICES ASSUME IInv, ExecutionsSettled, [Next]_ledgerVars  PROVE ExecutionsSettled'
  OBVIOUS
<1>1. ASSUME NEW a \in Accounts, Operation(a)  PROVE ExecutionsSettled'
  BY <1>1, ClientOperation, ClientEventsKeepSettlement, PostExecutionSettles,
     CorrectExecutionSettles
<1>2. ASSUME NEW a \in Accounts, NEW on \in BOOLEAN, SetActive(a, on)
      PROVE  ExecutionsSettled'
  BY <1>2 DEF SetActive, ExecutionsSettled
<1>3. CASE UNCHANGED ledgerVars
  BY <1>3 DEF ledgerVars, ExecutionsSettled
<1> QED  BY <1>1, <1>2, <1>3 DEF Next

LEMMA NextKeepsExplained ==
  IInv /\ SettlementExplained /\ [Next]_ledgerVars => SettlementExplained'
<1> SUFFICES ASSUME IInv, SettlementExplained, [Next]_ledgerVars  PROVE SettlementExplained'
  OBVIOUS
<1>1. ASSUME NEW a \in Accounts, Operation(a)  PROVE SettlementExplained'
  BY <1>1, ClientOperation, ClientEventsKeepExplained, PostExecutionExplained,
     CorrectExecutionExplained
<1>2. ASSUME NEW a \in Accounts, NEW on \in BOOLEAN, SetActive(a, on)
      PROVE  SettlementExplained'
  BY <1>2 DEF SetActive, SettlementExplained
<1>3. CASE UNCHANGED ledgerVars
  BY <1>3 DEF ledgerVars, SettlementExplained
<1> QED  BY <1>1, <1>2, <1>3 DEF Next

\* Whatever is posted and corrected, every stored row is one the schema admits.
THEOREM TypeCorrectness == LedgerSpec => []TypeOK
<1>1. IInv => TypeOK  BY DEF IInv
<1> QED  BY <1>1, IInvHolds, PTL

\* No row is corrected twice and no constituent of a correction is corrected.
THEOREM Correctability == LedgerSpec => []CorrectedOnce
<1>1. IInv => CorrectedOnce  BY DEF IInv
<1> QED  BY <1>1, IInvHolds, PTL

\* A reversal takes back exactly what the row it reverses did.
THEOREM Reversibility == LedgerSpec => []ReversalsCancel
<1>1. IInv => ReversalsCancel  BY DEF IInv
<1> QED  BY <1>1, IInvHolds, PTL

\* An idempotency key never names two rows.
THEOREM Idempotence == LedgerSpec => []KeysNameOneRow
<1>1. IInv => KeysNameOneRow  BY DEF IInv
<1> QED  BY <1>1, IInvHolds, PTL

\* However fills and corrections are mixed, every execution has its settlement
\* events: the consideration once, its fee when due, the refund when corrected.
THEOREM Settlement == LedgerSpec => []ExecutionsSettled
<1>1. Init => ExecutionsSettled
  BY DEF Init, ExecutionsSettled
<1> QED  BY <1>1, IInvHolds, NextKeepsSettlement, PTL DEF LedgerSpec

\* Whatever was corrected, an account's cash is that of the events that count.
THEOREM EffectiveCashHolds == LedgerSpec => []CashIsEffectiveCash
  BY EffectiveCash, IInvHolds, PTL

\* However often fills are corrected, their settlement events add up to the fills
\* that count and their fees.
THEOREM SettlementInCash == LedgerSpec => []SettlementMatchesExecutions
<1>1. Init => SettlementExplained
  BY DEF Init, SettlementExplained, RowsExplained
<1>2. LedgerSpec => []SettlementExplained
  BY <1>1, IInvHolds, NextKeepsExplained, PTL DEF LedgerSpec
<1> QED  BY <1>2, IInvHolds, Settlement, SettlementCash, PTL

-----------------------------------------------------------------------------
(* Beside the ledger: the account_performance projection.                    *)

\* Every step of the projection's module is a step of the ledger, or none.
LEMMA PerformanceStep ==
  ASSUME PerformanceNext \/ UNCHANGED vars
  PROVE  Next \/ UNCHANGED ledgerVars
BY DEF PerformanceNext, PostAndRebuild, RecordMark, RebuildOnRequest, SwitchActive,
       CloseAccount, Next, vars

\* An account's operation writes its own events and no other account's.
LEMMA OperationOnOne ==
  ASSUME IInv, NEW a \in Accounts, Operation(a)
  PROVE  /\ DOMAIN events \subseteq DOMAIN events'
         /\ \A n \in DOMAIN events : events'[n] = events[n]
         /\ \A n \in DOMAIN events' \ DOMAIN events : events'[n].account = a
<1> DEFINE Own == \E S : \E t \in Seq(S) :
                    events' = events \o t /\ \A j \in DOMAIN t : t[j].account = a
<1> USE DEF AppendEvents
<1>1. ASSUME NEW amount \in Amounts \cup {0},
             NEW key \in ClientKeyOptions, InitializeAccount(a, amount, key)
      PROVE  Own
  <2> DEFINE row == PostedEvent(a, "opening_balance", amount, key)
             new == IF amount = 0 THEN <<>> ELSE <<row>>
  <2>1. row.account = a  BY DEF PostedEvent, Event
  <2>2. new \in Seq({row}) /\ \A j \in DOMAIN new : new[j].account = a
    <3> HIDE DEF row
    <3>1. CASE amount = 0  BY <3>1
    <3>2. CASE amount # 0  BY <2>1, <3>2
    <3> QED  BY <3>1, <3>2
  <2>3. events' = events \o new  BY <1>1 DEF InitializeAccount
  <2> HIDE DEF new
  <2> QED  BY <2>2, <2>3
<1>2. ASSUME NEW type \in PostableTypes,
             NEW amount \in RequestedAmounts(type), NEW key \in ClientKeyOptions,
             PostEventWithEffect(a, type, amount, key)
      PROVE  Own
  <2> DEFINE row == PostedEvent(a, type, amount, key)
             new == <<row>>
  <2>0. row.account = a  BY DEF PostedEvent, Event
  <2>1. new \in Seq({row}) /\ \A j \in DOMAIN new : new[j].account = a
    <3> HIDE DEF row
    <3> QED  BY <2>0
  <2>2. events' = events \o new  BY <1>2 DEF PostEventWithEffect
  <2> HIDE DEF new
  <2> QED  BY <2>1, <2>2
<1>3. ASSUME NEW n \in DOMAIN events,
             NEW amount \in RequestedAmounts(events[n].type), NEW key \in ClientKeyOptions,
             CorrectFinancialEvent(a, n, amount, key)
      PROVE  Own
  <2> DEFINE reversal == ReversalEvent(events[n])
             replacement == PostedEvent(a, events[n].type, amount, NoKey)
             new == <<reversal, replacement>>
  <2>1. reversal.account = a /\ replacement.account = a
    BY <1>3 DEF CorrectFinancialEvent, PostedEvent, Event, ReversalEvent
  <2>2. new \in Seq({reversal, replacement}) /\ \A j \in DOMAIN new : new[j].account = a
    <3> HIDE DEF reversal, replacement
    <3> QED  BY <2>1
  <2>3. events' = events \o new  BY <1>3 DEF CorrectFinancialEvent
  <2> HIDE DEF new
  <2> QED  BY <2>2, <2>3
<1>4. \A x, row : row.account = a =>
        /\ \A j \in DOMAIN ExecutionEvents(x, row) : ExecutionEvents(x, row)[j].account = a
        /\ \A j \in DOMAIN ReversalEvents(x, row) : ReversalEvents(x, row)[j].account = a
  BY DEF ExecutionEvents, ReversalEvents, ConsiderationEvent, FeeEvent, Event
<1>5. ASSUME NEW action \in Actions, NEW m \in Amounts, NEW fees \in Fees,
             NEW key \in ClientKeyOptions, PostExecution(a, action, m, fees, key)
      PROVE  Own
  <2> DEFINE row == Execution(a, action, m, fees, key)
             new == ExecutionEvents(Len(executions) + 1, row)
  <2>1. row.account = a  BY DEF Execution
  <2>4. row \in Executions  BY NewExecutionRow
  <2>2. new \in Seq(Events({Len(executions) + 1})) /\ \A j \in DOMAIN new : new[j].account = a
    <3> HIDE DEF row
    <3> QED  BY <1>4, <2>1, <2>4, SettlementRows
  <2>3. events' = events \o new  BY <1>5 DEF PostExecution
  <2> HIDE DEF new
  <2> QED  BY <2>2, <2>3
<1>6. ASSUME NEW x \in DOMAIN executions, NEW action \in Actions, NEW m \in Amounts,
             NEW fees \in Fees, NEW key \in ClientKeyOptions,
             CorrectExecution(a, x, action, m, fees, key)
      PROVE  Own
  <2> DEFINE original == executions[x]
             reversal == [original EXCEPT !.action = ReverseAction(@), !.key = NoKey]
             replacement == Execution(a, action, m, fees, NoKey)
             y == Len(executions) + 1
             z == Len(executions) + 2
             r == ReversalEvents(y, reversal)
             s == ExecutionEvents(z, replacement)
             t == RefundEvents(x)
  <2>1. executions \in Seq(Executions) /\ original \in Executions /\ original.account = a
    BY <1>6 DEF IInv, TypeOK, CorrectExecution
  <2>2. reversal \in Executions /\ replacement \in Executions
        /\ reversal.account = a /\ replacement.account = a
    <3>1. NoKey \in ClientKeyOptions  BY DEF ClientKeyOptions
    <3>2. ReverseAction(original.action) \in EconomicActions
      BY <2>1, ReversedAction DEF Executions
    <3> QED  BY <2>1, <3>1, <3>2, NewExecutionRow DEF Executions, Execution
  <2>3. /\ \A j \in DOMAIN r : r[j].account = a
        /\ \A j \in DOMAIN s : s[j].account = a
        /\ \A j \in DOMAIN t : t[j].account = a
    <3>1. \A j \in DOMAIN t : t[j].account = a  BY <2>1 DEF RefundEvents, Event
    <3> HIDE DEF t, reversal, replacement
    <3>2. \A j \in DOMAIN r : r[j].account = a  BY <1>4, <2>2
    <3>3. \A j \in DOMAIN s : s[j].account = a  BY <1>4, <2>2
    <3> QED  BY <3>1, <3>2, <3>3
  <2> DEFINE Y == DOMAIN executions \cup {y, z}
  <2>4. r \in Seq(Events(Y)) /\ s \in Seq(Events(Y)) /\ t \in Seq(Events(Y))
    BY <2>2, SettlementRows, RefundRow
  <2>5. events' = events \o ((r \o s) \o t)
    BY <1>6 DEF CorrectExecution, CorrectionEvents
  <2> HIDE DEF r, s, t, Y
  <2>6. r \o s \in Seq(Events(Y)) /\ \A j \in DOMAIN (r \o s) : (r \o s)[j].account = a
    BY <2>3, <2>4, AppendedRows, RowsOfEither
  <2> DEFINE rs == r \o s
  <2>7. rs \in Seq(Events(Y)) /\ \A j \in DOMAIN rs : rs[j].account = a  BY <2>6
  <2> HIDE DEF rs
  <2>8. rs \o t \in Seq(Events(Y)) /\ \A j \in DOMAIN (rs \o t) : (rs \o t)[j].account = a
    BY <2>3, <2>4, <2>7, AppendedRows, RowsOfEither
  <2> QED  BY <2>5, <2>8 DEF rs
<1>7. Own  BY <1>1, <1>2, <1>3, <1>5, <1>6 DEF Operation
<1>11. PICK S : \E t \in Seq(S) : events' = events \o t /\ \A j \in DOMAIN t : t[j].account = a
  BY <1>7
<1>8. PICK t \in Seq(S) : events' = events \o t /\ \A j \in DOMAIN t : t[j].account = a
  BY <1>11
<1> DEFINE U == Events(DOMAIN executions) \cup S
<1>9. events \in Seq(U) /\ t \in Seq(U)
  <2>1. events \in Seq(Events(DOMAIN executions))  BY DEF IInv, TypeOK
  <2>2. Events(DOMAIN executions) \subseteq U /\ S \subseteq U  OBVIOUS
  <2> HIDE DEF U
  <2> QED  BY <1>8, <2>1, <2>2, WiderRows
<1> HIDE DEF U
<1>10. \A n \in DOMAIN (events \o t) :
         \/ n \in DOMAIN events /\ (events \o t)[n] = events[n]
         \/ (events \o t)[n].account = a
  BY <1>8, <1>9, RowsOfEither
<1> QED  BY <1>8, <1>9, <1>10, AppendedRows

\* Rows of other accounts do not move an account's cash.
LEMMA CashOfOthers ==
  ASSUME NEW S, NEW s \in Seq(S), NEW u \in Seq(S), NEW b, DOMAIN s \subseteq DOMAIN u,
         \A n \in DOMAIN s : u[n] = s[n],
         \A n \in DOMAIN u : /\ u[n].amount \in Nat
                             /\ u[n].direction \in {"increase", "decrease", "none"},
         \A n \in DOMAIN u \ DOMAIN s : u[n].account # b
  PROVE  NetCash(b, u) = NetCash(b, s)
<1> DEFINE f == [n \in DOMAIN u |-> IF u[n].account = b
                                     THEN Signed(u[n].direction, u[n].amount) ELSE 0]
           g == [n \in DOMAIN s |-> IF s[n].account = b
                                     THEN Signed(s[n].direction, s[n].amount) ELSE 0]
<1>1. f \in [DOMAIN u -> Int]
  <2>1. \A n \in DOMAIN u : Signed(u[n].direction, u[n].amount) \in Int  BY SignedInt
  <2> QED  BY <2>1
<1>2. IsFiniteSet(DOMAIN u)  BY FS_Interval
<1>3. \A n \in DOMAIN u \ DOMAIN s : f[n] = 0  OBVIOUS
<1>4. Restrict(f, DOMAIN s) = g  BY DEF Restrict
<1>5. NetCash(b, u) = Total(f) /\ NetCash(b, s) = Total(g)  BY DEF NetCash, CashOf
<1> HIDE DEF f, g
<1> QED  BY <1>1, <1>2, <1>3, <1>4, <1>5, TotalOfOthers

\* A persisted row holds the cash of every event of its account and, but for a failed
\* rebuild, the value of its positions; an account without a row has no event.
ProjectionUpToDate ==
  /\ DOMAIN performance = Accounts
  /\ DOMAIN marked = Accounts
  /\ \A a \in Accounts :
       IF performance[a].exists
         THEN /\ performance[a].netCash = NetCash(a, events)
              /\ a \in outdated \/ performance[a].nav = performance[a].netCash + marked[a]
         ELSE \A n \in DOMAIN events : events[n].account # a

\* A rebuild brings its account's row up to date; the others' stay as they were.
LEMMA RebuildUpToDate ==
  ASSUME ProjectionUpToDate, NEW a \in Accounts, NEW v, NEW measure,
         RebuildAccountPerformance(a, events', v, measure),
         DOMAIN marked' = Accounts, marked'[a] = v,
         \A b \in Accounts \ {a} :
           /\ marked'[b] = marked[b]
           /\ NetCash(b, events') = NetCash(b, events)
           /\ (\A n \in DOMAIN events : events[n].account # b)
                => \A n \in DOMAIN events' : events'[n].account # b
  PROVE  ProjectionUpToDate'
<1> DEFINE row == PerformanceRow(a, performance[a], events', v, measure)
<1>1. performance' = [performance EXCEPT ![a] = row] /\ outdated' = outdated \ {a}
  BY DEF RebuildAccountPerformance
<1>2. row.exists /\ row.netCash = NetCash(a, events') /\ row.nav = row.netCash + v
  BY DEF PerformanceRow, ReadAccountCash
<1> HIDE DEF row
<1>3. DOMAIN performance' = Accounts  BY <1>1 DEF ProjectionUpToDate
<1>4. performance'[a] = row  BY <1>1 DEF ProjectionUpToDate
<1>5. \A b \in Accounts \ {a} : performance'[b] = performance[b]
  BY <1>1 DEF ProjectionUpToDate
<1>6. ASSUME NEW b \in Accounts
      PROVE  IF performance'[b].exists
               THEN /\ performance'[b].netCash = NetCash(b, events')
                    /\ \/ b \in outdated'
                       \/ performance'[b].nav = performance'[b].netCash + marked'[b]
               ELSE \A n \in DOMAIN events' : events'[n].account # b
  <2>1. CASE b = a  BY <1>2, <1>4, <2>1
  <2>2. CASE b # a
    <3>1. performance'[b] = performance[b]  BY <1>5, <2>2
    <3>2. b \in outdated => b \in outdated'  BY <1>1, <2>2
    <3> QED  BY <2>2, <3>1, <3>2 DEF ProjectionUpToDate
  <2> QED  BY <2>1, <2>2
<1> QED  BY <1>3, <1>6 DEF ProjectionUpToDate

LEMMA NextKeepsProjection ==
  ASSUME IInv, IInv', ProjectionUpToDate, PerformanceNext \/ UNCHANGED vars
  PROVE  ProjectionUpToDate'
<1>1. ASSUME NEW a \in Accounts, PostAndRebuild(a)  PROVE ProjectionUpToDate'
  <2>1. /\ DOMAIN events \subseteq DOMAIN events'
        /\ \A n \in DOMAIN events : events'[n] = events[n]
        /\ \A n \in DOMAIN events' \ DOMAIN events : events'[n].account = a
    BY <1>1, OperationOnOne DEF PostAndRebuild
  <2>2. DOMAIN marked' = Accounts /\ \A b \in Accounts \ {a} : marked'[b] = marked[b]
    BY <1>1 DEF PostAndRebuild, ProjectionUpToDate
  <2>3. RebuildAccountPerformance(a, events', marked'[a], TRUE)
    BY <1>1 DEF PostAndRebuild
  <2> DEFINE S == Events(DOMAIN executions) \cup Events(DOMAIN executions')
  <2>4. events \in Seq(S) /\ events' \in Seq(S)
        /\ \A n \in DOMAIN events' : events'[n] \in Events(DOMAIN executions')
    BY WiderRows DEF IInv, TypeOK
  <2>5. \A n \in DOMAIN events' : /\ events'[n].amount \in Nat
                                  /\ events'[n].direction \in {"increase", "decrease", "none"}
    BY <2>4 DEF Events
  <2> HIDE DEF S
  <2>6. ASSUME NEW b \in Accounts \ {a}
        PROVE  /\ NetCash(b, events') = NetCash(b, events)
               /\ (\A n \in DOMAIN events : events[n].account # b)
                    => \A n \in DOMAIN events' : events'[n].account # b
    <3>1. \A n \in DOMAIN events' \ DOMAIN events : events'[n].account # b  BY <2>1
    <3> QED  BY <2>1, <2>4, <2>5, <3>1, CashOfOthers
  <2> QED  BY <2>2, <2>3, <2>6, RebuildUpToDate
<1>2. ASSUME NEW a \in Accounts, NEW v \in MarkedValues, RecordMark(a, v)
      PROVE  ProjectionUpToDate'
  <2>1. /\ events' = events /\ marked' = [marked EXCEPT ![a] = v]
        /\ \/ RebuildAccountPerformance(a, events', v, TRUE)
           \/ outdated' = outdated \cup {a} /\ performance' = performance
    BY <1>2 DEF RecordMark, ledgerVars
  <2>2. DOMAIN marked' = Accounts /\ marked'[a] = v
        /\ \A b \in Accounts \ {a} : marked'[b] = marked[b]
    BY <2>1 DEF ProjectionUpToDate
  <2>3. CASE RebuildAccountPerformance(a, events', v, TRUE)
    BY <2>1, <2>2, <2>3, RebuildUpToDate
  <2>4. CASE outdated' = outdated \cup {a} /\ performance' = performance
    BY <2>1, <2>2, <2>4 DEF ProjectionUpToDate, NetCash, CashOf
  <2> QED  BY <2>1, <2>3, <2>4
<1>3. ASSUME NEW a \in Accounts, NEW measure \in BOOLEAN,
             RebuildAccountPerformance(a, events, marked[a], measure),
             events' = events, marked' = marked
      PROVE  ProjectionUpToDate'
  <2>1. RebuildAccountPerformance(a, events', marked[a], measure)  BY <1>3
  <2>2. DOMAIN marked' = Accounts  BY <1>3 DEF ProjectionUpToDate
  <2> QED  BY <1>3, <2>1, <2>2, RebuildUpToDate
<1>4. ASSUME NEW a \in Accounts, CloseAccount(a)  PROVE ProjectionUpToDate'
  BY <1>3, <1>4 DEF CloseAccount, SetActive
<1>5. ASSUME NEW a \in Accounts, NEW measure \in BOOLEAN, RebuildOnRequest(a, measure)
      PROVE  ProjectionUpToDate'
  BY <1>3, <1>5 DEF RebuildOnRequest, ledgerVars
<1>6. ASSUME NEW a \in Accounts, NEW on \in BOOLEAN, SwitchActive(a, on)
      PROVE  ProjectionUpToDate'
  BY <1>6 DEF SwitchActive, SetActive, ProjectionUpToDate, NetCash, CashOf
<1>7. CASE UNCHANGED vars
  BY <1>7 DEF vars, ledgerVars, ProjectionUpToDate, NetCash, CashOf
<1> QED  BY <1>1, <1>2, <1>4, <1>5, <1>6, <1>7 DEF PerformanceNext

\* A deposit's payload is what it paid in; that of its reversal takes it back.
DepositsPaid ==
  \A n \in DOMAIN events : events[n].type = "deposit" =>
    IF n \in Reversals(eventLineage)
      THEN events[n].payload = -events[n].amount
      ELSE events[n].payload = events[n].amount /\ events[n].direction = "increase"

\* Rows an operation appends that are no deposits, or deposits as posted.
PaidRow(e) == e.type = "deposit" => e.payload = e.amount /\ e.direction = "increase"

LEMMA PostedPaid ==
  ASSUME NEW a, NEW type, NEW amount \in RequestedAmounts(type), NEW key
  PROVE  PaidRow(PostedEvent(a, type, amount, key))
<1> SUFFICES ASSUME type = "deposit"
             PROVE  /\ EffectDirection(type, amount) = "increase"
                    /\ Magnitude(amount) = amount
  BY DEF PaidRow, PostedEvent, Event
<1>1. amount \in Nat  BY AmountsAssumption DEF RequestedAmounts
<1> QED  BY <1>1 DEF EffectDirection, CashIncreaseTypes, CashDecreaseTypes, Magnitude

LEMMA SettlementPaid ==
  ASSUME NEW x, NEW row
  PROVE  /\ \A j \in DOMAIN ExecutionEvents(x, row) : PaidRow(ExecutionEvents(x, row)[j])
         /\ \A j \in DOMAIN ReversalEvents(x, row) : PaidRow(ReversalEvents(x, row)[j])
         /\ \A j \in DOMAIN RefundEvents(x) : PaidRow(RefundEvents(x)[j])
BY DEF ExecutionEvents, ReversalEvents, RefundEvents, ConsiderationEvent, FeeEvent, Event,
       PaidRow

LEMMA AppendedPaid ==
  ASSUME IInv, DepositsPaid, NEW S, NEW t \in Seq(S), events \in Seq(S),
         \A j \in DOMAIN t : PaidRow(t[j]), events' = events \o t, UNCHANGED eventLineage
  PROVE  DepositsPaid'
<1> SUFFICES ASSUME NEW n \in DOMAIN events', events'[n].type = "deposit"
             PROVE  IF n \in Reversals(eventLineage)
                      THEN events'[n].payload = -events'[n].amount
                      ELSE events'[n].payload = events'[n].amount
                             /\ events'[n].direction = "increase"
  BY DEF DepositsPaid
<1>1. Reversals(eventLineage) \subseteq DOMAIN events
  BY DEF IInv, TypeOK, LineageOK, Reversals
<1>2. CASE n \in DOMAIN events /\ events'[n] = events[n]
  BY <1>2 DEF DepositsPaid
<1>3. CASE n - Len(events) \in DOMAIN t /\ events'[n] = t[n - Len(events)]
  <2>1. n \notin DOMAIN events  BY <1>3
  <2> QED  BY <1>1, <1>3, <2>1 DEF PaidRow
<1> QED  BY <1>2, <1>3, RowsOfEither

LEMMA CorrectEventPaid ==
  ASSUME IInv, DepositsPaid, NEW a \in Accounts, NEW n \in DOMAIN events,
         NEW amount \in RequestedAmounts(events[n].type), NEW key \in ClientKeyOptions,
         CorrectFinancialEvent(a, n, amount, key)
  PROVE  DepositsPaid'
<1> DEFINE original == events[n]
           reversal == ReversalEvent(original)
           replacement == PostedEvent(a, original.type, amount, NoKey)
           new == <<reversal, replacement>>
           k == Len(events)
           X == DOMAIN executions
           S == Events(X) \cup {reversal, replacement}
<1>1. /\ events' = events \o new
      /\ eventLineage' = eventLineage \cup {Correction(n, k + 1, k + 2, key)}
      /\ n \notin Reversals(eventLineage)
  BY DEF CorrectFinancialEvent, AppendEvents, Correctable, Constituents
<1>2. events \in Seq(Events(X))  BY DEF IInv, TypeOK
<1>3. PaidRow(replacement)  BY PostedPaid
<1>4. reversal.type = "deposit" => reversal.payload = -reversal.amount
  BY <1>1 DEF ReversalEvent, Event, DepositsPaid
<1> HIDE DEF reversal, replacement
<1>5. events \in Seq(S) /\ new \in Seq(S) /\ Len(new) = 2
  <2>1. Events(X) \subseteq S  OBVIOUS
  <2>2. new \in Seq(S) /\ Len(new) = 2  OBVIOUS
  <2> HIDE DEF S
  <2> QED  BY <1>2, <2>1, <2>2, WiderRows
<1>6. new[1] = reversal /\ new[2] = replacement /\ DOMAIN new = {1, 2}  OBVIOUS
<1>7. Reversals(eventLineage') = Reversals(eventLineage) \cup {k + 1}
  <2> DEFINE c == Correction(n, k + 1, k + 2, key)
  <2>1. c.reversal = k + 1  BY DEF Correction
  <2>2. {d.reversal : d \in eventLineage'} = {d.reversal : d \in eventLineage} \cup {c.reversal}
    BY <1>1
  <2> QED  BY <2>1, <2>2 DEF Reversals
<1>8. Reversals(eventLineage) \subseteq DOMAIN events /\ DOMAIN events = 1 .. k /\ k \in Nat
  BY <1>2 DEF IInv, TypeOK, LineageOK, Reversals
<1> HIDE DEF new, S
<1> SUFFICES ASSUME NEW m \in DOMAIN events', events'[m].type = "deposit"
             PROVE  IF m \in Reversals(eventLineage')
                      THEN events'[m].payload = -events'[m].amount
                      ELSE events'[m].payload = events'[m].amount
                             /\ events'[m].direction = "increase"
  BY DEF DepositsPaid
<1>9. CASE m \in DOMAIN events /\ events'[m] = events[m]
  <2>1. m \in Reversals(eventLineage') <=> m \in Reversals(eventLineage)
    BY <1>7, <1>8, <1>9
  <2> QED  BY <1>9, <2>1 DEF DepositsPaid
<1>10. CASE m - k \in DOMAIN new /\ events'[m] = new[m - k]
  <2>1. m \in Int  BY <1>1, <1>5, AppendedRows
  <2>2. CASE m - k = 1
    <3>1. m = k + 1  BY <1>8, <2>1, <2>2
    <3> QED  BY <1>4, <1>6, <1>7, <1>10, <2>2, <3>1
  <2>3. CASE m - k = 2
    <3>1. m = k + 2 /\ m \notin Reversals(eventLineage')  BY <1>7, <1>8, <2>1, <2>3
    <3> QED  BY <1>3, <1>6, <1>10, <2>3, <3>1 DEF PaidRow
  <2> QED  BY <1>6, <1>10, <2>2, <2>3
<1> QED  BY <1>1, <1>5, <1>9, <1>10, RowsOfEither

LEMMA NextKeepsPaid == IInv /\ DepositsPaid /\ [Next]_ledgerVars => DepositsPaid'
<1> SUFFICES ASSUME IInv, DepositsPaid, [Next]_ledgerVars  PROVE DepositsPaid'
  OBVIOUS
<1> USE DEF AppendEvents
<1>0. events \in Seq(Events(DOMAIN executions)) /\ executions \in Seq(Executions)
  BY DEF IInv, TypeOK
<1>1. ASSUME NEW a \in Accounts, NEW amount \in Amounts \cup {0},
             NEW key \in ClientKeyOptions, InitializeAccount(a, amount, key)
      PROVE  DepositsPaid'
  <2> DEFINE row == PostedEvent(a, "opening_balance", amount, key)
             new == IF amount = 0 THEN <<>> ELSE <<row>>
             S == Events(DOMAIN executions) \cup {row}
  <2>1. PaidRow(row)  BY DEF PaidRow, PostedEvent, Event
  <2>2. /\ events \in Seq(S) /\ new \in Seq(S)
        /\ \A j \in DOMAIN new : PaidRow(new[j])
    <3> HIDE DEF row
    <3>1. CASE amount = 0  BY <1>0, <3>1, WiderRows
    <3>2. CASE amount # 0  BY <1>0, <2>1, <3>2, WiderRows
    <3> QED  BY <3>1, <3>2
  <2>3. events' = events \o new /\ UNCHANGED eventLineage  BY <1>1 DEF InitializeAccount
  <2> HIDE DEF new, S
  <2> QED  BY <2>2, <2>3, AppendedPaid
<1>2. ASSUME NEW a \in Accounts, NEW type \in PostableTypes,
             NEW amount \in RequestedAmounts(type), NEW key \in ClientKeyOptions,
             PostEventWithEffect(a, type, amount, key)
      PROVE  DepositsPaid'
  <2> DEFINE row == PostedEvent(a, type, amount, key)
             new == <<row>>
             S == Events(DOMAIN executions) \cup {row}
  <2>1. PaidRow(row)  BY PostedPaid
  <2>2. /\ events \in Seq(S) /\ new \in Seq(S)
        /\ \A j \in DOMAIN new : PaidRow(new[j])
    <3> HIDE DEF row
    <3> QED  BY <1>0, <2>1, WiderRows
  <2>3. events' = events \o new /\ UNCHANGED eventLineage  BY <1>2 DEF PostEventWithEffect
  <2> HIDE DEF new, S
  <2> QED  BY <2>2, <2>3, AppendedPaid
<1>3. ASSUME NEW a \in Accounts, NEW action \in Actions, NEW m \in Amounts, NEW fees \in Fees,
             NEW key \in ClientKeyOptions, PostExecution(a, action, m, fees, key)
      PROVE  DepositsPaid'
  <2> DEFINE row == Execution(a, action, m, fees, key)
             x == Len(executions) + 1
             new == ExecutionEvents(x, row)
             S == Events(DOMAIN executions \cup {x})
  <2>1. row \in Executions  BY NewExecutionRow
  <2>2. new \in Seq(S)  BY <2>1, SettlementRows
  <2>3. events \in Seq(S)
    <3>1. Events(DOMAIN executions) \subseteq S  BY KeysOfMore
    <3> HIDE DEF S
    <3> QED  BY <1>0, <3>1, WiderRows
  <2>4. \A j \in DOMAIN new : PaidRow(new[j])  BY SettlementPaid
  <2>5. events' = events \o new /\ UNCHANGED eventLineage  BY <1>3 DEF PostExecution
  <2> HIDE DEF new, S
  <2> QED  BY <2>2, <2>3, <2>4, <2>5, AppendedPaid
<1>4. ASSUME NEW a \in Accounts, NEW x \in DOMAIN executions, NEW action \in Actions,
             NEW m \in Amounts, NEW fees \in Fees, NEW key \in ClientKeyOptions,
             CorrectExecution(a, x, action, m, fees, key)
      PROVE  DepositsPaid'
  <2> DEFINE original == executions[x]
             reversal == [original EXCEPT !.action = ReverseAction(@), !.key = NoKey]
             replacement == Execution(a, action, m, fees, NoKey)
             y == Len(executions) + 1
             z == Len(executions) + 2
             S == Events(DOMAIN executions \cup {y, z})
             r == ReversalEvents(y, reversal)
             s == ExecutionEvents(z, replacement)
             t == RefundEvents(x)
             rs == r \o s
  <2>1. reversal \in Executions /\ replacement \in Executions
    <3>1. NoKey \in ClientKeyOptions  BY DEF ClientKeyOptions
    <3>2. original \in Executions  BY <1>0
    <3>3. ReverseAction(original.action) \in EconomicActions
      BY <3>2, ReversedAction DEF Executions
    <3> QED  BY <3>1, <3>2, <3>3, NewExecutionRow DEF Executions
  <2>2. r \in Seq(S) /\ s \in Seq(S) /\ t \in Seq(S)
    BY <2>1, SettlementRows, RefundRow
  <2>3. /\ \A j \in DOMAIN r : PaidRow(r[j])
        /\ \A j \in DOMAIN s : PaidRow(s[j])
        /\ \A j \in DOMAIN t : PaidRow(t[j])
    <3> HIDE DEF reversal, replacement
    <3> QED  BY SettlementPaid
  <2>4. events \in Seq(S)
    <3>1. Events(DOMAIN executions) \subseteq S  BY KeysOfMore
    <3> HIDE DEF S
    <3> QED  BY <1>0, <3>1, WiderRows
  <2>5. events' = events \o (rs \o t) /\ UNCHANGED eventLineage
    BY <1>4 DEF CorrectExecution, CorrectionEvents
  <2> HIDE DEF r, s, t, S
  <2>6. rs \in Seq(S) /\ \A j \in DOMAIN rs : PaidRow(rs[j])
    BY <2>2, <2>3, AppendedRows, RowsOfEither
  <2> HIDE DEF rs
  <2> DEFINE new == rs \o t
  <2>7. new \in Seq(S) /\ \A j \in DOMAIN new : PaidRow(new[j])
    BY <2>2, <2>3, <2>6, AppendedRows, RowsOfEither
  <2>8. events' = events \o new  BY <2>5
  <2> HIDE DEF new
  <2> QED  BY <2>4, <2>5, <2>7, <2>8, AppendedPaid
<1>5. ASSUME NEW a \in Accounts, Operation(a)  PROVE DepositsPaid'
  BY <1>1, <1>2, <1>3, <1>4, <1>5, CorrectEventPaid DEF Operation
<1>6. ASSUME NEW a \in Accounts, NEW on \in BOOLEAN, SetActive(a, on)  PROVE DepositsPaid'
  BY <1>6 DEF SetActive, DepositsPaid
<1>7. CASE UNCHANGED ledgerVars
  BY <1>7 DEF ledgerVars, DepositsPaid
<1> QED  BY <1>5, <1>6, <1>7 DEF Next

\* In every state where deposits are booked so, the flows are the effective ones.
LEMMA EffectiveDeposits == IInv /\ DepositsPaid => DepositFlowsAreEffective
<1> SUFFICES ASSUME IInv, DepositsPaid, NEW a \in Accounts
             PROVE  CashFlows(a, events, "deposit") = EffectiveFlows(a, "deposit")
  BY DEF DepositFlowsAreEffective
<1> DEFINE N == DOMAIN events
           f == [n \in N |-> IF events[n].account = a /\ events[n].type = "deposit"
                               THEN events[n].payload ELSE 0]
           g == [n \in EffectiveEvents |->
                   IF events[n].account = a /\ events[n].type = "deposit"
                     THEN events[n].amount ELSE 0]
<1>1. /\ events \in Seq(Events(DOMAIN executions)) /\ LineageOK(eventLineage, events)
      /\ CorrectedOnceIn(eventLineage)
  BY DEF IInv, TypeOK, CorrectedOnce
<1>2. \A n \in N : events[n].payload \in Int /\ events[n].amount \in Nat
  <2>1. \A n \in N : events[n] \in Events(DOMAIN executions)  BY <1>1
  <2> QED  BY <2>1 DEF Events
<1>3. f \in [N -> Int]  BY <1>2
<1>4. \A c \in eventLineage : f[c.reversal] = -f[c.original]
  <2> SUFFICES ASSUME NEW c \in eventLineage PROVE f[c.reversal] = -f[c.original]  OBVIOUS
  <2>1. c.original \in N /\ c.reversal \in N  BY <1>1 DEF LineageOK
  <2>2. EventsCancel(events, c.original, c.reversal)  BY DEF IInv, ReversalsCancel
  <2>3. c.reversal \in Reversals(eventLineage) /\ c.original \notin Reversals(eventLineage)
    BY <1>1 DEF CorrectedOnceIn, Reversals, Constituents
  <2> DEFINE o == events[c.original]
             r == events[c.reversal]
  <2>4. r.account = o.account /\ r.type = o.type /\ r.amount = o.amount
    BY <2>2 DEF EventsCancel
  <2>5. o.type = "deposit" => o.payload = o.amount /\ r.payload = -r.amount
    BY <2>1, <2>3, <2>4 DEF DepositsPaid
  <2>6. o.amount \in Nat  BY <1>2, <2>1
  <2>7. /\ f[c.original] = IF o.account = a /\ o.type = "deposit" THEN o.payload ELSE 0
        /\ f[c.reversal] = IF r.account = a /\ r.type = "deposit" THEN r.payload ELSE 0
    BY <2>1
  <2> HIDE DEF f, o, r
  <2> QED  BY <2>4, <2>5, <2>6, <2>7
<1>5. Restrict(f, EffectiveEvents) = g
  <2>1. \A n \in EffectiveEvents : n \in N /\ n \notin Reversals(eventLineage)
    BY DEF EffectiveEvents, Superseded
  <2>2. \A n \in EffectiveEvents : events[n].type = "deposit" => events[n].payload = events[n].amount
    BY <2>1 DEF DepositsPaid
  <2>3. \A n \in EffectiveEvents : f[n] = g[n]  BY <2>1, <2>2
  <2> QED  BY <2>3 DEF Restrict
<1>6. CashFlows(a, events, "deposit") = Total(f) /\ EffectiveFlows(a, "deposit") = Total(g)
  BY DEF CashFlows, EffectiveFlows
<1> HIDE DEF f, g
<1>7. Total(f) = Total(Restrict(f, N \ Superseded(eventLineage)))
  BY <1>1, <1>3, <1>4, PairsCancel
<1> QED  BY <1>5, <1>6, <1>7 DEF EffectiveEvents

\* The ledger beside the projection is the ledger: no rebuild, mark or closing
\* writes a row of it that its own operations would not.
THEOREM PerformanceKeepsLedger == PerformanceSpec => LedgerSpec
<1>1. PerformanceInit => Init  BY DEF PerformanceInit
<1>2. [PerformanceNext]_vars => [Next]_ledgerVars  BY PerformanceStep
<1> QED  BY <1>1, <1>2, PTL DEF PerformanceSpec, LedgerSpec

\* Whatever is posted, corrected, marked or closed, the persisted cash and NAV are
\* those of the events that count.
THEOREM ProjectionIsCurrent == PerformanceSpec => []ProjectionMatchesEffectiveEvents
<1>1. PerformanceInit => ProjectionUpToDate
  BY DEF PerformanceInit, Init, ProjectionUpToDate, NoRow
<1>2. IInv /\ IInv' /\ ProjectionUpToDate /\ [PerformanceNext]_vars => ProjectionUpToDate'
  BY NextKeepsProjection
<1>3. IInv /\ ProjectionUpToDate => ProjectionMatchesEffectiveEvents
  BY EffectiveCash
     DEF ProjectionUpToDate, ProjectionMatchesEffectiveEvents, CashIsEffectiveCash, EffectiveEvents
<1>4. PerformanceSpec => []IInv  BY PerformanceKeepsLedger, IInvHolds, PTL
<1> QED  BY <1>1, <1>2, <1>3, <1>4, PTL DEF PerformanceSpec

\* A corrected deposit counts once in the cash flows, at its corrected amount.
THEOREM DepositsCountOnce == PerformanceSpec => []DepositFlowsAreEffective
<1>1. Init => DepositsPaid  BY DEF Init, DepositsPaid
<1>2. LedgerSpec => []DepositsPaid
  BY <1>1, IInvHolds, NextKeepsPaid, PTL DEF LedgerSpec
<1> QED  BY <1>2, IInvHolds, PerformanceKeepsLedger, EffectiveDeposits, PTL
=============================================================================
