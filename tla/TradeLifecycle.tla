---------------------------- MODULE TradeLifecycle ----------------------------
(***************************************************************************)
(* Journal trades beside the accounting rows they produce: one account,    *)
(* trades of one symbol in it, and executions that may belong to no trade. *)
(*   PlanTrade              POST   /api/trades                             *)
(*                          POST   /api/watchlist/[id]/promote             *)
(*   PostTradeFill          POST   /api/trades/[id]/executions, /execute   *)
(*   PostAccountExecution   POST   /api/accounts/[id]/executions           *)
(*   CorrectTradeExecution  POST   /api/trades/.../correct                 *)
(*   CorrectAccountExecution POST  /api/accounts/.../correct               *)
(*   EditJournalExecution, DeleteJournalExecution                          *)
(*                          PUT, DELETE /api/trades/[id]/executions/[execId]*)
(*   ScratchTrade           DELETE /api/trades/[id]                        *)
(*   GradeTrade, ReviewTrade, ReopenReview, SetActive                      *)
(*                                                                         *)
(* A fill carries a side and a quantity; prices, fees, cash and lots are   *)
(* PositionBook's and Ledger's.  The replay that may reject an operation   *)
(* is reduced to the net position it walks through (NetPositions).  The    *)
(* readiness gate is reduced to the account being active.                  *)
(***************************************************************************)
EXTENDS ExecutionStream, ExecutionActions, Totals, FiniteSets, SequencesExt

CONSTANTS
  Trades,          \* trades that may be planned
  ShortTrades,     \* those of them that are short
  NoTrade,         \* journal_trade_id of an execution that belongs to none
  Actions,         \* actions of the requests
  Quantities,      \* quantities of the fills
  FillTimes,       \* posted_at of a trade's fill, in milliseconds
  AccountTimes,    \* posted_at of an account execution
  RequestedTimes,  \* posted_at a correction asks for; 0 when it asks for none
  MaxRows,         \* bound on the rows of accounting_executions
  MaxBypassed      \* bound on the trades changed behind their routes

ASSUME ShortTradesAssumption == ShortTrades \subseteq Trades
ASSUME NoTradeAssumption == NoTrade \notin Trades
ASSUME ActionsAssumption == Actions \subseteq JournalActions
ASSUME QuantitiesAssumption == Quantities \subseteq Nat \ {0}
ASSUME TimesAssumption ==
  FillTimes \subseteq Nat /\ AccountTimes \subseteq Nat /\ RequestedTimes \subseteq Nat
ASSUME BoundsAssumption == MaxRows \in Nat /\ MaxBypassed \in Nat

VARIABLES
  active,          \* the account's is_active
  trades,          \* [Trades -> trades row with its grade, review and snapshot]
  journal,         \* trade_executions, each naming the accounting row it made
  executions,      \* accounting_executions, in insertion order
  lineage,         \* correction_lineage
  stale,           \* a crash left the inactive account the settings' default
  bypassed         \* history: trades some other route changed the fills of

vars == <<active, stale, trades, journal, executions, lineage, bypassed>>
-----------------------------------------------------------------------------
Direction(t) == IF t \in ShortTrades THEN "short" ELSE "long"

Existing == {t \in Trades : trades[t].status # "absent"}

Fill(row, id) ==
  [id |-> id, action |-> row.action, quantity |-> row.quantity, postedAt |-> row.postedAt]

\* The fills of a trade that count: linked to it and neither corrected nor a
\* reversal (resolveEffectiveExecutions).
EffectiveFills(rows, corrections, t) ==
  {Fill(rows[i], i) :
     i \in {i \in DOMAIN rows : rows[i].trade = t /\ i \notin Superseded(corrections)}}

\* The same fills as the journal tells them, uncorrected.
JournalFills(entries, t) == {j \in entries : j.trade = t}

QuantityOf(fills) == Total([f \in fills |-> f.quantity])

Entered(fills, direction) == QuantityOf({f \in fills : IsEntry(f.action, direction)})
Exited(fills, direction)  == QuantityOf({f \in fills : IsExit(f.action, direction)})

OpenQuantity(fills, direction) ==
  LET open == Entered(fills, direction) - Exited(fills, direction)
  IN IF open > 0 THEN open ELSE 0

DeriveStatus(fills, direction) ==
  CASE Entered(fills, direction) = 0 -> "planned"
    [] Entered(fills, direction) > Exited(fills, direction) -> "open"
    [] OTHER -> "closed"

\* resolveFirstEntry goes by the row's own posted_at, and by random ids among
\* equals; 0 stands for no entry at all.
FirstEntryIds(fills, direction) ==
  LET entries == {f \in fills : IsEntry(f.action, direction)}
  IN IF entries = {} THEN {0}
     ELSE {f.id : f \in {f \in entries : \A g \in entries : f.postedAt <= g.postedAt}}
-----------------------------------------------------------------------------
(* The replay every operation must survive, walked as a net position.        *)

FillFits(fill, net) ==
  CASE fill.action = "buy"          -> net >= 0
    [] fill.action = "sell_short"   -> net <= 0
    [] fill.action = "sell"         -> net >= fill.quantity
    [] fill.action = "buy_to_cover" -> -net >= fill.quantity

Walk(rows, corrections) ==
  FoldLeft(LAMBDA acc, i :
             [net      |-> acc.net + SignedQuantity(rows[i].action, rows[i].quantity),
              accepted |-> acc.accepted /\ FillFits(rows[i], acc.net)],
           [net |-> 0, accepted |-> TRUE],
           StreamIds(rows, corrections, LAMBDA i : TRUE))

CanRebuild(rows, corrections) == Walk(rows, corrections).accepted

NetPosition == Walk(executions, lineage).net
-----------------------------------------------------------------------------
NotReviewed == [done |-> FALSE, fills |-> {}]

Absent == [status |-> "absent", graded |-> FALSE, reviewed |-> NotReviewed, snapshot |-> 0]

Row(trade, source, action, quantity, at) ==
  [trade |-> trade, source |-> source, action |-> action, quantity |-> quantity,
   postedAt |-> at]

Init ==
  /\ active = FALSE
  /\ stale = FALSE
  /\ trades = [t \in Trades |-> Absent]
  /\ journal = {}
  /\ executions = <<>>
  /\ lineage = {}
  /\ bypassed = {}

\* The bound leaves room for n rows more.
Room(n) == Len(executions) + n <= MaxRows

\* Append the rows of one operation, or roll it back.
AppendExecutions(rows, corrections) ==
  /\ CanRebuild(executions \o rows, corrections)
  /\ executions' = executions \o rows
  /\ lineage' = corrections

\* Note the trades an operation changes the fills of without their own routes.
Bypass(ts) ==
  /\ Cardinality(bypassed \cup ts) <= MaxBypassed
  /\ bypassed' = bypassed \cup ts

\* Planned by hand in an active account, or promoted from the watchlist into the
\* default account as it is.
PlanTrade(t) ==
  /\ trades[t].status = "absent"
  /\ active \/ stale
  /\ trades' = [trades EXCEPT ![t].status = "planned"]
  /\ UNCHANGED <<active, stale, journal, executions, lineage, bypassed>>

\* Mutation of FillsAfter: the new state is derived from the journal.
FillsAfterInJournal(t, fill) ==
  JournalFills(journal, t) \cup {fill}

\* What the state of a trade is derived from once a fill is added.
FillsAfter(t, fill) == EffectiveFills(executions, lineage, t) \cup {fill}

\* Mutation of Closable: what the account could close.
ClosableInAccount(t) == IF NetPosition > 0 THEN NetPosition ELSE -NetPosition

\* What an exit of the trade may close.
Closable(t) == OpenQuantity(EffectiveFills(executions, lineage, t), Direction(t))

PostTradeFill(t, action, quantity, at) ==
  LET direction == Direction(t)
      concrete  == ResolveEconomicExecutionAction(action, direction)
      id        == Len(executions) + 1
      row       == Row(t, "fill", concrete, quantity, at)
      fills     == FillsAfter(t, Fill(row, id))
  IN /\ trades[t].status \in {"planned", "open"}
     /\ Resolvable(action, direction)
     /\ action \in GenericActions => trades[t].status = "open"
     /\ IsExit(concrete, direction) => quantity <= Closable(t)
     /\ active
     /\ Room(1)
     /\ AppendExecutions(<<row>>, lineage)
     /\ journal' = journal \cup
          {[id |-> id, trade |-> t, action |-> concrete, quantity |-> quantity]}
     /\ trades' = [trades EXCEPT
          ![t].status = DeriveStatus(fills, direction),
          ![t].snapshot = IF @ = 0 THEN Entered(fills, direction) ELSE @]
     /\ UNCHANGED <<active, stale, bypassed>>

\* An account execution may name a trade, "attribution only": the trade's row is
\* left as it is.
PostAccountExecution(link, action, quantity, at) ==
  LET net      == NetPosition
      side     == IF net > 0 THEN "long" ELSE "short"
      concrete == IF action \in GenericActions
                    THEN ResolveEconomicExecutionAction(action, side) ELSE action
  IN /\ active
     /\ Room(1)
     /\ Bypass({link} \ {NoTrade})
     /\ action \in GenericActions => net # 0
     /\ FillFits([action |-> concrete, quantity |-> quantity], net)
     /\ AppendExecutions(<<Row(link, "account", concrete, quantity, at)>>, lineage)
     /\ UNCHANGED <<active, stale, trades, journal>>

\* correctExecution, as both routes call it: the original's action and the new one
\* are resolved against the direction of the linked trade, and must be concrete
\* without one.
Correct(x, action, quantity, requested) ==
  LET original == executions[x]
      concrete == IF original.trade = NoTrade THEN action
                  ELSE ResolveEconomicExecutionAction(action, Direction(original.trade))
      at       == IF requested > original.postedAt THEN requested ELSE original.postedAt + 1
      new      == Len(executions)
  IN /\ Room(2)
     /\ IF original.trade = NoTrade THEN action \in EconomicActions
        ELSE /\ Resolvable(original.action, Direction(original.trade))
             /\ Resolvable(action, Direction(original.trade))
     /\ x \notin Constituents(lineage) \cup {c.original : c \in lineage}
     /\ AppendExecutions(
          <<Row(original.trade, "correction", ReverseAction(original.action),
                original.quantity, at),
            Row(original.trade, "correction", concrete, quantity, at + 1)>>,
          lineage \cup {[original |-> x, reversal |-> new + 1, replacement |-> new + 2]})

\* Mutation of CorrectedTrade: a review survives the correction.
CorrectedTradeStillReviewed(row, fills, direction, repaired) ==
  [row EXCEPT !.status = DeriveStatus(fills, direction), !.snapshot = repaired]

\* The trade row after a correction of one of its fills.
CorrectedTrade(row, fills, direction, repaired) ==
  [row EXCEPT !.status = DeriveStatus(fills, direction), !.reviewed = NotReviewed,
              !.snapshot = repaired]

\* The execution is found by the key its fill was posted under, whatever the
\* status of the trade.  The risk snapshot is retaken from the replacement when
\* the first entry is corrected into another entry.
CorrectTradeExecution(t, x, action, quantity, requested) ==
  LET direction == Direction(t)
      before    == EffectiveFills(executions, lineage, t)
  IN /\ executions[x].trade = t
     /\ executions[x].source = "fill"
     /\ Correct(x, action, quantity, requested)
     /\ \E first \in FirstEntryIds(before, direction) :
          LET retake == /\ first = x
                        /\ trades[t].snapshot # 0
                        /\ IsEntry(ResolveEconomicExecutionAction(action, direction), direction)
          IN trades' = [trades EXCEPT ![t] =
               CorrectedTrade(@, EffectiveFills(executions', lineage', t), direction,
                              IF retake THEN quantity ELSE @.snapshot)]
     /\ UNCHANGED <<active, stale, journal, bypassed>>

CorrectAccountExecution(x, action, quantity, requested) ==
  /\ Correct(x, action, quantity, requested)
  /\ Bypass({executions[x].trade} \ {NoTrade})
  /\ UNCHANGED <<active, stale, trades, journal>>

\* Journal rows of a planned trade may be edited and deleted; the status then
\* comes from the journal.  A delete does not look at the row's trade.
RewriteJournal(t, old, new) ==
  /\ trades[t].status = "planned"
  /\ journal' = (journal \ {old}) \cup new
  /\ trades' = [trades EXCEPT ![t].status =
       DeriveStatus(JournalFills((journal \ {old}) \cup new, t), Direction(t))]
  /\ Bypass({t, old.trade})
  /\ UNCHANGED <<active, stale, executions, lineage>>

\* Any action may be written, add and reduce for the side they mean.
EditJournalExecution(t, old, action, quantity) ==
  LET concrete == IF action \in GenericActions
                    THEN ResolveEconomicExecutionAction(action, Direction(t)) ELSE action
  IN /\ old.trade = t
     /\ RewriteJournal(t, old, {[old EXCEPT !.action = concrete, !.quantity = quantity]})

DeleteJournalExecution(t, old) == RewriteJournal(t, old, {})

ScratchTrade(t) ==
  /\ trades[t].status = "planned"
  /\ trades' = [trades EXCEPT ![t].status = "deleted"]
  /\ UNCHANGED <<active, stale, journal, executions, lineage, bypassed>>

\* A grade may be given to a trade in any state; giving one reopens its review.
GradeTrade(t) ==
  /\ t \in Existing
  /\ trades' = [trades EXCEPT ![t].graded = TRUE, ![t].reviewed = NotReviewed]
  /\ UNCHANGED <<active, stale, journal, executions, lineage, bypassed>>

\* `fills` remembers what was reviewed.
ReviewTrade(t) ==
  /\ trades[t].status = "closed"
  /\ trades[t].graded
  /\ trades' = [trades EXCEPT ![t].reviewed =
       [done |-> TRUE, fills |-> EffectiveFills(executions, lineage, t)]]
  /\ UNCHANGED <<active, stale, journal, executions, lineage, bypassed>>

ReopenReview(t) ==
  /\ trades[t].status = "closed"
  /\ trades' = [trades EXCEPT ![t].reviewed = NotReviewed]
  /\ UNCHANGED <<active, stale, journal, executions, lineage, bypassed>>

\* Mutation of MaySwitch: only trades with status open stand in the way.
MaySwitchUnlessOpen == \A t \in Trades : trades[t].status # "open"

\* canDeactivateAccount and canReactivateAccount alike.
MaySwitch == \A t \in Existing : trades[t].status = "closed"

\* Deactivation clears the default account in a second statement, which a crash
\* between the two leaves out.
SetActive(on) ==
  /\ MaySwitch
  /\ active' = on
  /\ stale' \in {FALSE, ~on /\ (active \/ stale)}
  /\ UNCHANGED <<trades, journal, executions, lineage, bypassed>>

Next ==
  \/ \E t \in Trades : PlanTrade(t) \/ ScratchTrade(t) \/ GradeTrade(t)
                         \/ ReviewTrade(t) \/ ReopenReview(t)
  \/ \E on \in BOOLEAN : SetActive(on)
  \/ \E action \in Actions, q \in Quantities :
       \/ \E t \in Trades, at \in FillTimes : PostTradeFill(t, action, q, at)
       \/ \E link \in Existing \cup {NoTrade}, at \in AccountTimes :
            PostAccountExecution(link, action, q, at)
       \/ \E x \in DOMAIN executions, at \in RequestedTimes :
            \/ \E t \in Trades : CorrectTradeExecution(t, x, action, q, at)
            \/ CorrectAccountExecution(x, action, q, at)
       \/ \E t \in Trades, j \in journal : EditJournalExecution(t, j, action, q)
  \/ \E t \in Trades, j \in journal : DeleteJournalExecution(t, j)

Spec == Init /\ [][Next]_vars
-----------------------------------------------------------------------------
(* Properties *)

Statuses == {"absent", "planned", "open", "closed", "deleted"}

Rows ==
  [trade : Trades \cup {NoTrade}, source : {"fill", "account", "correction"},
   action : EconomicActions, quantity : Nat \ {0}, postedAt : Nat]

\* The columns of a trade fit together: only a graded, closed trade is reviewed,
\* and a review always says what was reviewed.
TradeOK(t) ==
  /\ trades[t].status \in Statuses
  /\ trades[t].snapshot \in Nat
  /\ trades[t].reviewed.done => trades[t].graded /\ trades[t].status = "closed"
  /\ ~trades[t].reviewed.done => trades[t].reviewed.fills = {}

\* Every row is one the schema admits and refers to rows that exist, and review
\* columns agree with the status whichever route changed the trade last.
TypeOK ==
  /\ active \in BOOLEAN
  /\ stale \in BOOLEAN
  /\ \A t \in Trades : TradeOK(t)
  /\ executions \in Seq(Rows)
  /\ \A i \in DOMAIN executions : executions[i].trade \in Existing \cup {NoTrade}
  /\ journal \subseteq [id : DOMAIN executions, trade : Existing,
                         action : EconomicActions, quantity : Nat \ {0}]
  /\ \A j \in journal : executions[j.id].trade = j.trade
  /\ \A c \in lineage :
       /\ {c.original, c.reversal, c.replacement} \subseteq DOMAIN executions
       /\ executions[c.original].trade = executions[c.replacement].trade
  /\ bypassed \subseteq Existing

FillsOf(t) == EffectiveFills(executions, lineage, t)

\* As long as its own routes alone touch it, a trade has the status its effective
\* fills give it, through any mix of fills and corrections of this and other
\* trades (executeTradeFill step b, the correction route step 4b).
StatusMatchesFills ==
  \A t \in Existing \ bypassed :
    trades[t].status # "deleted" =>
      trades[t].status = DeriveStatus(FillsOf(t), Direction(t))

\* A review stands for the fills it was made of: whatever changes them through
\* the trade's routes withdraws it (correction route, step 4d).
ReviewIsOfTheseFills ==
  \A t \in Trades \ bypassed :
    trades[t].reviewed.done => trades[t].reviewed.fills = FillsOf(t)

Corrected(t) == \E c \in lineage : executions[c.original].trade = t

\* Without corrections a trade never exits more than it entered, however many
\* shares the other trades of the account hold (over-close guard on the
\* trade's own effective fills).
TradesCloseOnlyThemselves ==
  \A t \in Trades \ bypassed :
    ~Corrected(t) =>
      Exited(FillsOf(t), Direction(t)) <= Entered(FillsOf(t), Direction(t))

\* In an inactive account nothing is planned or open, unless a correction of an
\* old fill reopened it (canDeactivateAccount, activity guard), or it was promoted
\* after a crash left the account the default; what was so promoted is never filled.
InactiveAccountsAreWoundDown ==
  ~active => \A t \in Existing :
    \/ trades[t].status = "closed"
    \/ Corrected(t)
    \/ stale /\ trades[t].status \in {"planned", "deleted"}

\* A correction of a fill that belongs to a trade rebuilds the trade's state, as
\* docs/requirements/Trading Workflow.md line 1998 has it.
CorrectionsRebuildTheTrade ==
  [][\A t \in Trades :
       LET fills == EffectiveFills(executions', lineage', t) IN
       lineage' # lineage /\ fills # FillsOf(t) =>
         trades'[t].status = DeriveStatus(fills, Direction(t))]_vars

\* The journal keeps the row of every fill of a trade past planning, as the
\* guard comment of the journal execution route has it.
FillsStayJournaled ==
  \A i \in DOMAIN executions :
    executions[i].source = "fill" /\ trades[executions[i].trade].status # "planned" =>
      \E j \in journal : j.id = i

\* A deactivated account carries no market exposure, as the closure guard's
\* comment has it.
InactiveAccountsCarryNoExposure == ~active => NetPosition = 0
=============================================================================
