------------------------- MODULE AccountPerformance -------------------------
(***************************************************************************)
(* The account_performance projection beside the ledger: every operation   *)
(* that posts rebuilds it in the same transaction                          *)
(* (rebuildAccountPerformance, src/lib/performance/performance-rebuild.ts).*)
(*                                                                         *)
(* What the open positions are worth at the latest marks is data of the    *)
(* market and of PositionBook; here a fill or a mark sets it to any value. *)
(* All activity falls in one day, where a cash flow has no time weight and *)
(* the Modified Dietz return is the gain over the starting NAV.            *)
(***************************************************************************)
EXTENDS Ledger

CONSTANT MarkedValues   \* what the open positions may be worth

ASSUME MarkedValuesAssumption == MarkedValues \subseteq Int /\ 0 \in MarkedValues

VARIABLES
  marked,        \* [Accounts -> value of the open positions]
  performance,   \* [Accounts -> account_performance row]
  peak,          \* history: the highest NAV a rebuild ever computed
  outdated       \* history: accounts with a mark whose rebuild failed, and none since

vars == <<ledgerVars, marked, performance, peak, outdated>>

\* `measured` is FALSE in a row rebuilt with includePerformance = false, whose
\* return and high-water mark are null.
NoRow == [exists |-> FALSE, nav |-> 0, netCash |-> 0, measured |-> FALSE,
          gain |-> 0, highWaterMark |-> 0]
-----------------------------------------------------------------------------
\* readCashFlows: the payload amounts of deposits and withdrawals, all of them.
CashFlows(a, rows, type) ==
  Total([n \in DOMAIN rows |->
    IF rows[n].account = a /\ rows[n].type = type THEN rows[n].payload ELSE 0])

NetCashFlow(a, rows) == CashFlows(a, rows, "deposit") - CashFlows(a, rows, "withdrawal")

\* Mutation of ReadAccountCash: opening funding is summed from debit postings.
ReadAccountCashFromPostings(a, rows) ==
  Total([n \in DOMAIN rows |->
    IF rows[n].account # a THEN 0
    ELSE IF rows[n].type = "opening_balance" THEN rows[n].amount
    ELSE Signed(rows[n].direction, rows[n].amount)])

\* Opening balances and later events alike by their signed cash effect.
ReadAccountCash(a, rows) == NetCash(a, rows)

\* The row over `previous` from the events and the value of the positions.
PerformanceRow(a, previous, rows, value, measure) ==
  LET cash  == ReadAccountCash(a, rows)
      nav   == cash + value
      start == IF previous.exists THEN previous.nav ELSE cash
  IN [exists |-> TRUE, nav |-> nav, netCash |-> cash, measured |-> measure,
      gain |-> IF measure THEN nav - start - NetCashFlow(a, rows) ELSE 0,
      highWaterMark |-> IF ~measure THEN 0 ELSE IF nav > start THEN nav ELSE start]

\* Upsert the row of `a` from the tables as the step leaves them.
RebuildAccountPerformance(a, rows, value, measure) ==
  LET row == PerformanceRow(a, performance[a], rows, value, measure) IN
  /\ performance' = [performance EXCEPT ![a] = row]
  /\ peak' = [peak EXCEPT ![a] =
       IF performance[a].exists /\ @ > row.nav THEN @ ELSE row.nav]
  /\ outdated' = outdated \ {a}

PerformanceInit ==
  /\ Init
  /\ marked = [a \in Accounts |-> 0]
  /\ performance = [a \in Accounts |-> NoRow]
  /\ peak = [a \in Accounts |-> 0]
  /\ outdated = {}

\* A posting operation of the ledger with the rebuild inside its transaction;
\* one that trades also changes what the positions are worth.
PostAndRebuild(a) ==
  /\ Operation(a)
  /\ \/ executions' = executions /\ marked' = marked
     \/ /\ executions' # executions
        /\ \E v \in MarkedValues : marked' = [marked EXCEPT ![a] = v]
  /\ RebuildAccountPerformance(a, events', marked'[a], TRUE)

\* POST /api/accounts/[id]/valuations: a mark revalues what is held.  The mark is
\* stored before the rebuild, in no transaction with it, and stays when that fails.
RecordMark(a, v) ==
  /\ \E x \in DOMAIN executions : executions[x].account = a
  /\ marked' = [marked EXCEPT ![a] = v]
  /\ \/ RebuildAccountPerformance(a, events, v, TRUE)
     \/ outdated' = outdated \cup {a} /\ UNCHANGED <<performance, peak>>
  /\ UNCHANGED ledgerVars

\* POST /api/accounts/[id]/performance: a rebuild on request.
RebuildOnRequest(a, measure) ==
  /\ RebuildAccountPerformance(a, events, marked[a], measure)
  /\ UNCHANGED <<ledgerVars, marked>>

\* PUT isActive does not rebuild.
SwitchActive(a, on) ==
  /\ SetActive(a, on)
  /\ UNCHANGED <<marked, performance, peak, outdated>>

\* POST /api/accounts/[id]/close deactivates once a rebuild has succeeded.
\* Its open-trade guard is TradeLifecycle's.
CloseAccount(a) ==
  /\ active[a]
  /\ RebuildAccountPerformance(a, events, marked[a], TRUE)
  /\ SetActive(a, FALSE)
  /\ UNCHANGED marked

PerformanceNext ==
  \/ \E a \in Accounts : PostAndRebuild(a) \/ CloseAccount(a)
  \/ \E a \in Accounts, v \in MarkedValues : RecordMark(a, v)
  \/ \E a \in Accounts, measure \in BOOLEAN : RebuildOnRequest(a, measure)
  \/ \E a \in Accounts, on \in BOOLEAN : SwitchActive(a, on)

PerformanceSpec == PerformanceInit /\ [][PerformanceNext]_vars
-----------------------------------------------------------------------------
(* Properties *)

EffectiveEvents == DOMAIN events \ Superseded(eventLineage)

\* What the events of a type that still count moved.
EffectiveFlows(a, type) ==
  Total([n \in EffectiveEvents |->
    IF events[n].account = a /\ events[n].type = type THEN events[n].amount ELSE 0])

\* The persisted cash is that of the events that still count, whatever was corrected,
\* opening balances included, and the NAV adds what the positions are worth: no
\* committed operation leaves a stale row (readAccountCash, rebuildOpeningCash), but
\* for a mark whose rebuild failed, whose NAV waits for the next rebuild.
ProjectionMatchesEffectiveEvents ==
  \A a \in Accounts :
    IF performance[a].exists
      THEN /\ performance[a].netCash = CashOf(a, events, EffectiveEvents)
           /\ a \in outdated \/ performance[a].nav = performance[a].netCash + marked[a]
      ELSE \A n \in DOMAIN events : events[n].account # a

\* The deposits the return is measured against are the deposits that still
\* count: a corrected deposit is counted once, at its corrected amount
\* (readCashFlows over reversal and replacement payloads).
DepositFlowsAreEffective ==
  \A a \in Accounts :
    CashFlows(a, events, "deposit") = EffectiveFlows(a, "deposit")

\* The same of withdrawals, which the performance module excludes from profit
\* (performance.ts lines 13-14): what is taken for money paid out is what the
\* withdrawals that still count paid out.
WithdrawalFlowsAreEffective ==
  \A a \in Accounts :
    CashFlows(a, events, "withdrawal") = EffectiveFlows(a, "withdrawal")

\* The high-water mark is the maximum NAV observed (types.ts line 237).
HighWaterMarkIsPeak ==
  \A a \in Accounts :
    performance[a].measured => performance[a].highWaterMark = peak[a]

\* Money paid in or out is not a gain: an account that never traded, and has
\* nothing but opening balances, deposits and withdrawals, none corrected,
\* gained nothing.
CashFlowsAreNoGain ==
  \A a \in Accounts :
    (/\ \A n \in DOMAIN events : events[n].type \in {"opening_balance", "deposit", "withdrawal"}
     /\ executions = <<>>
     /\ eventLineage = {}) => performance[a].gain = 0
=============================================================================
