---------------------------- MODULE MCMaintenance ----------------------------
EXTENDS Maintenance

MCTransactionCash == [t1 |-> 300, t2 |-> -50]
MCImportable == {"t1"}

Journal(direction, action, fees, valid) ==
  [direction |-> direction, action |-> action, gross |-> 100, fees |-> fees, valid |-> valid]

\* A short trade's row under an alias, one that cannot be resolved, one invalid.
MCJournals ==
  {<<Journal("short", "add", 3, TRUE)>>, <<Journal("long", "sell_short", 0, TRUE)>>,
   <<Journal("long", "buy", 3, FALSE)>>}

\* An alias row as older releases recorded it: without the fee event, and its
\* consideration directed by the raw action.
OldAlias(direction, action, fees, keyed) ==
  [Fill(direction, "buy", 100, fees, NoKey) EXCEPT
     !.action = action, !.stored = RecordedDirection(action), !.keyed = keyed]

\* A row of the older journal sync, without any event.
OldSync(action, fees, j) ==
  [Fill("long", action, 70, fees, EngineKey(j)) EXCEPT !.stored = "none", !.keyed = FALSE]

MCHistories ==
  {<<>>,
   <<OldAlias("short", "add", 3, FALSE), OldAlias("short", "reduce", 0, FALSE)>>,
   <<OldAlias("long", "add", 3, FALSE), OldAlias("none", "reduce", 3, FALSE)>>,
   <<OldAlias("short", "reduce", 3, TRUE), OldSync("buy", 3, 9)>>}
=============================================================================
