---------------------------- MODULE Maintenance ----------------------------
(***************************************************************************)
(* The operator's maintenance of one account's accounting record: the      *)
(* legacy import, the three repairs of rows older releases wrote, and the  *)
(* gate that compares journal and accounts before the cutover, run in any  *)
(* order beside a server that keeps posting and correcting fills.          *)
(*   Migrate          runLegacyMigration: the migration route, and the     *)
(*                    migrate and rebuild commands of accounting-migrate   *)
(*   RepairFees       repairExecutionFeesForAccount                        *)
(*   RepairDirections repairExecutionCashDirectionForAccount               *)
(*   *Alias*          repairAliasExecutions, a process of its own: each    *)
(*                    row is checked, then corrected in a transaction      *)
(*   *Backfill*       backfill-missing-execution-ledger-effects --apply    *)
(*   CutoverEligible  computeReconciliation                                *)
(*   EngineFill       an execution of a trade in the journal               *)
(*   *Correct*        correctExecution through the account route, which    *)
(*                    like the alias repair checks the row before it opens *)
(*                    its transaction                                      *)
(* Every event of an execution has a deterministic key, so an execution    *)
(* record carries its events: the direction stored for its consideration,  *)
(* and how often its fee was charged, refunded, its direction compensated. *)
(* A write is one committed transaction; one that fails changes            *)
(* nothing.  Price snapshots, and the marks and positions the gate compares *)
(* besides cash, counts and fees, are left out.                            *)
(***************************************************************************)
EXTENDS ExecutionActions, Orders, Totals, Sequences, FiniteSetsExt

CONSTANTS
  TransactionCash, \* [account_transactions rows -> signed amount]
  Importable,     \* those rows the mapper finds no anomaly in
  Journals,       \* journals (trade_executions) an account may start with
  Histories,      \* accounting executions older releases may have left
  Gross,          \* considerations of new fills and of replacements
  Fees,           \* fees of new fills and of replacements
  MaxJournal,     \* bound on the journal's rows
  MaxExecutions   \* bound on the rows of accounting_executions

Transactions == DOMAIN TransactionCash

JournalRows ==
  [direction : Directions, action : JournalActions, gross : Nat, fees : Nat, valid : BOOLEAN]

Rows ==
  [direction : Directions \cup {"none"}, action : JournalActions, gross : Nat, fees : Nat,
   key : [kind : {"none", "migrated", "engine"}, of : Nat],
   stored : {"none", "increase", "decrease"}, keyed : BOOLEAN,
   charged : 0..1, refunded : 0..1, compensated : 0..1]

NoKey == [kind |-> "none", of |-> 0]

KeysDiffer(rows) ==
  \A x, y \in DOMAIN rows : rows[x].key = rows[y].key /\ rows[x].key # NoKey => x = y

ASSUME TransactionsAssumption ==
  /\ IsFiniteSet(Transactions)
  /\ TransactionCash \in [Transactions -> Int]
  /\ Importable \subseteq Transactions
ASSUME JournalsAssumption == \A j \in Journals : j \in Seq(JournalRows)

\* Refunds and compensations came with the repairs and the corrections.
ASSUME HistoriesAssumption ==
  \A h \in Histories :
    /\ h \in Seq(Rows)
    /\ KeysDiffer(h)
    /\ \A x \in DOMAIN h : h[x].refunded = 0 /\ h[x].compensated = 0

\* The id of a journal row is a UUID: a row still to come has no execution yet.
ASSUME IdsAssumption ==
  \A j \in Journals, h \in Histories : \A x \in DOMAIN h :
    h[x].key # NoKey => h[x].key.of \in DOMAIN j \/ h[x].key.of > MaxJournal

ASSUME GrossAssumption == Gross \subseteq Nat \ {0}
ASSUME FeesAssumption == Fees \subseteq Nat
ASSUME BoundsAssumption == MaxJournal \in Nat /\ MaxExecutions \in Nat

VARIABLES
  journal,        \* trade_executions with the direction of their trade
  executions,     \* accounting_executions with the events each one has
  lineage,        \* correction_lineage
  imported,       \* how often each legacy transaction was imported
  run,            \* the latest completed accounting_migration_runs row
  aliasQueue,     \* rows the alias repair in progress has still to visit
  aliasRow,       \* the row it has checked and not yet corrected, or NoRow
  backfillQueue,  \* rows the backfill in progress has still to visit
  correcting,     \* the row the server has checked and not yet corrected, or NoRow
  \* history
  overtaken       \* rows one side corrected between the other's check and transaction

vars == <<journal, executions, lineage, imported, run, aliasQueue, aliasRow,
          backfillQueue, correcting, overtaken>>

NoRow == 0
-----------------------------------------------------------------------------
(* Rows *)

MigratedKey(j) == [kind |-> "migrated", of |-> j]       \* migrated:trade_executions:<j>
EngineKey(j) == [kind |-> "engine", of |-> j]           \* trade-execution-<j>

NoRun == [completed |-> FALSE, anomalies |-> 0]

Opposite(direction) == IF direction = "increase" THEN "decrease" ELSE "increase"

\* `direction` is the linked trade's, "none" without a link; `stored` the cash
\* direction in the consideration event, "none" while there is no such event;
\* `keyed` whether that event carries the key accounting-execution-<id>.
Fill(direction, action, gross, fees, key) ==
  [direction |-> direction, action |-> action, gross |-> gross, fees |-> fees,
   key |-> key, stored |-> CashDirection(action), keyed |-> key.kind # "migrated",
   charged |-> 0, refunded |-> 0, compensated |-> 0]

\* A fill as postExecutionFill settles it: consideration, and fee if it has one.
SettledFill(direction, action, gross, fees, key) ==
  [Fill(direction, action, gross, fees, key) EXCEPT !.charged = IF fees > 0 THEN 1 ELSE 0]

IsAlias(x) == executions[x].action \in GenericActions
Linked(x) == executions[x].direction # "none"

\* The concrete action of a row; an unlinked alias has none.
Concrete(x) ==
  IF Linked(x)
    THEN ResolveEconomicExecutionAction(executions[x].action, executions[x].direction)
    ELSE executions[x].action

Originals == {c.original : c \in lineage}
Reversals == {c.reversal : c \in lineage}
Replacements == {c.replacement : c \in lineage}
Effective == DOMAIN executions \ (Originals \cup Reversals)

KeyTaken(key) == \E x \in DOMAIN executions : executions[x].key = key

\* Rewrite the rows in `xs` with `F`.
Update(xs, F(_)) ==
  [x \in DOMAIN executions |-> IF x \in xs THEN F(executions[x]) ELSE executions[x]]
-----------------------------------------------------------------------------
(* The legacy import *)

\* A journal row the mapper and the action resolver accept.
Mapped(j) == journal[j].valid
Resolved(j) == Resolvable(journal[j].action, journal[j].direction)

\* Mutation of ToImport: the rows already imported are not looked up.
ToImportAgain == {j \in DOMAIN journal : Mapped(j) /\ Resolved(j)}

ToImport == {j \in DOMAIN journal : Mapped(j) /\ Resolved(j) /\ ~KeyTaken(MigratedKey(j))}

\* A legacy transaction is posted unless its key is already there.
Imported(t) == t \in Importable /\ imported[t] = 0

\* The import posts the gross consideration and never a fee event.
MigratedFill(j) ==
  LET row == journal[j] IN
  Fill(row.direction, ResolveEconomicExecutionAction(row.action, row.direction),
       row.gross, row.fees, MigratedKey(j))

\* An action that cannot be resolved is found out only when it is written.
Anomalies(dryRun) ==
  Cardinality(Transactions \ Importable)
    + Cardinality({j \in DOMAIN journal : ~Mapped(j) \/ (~dryRun /\ ~Resolved(j))})

Migrate(dryRun) ==
  LET new == InOrder(ToImport, LAMBDA i, j : i < j) IN
  /\ run' = [completed |-> TRUE, anomalies |-> Anomalies(dryRun)]
  /\ IF dryRun
       THEN UNCHANGED <<executions, imported>>
       ELSE /\ Len(executions) + Len(new) <= MaxExecutions
            /\ executions' = executions \o [n \in DOMAIN new |-> MigratedFill(new[n])]
            /\ imported' = [t \in Transactions |->
                              imported[t] + (IF Imported(t) THEN 1 ELSE 0)]
  /\ UNCHANGED <<journal, lineage, aliasQueue, aliasRow, backfillQueue, correcting, overtaken>>
-----------------------------------------------------------------------------
(* The repairs *)

\* An effective row with a fee and no fee event.
FeeMissing(x) == x \in Effective /\ executions[x].fees > 0 /\ executions[x].charged = 0

RepairFees ==
  LET Charged(row) == [row EXCEPT !.charged = @ + 1] IN
  /\ executions' = Update({x \in DOMAIN executions : FeeMissing(x)}, Charged)
  /\ UNCHANGED <<journal, lineage, imported, run, aliasQueue, aliasRow, backfillQueue,
                 correcting, overtaken>>

\* legacyRecordedDirection: the rule older releases recorded a raw action by.
RecordedDirection(action) == IF action = "reduce" THEN "increase" ELSE "decrease"

\* A linked alias whose rule-based direction is not the economic one, whether
\* or not the row has since been superseded.
Inverted(x) ==
  /\ IsAlias(x) /\ Linked(x)
  /\ RecordedDirection(executions[x].action) # CashDirection(Concrete(x))

RepairDirections ==
  LET Compensated(row) == [row EXCEPT !.compensated = @ + 1] IN
  /\ executions' =
       Update({x \in DOMAIN executions : Inverted(x) /\ executions[x].compensated = 0},
              Compensated)
  /\ UNCHANGED <<journal, lineage, imported, run, aliasQueue, aliasRow, backfillQueue,
                 correcting, overtaken>>

\* A correction of row x, whose own row `rows` may have rewritten: it appends
\* the reversal of the concrete action, which no fee event follows, and the
\* replacement.
AppendCorrection(x, rows, replacement) ==
  LET row == executions[x]
      new == Len(executions)
      reversal == Fill(row.direction, ReverseAction(Concrete(x)), row.gross, row.fees, NoKey)
  IN /\ new + 2 <= MaxExecutions
     /\ lineage' = lineage \cup
          {[original |-> x, reversal |-> new + 1, replacement |-> new + 2]}
     /\ executions' = rows \o <<reversal, replacement>>

StartAliasRepair ==
  /\ aliasQueue = {} /\ aliasRow = NoRow
  /\ aliasQueue' = {x \in DOMAIN executions : IsAlias(x) /\ x \notin Originals}
  /\ aliasQueue' # {}
  /\ UNCHANGED <<journal, executions, lineage, imported, run, aliasRow, backfillQueue,
                 correcting, overtaken>>

\* Mutation of MayRepair: the lineage is not looked at again before the write.
MayRepairListed(x) == Linked(x)

\* Re-checked row by row: the server may have corrected a row since the scan.
MayRepair(x) == x \notin Originals /\ Linked(x)

\* The check is made before the row's transaction is opened.
CheckAliasRow ==
  LET x == Min(aliasQueue) IN
  /\ aliasQueue # {} /\ aliasRow = NoRow
  /\ aliasQueue' = aliasQueue \ {x}
  /\ aliasRow' = IF MayRepair(x) THEN x ELSE NoRow
  /\ UNCHANGED <<journal, executions, lineage, imported, run, backfillQueue, correcting,
                 overtaken>>

\* Neither a fee event for the replacement nor a refund for the original.
RepairAliasRow ==
  LET row == executions[aliasRow] IN
  /\ aliasRow # NoRow
  /\ aliasRow' = NoRow
  /\ AppendCorrection(aliasRow, executions,
       Fill(row.direction, Concrete(aliasRow), row.gross, row.fees, NoKey))
  /\ overtaken' = IF aliasRow = correcting THEN overtaken \cup {aliasRow} ELSE overtaken
  /\ UNCHANGED <<journal, imported, run, aliasQueue, backfillQueue, correcting>>

\* Only rows the journal sync posted, and every action must be concrete before
\* the first event is written.
StartBackfill ==
  LET missing == {x \in DOMAIN executions :
                    executions[x].key.kind = "engine" /\ executions[x].stored = "none"} IN
  /\ backfillQueue = {}
  /\ missing # {}
  /\ \A x \in missing : ~IsAlias(x)
  /\ backfillQueue' = missing
  /\ UNCHANGED <<journal, executions, lineage, imported, run, aliasQueue, aliasRow,
                 correcting, overtaken>>

\* One event in a transaction of its own; a failing row is passed over.
BackfillRow ==
  LET x == Min(backfillQueue)
      Posted(row) == [row EXCEPT !.stored = CashDirection(row.action), !.keyed = TRUE] IN
  /\ backfillQueue # {}
  /\ backfillQueue' = backfillQueue \ {x}
  /\ executions' \in {executions, Update({x}, Posted)}
  /\ UNCHANGED <<journal, lineage, imported, run, aliasQueue, aliasRow, correcting, overtaken>>

\* Either command dies, or stops at a row that fails, between two transactions.
Interrupt ==
  /\ \/ /\ aliasQueue # {} \/ aliasRow # NoRow
        /\ aliasQueue' = {} /\ aliasRow' = NoRow
        /\ UNCHANGED backfillQueue
     \/ /\ backfillQueue # {}
        /\ backfillQueue' = {}
        /\ UNCHANGED <<aliasQueue, aliasRow>>
  /\ UNCHANGED <<journal, executions, lineage, imported, run, correcting, overtaken>>
-----------------------------------------------------------------------------
(* The server beside it *)

EngineFill(direction, action, gross, fees) ==
  LET j == Len(journal) + 1
      concrete == ResolveEconomicExecutionAction(action, direction) IN
  /\ Len(journal) < MaxJournal /\ Len(executions) < MaxExecutions
  /\ correcting = NoRow
  /\ Resolvable(action, direction)
  /\ journal' = Append(journal, [direction |-> direction, action |-> action,
                                 gross |-> gross, fees |-> fees, valid |-> TRUE])
  /\ executions' = Append(executions,
                          SettledFill(direction, concrete, gross, fees, EngineKey(j)))
  /\ UNCHANGED <<lineage, imported, run, aliasQueue, aliasRow, backfillQueue, correcting,
                 overtaken>>

\* Mutation of Refunded: the fee is given back although it was never charged.
RefundedAlways(row) == [row EXCEPT !.refunded = IF row.fees > 0 THEN 1 ELSE 0]

\* The original's fee comes back once, when it had been charged.
Refunded(row) ==
  [row EXCEPT !.refunded = IF row.charged > 0 /\ @ = 0 THEN 1 ELSE @]

MayCorrect(x) == IF Linked(x) THEN Resolvable(executions[x].action, executions[x].direction)
                 ELSE ~IsAlias(x)

\* correctExecution up to its transaction; the server does nothing else meanwhile,
\* other processes may.
CheckCorrection(x) ==
  /\ correcting = NoRow
  /\ x \notin Originals \cup Reversals \cup Replacements
  /\ MayCorrect(x)
  /\ correcting' = x
  /\ UNCHANGED <<journal, executions, lineage, imported, run, aliasQueue, aliasRow,
                 backfillQueue, overtaken>>

\* The transaction; the lineage is not looked at again.
CorrectFill(gross, fees) ==
  LET x == correcting
      row == executions[x] IN
  /\ x # NoRow
  /\ correcting' = NoRow
  /\ AppendCorrection(x, Update({x}, Refunded),
                      SettledFill(row.direction, Concrete(x), gross, fees, NoKey))
  /\ overtaken' = IF x = aliasRow THEN overtaken \cup {x} ELSE overtaken
  /\ UNCHANGED <<journal, imported, run, aliasQueue, aliasRow, backfillQueue>>

\* The transaction fails, the database being busy, and the request with it.
FailCorrection ==
  /\ correcting # NoRow
  /\ correcting' = NoRow
  /\ UNCHANGED <<journal, executions, lineage, imported, run, aliasQueue, aliasRow,
                 backfillQueue, overtaken>>
-----------------------------------------------------------------------------
Init ==
  /\ journal \in Journals
  /\ executions \in Histories
  /\ lineage = {}
  /\ imported = [t \in Transactions |-> 0]
  /\ run = NoRun
  /\ aliasQueue = {} /\ aliasRow = NoRow
  /\ backfillQueue = {}
  /\ correcting = NoRow
  /\ overtaken = {}

Maintain ==
  \/ \E dryRun \in BOOLEAN : Migrate(dryRun)
  \/ RepairFees
  \/ RepairDirections
  \/ StartAliasRepair
  \/ CheckAliasRow
  \/ RepairAliasRow
  \/ StartBackfill
  \/ BackfillRow
  \/ Interrupt

Serve ==
  \/ \E direction \in Directions, action \in JournalActions, gross \in Gross, fees \in Fees :
       EngineFill(direction, action, gross, fees)
  \/ \E x \in DOMAIN executions : CheckCorrection(x)
  \/ \E gross \in Gross, fees \in Fees : CorrectFill(gross, fees)
  \/ FailCorrection

Next == Maintain \/ Serve

Spec == Init /\ [][Next]_vars
-----------------------------------------------------------------------------
(* What the readers make of the record *)

Signed(direction, amount) == IF direction = "increase" THEN amount ELSE -amount

\* An alias without a link has no direction but the recorded one.
EconomicDirection(x) ==
  IF IsAlias(x) /\ ~Linked(x) THEN executions[x].stored ELSE CashDirection(Concrete(x))

Economic(x) == Signed(EconomicDirection(x), executions[x].gross)

\* deriveActivityEffect: the action in the payload decides, an alias through the
\* trade its event's key leads to; only an alias without a way to its trade
\* counts as it was stored.
ReadDirection(x) ==
  IF IsAlias(x) /\ ~(executions[x].keyed /\ Linked(x))
    THEN executions[x].stored ELSE CashDirection(Concrete(x))

Compensation(x) ==
  Signed(Opposite(RecordedDirection(executions[x].action)), 2 * executions[x].gross)

\* The cash of the events of one execution.
CashOf(x) ==
  LET row == executions[x] IN
  (IF row.stored = "none" THEN 0 ELSE Signed(ReadDirection(x), row.gross))
    + (row.refunded - row.charged) * row.fees
    + (IF row.compensated = 0 THEN 0 ELSE row.compensated * Compensation(x))

ImportedCash == Total([t \in Transactions |-> imported[t] * TransactionCash[t]])

FillCash == Total([x \in DOMAIN executions |-> CashOf(x)])

\* queryLegacyCash: every row counts that can be resolved, importable or not.
LegacyCash ==
  Total(TransactionCash)
    + Total([j \in {j \in DOMAIN journal : Resolved(j)} |->
               Signed(CashDirection(ResolveEconomicExecutionAction(journal[j].action,
                                                                   journal[j].direction)),
                      journal[j].gross) - journal[j].fees])

\* Mutation of CountExplained: the size of the difference alone is compared.
CountExplainedEitherWay ==
  LET missing == Len(journal) - Cardinality(Effective) IN
  missing <= run.anomalies

\* classifyExecutionCountDifference: anomalies explain fills the accounts lack,
\* never ones they have too many.
CountExplained ==
  LET missing == Len(journal) - Cardinality(Effective) IN
  missing \in 0..run.anomalies

\* classifyCashDifference: one anomaly explains any difference.
CashExplained == LegacyCash = ImportedCash + FillCash \/ run.anomalies > 0

FeesMatch ==
  Total([j \in DOMAIN journal |-> journal[j].fees]) = Total([x \in Effective |-> executions[x].fees])

CutoverEligible == run.completed /\ CashExplained /\ CountExplained /\ FeesMatch
-----------------------------------------------------------------------------
(* Properties *)

\* Every stored row is one the schema admits; each deterministic event key is
\* used at most once; a queue holds rows that exist.
TypeOK ==
  /\ journal \in Seq(JournalRows)
  /\ executions \in Seq(Rows)
  /\ lineage \subseteq [original : DOMAIN executions, reversal : DOMAIN executions,
                         replacement : DOMAIN executions]
  /\ aliasQueue \cup backfillQueue \cup overtaken \subseteq DOMAIN executions
  /\ {aliasRow, correcting} \subseteq DOMAIN executions \cup {NoRow}
  /\ imported \in [Transactions -> Nat]
  /\ run \in [completed : BOOLEAN, anomalies : Nat]

\* What is still wrong with the cash of one execution, by cause.
Unsettled(x) == IF executions[x].stored = "none" THEN -Economic(x) ELSE 0

WrongDirection(x) ==
  IF executions[x].stored # "none" /\ ReadDirection(x) # EconomicDirection(x)
     /\ executions[x].compensated = 0
    THEN -2 * Economic(x) ELSE 0

\* The fee event is missing from an effective row.
Uncharged(x) == IF FeeMissing(x) THEN executions[x].fees ELSE 0

\* The alias repair superseded a row whose fee had been charged.
NotGivenBack(x) ==
  IF x \in Originals /\ executions[x].charged > executions[x].refunded
    THEN -executions[x].fees ELSE 0

\* The direction was compensated although the readers resolve it already.
Overcompensated(x) ==
  IF executions[x].compensated > 0
     /\ (executions[x].stored = "none" \/ ReadDirection(x) = EconomicDirection(x))
    THEN 2 * Economic(x) ELSE 0

\* A row superseded twice is taken back twice.
TakenBackAgain(x) ==
  IF x \in Originals THEN Economic(x) * (1 - Cardinality({c \in lineage : c.original = x}))
  ELSE 0

Wrong(x) ==
  Unsettled(x) + WrongDirection(x) + Uncharged(x) + NotGivenBack(x) + Overcompensated(x)
    + TakenBackAgain(x)

\* In whatever order import, repairs and corrections come, and wherever a
\* repair is interrupted, the cash of the fills is what the effective ones and
\* their fees amount to, apart from the rows still waiting for a repair and the
\* three ways the repairs overlap: nothing is compensated, charged or refunded
\* twice, and no superseded row leaves anything else behind.
CashIsExplained ==
  FillCash = Total([x \in Effective |-> Economic(x) - executions[x].fees])
               + Total([x \in DOMAIN executions |-> Wrong(x)])

\* However often the import is run, and whatever runs beside it, each legacy row
\* is posted under its key at most once (legacy-migration-runner.ts 763-766).
ImportedOnce ==
  /\ \A t \in Transactions : imported[t] <= 1
  /\ KeysDiffer(executions)

\* The alias repair and the corrections of the server never supersede one row
\* twice, nor a row that a correction produced, although the repair works through
\* a list it took earlier.  Both check before they open their transaction
\* (repair-alias-executions.ts 194-199 and 255, correction.ts 318-342 and 386), and
\* a row that one of them corrects in between is superseded again by the other, but
\* not a third time.
CorrectedOnce ==
  /\ \A c \in lineage : c.original < c.reversal
  /\ \A c, d \in lineage : c # d =>
       /\ {c.reversal, c.replacement} \cap {d.original, d.reversal, d.replacement} = {}
       /\ c.original = d.original => c.original \in overtaken
  /\ \A x \in overtaken : Cardinality({c \in lineage : c.original = x}) <= 2

PostedFrom(j) == {x \in DOMAIN executions : executions[x].key \in {MigratedKey(j), EngineKey(j)}}

\* When every journal fill is in the accounts and one of them is there twice,
\* the gate refuses, whatever anomalies the run recorded and whatever was
\* corrected since.
DoublePostingIsRefused ==
  /\ \A j \in DOMAIN journal : PostedFrom(j) # {}
  /\ \E j \in DOMAIN journal : Cardinality(PostedFrom(j)) > 1
  => ~CutoverEligible

\* "The migration skips already-imported records so this is safe": no fill of
\* the journal has two executions in the accounts (accounting-migrate.ts 224).
FillsPostedOnce == \A j \in DOMAIN journal : Cardinality(PostedFrom(j)) <= 1
=============================================================================
