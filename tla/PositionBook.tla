---------------------------- MODULE PositionBook ----------------------------
(***************************************************************************)
(* One account's executions and the FIFO projection derived from them.     *)
(*                                                                         *)
(* accounting_executions and correction_lineage are append-only; the       *)
(* projection (account_positions, fifo_lots, lot_matches) is rebuilt from  *)
(* them, per instrument and inside the transaction of every operation.     *)
(*   PostAccountExecution   POST /api/accounts/[id]/executions             *)
(*   PostTradeFill          the accounting half of executeTradeFill        *)
(*   CorrectExecution       correctExecution, both correction routes       *)
(* A rebuild that cannot replay the stream rolls the operation back, so the*)
(* operation is a step only when the replay succeeds.                      *)
(***************************************************************************)
EXTENDS ExecutionStream, Fifo

CONSTANTS
  Instruments,     \* the symbols traded in the account
  Tickets,         \* what a fill says: [action, quantity, price, fees]
  Times,           \* posted_at of a fill, in milliseconds
  MaxRows          \* bound on the rows of accounting_executions

ASSUME TicketsAssumption ==
  Tickets \subseteq [action : JournalActions, quantity : Nat \ {0},
                     price : Nat \ {0}, fees : Nat]
ASSUME TimesAssumption == Times \subseteq Nat
ASSUME MaxRowsAssumption == MaxRows \in Nat

VARIABLES
  executions,      \* accounting_executions, in insertion order
  lineage,         \* correction_lineage
  projection       \* [Instruments -> projection rows]

vars == <<executions, lineage, projection>>
-----------------------------------------------------------------------------
Fill(row, id) ==
  [id |-> id, action |-> row.action, quantity |-> row.quantity, price |-> row.price,
   fees |-> row.fees, postedAt |-> row.postedAt]

EffectiveIds(rows, corrections, instrument) ==
  StreamIds(rows, corrections, LAMBDA i : rows[i].instrument = instrument)

ReplayOf(rows, corrections, instrument) ==
  LET ids == EffectiveIds(rows, corrections, instrument) IN
  Replay([n \in DOMAIN ids |-> Fill(rows[ids[n]], ids[n])])

\* rebuildPositionsWithinTransaction: every fill must replay.
CanRebuild(rows, corrections, instrument) ==
  ~ReplayOf(rows, corrections, instrument).rejected

\* With no effective execution left the projection rows are only deleted.
RebuildPositions(rows, corrections, instrument) ==
  IF EffectiveIds(rows, corrections, instrument) = <<>>
    THEN NoProjection
    ELSE Projection(ReplayOf(rows, corrections, instrument))

Row(instrument, action, ticket, at) ==
  [instrument |-> instrument, action |-> action, quantity |-> ticket.quantity,
   price |-> ticket.price, fees |-> ticket.fees, postedAt |-> at]
-----------------------------------------------------------------------------
Init ==
  /\ executions = <<>>
  /\ lineage = {}
  /\ projection = [i \in Instruments |-> NoProjection]

\* Append one row and rebuild its instrument, or roll back.
Post(row) ==
  LET rows == Append(executions, row) IN
  /\ Len(rows) <= MaxRows
  /\ CanRebuild(rows, lineage, row.instrument)
  /\ executions' = rows
  /\ projection' = [projection EXCEPT
       ![row.instrument] = RebuildPositions(rows, lineage, row.instrument)]
  /\ UNCHANGED lineage

\* add and reduce are resolved from the direction of the current position; the
\* allocator is then tried against that position before anything is written.
PostAccountExecution(instrument, ticket, at) ==
  LET current == projection[instrument]
      action  == IF ticket.action \in GenericActions
                   THEN ResolveEconomicExecutionAction(ticket.action, current.direction)
                   ELSE ticket.action
      row     == Row(instrument, action, ticket, at)
  IN /\ ticket.action \in GenericActions => current.direction \in Directions
     /\ RejectionCode(row, current, current.lots) = "none"
     /\ Post(row)

\* The trade engine hands over a concrete action and relies on the rebuild.
PostTradeFill(instrument, ticket, at) ==
  /\ ticket.action \in EconomicActions
  /\ Post(Row(instrument, ticket.action, ticket, at))

\* Reversal and replacement are appended with the lineage row that ties them to
\* the original, and both instruments are rebuilt.  The pair is posted 1 and
\* 2 ms after the original, or later when the request says so.
CorrectExecution(original, instrument, ticket, requested) ==
  LET old         == executions[original]
      at          == Maximum(old.postedAt + 1, requested)
      reversal    == Row(old.instrument, ReverseAction(old.action), old, at)
      replacement == Row(instrument, ticket.action, ticket, at + 1)
      rows        == executions \o <<reversal, replacement>>
      corrections == lineage \cup
        {[original |-> original, reversal |-> Len(executions) + 1,
          replacement |-> Len(executions) + 2]}
      affected    == {old.instrument, instrument}
  IN /\ Len(rows) <= MaxRows
     /\ ticket.action \in EconomicActions
     /\ original \notin Constituents(lineage)
     /\ original \notin {c.original : c \in lineage}
     /\ \A i \in affected : CanRebuild(rows, corrections, i)
     /\ executions' = rows
     /\ lineage' = corrections
     /\ projection' = [i \in Instruments |->
          IF i \in affected THEN RebuildPositions(rows, corrections, i)
                            ELSE projection[i]]

Next ==
  \/ \E i \in Instruments, t \in Tickets, at \in Times : PostAccountExecution(i, t, at)
  \/ \E i \in Instruments, t \in Tickets, at \in Times : PostTradeFill(i, t, at)
  \/ \E o \in DOMAIN executions, i \in Instruments, t \in Tickets, at \in Times \cup {0} :
       CorrectExecution(o, i, t, at)

Spec == Init /\ [][Next]_vars
-----------------------------------------------------------------------------
(* Properties *)

Lots(i) == projection[i].lots
MatchesOf(i) == projection[i].matches

OpenLots(i) == {lot \in Lots(i) : lot.remaining > 0}

\* What the matches took from a lot.
MatchedFrom(i, lot) ==
  Total([m \in {m \in MatchesOf(i) : m.lot = lot.id} |-> m.quantity])

OpeningIds(i) == {lot.openedBy : lot \in Lots(i)}

\* Every row holds values the schema accepts, and the projection is one the
\* position tables can hold.
TypeOK ==
  /\ executions \in Seq([instrument : Instruments, action : EconomicActions,
                         quantity : Nat \ {0}, price : Nat \ {0}, fees : Nat,
                         postedAt : Nat])
  /\ lineage \subseteq [original : DOMAIN executions, reversal : DOMAIN executions,
                        replacement : DOMAIN executions]
  /\ \A i \in Instruments :
       /\ projection[i].direction \in Directions \cup {"none", "flat"}
       /\ projection[i].quantity \in Nat
       /\ \A lot \in Lots(i) : lot.fees \in Nat /\ lot.cost \in Nat

\* A position is exactly what its open lots hold, each lot is what was opened
\* less what the persisted matches took from it, and a position without
\* quantity has no direction (handleOpening, handleClosing and the persistence
\* step of rebuildPositions, over any stream with corrections in it).
LotsExplainPosition ==
  \A i \in Instruments :
    /\ projection[i].quantity = OpenQuantity(Lots(i))
    /\ projection[i].quantity = 0 <=> projection[i].direction \notin Directions
    /\ \A lot \in Lots(i) : lot.original = lot.remaining + MatchedFrom(i, lot)

\* No cent of an opening fee disappears or is charged twice: what the matches
\* realised and what the open lots still carry add up to the fees of the
\* opening executions (allocateLotEntryFeeShare, comment of lines 117-128).
EntryFeesConserved ==
  \A i \in Instruments :
    Total([m \in MatchesOf(i) |-> m.entryFee]) + Total([lot \in OpenLots(i) |-> lot.fees])
      = Total([id \in OpeningIds(i) |-> executions[id].fees])

WholeShares(quantity) == quantity % 100 = 0

\* The cash a fill moves, its fee apart.
CashMoved(fill) ==
  LET amount == MultiplyDecimal(fill.quantity, fill.price) IN
  IF CashDirection(fill.action) = "increase" THEN amount ELSE -amount

\* In whole shares, where no product is rounded, the cash the counted fills moved
\* is the gross P&L realised less the cost of what is still open (plus it, for a
\* short): the ledger's view and the position's view of the same fills agree.
CashAgreesWithPosition ==
  \A i \in Instruments :
    LET ids  == EffectiveIds(executions, lineage, i)
        cost == projection[i].cost
    IN (\A n \in DOMAIN ids : WholeShares(executions[ids[n]].quantity)) =>
         Total([n \in DOMAIN ids |-> CashMoved(executions[ids[n]])])
           = projection[i].gross - (IF projection[i].direction = "long" THEN cost ELSE -cost)

\* Replay order of two lots' opening executions.
OpenedBefore(a, b) == StreamBefore(executions, lineage, a.openedBy, b.openedBy)

\* Lots of executions nobody corrected are consumed first in, first out: a lot
\* is touched only when every lot opened before it is used up.  Ids order the
\* lots of one instant, and are themselves in order as long as they have one digit.
UncorrectedLotsCloseFirstInFirstOut ==
  \A i \in Instruments : \A a, b \in Lots(i) :
    /\ {a.openedBy, b.openedBy} \cap Replacements(lineage) = {}
    /\ a.openedAt # b.openedAt \/ {a.id, b.id} \subseteq 1 .. 9
    /\ OpenedBefore(a, b)
    /\ MatchedFrom(i, b) > 0
    => a.remaining = 0

\* The same of every lot, as the comment of rebuild.ts lines 100-110 has it: a
\* replacement occupies its original's place in the stream.
LotsCloseInStreamOrder ==
  \A i \in Instruments : \A a, b \in Lots(i) :
    OpenedBefore(a, b) /\ MatchedFrom(i, b) > 0 => a.remaining = 0

\* The fees the matches of a close carry add up to the closing execution's fee
\* (allocateMatchFees, comment of line 82).
ExitFeesConserved ==
  \A i \in Instruments : \A id \in {m.closedBy : m \in MatchesOf(i)} :
    Total([m \in {m \in MatchesOf(i) : m.closedBy = id} |-> m.exitFee])
      = executions[id].fees

-----------------------------------------------------------------------------
(* The book implements NetPositions: the n-th counted fill is the n-th posted*)
(* row that is neither a reversal nor a replacement, as last restated.       *)

Posted(rows, corrections) ==
  InOrder({id \in DOMAIN rows : id \notin Constituents(corrections)}, LAMBDA a, b : a < b)

AsRestated(corrections, id) ==
  IF \E c \in corrections : c.original = id
    THEN (CHOOSE c \in corrections : c.original = id).replacement
    ELSE id

Entry(row) ==
  [instrument |-> row.instrument, signed |-> SignedQuantity(row.action, row.quantity)]

BookOf(rows, corrections) ==
  LET posted == Posted(rows, corrections) IN
  [n \in DOMAIN posted |-> Entry(rows[AsRestated(corrections, posted[n])])]

NetOf ==
  [i \in Instruments |-> IF projection[i].direction = "short"
                           THEN -projection[i].quantity ELSE projection[i].quantity]

Net == INSTANCE NetPositions WITH
         book <- BookOf(executions, lineage), net <- NetOf, Quantities <- {t.quantity : t \in Tickets}

\* Full replay from the immutable rows moves a position by exactly what the
\* operation changed, in the instruments it names, and no single fill carries
\* a position through flat (rebuildPositions against an incremental account).
ImplementsNetPositions == Net!Spec
=============================================================================
