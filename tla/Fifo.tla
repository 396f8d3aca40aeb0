-------------------------------- MODULE Fifo --------------------------------
(***************************************************************************)
(* The pure FIFO allocator (src/lib/positions/fifo.ts) and the replay that *)
(* feeds it one instrument's effective execution stream                    *)
(* (src/lib/positions/rebuild.ts).                                         *)
(*                                                                         *)
(* A fill is a row of accounting_executions; its identity is its place in  *)
(* the table, which is SQLite's rowid.  Quantities, prices and fees are    *)
(* integers of hundredths.  Net realised P&L is gross minus fees at every  *)
(* level of the code, and average cost is derived from cost and quantity,  *)
(* so neither is carried.  The code keeps lots and matches in arrays it    *)
(* sorts before use and looks up by id; they are sets here.                *)
(***************************************************************************)
EXTENDS ExecutionActions, Decimals, Sequences, FiniteSets, Totals

\* direction "none" is a missing account_positions row, "flat" a row whose
\* direction column is null.
NoPosition ==
  [direction |-> "none", quantity |-> 0, cost |-> 0, gross |-> 0, fees |-> 0,
   lots |-> {}]

OpeningAction(direction) == IF direction = "long" THEN "buy" ELSE "sell_short"
ClosingAction(direction) == IF direction = "long" THEN "sell" ELSE "buy_to_cover"

IsOpeningAction(action, direction) ==
  IF direction \in Directions THEN action = OpeningAction(direction)
                              ELSE action \in {"buy", "sell_short"}

OpenQuantity(lots) == Total([lot \in lots |-> lot.remaining])

\* Mutation of RejectionCode: a close may exceed what is open.
RejectionCodeWithoutReversal(fill, position, lots) ==
  IF \/ position.direction \notin Directions /\ fill.action \notin {"buy", "sell_short"}
     \/ position.direction = "long" /\ fill.action \notin {"buy", "sell"}
     \/ position.direction = "short" /\ fill.action \notin {"sell_short", "buy_to_cover"}
    THEN "MIXED_SIDE" ELSE "none"

\* The rejection code of the allocator, or "none".
RejectionCode(fill, position, lots) ==
  LET direction == position.direction IN
  CASE direction = "none" /\ ~IsOpeningAction(fill.action, direction)
         -> "NO_POSITION_TO_CLOSE"
    [] direction \in Directions /\ fill.action = OpeningAction(
         IF direction = "long" THEN "short" ELSE "long")
         -> "UNSUPPORTED_FLIP"
    [] direction \in Directions /\ fill.action = ClosingAction(
         IF direction = "long" THEN "short" ELSE "long")
         -> "MIXED_SIDE"
    [] ~IsOpeningAction(fill.action, direction)
         /\ fill.quantity > OpenQuantity(lots)
         -> "REVERSAL"
    [] OTHER -> "none"
-----------------------------------------------------------------------------
\* Opening: one new lot that carries the whole fee of the fill.
NewLot(fill, id) ==
  [id |-> id, openedBy |-> fill.id, openedAt |-> fill.postedAt,
   original |-> fill.quantity, remaining |-> fill.quantity,
   price |-> fill.price, cost |-> MultiplyDecimal(fill.quantity, fill.price),
   fees |-> fill.fees]

HandleOpening(fill, position, id) ==
  LET lot == NewLot(fill, id) IN
  [position EXCEPT !.direction = IF fill.action = "buy" THEN "long" ELSE "short",
                   !.quantity = @ + fill.quantity,
                   !.cost = @ + lot.cost,
                   !.lots = @ \cup {lot}]
-----------------------------------------------------------------------------
\* Ids are strings, "rb-" and the counter's numeral: the tenth comes before the
\* second.  Counters are below ten thousand.
Leading(n) ==
  CASE n < 10 -> n * 1000
    [] n \in 10 .. 99 -> n * 100
    [] n \in 100 .. 999 -> n * 10
    [] n > 999 -> n

IdBefore(a, b) ==
  \/ Leading(a) < Leading(b)
  \/ Leading(a) = Leading(b) /\ a < b

\* Mutation of OlderLot: newest first.
NewerLot(a, b) == a.id > b.id

\* Oldest openedAt first, then id; lots carry no sequence.
OlderLot(a, b) ==
  \/ a.openedAt < b.openedAt
  \/ a.openedAt = b.openedAt /\ IdBefore(a.id, b.id)

\* What a close of the given quantity takes from a lot: as much as is there of
\* what the older lots left to take.
MatchQuantity(lots, quantity, lot) ==
  LET older == OpenQuantity({l \in lots : OlderLot(l, lot)}) IN
  Minimum(lot.remaining, Maximum(quantity - older, 0))

MatchedLots(lots, quantity) == {lot \in lots : MatchQuantity(lots, quantity, lot) > 0}

\* The share of a lot's remaining opening fee that a match realises.
AllocateLotEntryFeeShare(lot, matched) ==
  IF matched = lot.remaining
    THEN lot.fees
    ELSE FromMicros((ToMicros(lot.fees) * matched) \div lot.remaining)

\* The part of the closing fee a match carries: the floor of its share in micros,
\* and for the last match whatever the other floors left.
AllocateMatchFee(fill, lots, lot) ==
  LET matched == MatchedLots(lots, fill.quantity)
      Share(l) == (ToMicros(fill.fees) * MatchQuantity(lots, fill.quantity, l))
                    \div fill.quantity
  IN FromMicros(IF \E l \in matched : OlderLot(lot, l)
                  THEN Share(lot)
                  ELSE ToMicros(fill.fees) - Total([l \in matched \ {lot} |-> Share(l)]))

\* Mutation of MatchPnl: a short realises P&L with a long's sign.
MatchPnlAsLong(lot, price, matched, direction) ==
  MultiplyDecimal(price - lot.price, matched)

MatchPnl(lot, price, matched, direction) ==
  LET gross == MultiplyDecimal(price - lot.price, matched) IN
  IF direction = "short" THEN -gross ELSE gross

\* The match a closing fill makes with a lot.  entryFee and exitFee are the two
\* parts of the match's allocatedFees, which the code stores added up.
Match(fill, position, lot) ==
  LET quantity == MatchQuantity(position.lots, fill.quantity, lot) IN
  [closedBy |-> fill.id, lot |-> lot.id, quantity |-> quantity,
   gross |-> MatchPnl(lot, fill.price, quantity, position.direction),
   entryFee |-> AllocateLotEntryFeeShare(lot, quantity),
   exitFee |-> AllocateMatchFee(fill, position.lots, lot)]

Matches(fill, position) ==
  {Match(fill, position, lot) : lot \in MatchedLots(position.lots, fill.quantity)}

\* Mutation of ReducedLot: a partial close leaves the lot its whole fee.
ReducedLotKeepingFee(lot, matched) ==
  [lot EXCEPT !.remaining = @ - matched,
              !.cost = MultiplyDecimal(lot.remaining - matched, lot.price)]

\* A lot after a close took `matched` of it.
ReducedLot(lot, matched) ==
  LET rest == lot.remaining - matched IN
  [lot EXCEPT !.remaining = rest,
              !.fees = @ - IF matched = 0 THEN 0
                           ELSE AllocateLotEntryFeeShare(lot, matched),
              !.cost = MultiplyDecimal(rest, lot.price)]

\* The lots a close leaves open.
LeftOpen(fill, lots) ==
  {lot \in {ReducedLot(l, MatchQuantity(lots, fill.quantity, l)) : l \in lots} :
     lot.remaining > 0}

HandleClosing(fill, position) ==
  LET open     == LeftOpen(fill, position.lots)
      matches  == Matches(fill, position)
      quantity == position.quantity - fill.quantity
  IN [direction |-> IF quantity = 0 THEN "flat" ELSE position.direction,
      quantity  |-> quantity,
      cost      |-> Total([lot \in open |-> lot.cost]),
      gross     |-> position.gross + Total([m \in matches |-> m.gross]),
      fees      |-> position.fees + Total([m \in matches |-> m.entryFee + m.exitFee]),
      lots      |-> open]
-----------------------------------------------------------------------------
\* Replay of a stream of fills.  `counter` is the id generator shared by lots
\* and matches; `rejected` records that some fill could not be replayed.
ReplayStart ==
  [position |-> NoPosition, opened |-> {}, matches |-> {}, counter |-> 0,
   rejected |-> FALSE]

ReplayFill(acc, fill) ==
  LET position == acc.position IN
  IF RejectionCode(fill, position, position.lots) # "none"
    THEN [acc EXCEPT !.rejected = TRUE]
  ELSE IF IsOpeningAction(fill.action, position.direction)
    THEN [acc EXCEPT !.position = HandleOpening(fill, position, acc.counter + 1),
                     !.opened = @ \cup {NewLot(fill, acc.counter + 1)},
                     !.counter = @ + 1]
    ELSE LET matches == Matches(fill, position) IN
         [acc EXCEPT !.position = HandleClosing(fill, position),
                     !.matches = @ \cup matches,
                     !.counter = @ + Cardinality(matches)]

\* After the first n fills of the stream, and after all of them.
ReplayStates(stream) ==
  LET state[n \in 0 .. Len(stream)] ==
        IF n = 0 THEN ReplayStart ELSE ReplayFill(state[n - 1], stream[n])
  IN state

Replay(stream) == ReplayStates(stream)[Len(stream)]

\* Mutation of PersistedLots: closed lots are persisted as they were opened.
PersistedLotsAsOpened(replay) ==
  LET open == replay.position.lots IN
  open \cup {lot \in replay.opened : \A l \in open : l.id # lot.id}

\* A closed lot is kept for the history of its matches, with nothing remaining.
PersistedLots(replay) ==
  LET open == replay.position.lots IN
  open \cup {[lot EXCEPT !.remaining = 0] :
               lot \in {lot \in replay.opened : \A l \in open : l.id # lot.id}}

\* The rows a replay leaves in account_positions, fifo_lots and lot_matches.
Rows(position, lots, matches) ==
  [direction |-> position.direction, quantity |-> position.quantity,
   cost |-> position.cost, gross |-> position.gross, fees |-> position.fees,
   lots |-> lots, matches |-> matches]

Projection(replay) == Rows(replay.position, PersistedLots(replay), replay.matches)

NoProjection == Rows(NoPosition, {}, {})
=============================================================================
