-------------------------- MODULE ExecutionActions --------------------------
(***************************************************************************)
(* The vocabulary shared by the journal and the accounting kernel: the     *)
(* actions a fill may carry, the concrete economic side a journal action   *)
(* resolves to, the side that reverses it, and the direction it moves cash.*)
(* src/lib/accounting/economic-action.ts and correction-contracts.ts.      *)
(***************************************************************************)
EXTENDS Integers

Directions == {"long", "short"}

EconomicActions == {"buy", "sell", "sell_short", "buy_to_cover"}

GenericActions == {"add", "reduce"}

JournalActions == EconomicActions \cup GenericActions

LongEconomicMap ==
  [buy |-> "buy", add |-> "buy", sell |-> "sell", reduce |-> "sell"]

ShortEconomicMap ==
  [sell_short |-> "sell_short", add |-> "sell_short",
   buy_to_cover |-> "buy_to_cover", reduce |-> "buy_to_cover"]

EconomicMap(direction) ==
  IF direction = "long" THEN LongEconomicMap ELSE ShortEconomicMap

\* The combinations for which the resolver does not raise
\* AmbiguousEconomicActionError.
Resolvable(action, direction) == action \in DOMAIN EconomicMap(direction)

ResolveEconomicExecutionAction(action, direction) ==
  EconomicMap(direction)[action]

CashDirection(action) ==
  IF action \in {"sell", "sell_short"} THEN "increase" ELSE "decrease"

ReverseAction(action) ==
  CASE action = "buy" -> "sell"
    [] action = "sell" -> "buy"
    [] action = "sell_short" -> "buy_to_cover"
    [] action = "buy_to_cover" -> "sell_short"

\* The sign a concrete action gives the quantity it trades, used to state what
\* a stream of fills adds up to.
SignedQuantity(action, quantity) ==
  IF action \in {"buy", "buy_to_cover"} THEN quantity ELSE -quantity

\* An entry opens or increases a trade of the given direction, an exit reduces
\* it; actions are the concrete ones.
IsEntry(action, direction) ==
  action = IF direction = "long" THEN "buy" ELSE "sell_short"

IsExit(action, direction) ==
  action = IF direction = "long" THEN "sell" ELSE "buy_to_cover"
=============================================================================
