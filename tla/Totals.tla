------------------------------- MODULE Totals -------------------------------
(***************************************************************************)
(* Sums over the rows of a table, as a fold of a function's values.        *)
(***************************************************************************)
EXTENDS Integers, Functions

Total(f) == FoldFunction(+, 0, f)
=============================================================================
