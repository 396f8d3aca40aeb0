------------------------------- MODULE Orders -------------------------------
(***************************************************************************)
(* The rows a query returns, in the order it asks for.                     *)
(***************************************************************************)
EXTENDS Integers, FiniteSets

\* The elements of a finite set as a sequence: each follows as many as come before
\* it in the order.
InOrder(S, Before(_, _)) ==
  LET places == {<<1 + Cardinality({y \in S : Before(y, x)}), x>> : x \in S} IN
  [k \in 1 .. Cardinality(S) |-> (CHOOSE place \in places : place[1] = k)[2]]
=============================================================================
