---------------------------- MODULE NetPositions ----------------------------
(***************************************************************************)
(* What the position book promises, with no lots, prices or times: each    *)
(* fill that counts is in the book once, a correction restates it in place,*)
(* and an instrument's position is moved by exactly what a step changes.   *)
(***************************************************************************)
EXTENDS Integers, Sequences

CONSTANTS Instruments, Quantities

VARIABLES
  book,   \* sequence of the fills that count, each [instrument, signed]
  net     \* [Instruments -> the signed position]

vars == <<book, net>>

Signed == Quantities \cup {-n : n \in Quantities}

Init ==
  /\ book = <<>>
  /\ net = [i \in Instruments |-> 0]

Opposes(a, b) == (a < 0 /\ b > 0) \/ (a > 0 /\ b < 0)

\* A fill opens, increases, reduces or closes a position; it never carries it
\* through flat to the other side.
Enter(i, q) ==
  /\ net' = [net EXCEPT ![i] = @ + q]
  /\ ~Opposes(net[i], net[i] + q)
  /\ book' = Append(book, [instrument |-> i, signed |-> q])

\* A correction takes one fill out of its instrument and puts the corrected
\* one, possibly of another instrument, in its place.
Restate(n, i, q) ==
  LET old     == book[n]
      without == [net EXCEPT ![old.instrument] = @ - old.signed]
  IN /\ net' = [without EXCEPT ![i] = @ + q]
     /\ book' = [book EXCEPT ![n] = [instrument |-> i, signed |-> q]]

Next ==
  \/ \E i \in Instruments, q \in Signed : Enter(i, q)
  \/ \E n \in DOMAIN book, i \in Instruments, q \in Signed : Restate(n, i, q)

Spec == Init /\ [][Next]_vars
=============================================================================
