-------------------------- MODULE PositionBookProofs --------------------------
(***************************************************************************)
(* Proofs about the position book, for every set of instruments, tickets   *)
(* and times, and any number of executions and corrections.                *)
(***************************************************************************)
EXTENDS PositionBook, TableLemmas

-----------------------------------------------------------------------------
(* The effective stream.                                                     *)

Execution ==
  [instrument : Instruments, action : EconomicActions, quantity : Nat \ {0},
   price : Nat \ {0}, fees : Nat, postedAt : Nat]

Correction(rows) ==
  [original : DOMAIN rows, reversal : DOMAIN rows, replacement : DOMAIN rows]

\* Tables of executions and of corrections that refer to them.
Tables(rows, corrections) ==
  rows \in Seq(Execution) /\ corrections \subseteq Correction(rows)

Counted(rows, corrections, i) ==
  {id \in DOMAIN rows : id \notin Superseded(corrections) /\ rows[id].instrument = i}

\* Every execution has a place in time.
LEMMA PostedAtNat ==
  ASSUME NEW rows, NEW corrections, Tables(rows, corrections), NEW id \in DOMAIN rows
  PROVE  StreamPostedAt(rows, corrections, id) \in Nat
<1>1. \A n \in DOMAIN rows : rows[n].postedAt \in Nat
  <2>1. \A n \in DOMAIN rows : rows[n] \in Execution  BY DEF Tables
  <2> QED  BY <2>1 DEF Execution
<1>2. CASE id \in Replacements(corrections)
  <2> DEFINE c == CHOOSE c \in corrections : c.replacement = id
  <2>1. c \in corrections  BY <1>2 DEF Replacements
  <2>2. c.original \in DOMAIN rows
    <3> HIDE DEF c
    <3> QED  BY <2>1 DEF Tables, Correction
  <2> QED  BY <1>1, <1>2, <2>2 DEF StreamPostedAt
<1> QED  BY <1>1, <1>2 DEF StreamPostedAt

\* The order of the stream relates any two executions one way.
LEMMA StreamOrder ==
  ASSUME NEW rows, NEW corrections, Tables(rows, corrections), NEW S \in SUBSET (DOMAIN rows)
  PROVE  TotallyOrders({p \in S \X S : StreamBefore(rows, corrections, p[1], p[2])}, S)
<1> DEFINE at(x) == StreamPostedAt(rows, corrections, x)
           re(x) == x \in Replacements(corrections)
           Before(x, y) == \/ at(x) < at(y)
                           \/ at(x) = at(y) /\ re(x) /\ ~re(y)
                           \/ at(x) = at(y) /\ re(x) = re(y) /\ x < y
           R == {p \in S \X S : StreamBefore(rows, corrections, p[1], p[2])}
<1>1. \A x, y \in S : <<x, y>> \in R <=> Before(x, y)
  BY DEF StreamBefore
<1>2. \A x \in S : at(x) \in Int /\ x \in Int /\ re(x) \in BOOLEAN
  BY PostedAtNat DEF Tables
<1> HIDE DEF at, re, R
<1>3. \A x \in S : ~Before(x, x)  BY <1>2
<1>4. \A x, y, z \in S : Before(x, y) /\ Before(y, z) => Before(x, z)  BY <1>2
<1>5. \A x, y \in S : x = y \/ Before(x, y) \/ Before(y, x)  BY <1>2
<1>6. TotallyOrders(R, S)
  <2> HIDE DEF Before
  <2> QED  BY <1>1, <1>3, <1>4, <1>5 DEF TotallyOrders
<1> QED  BY <1>6 DEF R

\* The effective stream lists the executions that count, once each and in order.
LEMMA EffectiveStream ==
  ASSUME NEW rows, NEW corrections, Tables(rows, corrections), NEW i,
         NEW ids, ids = EffectiveIds(rows, corrections, i)
  PROVE  /\ ids \in Seq(Counted(rows, corrections, i))
         /\ \A j, k \in DOMAIN ids :
              ids[j] = ids[k] => j = k
         /\ \A j, k \in DOMAIN ids :
              StreamBefore(rows, corrections, ids[j], ids[k]) <=> j < k
         /\ \A x \in Counted(rows, corrections, i) : \E k \in DOMAIN ids : x = ids[k]
<1> DEFINE S == Counted(rows, corrections, i)
           R == {p \in S \X S : StreamBefore(rows, corrections, p[1], p[2])}
           before(x) == {y \in S : StreamBefore(rows, corrections, y, x)}
           places == {<<1 + Cardinality(before(x)), x>> : x \in S}
<1>1. S \in SUBSET (DOMAIN rows) /\ IsFiniteSet(S)
  <2>1. DOMAIN rows = 1 .. Len(rows) /\ Len(rows) \in Nat  BY DEF Tables
  <2>2. IsFiniteSet(DOMAIN rows)  BY <2>1, FS_Interval
  <2>3. S \in SUBSET (DOMAIN rows)  BY DEF Counted
  <2> HIDE DEF S
  <2> QED  BY <2>2, <2>3, FS_Subset
<1>2. Placed(ids, S, places)
  BY DEF EffectiveIds, StreamIds, InOrder, Counted, Placed
<1> HIDE DEF S
<1>3. TotallyOrders(R, S)  BY <1>1, StreamOrder
<1>4. \A x \in S : before(x) = {y \in S : <<y, x>> \in R}  OBVIOUS
<1>5. \A x, y \in S : <<x, y>> \in R <=> StreamBefore(rows, corrections, x, y)  OBVIOUS
<1> HIDE DEF R, before
<1>6. \A x \in S : 1 + Cardinality(before(x)) = Rank(x, S, R)  BY <1>4 DEF Rank
<1>7. Ranked(places, S, R)  BY <1>6 DEF Ranked
<1> HIDE DEF places
<1>8. Lists(ids, S, R)  BY <1>1, <1>2, <1>3, <1>7, Listed
<1>9. ids \in Seq(S) /\ \A k \in DOMAIN ids : ids[k] \in S  BY <1>8 DEF Lists
<1>10. \A j, k \in DOMAIN ids : StreamBefore(rows, corrections, ids[j], ids[k]) <=> j < k
  <2> SUFFICES ASSUME NEW j \in DOMAIN ids, NEW k \in DOMAIN ids
               PROVE  StreamBefore(rows, corrections, ids[j], ids[k]) <=> j < k
    OBVIOUS
  <2>1. ids[j] \in S /\ ids[k] \in S  BY <1>9
  <2>2. <<ids[j], ids[k]>> \in R <=> j < k  BY <1>8 DEF Lists
  <2> QED  BY <1>5, <2>1, <2>2
<1> QED  BY <1>8, <1>10 DEF S, Lists

-----------------------------------------------------------------------------
(* The replay, one fill at a time.                                           *)

LEMMA ReplayUnfolds ==
  ASSUME NEW N \in Nat, NEW stream, Len(stream) = N, NEW st, st = ReplayStates(stream)
  PROVE  /\ st[0] = ReplayStart
         /\ \A n \in 1 .. N : st[n] = ReplayFill(st[n - 1], stream[n])
         /\ Replay(stream) = st[N]
<1> DEFINE Next1(x, n) == ReplayFill(x, stream[n])
           Unfolded(g, m) ==
             g = [n \in 0 .. m |-> IF n = 0 THEN ReplayStart ELSE Next1(g[n - 1], n)]
           P == {m \in Nat : \E g : Unfolded(g, m)}
<1>1. 0 \in P
  <2> DEFINE g == [n \in 0 .. 0 |-> ReplayStart]
  <2>1. Unfolded(g, 0)  OBVIOUS
  <2> QED  BY <2>1
<1>2. ASSUME NEW m \in 0 .. (N - 1), m \in P PROVE m + 1 \in P
  <2>1. PICK g : Unfolded(g, m)  BY <1>2
  <2> DEFINE h == [n \in 0 .. (m + 1) |-> IF n = m + 1 THEN Next1(g[m], n) ELSE g[n]]
             k == [n \in 0 .. (m + 1) |-> IF n = 0 THEN ReplayStart ELSE Next1(h[n - 1], n)]
  <2>2. ASSUME NEW n \in 0 .. (m + 1) PROVE h[n] = k[n]
    <3> HIDE DEF Next1
    <3>1. CASE n = m + 1
      <4>1. n # 0 /\ n - 1 = m /\ m \in 0 .. (m + 1) /\ m # m + 1  BY <3>1
      <4> QED  BY <3>1, <4>1
    <3>2. CASE n # m + 1
      <4>1. n \in 0 .. m  BY <3>2
      <4>2. h[n] = g[n]  BY <3>2
      <4>3. g[n] = IF n = 0 THEN ReplayStart ELSE Next1(g[n - 1], n)  BY <2>1, <4>1
      <4>4. CASE n = 0  BY <4>2, <4>3, <4>4
      <4>5. CASE n # 0
        <5>1. n - 1 \in 0 .. (m + 1) /\ n - 1 # m + 1  BY <4>1, <4>5
        <5>2. h[n - 1] = g[n - 1]  BY <5>1
        <5> QED  BY <4>2, <4>3, <4>5, <5>2
      <4> QED  BY <4>4, <4>5
    <3> QED  BY <3>1, <3>2
  <2>3. h = k  BY <2>2
  <2> HIDE DEF h, Next1
  <2>4. Unfolded(h, m + 1)  BY <2>3
  <2> QED  BY <2>4
<1> HIDE DEF P, Next1
<1>20. \A k \in 0 .. (N - 1) : k \in P => k + 1 \in P  BY <1>2
<1>21. \A k \in 0 .. N : k \in P  BY <1>1, <1>20, UpTo
<1>3. N \in P  BY <1>21
<1>4. \E g : Unfolded(g, N)  BY <1>3 DEF P
<1>5. st = CHOOSE g : Unfolded(g, N)  BY DEF ReplayStates, Next1
<1>6. Unfolded(st, N)  BY <1>4, <1>5
<1> QED  BY <1>6 DEF Next1, Replay

-----------------------------------------------------------------------------
(* What a close takes.                                                       *)

Lot ==
  [id : Nat, openedBy : Nat, openedAt : Nat, original : Nat \ {0},
   remaining : Nat \ {0}, price : Nat \ {0}, cost : Nat, fees : Nat]

\* The lots of a position, known by their ids.
LotTable(lots) ==
  /\ IsFiniteSet(lots) /\ lots \subseteq Lot
  /\ \A a, b \in lots : a.id = b.id => a = b

LEMMA LotFields ==
  ASSUME NEW lots, LotTable(lots), NEW l \in lots
  PROVE  /\ l.id \in Nat /\ l.openedBy \in Nat /\ l.openedAt \in Nat
         /\ l.original \in Nat \ {0} /\ l.remaining \in Nat \ {0}
         /\ l.price \in Nat \ {0} /\ l.cost \in Nat /\ l.fees \in Nat
BY DEF LotTable, Lot

LEMMA Ages ==
  ASSUME NEW lots, LotTable(lots)
  PROVE  TotallyOrders({p \in lots \X lots : OlderLot(p[1], p[2])}, lots)
<1> DEFINE key(l) == Leading(l.id)
           Before(a, b) == \/ a.openedAt < b.openedAt
                           \/ /\ a.openedAt = b.openedAt
                              /\ key(a) < key(b) \/ (key(a) = key(b) /\ a.id < b.id)
           R == {p \in lots \X lots : OlderLot(p[1], p[2])}
<1>1. \A n \in Nat : Leading(n) \in Int  BY DEF Leading
<1>2. \A a, b \in lots : <<a, b>> \in R <=> Before(a, b)  BY DEF OlderLot, IdBefore
<1>3. \A a \in lots : a.id \in Int /\ a.openedAt \in Int /\ key(a) \in Int
  BY <1>1, LotFields
<1>4. \A a, b \in lots : a.id = b.id => a = b  BY DEF LotTable
<1> HIDE DEF key, R
<1>5. \A a \in lots : ~Before(a, a)  BY <1>3
<1>6. \A a, b, c \in lots : Before(a, b) /\ Before(b, c) => Before(a, c)  BY <1>3
<1>7. \A a, b \in lots : a = b \/ Before(a, b) \/ Before(b, a)  BY <1>3, <1>4
<1>8. TotallyOrders(R, lots)
  <2> HIDE DEF Before
  <2> QED  BY <1>2, <1>5, <1>6, <1>7 DEF TotallyOrders
<1> QED  BY <1>8 DEF R

\* Some of the lots hold a natural number of shares, and no more than all of them.
LEMMA OpenQuantities ==
  ASSUME NEW lots, LotTable(lots), NEW D \in SUBSET lots
  PROVE  /\ LotTable(D) /\ OpenQuantity(D) \in Nat
         /\ [l \in D |-> l.remaining] \in [D -> Int]
<1>1. LotTable(D)  BY FS_Subset DEF LotTable
<1>2. \A l \in D : l.remaining \in Nat  BY LotFields
<1> DEFINE f == [l \in D |-> l.remaining]
<1>3. f \in [D -> Int] /\ \A l \in D : f[l] \in Nat  BY <1>2
<1> HIDE DEF f
<1>4. Total(f) \in Nat  BY <1>1, <1>3, TotalOfNaturals DEF LotTable
<1> QED  BY <1>1, <1>3, <1>4 DEF OpenQuantity, f

LEMMA OneLotMore ==
  ASSUME NEW lots, LotTable(lots), NEW D \in SUBSET lots, NEW x \in lots, x \notin D
  PROVE  OpenQuantity(D \cup {x}) = OpenQuantity(D) + x.remaining
<1> DEFINE f == [l \in lots |-> l.remaining]
<1>1. f \in [lots -> Int] /\ IsFiniteSet(lots)  BY OpenQuantities DEF LotTable
<1>2. /\ [l \in D |-> l.remaining] = Restrict(f, D)
      /\ [l \in D \cup {x} |-> l.remaining] = Restrict(f, D \cup {x})
      /\ f[x] = x.remaining
  BY DEF Restrict
<1> HIDE DEF f
<1>3. Total(Restrict(f, D \cup {x})) = Total(Restrict(f, D)) + f[x]
  BY <1>1, RestrictionAdded
<1> QED  BY <1>2, <1>3 DEF OpenQuantity

LEMMA MoreLots ==
  ASSUME NEW lots, LotTable(lots), NEW D \in SUBSET lots, NEW E \in SUBSET D
  PROVE  OpenQuantity(E) <= OpenQuantity(D)
<1> DEFINE f == [l \in D |-> l.remaining]
           g == Restrict(f, D \ E)
<1>1. f \in [D -> Int] /\ IsFiniteSet(D) /\ \A l \in D : f[l] \in Nat
  <2>1. LotTable(D)  BY OpenQuantities
  <2> QED  BY <2>1, LotFields, OpenQuantities DEF LotTable
<1>2. [l \in E |-> l.remaining] = Restrict(f, E)  BY DEF Restrict
<1>3. OpenQuantity(E) \in Nat /\ OpenQuantity(D) \in Nat
  <2>1. E \in SUBSET lots  OBVIOUS
  <2> QED  BY <2>1, OpenQuantities
<1> HIDE DEF f
<1>4. Total(f) = Total(Restrict(f, E)) + Total(g)  BY <1>1, TotalSplit
<1>5. IsFiniteSet(D \ E) /\ g \in [D \ E -> Int] /\ \A l \in D \ E : g[l] \in Nat
  BY <1>1, FS_Subset DEF Restrict
<1> HIDE DEF g
<1>6. Total(g) \in Nat  BY <1>5, TotalOfNaturals
<1>7. OpenQuantity(E) = Total(Restrict(f, E)) /\ OpenQuantity(D) = Total(f)
  BY <1>2 DEF OpenQuantity, f
<1> QED  BY <1>3, <1>4, <1>6, <1>7

Older(lots, lot) == {l \in lots : OlderLot(l, lot)}

LEMMA MatchRange ==
  ASSUME NEW lots, LotTable(lots), NEW q \in Nat, NEW l \in lots
  PROVE  /\ MatchQuantity(lots, q, l) \in 0 .. l.remaining
         /\ OpenQuantity(Older(lots, l)) \in Nat
         /\ MatchQuantity(lots, q, l)
              = Minimum(l.remaining, Maximum(q - OpenQuantity(Older(lots, l)), 0))
<1>1. Older(lots, l) \in SUBSET lots  BY DEF Older
<1>2. OpenQuantity(Older(lots, l)) \in Nat  BY <1>1, OpenQuantities
<1>3. l.remaining \in Nat  BY LotFields
<1>4. MatchQuantity(lots, q, l)
        = Minimum(l.remaining, Maximum(q - OpenQuantity(Older(lots, l)), 0))
  BY DEF MatchQuantity, Older
<1> QED  BY <1>2, <1>3, <1>4 DEF Minimum, Maximum

\* Of two lots the younger is touched only when the close uses the older one up.
LEMMA OldestFirst ==
  ASSUME NEW lots, LotTable(lots), NEW q \in Nat, NEW a \in lots, NEW b \in lots,
         OlderLot(a, b), MatchQuantity(lots, q, b) > 0
  PROVE  MatchQuantity(lots, q, a) = a.remaining
<1> DEFINE A == Older(lots, a)
           B == Older(lots, b)
           R == {p \in lots \X lots : OlderLot(p[1], p[2])}
<1>1. TotallyOrders(R, lots)  BY Ages
<1>2. \A x, y \in lots : <<x, y>> \in R <=> OlderLot(x, y)  OBVIOUS
<1> HIDE DEF R
<1>3. \A l \in A : l \in lots /\ OlderLot(l, a) /\ l # a /\ OlderLot(l, b)
  BY <1>1, <1>2 DEF TotallyOrders, Older
<1>4. A \in SUBSET lots /\ B \in SUBSET lots /\ a \notin A /\ A \cup {a} \in SUBSET B
  BY <1>3 DEF Older
<1> HIDE DEF A, B
<1>5. OpenQuantity(A \cup {a}) = OpenQuantity(A) + a.remaining  BY <1>4, OneLotMore
<1> DEFINE D == A \cup {a}
<1>6. D \in SUBSET B  BY <1>4
<1> HIDE DEF D
<1>7. OpenQuantity(D) <= OpenQuantity(B)  BY <1>4, <1>6, MoreLots
<1>8. /\ OpenQuantity(A) \in Nat /\ OpenQuantity(B) \in Nat
      /\ a.remaining \in Nat /\ b.remaining \in Nat
  BY <1>4, OpenQuantities, LotFields
<1>9. /\ MatchQuantity(lots, q, a) = Minimum(a.remaining, Maximum(q - OpenQuantity(A), 0))
      /\ MatchQuantity(lots, q, b) = Minimum(b.remaining, Maximum(q - OpenQuantity(B), 0))
  BY MatchRange DEF A, B
<1> QED  BY <1>5, <1>7, <1>8, <1>9 DEF D, Minimum, Maximum

\* A close takes the whole of its quantity, when there is as much.
LEMMA TakesItsQuantity ==
  ASSUME NEW lots, LotTable(lots), NEW q \in Nat
  PROVE  Total([l \in lots |-> MatchQuantity(lots, q, l)]) = Minimum(q, OpenQuantity(lots))
<1> DEFINE f == [l \in lots |-> MatchQuantity(lots, q, l)]
           R == {p \in lots \X lots : OlderLot(p[1], p[2])}
           Oldest(D) == \A x \in D, y \in lots : <<y, x>> \in R => y \in D
           P == {D \in SUBSET lots : Oldest(D) =>
                   Total(Restrict(f, D)) = Minimum(q, OpenQuantity(D))}
<1>1. TotallyOrders(R, lots) /\ IsFiniteSet(lots)  BY Ages DEF LotTable
<1>2. \A x \in lots : Older(lots, x) = {y \in lots : <<y, x>> \in R}  BY DEF Older
<1>3. f \in [lots -> Int] /\ \A l \in lots : f[l] = MatchQuantity(lots, q, l)
  BY MatchRange
<1>4. P \in SUBSET (SUBSET lots)  OBVIOUS
<1> HIDE DEF R, f
<1>5. SUFFICES ASSUME lots \notin P PROVE FALSE
  <2>1. Total(Restrict(f, lots)) = Minimum(q, OpenQuantity(lots))  BY <1>5
  <2>2. Restrict(f, lots) = f  BY <1>3 DEF Restrict
  <2> QED  BY <2>1, <2>2 DEF f
<1>6. PICK D \in SUBSET lots : D \notin P /\ \A E \in SUBSET D : E # D => E \in P
  <2> HIDE DEF P
  <2> QED  BY <1>1, <1>4, <1>5, SmallestMissing
<1>7. Oldest(D) /\ Total(Restrict(f, D)) # Minimum(q, OpenQuantity(D))  BY <1>6
<1>8. D # {}
  <2>1. Total(Restrict(f, {})) = 0 /\ OpenQuantity({}) = 0
    BY TotalOfNone DEF Restrict, OpenQuantity
  <2> QED  BY <1>7, <2>1 DEF Minimum
<1>9. IsFiniteSet(D) /\ TotallyOrders(R, D)  BY <1>1, FS_Subset DEF TotallyOrders
<1>10. PICK x \in D : \A y \in D : y # x => <<y, x>> \in R  BY <1>8, <1>9, LastOne
<1> DEFINE E == D \ {x}
<1>11. Older(lots, x) = E
  <2>1. \A y \in lots : <<y, x>> \in R => y \in E
    BY <1>1, <1>7, <1>10 DEF TotallyOrders
  <2>2. \A y \in E : y \in lots /\ <<y, x>> \in R  BY <1>10
  <2>3. Older(lots, x) = {y \in lots : <<y, x>> \in R}  BY <1>2
  <2> HIDE DEF E
  <2> QED  BY <2>1, <2>2, <2>3
<1>12. Oldest(E)
  <2> SUFFICES ASSUME NEW z \in E, NEW y \in lots, <<y, z>> \in R PROVE y \in E
    OBVIOUS
  <2>1. y \in D /\ z \in lots /\ x \in lots /\ <<z, x>> \in R  BY <1>7, <1>10
  <2>2. y # x  BY <1>1, <2>1 DEF TotallyOrders
  <2> QED  BY <2>1, <2>2
<1>13. E \in SUBSET D /\ E # D /\ E \in SUBSET lots /\ x \in lots /\ x \notin E /\ E \cup {x} = D
  OBVIOUS
<1>14. Total(Restrict(f, E)) = Minimum(q, OpenQuantity(E))
  <2>1. E \in P  BY <1>6, <1>13
  <2> HIDE DEF E
  <2> QED  BY <1>12, <2>1
<1> HIDE DEF E
<1>15. OpenQuantity(E \cup {x}) = OpenQuantity(E) + x.remaining  BY <1>13, OneLotMore
<1>16. Total(Restrict(f, E \cup {x})) = Total(Restrict(f, E)) + f[x]
  BY <1>1, <1>3, <1>13, RestrictionAdded
<1>17. f[x] = Minimum(x.remaining, Maximum(q - OpenQuantity(E), 0))
  BY <1>3, <1>11, <1>13, MatchRange
<1>18. OpenQuantity(E) \in Nat /\ x.remaining \in Nat  BY <1>13, OpenQuantities, LotFields
<1>19. /\ OpenQuantity(D) = OpenQuantity(E) + x.remaining
       /\ Total(Restrict(f, D)) = Total(Restrict(f, E)) + f[x]
  BY <1>13, <1>15, <1>16
<1> DEFINE open == OpenQuantity(E)
           taken == Total(Restrict(f, E))
           all == Total(Restrict(f, D))
<1>20. /\ all # Minimum(q, open + x.remaining)
       /\ taken = Minimum(q, open)
       /\ all = taken + Minimum(x.remaining, Maximum(q - open, 0))
       /\ open \in Nat
  BY <1>7, <1>14, <1>17, <1>18, <1>19
<1> HIDE DEF open, taken, all
<1> QED  BY <1>18, <1>20 DEF Minimum, Maximum

-----------------------------------------------------------------------------
(* Fees and lots after a close.                                              *)

\* Dividing a part of an amount by the whole gives no more than the amount.
LEMMA PartOfWhole ==
  ASSUME NEW amount \in Nat, NEW whole \in Nat \ {0}, NEW part \in 0 .. whole
  PROVE  (amount * part) \div whole \in 0 .. amount
<1> DEFINE product == amount * part
           quotient == product \div whole
<1>1. product \in Nat /\ product <= amount * whole  OBVIOUS
<1>2. quotient \in Nat /\ whole * quotient <= product
  <2> HIDE DEF product
  <2> QED  BY <1>1
<1>3. whole * quotient <= whole * amount  BY <1>1, <1>2
<1>4. ASSUME quotient > amount PROVE FALSE
  <2> HIDE DEF quotient
  <2>1. quotient = amount + 1 + (quotient - amount - 1) /\ quotient - amount - 1 \in Nat
    BY <1>2, <1>4
  <2>2. whole * quotient >= whole * (amount + 1)  BY <1>2, <1>4
  <2>3. whole * (amount + 1) = whole * amount + whole  OBVIOUS
  <2> QED  BY <1>2, <1>3, <2>2, <2>3
<1> QED  BY <1>2, <1>4

\* A match never realises more of a lot's fee than is left of it.
LEMMA FeeShare ==
  ASSUME NEW fees \in Nat, NEW lot, lot.fees = fees, lot.remaining \in Nat \ {0},
         NEW matched \in 0 .. lot.remaining
  PROVE  AllocateLotEntryFeeShare(lot, matched) \in 0 .. fees
<1> DEFINE whole == lot.remaining
           amount == fees * 10000
           share == (amount * matched) \div whole
<1>1. amount \in Nat /\ whole \in Nat \ {0} /\ matched \in 0 .. whole  OBVIOUS
<1>2. share \in 0 .. amount
  <2> HIDE DEF amount, whole
  <2> QED  BY <1>1, PartOfWhole
<1>3. AllocateLotEntryFeeShare(lot, matched)
        = IF matched = whole THEN fees ELSE (share + 5000) \div 10000
  BY DEF AllocateLotEntryFeeShare, FromMicros, ToMicros, MicrosPerHundredth
<1> HIDE DEF share
<1>4. (share + 5000) \div 10000 \in 0 .. fees  BY <1>2
<1> QED  BY <1>3, <1>4

LEMMA ProductNat ==
  ASSUME NEW a \in Nat, NEW b \in Nat
  PROVE  MultiplyDecimal(a, b) \in Nat
<1> DEFINE product == a * b
<1>1. product \in Nat  OBVIOUS
<1> HIDE DEF product
<1>2. (product + 50) \div 100 \in Nat  BY <1>1
<1> QED  BY <1>2 DEF MultiplyDecimal, product

\* The fee a close takes from a lot.
Taken(lots, q, l) ==
  IF MatchQuantity(lots, q, l) = 0
    THEN 0
    ELSE AllocateLotEntryFeeShare(l, MatchQuantity(lots, q, l))

LEMMA TakenRange ==
  ASSUME NEW lots, LotTable(lots), NEW q \in Nat, NEW l \in lots
  PROVE  /\ Taken(lots, q, l) \in 0 .. l.fees
         /\ MatchQuantity(lots, q, l) = l.remaining => Taken(lots, q, l) = l.fees
<1>1. /\ l.fees \in Nat /\ l.remaining \in Nat \ {0}
      /\ MatchQuantity(lots, q, l) \in 0 .. l.remaining
  BY LotFields, MatchRange
<1>2. AllocateLotEntryFeeShare(l, MatchQuantity(lots, q, l)) \in 0 .. l.fees
  BY <1>1, FeeShare
<1> QED  BY <1>1, <1>2 DEF Taken, AllocateLotEntryFeeShare

After(lots, q, l) == ReducedLot(l, MatchQuantity(lots, q, l))

\* A lot a close does not use up keeps its identity, and the rest of its quantity
\* and fee.
LEMMA LotAfter ==
  ASSUME NEW lots, LotTable(lots), NEW q \in Nat, NEW l \in lots
  PROVE  /\ After(lots, q, l).id = l.id
         /\ After(lots, q, l).openedBy = l.openedBy
         /\ After(lots, q, l).openedAt = l.openedAt
         /\ After(lots, q, l).original = l.original
         /\ After(lots, q, l).remaining = l.remaining - MatchQuantity(lots, q, l)
         /\ After(lots, q, l).fees = l.fees - Taken(lots, q, l)
         /\ After(lots, q, l).price = l.price
         /\ After(lots, q, l).cost
              = MultiplyDecimal(l.remaining - MatchQuantity(lots, q, l), l.price)
         /\ MatchQuantity(lots, q, l) < l.remaining => After(lots, q, l) \in Lot
<1> DEFINE m == MatchQuantity(lots, q, l)
           fee == Taken(lots, q, l)
           cost == MultiplyDecimal(l.remaining - m, l.price)
<1>1. l \in Lot  BY DEF LotTable
<1>2. After(lots, q, l) = [l EXCEPT !.remaining = l.remaining - m, !.fees = @ - fee, !.cost = cost]
  BY <1>1 DEF After, ReducedLot, Taken, Lot
<1>3. m \in 0 .. l.remaining /\ fee \in 0 .. l.fees  BY MatchRange, TakenRange
<1>4. l.remaining - m \in Nat /\ l.price \in Nat /\ l.remaining \in Nat /\ l.fees \in Nat
  BY <1>3, LotFields
<1>5. cost \in Nat  BY <1>4, ProductNat
<1> DEFINE a == After(lots, q, l)
           rest == l.remaining - m
           left == l.fees - fee
<1>6. rest \in Nat /\ left \in Nat /\ (m < l.remaining => rest \in Nat \ {0})
  BY <1>3, <1>4
<1>7. a = [l EXCEPT !.remaining = rest, !.fees = left, !.cost = cost]  BY <1>1, <1>2 DEF Lot
<1> HIDE DEF m, fee, cost, a, rest, left
<1>8. /\ a.id = l.id /\ a.openedBy = l.openedBy /\ a.openedAt = l.openedAt
      /\ a.original = l.original /\ a.remaining = rest /\ a.fees = left
      /\ a.price = l.price /\ a.cost = cost
  BY <1>1, <1>7 DEF Lot
<1>9. rest \in Nat \ {0} => a \in Lot
  BY <1>1, <1>5, <1>6, <1>7 DEF Lot
<1> QED  BY <1>6, <1>8, <1>9 DEF a, m, fee, rest, left, cost

\* The lots a close leaves open are those it does not use up.
LEMMA LotsLeft ==
  ASSUME NEW lots, LotTable(lots), NEW fill, fill.quantity \in Nat
  PROVE  /\ LotTable(LeftOpen(fill, lots))
         /\ \A x \in LeftOpen(fill, lots) : \E l \in lots :
              x = After(lots, fill.quantity, l)
              /\ MatchQuantity(lots, fill.quantity, l) < l.remaining
         /\ \A l \in lots : MatchQuantity(lots, fill.quantity, l) < l.remaining =>
              After(lots, fill.quantity, l) \in LeftOpen(fill, lots)
<1> DEFINE q == fill.quantity
           m(l) == MatchQuantity(lots, q, l)
           a(l) == After(lots, q, l)
           All == {a(l) : l \in lots}
           Left == LeftOpen(fill, lots)
<1>1. Left = {x \in All : x.remaining > 0}  BY DEF LeftOpen, After
<1> HIDE DEF q
<1>2. q \in Nat  BY DEF q
<1>3. \A l \in lots : /\ m(l) \in 0 .. l.remaining /\ l.remaining \in Nat /\ l.id \in Nat
                      /\ a(l).remaining = l.remaining - m(l) /\ a(l).id = l.id
                      /\ (m(l) < l.remaining => a(l) \in Lot)
  BY <1>2, MatchRange, LotFields, LotAfter
<1> HIDE DEF m, a, Left
<1>4. IsFiniteSet(All)
  <2> DEFINE g == [l \in lots |-> a(l)]
  <2>1. IsFiniteSet(lots) /\ DOMAIN g = lots  BY DEF LotTable
  <2>2. All = {g[l] : l \in lots}  OBVIOUS
  <2> HIDE DEF g, All
  <2>3. IsFiniteSet({g[l] : l \in lots})  BY <2>1, ImageFinite
  <2> QED  BY <2>2, <2>3
<1>5. \A x \in Left : \E l \in lots : x = a(l) /\ m(l) < l.remaining
  <2> SUFFICES ASSUME NEW x \in Left PROVE \E l \in lots : x = a(l) /\ m(l) < l.remaining
    OBVIOUS
  <2>1. PICK l \in lots : x = a(l)  BY <1>1
  <2>2. a(l).remaining > 0  BY <1>1, <2>1
  <2>3. m(l) < l.remaining  BY <1>3, <2>2
  <2> QED  BY <2>1, <2>3
<1>6. \A l \in lots : m(l) < l.remaining => a(l) \in Left
  <2> SUFFICES ASSUME NEW l \in lots, m(l) < l.remaining PROVE a(l) \in Left  OBVIOUS
  <2>1. a(l) \in All  OBVIOUS
  <2>2. a(l).remaining > 0  BY <1>3
  <2> HIDE DEF All
  <2> QED  BY <1>1, <2>1, <2>2
<1>7. IsFiniteSet(Left)
  <2>1. Left \in SUBSET All  BY <1>1
  <2> HIDE DEF All
  <2> QED  BY <1>4, <2>1, FS_Subset
<1>8. \A x, y \in Left : x.id = y.id => x = y
  <2> SUFFICES ASSUME NEW x \in Left, NEW y \in Left, x.id = y.id PROVE x = y  OBVIOUS
  <2>1. PICK l \in lots : x = a(l)  BY <1>5
  <2>2. PICK k \in lots : y = a(k)  BY <1>5
  <2>3. l.id = k.id  BY <1>3, <2>1, <2>2
  <2>4. l = k  BY <2>3 DEF LotTable
  <2> QED  BY <2>1, <2>2, <2>4
<1>9. Left \subseteq Lot  BY <1>3, <1>5
<1> QED  BY <1>5, <1>6, <1>7, <1>8, <1>9 DEF LotTable, Left, a, m, q

\* What the lots left add up to.
LEMMA TotalLeft ==
  ASSUME NEW lots, LotTable(lots), NEW fill, fill.quantity \in Nat, NEW f \in [lots -> Int],
         \A l \in lots : MatchQuantity(lots, fill.quantity, l) = l.remaining => f[l] = 0,
         NEW e \in [LeftOpen(fill, lots) -> Int],
         \A l \in lots : MatchQuantity(lots, fill.quantity, l) < l.remaining =>
           e[After(lots, fill.quantity, l)] = f[l]
  PROVE  Total(e) = Total(f)
<1> DEFINE q == fill.quantity
           m(l) == MatchQuantity(lots, q, l)
           h == [l \in lots |-> After(lots, q, l)]
           Left == LeftOpen(fill, lots)
           U == {l \in lots : m(l) < l.remaining}
<1> HIDE DEF q
<1>1. \A l \in lots : /\ m(l) \in 0 .. l.remaining /\ l.remaining \in Nat
                      /\ After(lots, q, l).id = l.id
  BY MatchRange, LotFields, LotAfter DEF q
<1>2. /\ \A x \in Left : \E l \in lots : x = After(lots, q, l) /\ m(l) < l.remaining
      /\ \A l \in lots : m(l) < l.remaining => After(lots, q, l) \in Left
  BY LotsLeft DEF q
<1>3. /\ \A l \in lots : m(l) = l.remaining => f[l] = 0
      /\ \A l \in lots : m(l) < l.remaining => e[After(lots, q, l)] = f[l]
  BY DEF q
<1>4. \A l \in lots : h[l] = After(lots, q, l)  OBVIOUS
<1>5. e \in [Left -> Int] /\ IsFiniteSet(lots) /\ \A a, b \in lots : a.id = b.id => a = b
  BY DEF LotTable
<1> HIDE DEF m, Left, h
<1>6. U \in SUBSET lots /\ \A l \in lots \ U : f[l] = 0  BY <1>1, <1>3
<1>7. (\A x \in U : h[x] \in Left) /\ \A y \in Left : \E x \in U : y = h[x]  BY <1>2, <1>4
<1>8. \A x, y \in U : h[x] = h[y] => x = y
  <2> SUFFICES ASSUME NEW x \in U, NEW y \in U, h[x] = h[y] PROVE x = y  OBVIOUS
  <2>1. x.id = y.id  BY <1>1, <1>4
  <2> QED  BY <1>5, <2>1
<1>9. \A x \in U : e[h[x]] = f[x]  BY <1>3, <1>4
<1> HIDE DEF U
<1>10. Pairs(h, U, Left)  BY <1>7, <1>8 DEF Pairs
<1> QED  BY <1>5, <1>6, <1>9, <1>10, TotalOfImage

LotFees(lots) == Total([l \in lots |-> l.fees])

\* What a close takes it takes from what is open, and the fees of the lots left are
\* what the matches did not realise.
LEMMA LeftAddsUp ==
  ASSUME NEW lots, LotTable(lots), NEW fill, fill.quantity \in Nat
  PROVE  /\ OpenQuantity(LeftOpen(fill, lots))
              = OpenQuantity(lots) - Minimum(fill.quantity, OpenQuantity(lots))
         /\ LotFees(lots) = LotFees(LeftOpen(fill, lots))
                              + Total([l \in lots |-> Taken(lots, fill.quantity, l)])
         /\ LotFees(LeftOpen(fill, lots)) \in Nat /\ LotFees(lots) \in Nat
         /\ Total([l \in lots |-> Taken(lots, fill.quantity, l)]) \in Nat
<1> DEFINE q == fill.quantity
           m == [l \in lots |-> MatchQuantity(lots, q, l)]
           taken == [l \in lots |-> Taken(lots, q, l)]
           open == [l \in lots |-> l.remaining]
           fee == [l \in lots |-> l.fees]
           rest == [l \in lots |-> l.remaining - MatchQuantity(lots, q, l)]
           kept == [l \in lots |-> l.fees - Taken(lots, q, l)]
           Left == LeftOpen(fill, lots)
           openLeft == [l \in Left |-> l.remaining]
           feeLeft == [l \in Left |-> l.fees]
<1>1. \A l \in lots : /\ MatchQuantity(lots, q, l) \in 0 .. l.remaining /\ l.remaining \in Nat
                      /\ Taken(lots, q, l) \in 0 .. l.fees /\ l.fees \in Nat
                      /\ MatchQuantity(lots, q, l) = l.remaining => Taken(lots, q, l) = l.fees
                      /\ After(lots, q, l).remaining = l.remaining - MatchQuantity(lots, q, l)
                      /\ After(lots, q, l).fees = l.fees - Taken(lots, q, l)
  BY MatchRange, LotFields, TakenRange, LotAfter
<1>2. LotTable(Left) /\ IsFiniteSet(lots) /\ IsFiniteSet(Left)
      /\ \A l \in lots : MatchQuantity(lots, q, l) < l.remaining => After(lots, q, l) \in Left
  BY LotsLeft DEF LotTable
<1>3. \A l \in Left : l.remaining \in Nat /\ l.fees \in Nat
  <2> HIDE DEF Left
  <2> QED  BY <1>2, LotFields
<1>4. /\ m \in [lots -> Int] /\ open \in [lots -> Int] /\ rest \in [lots -> Int]
      /\ taken \in [lots -> Int] /\ fee \in [lots -> Int] /\ kept \in [lots -> Int]
      /\ openLeft \in [Left -> Int] /\ feeLeft \in [Left -> Int]
  BY <1>1, <1>3
<1>5. \A l \in lots : open[l] = rest[l] + m[l] /\ fee[l] = kept[l] + taken[l]
  BY <1>1
<1>6. \A l \in lots : fee[l] \in Nat /\ taken[l] \in Nat  BY <1>1
<1>7. \A l \in Left : feeLeft[l] \in Nat  BY <1>3
<1>8. /\ \A l \in lots : MatchQuantity(lots, q, l) = l.remaining => rest[l] = 0 /\ kept[l] = 0
      /\ \A l \in lots : MatchQuantity(lots, q, l) < l.remaining =>
           openLeft[After(lots, q, l)] = rest[l] /\ feeLeft[After(lots, q, l)] = kept[l]
  BY <1>1, <1>2
<1>9. Total(m) = Minimum(q, OpenQuantity(lots))
  <2>1. q \in Nat  OBVIOUS
  <2> HIDE DEF q
  <2> QED  BY <2>1, TakesItsQuantity
<1> HIDE DEF m, taken, open, fee, rest, kept, openLeft, feeLeft
<1>10. Total(open) = Total(rest) + Total(m) /\ Total(fee) = Total(kept) + Total(taken)
  BY <1>2, <1>4, <1>5, TotalOfSum
<1>11. Total(openLeft) = Total(rest)  BY <1>4, <1>8, TotalLeft
<1>12. Total(feeLeft) = Total(kept)  BY <1>4, <1>8, TotalLeft
<1>13. Total(rest) \in Int /\ Total(m) \in Int  BY <1>2, <1>4, TotalInt
<1>14. Total(fee) \in Nat /\ Total(taken) \in Nat  BY <1>2, <1>4, <1>6, TotalOfNaturals
<1> HIDE DEF Left
<1>15. Total(feeLeft) \in Nat  BY <1>2, <1>4, <1>7, TotalOfNaturals
<1>16. /\ OpenQuantity(lots) = Total(open) /\ OpenQuantity(Left) = Total(openLeft)
       /\ LotFees(lots) = Total(fee) /\ LotFees(Left) = Total(feeLeft)
  BY DEF OpenQuantity, LotFees, open, openLeft, fee, feeLeft
<1> QED
  BY <1>9, <1>10, <1>11, <1>12, <1>13, <1>14, <1>15, <1>16 DEF Left, taken

-----------------------------------------------------------------------------
(* The matches of a close.                                                   *)

EntryFees(matches) == Total([m \in matches |-> m.entryFee])

MatchedOf(matches, id) == Total([m \in {m \in matches : m.lot = id} |-> m.quantity])

\* Finitely many matches, each of a positive quantity and with a natural entry fee.
MatchTable(matches) ==
  IsFiniteSet(matches) /\ \A m \in matches : m.quantity \in Nat \ {0} /\ m.entryFee \in Nat

LEMMA MatchesMade ==
  ASSUME NEW lots, LotTable(lots), NEW position, position.lots = lots,
         NEW fill, fill.quantity \in Nat
  PROVE  /\ MatchTable(Matches(fill, position))
         /\ \A m \in Matches(fill, position) : \E l \in lots :
              /\ m.lot = l.id /\ m.closedBy = fill.id
              /\ m.quantity = MatchQuantity(lots, fill.quantity, l)
         /\ EntryFees(Matches(fill, position))
              = Total([l \in lots |-> Taken(lots, fill.quantity, l)])
         /\ \A l \in lots : MatchedOf(Matches(fill, position), l.id)
                              = MatchQuantity(lots, fill.quantity, l)
<1> DEFINE q == fill.quantity
           mq(l) == MatchQuantity(lots, q, l)
           match(l) == Match(fill, position, l)
           U == {l \in lots : mq(l) > 0}
           h == [l \in U |-> match(l)]
           M == Matches(fill, position)
           taken == [l \in lots |-> Taken(lots, q, l)]
           fee == [m \in M |-> m.entryFee]
<1>1. M = {match(l) : l \in U}  BY DEF Matches, MatchedLots
<1>2. \A l \in lots : /\ match(l).lot = l.id /\ match(l).closedBy = fill.id
                      /\ match(l).quantity = mq(l)
                      /\ mq(l) > 0 => match(l).entryFee = Taken(lots, q, l)
                      /\ mq(l) = 0 => Taken(lots, q, l) = 0
  <2> SUFFICES ASSUME NEW l \in lots
               PROVE  /\ match(l).lot = l.id /\ match(l).closedBy = fill.id
                      /\ match(l).quantity = mq(l)
                      /\ mq(l) > 0 => match(l).entryFee = Taken(lots, q, l)
                      /\ mq(l) = 0 => Taken(lots, q, l) = 0
    OBVIOUS
  <2>1. /\ match(l).lot = l.id /\ match(l).closedBy = fill.id /\ match(l).quantity = mq(l)
        /\ match(l).entryFee = AllocateLotEntryFeeShare(l, mq(l))
    BY DEF Match
  <2> HIDE DEF match
  <2> QED  BY <2>1 DEF Taken
<1>3. \A l \in lots : mq(l) \in Nat /\ Taken(lots, q, l) \in Nat
  BY MatchRange, TakenRange, LotFields
<1>4. \A l \in U : l \in lots /\ h[l] = match(l) /\ mq(l) > 0  OBVIOUS
<1>5. U \in SUBSET lots /\ \A l \in lots \ U : mq(l) = 0  BY <1>3
<1>6. IsFiniteSet(lots) /\ \A a, b \in lots : a.id = b.id => a = b  BY DEF LotTable
<1> HIDE DEF match, mq, U, h, M
<1>7. Pairs(h, U, M)
  <2>1. \A x \in U : h[x] \in M  BY <1>1, <1>4
  <2>2. \A y \in M : \E x \in U : y = h[x]  BY <1>1, <1>4
  <2>3. \A x, y \in U : h[x] = h[y] => x = y
    <3> SUFFICES ASSUME NEW x \in U, NEW y \in U, h[x] = h[y] PROVE x = y  OBVIOUS
    <3>1. x.id = y.id  BY <1>2, <1>4
    <3> QED  BY <1>4, <1>6, <3>1
  <2> QED  BY <2>1, <2>2, <2>3 DEF Pairs
<1>8. ASSUME NEW m \in M
      PROVE  /\ m.quantity \in Nat \ {0} /\ m.entryFee \in Nat
             /\ \E l \in U : /\ l \in lots /\ m = match(l)
                             /\ m.lot = l.id /\ m.closedBy = fill.id /\ m.quantity = mq(l)
  <2>1. PICK l \in U : m = match(l)  BY <1>1
  <2>2. l \in lots /\ mq(l) > 0  BY <1>4
  <2>3. /\ m.lot = l.id /\ m.closedBy = fill.id /\ m.quantity = mq(l)
        /\ m.entryFee = Taken(lots, q, l)
    BY <1>2, <2>1, <2>2
  <2>4. mq(l) \in Nat \ {0} /\ Taken(lots, q, l) \in Nat  BY <1>3, <2>2
  <2>5. m.quantity \in Nat \ {0} /\ m.entryFee \in Nat  BY <2>3, <2>4
  <2>6. \E k \in U : /\ k \in lots /\ m = match(k)
                     /\ m.lot = k.id /\ m.closedBy = fill.id /\ m.quantity = mq(k)
    BY <2>1, <2>2, <2>3
  <2> QED  BY <2>5, <2>6
<1>81. \A m \in M : m.quantity \in Nat \ {0} /\ m.entryFee \in Nat  BY <1>8
<1>82. \A m \in M : \E l \in lots :
         /\ m.lot = l.id /\ m.closedBy = fill.id /\ m.quantity = mq(l)
  BY <1>8
<1>9. /\ taken \in [lots -> Int] /\ fee \in [M -> Int]
      /\ \A l \in lots \ U : taken[l] = 0
      /\ \A l \in U : fee[h[l]] = taken[l]
  <2>1. \A m \in M : m.entryFee \in Int  BY <1>81
  <2>2. \A l \in U : h[l] \in M  BY <1>7 DEF Pairs
  <2>3. \A l \in U : h[l].entryFee = taken[l]  BY <1>2, <1>4
  <2>4. \A l \in lots \ U : taken[l] = 0  BY <1>2, <1>5
  <2>5. taken \in [lots -> Int]  BY <1>3
  <2> QED  BY <2>1, <2>2, <2>3, <2>4, <2>5
<1> HIDE DEF taken, fee
<1>10. IsFiniteSet(M) /\ Total(fee) = Total(taken)
  <2>1. IsFiniteSet(lots) /\ U \in SUBSET lots  BY <1>5, <1>6
  <2>2. (\A l \in lots \ U : taken[l] = 0) /\ \A l \in U : fee[h[l]] = taken[l]  BY <1>9
  <2> QED  BY <1>7, <1>9, <2>1, <2>2, TotalOfImage
<1>11. \A l \in lots : MatchedOf(M, l.id) = mq(l)
  <2> SUFFICES ASSUME NEW l \in lots PROVE MatchedOf(M, l.id) = mq(l)  OBVIOUS
  <2> DEFINE D == {m \in M : m.lot = l.id}
             f == [m \in D |-> m.quantity]
  <2>1. IsFiniteSet(D)  BY <1>10, FS_Subset
  <2>2. f \in [D -> Int] /\ MatchedOf(M, l.id) = Total(f)  BY <1>81 DEF MatchedOf
  <2>3. \A m \in D : m = match(l) /\ l \in U  BY <1>6, <1>8
  <2>4. CASE l \in U
    <3>1. match(l) \in D /\ f[match(l)] = mq(l)  BY <1>1, <1>2, <2>4
    <3> DEFINE x == match(l)
    <3>2. x \in D /\ \A y \in D : y = x  BY <2>3, <3>1
    <3> HIDE DEF D, f, x
    <3>3. Total(f) = f[x]  BY <2>1, <2>2, <3>2, TotalOfOne
    <3> QED  BY <2>2, <3>1, <3>3 DEF x
  <2>5. CASE l \notin U
    <3>1. D = {}  BY <2>3, <2>5
    <3>2. DOMAIN f = {}  BY <3>1
    <3> HIDE DEF D, f
    <3>3. Total(f) = 0  BY <3>2, TotalOfNone
    <3> QED  BY <1>5, <2>2, <2>5, <3>3
  <2> QED  BY <2>4, <2>5
<1>12. MatchTable(M)  BY <1>81, <1>10 DEF MatchTable
<1> QED  BY <1>82, <1>10, <1>11, <1>12 DEF EntryFees, M, mq, fee, taken

\* Matches of two closes add up.
LEMMA MoreMatches ==
  ASSUME NEW A, MatchTable(A), NEW B, MatchTable(B), A \cap B = {}
  PROVE  /\ MatchTable(A \cup B)
         /\ EntryFees(A) \in Nat /\ EntryFees(B) \in Nat
         /\ EntryFees(A \cup B) = EntryFees(A) + EntryFees(B)
         /\ \A id : /\ MatchedOf(A, id) \in Nat /\ MatchedOf(B, id) \in Nat
                    /\ MatchedOf(A \cup B, id) = MatchedOf(A, id) + MatchedOf(B, id)
<1>1. MatchTable(A \cup B)  BY FS_Union DEF MatchTable
<1>2. /\ EntryFees(A) \in Nat /\ EntryFees(B) \in Nat
      /\ EntryFees(A \cup B) = EntryFees(A) + EntryFees(B)
  <2> DEFINE f == [m \in A |-> m.entryFee]
             g == [m \in B |-> m.entryFee]
             e == [m \in A \cup B |-> m.entryFee]
  <2>1. /\ f \in [A -> Int] /\ g \in [B -> Int] /\ IsFiniteSet(A) /\ IsFiniteSet(B)
        /\ \A m \in A : f[m] \in Nat /\ e[m] = f[m]
        /\ \A m \in B : g[m] \in Nat /\ e[m] = g[m]
        /\ DOMAIN e = A \cup B /\ e = [m \in DOMAIN e |-> e[m]]
    BY DEF MatchTable
  <2> HIDE DEF f, g, e
  <2>2. Total(e) = Total(f) + Total(g)  BY <2>1, TotalOfUnion
  <2>3. Total(f) \in Nat /\ Total(g) \in Nat  BY <2>1, TotalOfNaturals
  <2> QED  BY <2>2, <2>3 DEF EntryFees, e, f, g
<1>3. ASSUME NEW id
      PROVE  /\ MatchedOf(A, id) \in Nat /\ MatchedOf(B, id) \in Nat
             /\ MatchedOf(A \cup B, id) = MatchedOf(A, id) + MatchedOf(B, id)
  <2> DEFINE C == {m \in A : m.lot = id}
             D == {m \in B : m.lot = id}
             f == [m \in C |-> m.quantity]
             g == [m \in D |-> m.quantity]
             e == [m \in C \cup D |-> m.quantity]
  <2>1. IsFiniteSet(C) /\ IsFiniteSet(D) /\ C \cap D = {}
    BY FS_Subset DEF MatchTable
  <2>2. /\ f \in [C -> Int] /\ g \in [D -> Int]
        /\ \A m \in C : f[m] \in Nat /\ e[m] = f[m]
        /\ \A m \in D : g[m] \in Nat /\ e[m] = g[m]
        /\ DOMAIN e = C \cup D /\ e = [m \in DOMAIN e |-> e[m]]
    BY DEF MatchTable
  <2>3. {m \in A \cup B : m.lot = id} = C \cup D  OBVIOUS
  <2>4. /\ MatchedOf(A \cup B, id) = Total(e) /\ MatchedOf(A, id) = Total(f)
        /\ MatchedOf(B, id) = Total(g)
    BY <2>3 DEF MatchedOf
  <2> HIDE DEF C, D, f, g, e
  <2>5. Total(e) = Total(f) + Total(g)  BY <2>1, <2>2, TotalOfUnion
  <2>6. Total(f) \in Nat /\ Total(g) \in Nat  BY <2>1, <2>2, TotalOfNaturals
  <2> QED  BY <2>4, <2>5, <2>6
<1> QED  BY <1>1, <1>2, <1>3

\* No match names a lot, nothing was taken from it.
LEMMA Untouched ==
  ASSUME NEW matches, NEW id, \A m \in matches : m.lot # id
  PROVE  MatchedOf(matches, id) = 0
<1> DEFINE f == [m \in {m \in matches : m.lot = id} |-> m.quantity]
<1>1. DOMAIN f = {}  OBVIOUS
<1> HIDE DEF f
<1>2. Total(f) = 0  BY <1>1, TotalOfNone
<1> QED  BY <1>2 DEF MatchedOf, f

LEMMA LotFeesNat ==
  ASSUME NEW lots, LotTable(lots)
  PROVE  LotFees(lots) \in Nat
<1> DEFINE f == [l \in lots |-> l.fees]
<1>1. f \in [lots -> Int] /\ IsFiniteSet(lots) /\ \A l \in lots : f[l] \in Nat
  BY LotFields DEF LotTable
<1> HIDE DEF f
<1>2. Total(f) \in Nat  BY <1>1, TotalOfNaturals
<1> QED  BY <1>2 DEF LotFees, f

LEMMA EntryFeesNat ==
  ASSUME NEW matches, MatchTable(matches)
  PROVE  EntryFees(matches) \in Nat
<1>1. MatchTable({}) /\ matches \cap {} = {}  BY FS_EmptySet DEF MatchTable
<1> QED  BY <1>1, MoreMatches

-----------------------------------------------------------------------------
(* What a replay keeps true.                                                 *)

FillRow ==
  [id : Nat, action : EconomicActions, quantity : Nat \ {0}, price : Nat \ {0},
   fees : Nat, postedAt : Nat]

\* A stream replays each execution once.
Fills(stream) ==
  /\ stream \in Seq(FillRow)
  /\ \A j, k \in DOMAIN stream : stream[j].id = stream[k].id => j = k

\* Each lot was opened by one of the first n fills, and has an id in their order.
LotsOpened(opened, counter, stream, n) ==
  /\ \A o \in opened :
       /\ o.id \in 1 .. counter /\ o.remaining = o.original
       /\ \E k \in 1 .. n : /\ o.openedBy = stream[k].id
                            /\ o.openedAt = stream[k].postedAt /\ o.fees = stream[k].fees
  /\ \A o, p \in opened : \A j, k \in 1 .. n :
       o.openedBy = stream[j].id /\ p.openedBy = stream[k].id =>
         (j < k => o.id < p.id) /\ (j = k => o = p)

\* A lot that is open is one that was opened.
SameLot(l, o) ==
  /\ l.id = o.id /\ l.openedBy = o.openedBy /\ l.openedAt = o.openedAt
  /\ l.original = o.original

StillOpen(lots, opened) == \A l \in lots : \E o \in opened : SameLot(l, o)

\* Each match closes a lot by one of the first n fills.
MatchesClosed(matches, counter, stream, n) ==
  \A m \in matches : m.lot \in 1 .. counter /\ \E k \in 1 .. n : m.closedBy = stream[k].id

\* The position holds what its lots hold, and has a direction as long as that is something.
Holding(direction, quantity, lots) ==
  /\ quantity = OpenQuantity(lots)
  /\ direction \in Directions \cup {"none", "flat"}
  /\ quantity = 0 <=> direction \notin Directions

\* What was taken from a lot and what is left of it is what was opened.
LotsUsed(lots, opened, matches) ==
  /\ \A l \in lots : l.original = l.remaining + MatchedOf(matches, l.id)
  /\ \A o \in opened : (\A l \in lots : l.id # o.id) => o.original = MatchedOf(matches, o.id)

FeesKept(lots, opened, matches) ==
  EntryFees(matches) + LotFees(lots) = LotFees(opened)

\* A lot is touched when the older ones opened before it are used up.
OldestUsedFirst(lots, opened, matches) ==
  \A o, p \in opened :
    OlderLot(o, p) /\ o.id < p.id /\ (\E m \in matches : m.lot = p.id) =>
      \A l \in lots : l.id # o.id

Accounted(acc, stream, n) ==
  LET lots == acc.position.lots IN
  /\ LotTable(lots) /\ LotTable(acc.opened) /\ MatchTable(acc.matches)
  /\ acc.counter \in Nat
  /\ LotsOpened(acc.opened, acc.counter, stream, n)
  /\ StillOpen(lots, acc.opened)
  /\ MatchesClosed(acc.matches, acc.counter, stream, n)
  /\ Holding(acc.position.direction, acc.position.quantity, lots)
  /\ LotsUsed(lots, acc.opened, acc.matches)
  /\ FeesKept(lots, acc.opened, acc.matches)
  /\ OldestUsedFirst(lots, acc.opened, acc.matches)

\* A fill opens one lot more.
LEMMA LotOpened ==
  ASSUME NEW fill \in FillRow, NEW id \in Nat,
         NEW lots, LotTable(lots), \A l \in lots : l.id # id
  PROVE  /\ NewLot(fill, id) \in Lot /\ NewLot(fill, id).id = id
         /\ NewLot(fill, id).openedBy = fill.id /\ NewLot(fill, id).openedAt = fill.postedAt
         /\ NewLot(fill, id).fees = fill.fees
         /\ NewLot(fill, id).original = fill.quantity
         /\ NewLot(fill, id).remaining = fill.quantity
         /\ NewLot(fill, id) \notin lots
         /\ LotTable(lots \cup {NewLot(fill, id)})
         /\ OpenQuantity(lots \cup {NewLot(fill, id)}) = OpenQuantity(lots) + fill.quantity
         /\ LotFees(lots \cup {NewLot(fill, id)}) = LotFees(lots) + fill.fees
<1> DEFINE x == NewLot(fill, id)
           all == lots \cup {x}
           fee == [l \in all |-> l.fees]
           some == [l \in lots |-> l.fees]
<1>1. /\ x.id = id /\ x.openedBy = fill.id /\ x.openedAt = fill.postedAt /\ x.fees = fill.fees
      /\ x.original = fill.quantity /\ x.remaining = fill.quantity
  BY DEF NewLot
<1>2. x \in Lot
  <2>1. /\ fill.id \in Nat /\ fill.quantity \in Nat \ {0} /\ fill.price \in Nat \ {0}
        /\ fill.fees \in Nat /\ fill.postedAt \in Nat
    BY DEF FillRow
  <2> DEFINE cost == MultiplyDecimal(fill.quantity, fill.price)
  <2>2. cost \in Nat  BY <2>1, ProductNat
  <2>3. x = [id |-> id, openedBy |-> fill.id, openedAt |-> fill.postedAt,
             original |-> fill.quantity, remaining |-> fill.quantity,
             price |-> fill.price, cost |-> cost, fees |-> fill.fees]
    BY DEF NewLot
  <2> HIDE DEF cost, x
  <2> QED  BY <2>1, <2>2, <2>3 DEF Lot
<1> HIDE DEF x
<1>3. x \notin lots  BY <1>1
<1>4. LotTable(all)
  <2>1. IsFiniteSet(all)  BY FS_AddElement DEF LotTable
  <2>2. all \subseteq Lot  BY <1>2 DEF LotTable
  <2>3. \A a, b \in all : a.id = b.id => a = b  BY <1>1 DEF LotTable
  <2> QED  BY <2>1, <2>2, <2>3 DEF LotTable
<1>5. lots \in SUBSET all /\ x \in all /\ lots \cup {x} = all  OBVIOUS
<1> HIDE DEF all
<1>6. OpenQuantity(lots \cup {x}) = OpenQuantity(lots) + x.remaining
  BY <1>3, <1>4, <1>5, OneLotMore
<1>7. LotFees(all) = LotFees(lots) + x.fees
  <2>1. \A l \in all : l.fees \in Int  BY <1>4, LotFields
  <2>2. fee \in [all -> Int] /\ IsFiniteSet(all)  BY <1>4, <2>1 DEF LotTable
  <2>3. all \ {x} = lots  BY <1>3, <1>5
  <2>4. some \in [all \ {x} -> Int] /\ fee[x] = x.fees /\ \A l \in all \ {x} : fee[l] = some[l]
    BY <1>5, <2>1, <2>3
  <2>5. LotFees(all) = Total(fee) /\ LotFees(lots) = Total(some)  BY DEF LotFees
  <2> HIDE DEF fee, some
  <2>6. Total(fee) = Total(some) + fee[x]  BY <1>5, <2>2, <2>4, TotalAdded
  <2> QED  BY <2>4, <2>5, <2>6
<1> QED  BY <1>1, <1>2, <1>3, <1>4, <1>5, <1>6, <1>7 DEF x, all

LotCosts(lots) == Total([lot \in lots |-> lot.cost])

GrossOf(matches) == Total([m \in matches |-> m.gross])

\* What replaying a fill does to the record of the replay.
ReplayShape(acc) ==
  /\ {"position", "opened", "matches", "counter", "rejected"} \subseteq DOMAIN acc
  /\ {"direction", "quantity", "lots", "cost", "gross"} \subseteq DOMAIN acc.position

AfterOpening(acc, fill, next) ==
  /\ next.position.lots = acc.position.lots \cup {NewLot(fill, acc.counter + 1)}
  /\ next.position.quantity = acc.position.quantity + fill.quantity
  /\ next.position.direction = IF fill.action = "buy" THEN "long" ELSE "short"
  /\ next.position.cost = acc.position.cost + MultiplyDecimal(fill.quantity, fill.price)
  /\ next.position.gross = acc.position.gross
  /\ next.opened = acc.opened \cup {NewLot(fill, acc.counter + 1)}
  /\ next.matches = acc.matches
  /\ next.counter = acc.counter + 1
  /\ next.rejected = acc.rejected

AfterClosing(acc, fill, next) ==
  /\ next.position.lots = LeftOpen(fill, acc.position.lots)
  /\ next.position.quantity = acc.position.quantity - fill.quantity
  /\ next.position.direction =
       IF next.position.quantity = 0 THEN "flat" ELSE acc.position.direction
  /\ next.position.cost = LotCosts(LeftOpen(fill, acc.position.lots))
  /\ next.position.gross = acc.position.gross + GrossOf(Matches(fill, acc.position))
  /\ next.opened = acc.opened
  /\ next.matches = acc.matches \cup Matches(fill, acc.position)
  /\ next.counter = acc.counter + Cardinality(Matches(fill, acc.position))
  /\ next.rejected = acc.rejected

LEMMA FillReplayed ==
  ASSUME NEW acc, ReplayShape(acc), NEW fill, NEW next, next = ReplayFill(acc, fill)
  PROVE  /\ ReplayShape(next)
         /\ RejectionCode(fill, acc.position, acc.position.lots) # "none" => next.rejected = TRUE
         /\ (/\ RejectionCode(fill, acc.position, acc.position.lots) = "none"
             /\ IsOpeningAction(fill.action, acc.position.direction))
            => AfterOpening(acc, fill, next)
         /\ (/\ RejectionCode(fill, acc.position, acc.position.lots) = "none"
             /\ ~IsOpeningAction(fill.action, acc.position.direction))
            => AfterClosing(acc, fill, next)
<1> DEFINE p == acc.position
           lot == NewLot(fill, acc.counter + 1)
           made == Matches(fill, p)
           closing == HandleClosing(fill, p)
           opening == HandleOpening(fill, p, acc.counter + 1)
           code == RejectionCode(fill, p, p.lots)
           opens == IsOpeningAction(fill.action, p.direction)
<1>1. next = IF code # "none" THEN [acc EXCEPT !.rejected = TRUE]
             ELSE IF opens
               THEN [acc EXCEPT !.position = opening, !.opened = @ \cup {lot}, !.counter = @ + 1]
               ELSE [acc EXCEPT !.position = closing, !.matches = @ \cup made,
                                !.counter = @ + Cardinality(made)]
  BY DEF ReplayFill
<1>2. /\ opening.lots = p.lots \cup {lot} /\ opening.quantity = p.quantity + fill.quantity
      /\ opening.direction = IF fill.action = "buy" THEN "long" ELSE "short"
      /\ opening.cost = p.cost + MultiplyDecimal(fill.quantity, fill.price)
      /\ opening.gross = p.gross
      /\ {"direction", "quantity", "lots", "cost", "gross"} \subseteq DOMAIN opening
  <2> DEFINE cost == lot.cost
  <2>1. opening = [p EXCEPT !.direction = IF fill.action = "buy" THEN "long" ELSE "short",
                            !.quantity = @ + fill.quantity, !.cost = @ + cost,
                            !.lots = @ \cup {lot}]
    BY DEF HandleOpening
  <2>2. {"direction", "quantity", "lots", "cost", "gross"} \subseteq DOMAIN p
    BY DEF ReplayShape
  <2>3. cost = MultiplyDecimal(fill.quantity, fill.price)  BY DEF NewLot
  <2> HIDE DEF opening, lot, p, cost
  <2> QED  BY <2>1, <2>2, <2>3
<1>3. /\ closing.lots = LeftOpen(fill, p.lots) /\ closing.quantity = p.quantity - fill.quantity
      /\ closing.direction = IF closing.quantity = 0 THEN "flat" ELSE p.direction
      /\ closing.cost = LotCosts(LeftOpen(fill, p.lots))
      /\ closing.gross = p.gross + GrossOf(made)
      /\ {"direction", "quantity", "lots", "cost", "gross"} \subseteq DOMAIN closing
  BY DEF HandleClosing, LotCosts, GrossOf
<1>4. /\ {"position", "opened", "matches", "counter", "rejected"} \subseteq DOMAIN acc
      /\ {"direction", "quantity", "lots", "cost", "gross"} \subseteq DOMAIN p
  BY DEF ReplayShape
<1> HIDE DEF lot, made, closing, opening, code, opens
<1>5. CASE code # "none"
  <2>1. next = [acc EXCEPT !.rejected = TRUE]  BY <1>1, <1>5
  <2>2. next.rejected = TRUE /\ next.position = p /\ DOMAIN next = DOMAIN acc
    BY <1>4, <2>1
  <2>3. ReplayShape(next)  BY <1>4, <2>2 DEF ReplayShape
  <2> QED  BY <1>5, <2>2, <2>3 DEF code
<1>6. CASE code = "none" /\ opens
  <2>1. next = [acc EXCEPT !.position = opening, !.opened = @ \cup {lot}, !.counter = @ + 1]
    BY <1>1, <1>6
  <2>2. /\ next.position = opening /\ next.opened = acc.opened \cup {lot}
        /\ next.counter = acc.counter + 1 /\ next.matches = acc.matches
        /\ next.rejected = acc.rejected /\ DOMAIN next = DOMAIN acc
    BY <1>4, <2>1
  <2>3. ReplayShape(next)  BY <1>2, <1>4, <2>2 DEF ReplayShape
  <2> HIDE DEF p
  <2> QED  BY <1>2, <1>6, <2>2, <2>3 DEF AfterOpening, code, opens, lot, p
<1>7. CASE code = "none" /\ ~opens
  <2>1. next = [acc EXCEPT !.position = closing, !.matches = @ \cup made,
                           !.counter = @ + Cardinality(made)]
    BY <1>1, <1>7
  <2>2. /\ next.position = closing /\ next.matches = acc.matches \cup made
        /\ next.counter = acc.counter + Cardinality(made) /\ next.opened = acc.opened
        /\ next.rejected = acc.rejected /\ DOMAIN next = DOMAIN acc
    BY <1>4, <2>1
  <2>3. ReplayShape(next)  BY <1>3, <1>4, <2>2 DEF ReplayShape
  <2> QED  BY <1>3, <1>7, <2>2, <2>3 DEF AfterClosing, code, opens, made
<1> QED  BY <1>5, <1>6, <1>7

\* Opening a lot keeps the lots in the order of the fills that opened them.
LEMMA OpeningInOrder ==
  ASSUME NEW stream, Fills(stream), NEW n \in Nat, n + 1 \in DOMAIN stream,
         NEW c \in Nat, NEW opened, LotsOpened(opened, c, stream, n),
         NEW x, x.id = c + 1, x.openedBy = stream[n + 1].id,
         x.openedAt = stream[n + 1].postedAt, x.fees = stream[n + 1].fees,
         x.remaining = x.original
  PROVE  LotsOpened(opened \cup {x}, c + 1, stream, n + 1)
<1>1. \A j, k \in DOMAIN stream : stream[j].id = stream[k].id => j = k
  BY DEF Fills
<1>2. DOMAIN stream = 1 .. Len(stream) /\ Len(stream) \in Nat  BY DEF Fills
<1>3. 1 .. (n + 1) \subseteq DOMAIN stream /\ 1 .. n \subseteq 1 .. (n + 1) /\ n + 1 \in 1 .. (n + 1)
  BY <1>2
<1>4. ASSUME NEW o \in opened
      PROVE  /\ o.id \in 1 .. c /\ o.remaining = o.original
             /\ \E k \in 1 .. n : /\ o.openedBy = stream[k].id
                                  /\ o.openedAt = stream[k].postedAt /\ o.fees = stream[k].fees
  BY DEF LotsOpened
<1>5. ASSUME NEW o \in opened, NEW k \in 1 .. (n + 1), o.openedBy = stream[k].id
      PROVE  k \in 1 .. n
  <2>1. PICK j \in 1 .. n : o.openedBy = stream[j].id  BY <1>4
  <2>2. j = k  BY <1>1, <1>3, <1>5, <2>1
  <2> QED  BY <2>2
<1>6. ASSUME NEW k \in 1 .. (n + 1), x.openedBy = stream[k].id PROVE k = n + 1
  BY <1>1, <1>3, <1>6
<1>7. ASSUME NEW o \in opened \cup {x}
      PROVE  /\ o.id \in 1 .. (c + 1) /\ o.remaining = o.original
             /\ \E k \in 1 .. (n + 1) : /\ o.openedBy = stream[k].id
                                        /\ o.openedAt = stream[k].postedAt
                                        /\ o.fees = stream[k].fees
  <2>1. CASE o = x  BY <1>3, <2>1
  <2>2. CASE o \in opened
    <3>1. o.id \in 1 .. (c + 1) /\ o.remaining = o.original  BY <1>4, <2>2
    <3>2. PICK k \in 1 .. n : /\ o.openedBy = stream[k].id
                              /\ o.openedAt = stream[k].postedAt /\ o.fees = stream[k].fees
      BY <1>4, <2>2
    <3> QED  BY <1>3, <3>1, <3>2
  <2> QED  BY <2>1, <2>2
<1>8. ASSUME NEW o \in opened \cup {x}, NEW p \in opened \cup {x},
             NEW j \in 1 .. (n + 1), NEW k \in 1 .. (n + 1),
             o.openedBy = stream[j].id, p.openedBy = stream[k].id
      PROVE  (j < k => o.id < p.id) /\ (j = k => o = p)
  <2>1. CASE o \in opened /\ p \in opened
    <3>1. j \in 1 .. n /\ k \in 1 .. n  BY <1>5, <1>8, <2>1
    <3> QED  BY <1>8, <2>1, <3>1 DEF LotsOpened
  <2>2. CASE o \in opened /\ p = x
    <3>1. j \in 1 .. n /\ k = n + 1 /\ o.id \in 1 .. c  BY <1>4, <1>5, <1>6, <1>8, <2>2
    <3> QED  BY <2>2, <3>1
  <2>3. CASE o = x /\ p \in opened
    <3>1. k \in 1 .. n /\ j = n + 1  BY <1>5, <1>6, <1>8, <2>3
    <3> QED  BY <3>1
  <2>4. CASE o = x /\ p = x
    <3>1. j = n + 1 /\ k = n + 1  BY <1>6, <1>8, <2>4
    <3> QED  BY <2>4, <3>1
  <2> QED  BY <2>1, <2>2, <2>3, <2>4
<1>9. \A o \in opened \cup {x} :
        /\ o.id \in 1 .. (c + 1) /\ o.remaining = o.original
        /\ \E k \in 1 .. (n + 1) : /\ o.openedBy = stream[k].id
                                   /\ o.openedAt = stream[k].postedAt
                                   /\ o.fees = stream[k].fees
  BY <1>7
<1>10. \A o, p \in opened \cup {x} : \A j, k \in 1 .. (n + 1) :
         o.openedBy = stream[j].id /\ p.openedBy = stream[k].id =>
           (j < k => o.id < p.id) /\ (j = k => o = p)
  BY <1>8
<1> QED  BY <1>9, <1>10 DEF LotsOpened

\* The other half of it: quantities, fees and matches.
LEMMA OpeningKeeps ==
  ASSUME NEW stream, Fills(stream), NEW n \in Nat, n + 1 \in DOMAIN stream,
         NEW acc, Accounted(acc, stream, n), NEW fill, fill = stream[n + 1],
         NEW next, AfterOpening(acc, fill, next)
  PROVE  Accounted(next, stream, n + 1)
<1> DEFINE c == acc.counter
           L == acc.position.lots
           O == acc.opened
           M == acc.matches
           x == NewLot(fill, c + 1)
           dir == next.position.direction
<1>1. /\ LotTable(L) /\ LotTable(O) /\ MatchTable(M) /\ c \in Nat
      /\ LotsOpened(O, c, stream, n) /\ StillOpen(L, O) /\ MatchesClosed(M, c, stream, n)
      /\ Holding(acc.position.direction, acc.position.quantity, L)
      /\ LotsUsed(L, O, M) /\ FeesKept(L, O, M) /\ OldestUsedFirst(L, O, M)
  BY DEF Accounted
<1>2. fill \in FillRow  BY DEF Fills
<1>3. next.position.lots = L \cup {x} /\ next.opened = O \cup {x} /\ next.matches = M
      /\ next.counter = c + 1 /\ next.position.quantity = acc.position.quantity + fill.quantity
      /\ dir \in Directions
  BY DEF AfterOpening, Directions
<1>4. fill.quantity \in Nat \ {0} /\ fill.fees \in Nat  BY <1>2 DEF FillRow
<1> HIDE DEF c, L, O, M, dir
<1>5. \A o \in O : o.id \in 1 .. c  BY <1>1 DEF LotsOpened
<1>6. \A l \in L : \E o \in O : SameLot(l, o)  BY <1>1 DEF StillOpen
<1>7. \A l \in L : l.id \in 1 .. c  BY <1>5, <1>6 DEF SameLot
<1>8. \A m \in M : m.lot \in 1 .. c  BY <1>1 DEF MatchesClosed
<1>9. \A id \in 1 .. c : id # c + 1  BY <1>1
<1>10. c + 1 \in Nat /\ (\A l \in L : l.id # c + 1) /\ \A o \in O : o.id # c + 1
  BY <1>1, <1>5, <1>7, <1>9
<1> DEFINE new == c + 1
<1>110. new \in Nat /\ (\A l \in L : l.id # new) /\ (\A o \in O : o.id # new)
        /\ x = NewLot(fill, new)
  BY <1>10
<1> HIDE DEF new, x
<1>11. /\ x.id = c + 1 /\ x.openedBy = fill.id /\ x.openedAt = fill.postedAt
       /\ x.fees = fill.fees /\ x.original = fill.quantity /\ x.remaining = fill.quantity
       /\ LotTable(L \cup {x})
       /\ OpenQuantity(L \cup {x}) = OpenQuantity(L) + fill.quantity
       /\ LotFees(L \cup {x}) = LotFees(L) + fill.fees
  <2>1. x.id = new  BY <1>1, <1>2, <1>110, LotOpened
  <2> QED  BY <1>1, <1>2, <1>110, <2>1, LotOpened DEF new
<1>12. LotTable(O \cup {x}) /\ LotFees(O \cup {x}) = LotFees(O) + fill.fees
  BY <1>1, <1>2, <1>110, LotOpened
<1>13. LotsOpened(O \cup {x}, c + 1, stream, n + 1)
  BY <1>1, <1>11, OpeningInOrder
<1>14. StillOpen(L \cup {x}, O \cup {x})
  BY <1>6 DEF StillOpen, SameLot
<1>15. MatchesClosed(M, c + 1, stream, n + 1)
  <2> SUFFICES ASSUME NEW m \in M
               PROVE  m.lot \in 1 .. (c + 1) /\ \E k \in 1 .. (n + 1) : m.closedBy = stream[k].id
    BY DEF MatchesClosed
  <2>1. m.lot \in 1 .. c  BY <1>8
  <2>2. PICK k \in 1 .. n : m.closedBy = stream[k].id  BY <1>1 DEF MatchesClosed
  <2>3. k \in 1 .. (n + 1)  OBVIOUS
  <2> QED  BY <1>1, <2>1, <2>2, <2>3
<1>16. Holding(dir, acc.position.quantity + fill.quantity, L \cup {x})
  <2>1. OpenQuantity(L) \in Nat  BY <1>1, OpenQuantities
  <2> QED  BY <1>1, <1>3, <1>4, <1>11, <2>1 DEF Holding
<1>17. LotsUsed(L \cup {x}, O \cup {x}, M)
  <2>1. ASSUME NEW l \in L \cup {x} PROVE l.original = l.remaining + MatchedOf(M, l.id)
    <3>1. CASE l \in L  BY <1>1, <3>1 DEF LotsUsed
    <3>2. CASE l = x
      <4>1. MatchedOf(M, c + 1) = 0  BY <1>8, <1>9, Untouched
      <4> QED  BY <1>4, <1>11, <3>2, <4>1
    <3> QED  BY <3>1, <3>2
  <2>2. ASSUME NEW o \in O \cup {x}, \A l \in L \cup {x} : l.id # o.id
        PROVE  o.original = MatchedOf(M, o.id)
    <3>1. o \in O /\ \A l \in L : l.id # o.id  BY <2>2
    <3> QED  BY <1>1, <3>1 DEF LotsUsed
  <2> QED  BY <2>1, <2>2 DEF LotsUsed
<1>18. FeesKept(L \cup {x}, O \cup {x}, M)
  <2>1. LotFees(L) \in Nat /\ LotFees(O) \in Nat  BY <1>1, LotFeesNat
  <2>2. EntryFees(M) \in Nat  BY <1>1, EntryFeesNat
  <2> QED  BY <1>1, <1>4, <1>11, <1>12, <2>1, <2>2 DEF FeesKept
<1>19. OldestUsedFirst(L \cup {x}, O \cup {x}, M)
  <2> SUFFICES ASSUME NEW o \in O \cup {x}, NEW p \in O \cup {x}, OlderLot(o, p), o.id < p.id,
                      NEW m \in M, m.lot = p.id, NEW l \in L \cup {x}
               PROVE  l.id # o.id
    BY DEF OldestUsedFirst
  <2>1. p \in O /\ p.id \in 1 .. c  BY <1>5, <1>8, <1>9, <1>11
  <2>2. o \in O /\ o.id \in 1 .. c  BY <1>1, <1>5, <1>11, <2>1
  <2>3. CASE l \in L  BY <1>1, <2>1, <2>2, <2>3 DEF OldestUsedFirst
  <2>4. CASE l = x  BY <1>9, <1>11, <2>2, <2>4
  <2> QED  BY <2>3, <2>4
<1> QED  BY <1>1, <1>3, <1>10, <1>11, <1>12, <1>13, <1>14, <1>15, <1>16, <1>17, <1>18, <1>19
         DEF Accounted, dir

\* A fill that opens nothing leaves the lots in order.
LEMMA ClosingInOrder ==
  ASSUME NEW stream, Fills(stream), NEW n \in Nat, n + 1 \in DOMAIN stream,
         NEW c \in Nat, NEW d \in Nat, c <= d, NEW opened, LotsOpened(opened, c, stream, n)
  PROVE  LotsOpened(opened, d, stream, n + 1)
<1>1. \A j, k \in DOMAIN stream : stream[j].id = stream[k].id => j = k
  BY DEF Fills
<1>2. DOMAIN stream = 1 .. Len(stream) /\ Len(stream) \in Nat  BY DEF Fills
<1>3. 1 .. (n + 1) \subseteq DOMAIN stream /\ 1 .. n \subseteq 1 .. (n + 1) /\ 1 .. c \subseteq 1 .. d
  BY <1>2
<1>4. ASSUME NEW o \in opened
      PROVE  /\ o.id \in 1 .. c /\ o.remaining = o.original
             /\ \E k \in 1 .. n : /\ o.openedBy = stream[k].id
                                  /\ o.openedAt = stream[k].postedAt /\ o.fees = stream[k].fees
  BY DEF LotsOpened
<1>5. ASSUME NEW o \in opened, NEW k \in 1 .. (n + 1), o.openedBy = stream[k].id
      PROVE  k \in 1 .. n
  <2>1. PICK j \in 1 .. n : o.openedBy = stream[j].id  BY <1>4
  <2>2. j = k  BY <1>1, <1>3, <1>5, <2>1
  <2> QED  BY <2>2
<1>6. ASSUME NEW o \in opened
      PROVE  /\ o.id \in 1 .. d /\ o.remaining = o.original
             /\ \E k \in 1 .. (n + 1) : /\ o.openedBy = stream[k].id
                                        /\ o.openedAt = stream[k].postedAt
                                        /\ o.fees = stream[k].fees
  <2>1. o.id \in 1 .. d /\ o.remaining = o.original  BY <1>3, <1>4
  <2>2. PICK k \in 1 .. n : /\ o.openedBy = stream[k].id
                            /\ o.openedAt = stream[k].postedAt /\ o.fees = stream[k].fees
    BY <1>4
  <2> QED  BY <1>3, <2>1, <2>2
<1>7. ASSUME NEW o \in opened, NEW p \in opened, NEW j \in 1 .. (n + 1), NEW k \in 1 .. (n + 1),
             o.openedBy = stream[j].id, p.openedBy = stream[k].id
      PROVE  (j < k => o.id < p.id) /\ (j = k => o = p)
  <2>1. j \in 1 .. n /\ k \in 1 .. n  BY <1>5, <1>7
  <2> QED  BY <1>7, <2>1 DEF LotsOpened
<1>8. \A o \in opened :
        /\ o.id \in 1 .. d /\ o.remaining = o.original
        /\ \E k \in 1 .. (n + 1) : /\ o.openedBy = stream[k].id
                                   /\ o.openedAt = stream[k].postedAt
                                   /\ o.fees = stream[k].fees
  BY <1>6
<1>9. \A o, p \in opened : \A j, k \in 1 .. (n + 1) :
        o.openedBy = stream[j].id /\ p.openedBy = stream[k].id =>
          (j < k => o.id < p.id) /\ (j = k => o = p)
  BY <1>7
<1> QED  BY <1>8, <1>9 DEF LotsOpened

\* A close that there is enough for keeps the accounts.
LEMMA ClosingKeeps ==
  ASSUME NEW stream, Fills(stream), NEW n \in Nat, n + 1 \in DOMAIN stream,
         NEW acc, Accounted(acc, stream, n), NEW fill, fill = stream[n + 1],
         fill.quantity <= OpenQuantity(acc.position.lots),
         NEW next, AfterClosing(acc, fill, next)
  PROVE  Accounted(next, stream, n + 1)
<1> DEFINE c == acc.counter
           d == next.counter
           L == acc.position.lots
           O == acc.opened
           M == acc.matches
           made == Matches(fill, acc.position)
           left == LeftOpen(fill, L)
           q == fill.quantity
           quantity == acc.position.quantity
           mq(l) == MatchQuantity(L, q, l)
           after(l) == After(L, q, l)
           taken == Total([l \in L |-> Taken(L, q, l)])
<1>1. /\ LotTable(L) /\ LotTable(O) /\ MatchTable(M) /\ c \in Nat
      /\ LotsOpened(O, c, stream, n) /\ StillOpen(L, O) /\ MatchesClosed(M, c, stream, n)
      /\ Holding(acc.position.direction, quantity, L)
      /\ LotsUsed(L, O, M) /\ FeesKept(L, O, M) /\ OldestUsedFirst(L, O, M)
  BY DEF Accounted
<1>2. fill \in FillRow  BY DEF Fills
<1>3. q \in Nat \ {0} /\ fill.id \in Nat  BY <1>2 DEF FillRow
<1>4. /\ next.position.lots = left /\ next.opened = O /\ next.matches = M \cup made
      /\ d = c + Cardinality(made) /\ next.position.quantity = quantity - q
      /\ next.position.direction = IF quantity - q = 0 THEN "flat" ELSE acc.position.direction
      /\ q <= OpenQuantity(L)
  BY DEF AfterClosing
<1>5. /\ MatchTable(made)
      /\ \A m \in made : \E l \in L : m.lot = l.id /\ m.closedBy = fill.id /\ m.quantity = mq(l)
      /\ EntryFees(made) = taken
      /\ \A l \in L : MatchedOf(made, l.id) = mq(l)
  BY <1>1, <1>3, MatchesMade
<1>6. /\ LotTable(left)
      /\ \A x \in left : \E l \in L : x = after(l) /\ mq(l) < l.remaining
      /\ \A l \in L : mq(l) < l.remaining => after(l) \in left
  BY <1>1, <1>3, LotsLeft
<1>7. /\ OpenQuantity(left) = OpenQuantity(L) - Minimum(q, OpenQuantity(L))
      /\ LotFees(L) = LotFees(left) + taken
      /\ LotFees(left) \in Nat /\ LotFees(L) \in Nat /\ taken \in Nat
  BY <1>1, <1>3, LeftAddsUp
<1>8. \A l \in L : /\ after(l).id = l.id /\ after(l).openedBy = l.openedBy
                   /\ after(l).openedAt = l.openedAt /\ after(l).original = l.original
                   /\ after(l).remaining = l.remaining - mq(l)
                   /\ mq(l) \in 0 .. l.remaining /\ l.remaining \in Nat
  BY <1>1, <1>3, LotAfter, MatchRange, LotFields
<1>9. \A a, b \in L : OlderLot(a, b) /\ mq(b) > 0 => mq(a) = a.remaining
  BY <1>1, <1>3, OldestFirst
<1> HIDE DEF c, d, L, O, M, made, left, q, quantity, mq, after, taken
<1>10. Cardinality(made) \in Nat  BY <1>5, FS_CardinalityType DEF MatchTable
<1>11. d \in Nat /\ c <= d  BY <1>1, <1>4, <1>10
<1>12. LotsOpened(O, d, stream, n + 1)  BY <1>1, <1>11, ClosingInOrder
<1>13. \A l \in L : \E o \in O : SameLot(l, o)  BY <1>1 DEF StillOpen
<1>14. \A x \in left : \E l \in L : x.id = l.id /\ x.openedBy = l.openedBy
                         /\ x.openedAt = l.openedAt /\ x.original = l.original
                         /\ x.remaining = l.remaining - mq(l) /\ mq(l) < l.remaining
  BY <1>6, <1>8
<1>15. StillOpen(left, O)
  <2> SUFFICES ASSUME NEW x \in left PROVE \E o \in O : SameLot(x, o)  BY DEF StillOpen
  <2>1. PICK l \in L : x.id = l.id /\ x.openedBy = l.openedBy
                         /\ x.openedAt = l.openedAt /\ x.original = l.original
    BY <1>14
  <2>2. PICK o \in O : SameLot(l, o)  BY <1>13
  <2> QED  BY <2>1, <2>2 DEF SameLot
<1>16. \A o \in O : o.id \in 1 .. c /\ o.id \in 1 .. d
  BY <1>1, <1>12 DEF LotsOpened
<1>17. \A l \in L : l.id \in 1 .. d  BY <1>13, <1>16 DEF SameLot
<1>18. MatchesClosed(M \cup made, d, stream, n + 1)
  <2> SUFFICES ASSUME NEW m \in M \cup made
               PROVE  m.lot \in 1 .. d /\ \E k \in 1 .. (n + 1) : m.closedBy = stream[k].id
    BY DEF MatchesClosed
  <2>1. CASE m \in M
    <3>1. m.lot \in 1 .. c  BY <1>1, <2>1 DEF MatchesClosed
    <3>2. PICK k \in 1 .. n : m.closedBy = stream[k].id  BY <1>1, <2>1 DEF MatchesClosed
    <3>3. k \in 1 .. (n + 1)  OBVIOUS
    <3> QED  BY <1>1, <1>11, <3>1, <3>2, <3>3
  <2>2. CASE m \in made
    <3>1. PICK l \in L : m.lot = l.id /\ m.closedBy = fill.id  BY <1>5, <2>2
    <3>2. n + 1 \in 1 .. (n + 1)  OBVIOUS
    <3> QED  BY <1>17, <3>1, <3>2
  <2> QED  BY <2>1, <2>2
<1>19. M \cap made = {}
  <2> SUFFICES ASSUME NEW m \in M, m \in made PROVE FALSE  OBVIOUS
  <2>1. m.closedBy = stream[n + 1].id  BY <1>5
  <2>2. PICK k \in 1 .. n : m.closedBy = stream[k].id  BY <1>1 DEF MatchesClosed
  <2>3. DOMAIN stream = 1 .. Len(stream) /\ Len(stream) \in Nat
        /\ \A j, i \in DOMAIN stream : stream[j].id = stream[i].id => j = i
    BY DEF Fills
  <2>4. k \in DOMAIN stream /\ k # n + 1  BY <2>3
  <2> QED  BY <2>1, <2>2, <2>3, <2>4
<1>20. /\ MatchTable(M \cup made)
       /\ EntryFees(M) \in Nat /\ EntryFees(M \cup made) = EntryFees(M) + taken
       /\ \A id : /\ MatchedOf(M, id) \in Nat /\ MatchedOf(made, id) \in Nat
                  /\ MatchedOf(M \cup made, id) = MatchedOf(M, id) + MatchedOf(made, id)
  BY <1>1, <1>5, <1>19, MoreMatches
<1>21. Holding(next.position.direction, quantity - q, left)
  <2>1. OpenQuantity(L) \in Nat  BY <1>1, OpenQuantities
  <2>2. quantity = OpenQuantity(L) /\ acc.position.direction \in Directions
    BY <1>1, <1>3, <1>4, <2>1 DEF Holding
  <2>3. OpenQuantity(left) = quantity - q  BY <1>3, <1>4, <1>7, <2>1, <2>2 DEF Minimum
  <2>4. "flat" \notin Directions  BY DEF Directions
  <2> QED  BY <1>4, <2>2, <2>3, <2>4 DEF Holding
<1> DEFINE before(id) == MatchedOf(M, id)
           now(id) == MatchedOf(M \cup made, id)
<1>30. \A l \in L : now(l.id) = before(l.id) + mq(l) /\ before(l.id) \in Nat
  BY <1>5, <1>20
<1>31. ASSUME NEW id, \A m \in made : m.lot # id PROVE now(id) = before(id)
  <2>1. MatchedOf(made, id) = 0  BY <1>31, Untouched
  <2>2. now(id) = before(id) + MatchedOf(made, id) /\ before(id) \in Nat  BY <1>20
  <2> QED  BY <2>1, <2>2
<1>32. /\ \A l \in L : l.original = l.remaining + before(l.id)
       /\ \A o \in O : (\A l \in L : l.id # o.id) => o.original = before(o.id)
  BY <1>1 DEF LotsUsed
<1> HIDE DEF before, now
<1>33. ASSUME NEW x \in left PROVE x.original = x.remaining + now(x.id)
  <2>1. PICK l \in L : x.id = l.id /\ x.original = l.original
                       /\ x.remaining = l.remaining - mq(l)
    BY <1>14
  <2>2. l.original = l.remaining + before(l.id)  BY <1>32
  <2>3. mq(l) \in Nat /\ l.remaining \in Nat  BY <1>8
  <2>4. now(l.id) = before(l.id) + mq(l) /\ before(l.id) \in Nat  BY <1>30
  <2>5. now(x.id) = now(l.id)  BY <2>1
  <2> QED  BY <2>1, <2>2, <2>3, <2>4, <2>5
<1>34. ASSUME NEW o \in O, \A x \in left : x.id # o.id PROVE o.original = now(o.id)
  <2>1. CASE \A l \in L : l.id # o.id
    <3>1. o.original = before(o.id)  BY <1>32, <2>1
    <3>2. \A m \in made : m.lot # o.id  BY <1>5, <2>1
    <3>3. now(o.id) = before(o.id)  BY <1>31, <3>2
    <3> QED  BY <3>1, <3>3
  <2>2. CASE \E l \in L : l.id = o.id
    <3>1. PICK l \in L : l.id = o.id  BY <2>2
    <3>2. mq(l) = l.remaining
      <4>1. after(l) \notin left  BY <1>8, <1>34, <3>1
      <4> QED  BY <1>6, <1>8, <4>1
    <3>3. PICK p \in O : SameLot(l, p)  BY <1>13
    <3>4. p = o  BY <1>1, <3>1, <3>3 DEF SameLot, LotTable
    <3>5. o.original = l.original  BY <3>3, <3>4 DEF SameLot
    <3>6. l.original = l.remaining + before(l.id)  BY <1>32
    <3>7. now(l.id) = before(l.id) + mq(l) /\ before(l.id) \in Nat  BY <1>30
    <3>8. now(o.id) = now(l.id) /\ l.remaining \in Nat  BY <1>8, <3>1
    <3> QED  BY <3>2, <3>5, <3>6, <3>7, <3>8
  <2> QED  BY <2>1, <2>2
<1>22. LotsUsed(left, O, M \cup made)
  BY <1>33, <1>34 DEF LotsUsed, now
<1>23. FeesKept(left, O, M \cup made)
  <2>1. LotFees(O) \in Nat  BY <1>1, LotFeesNat
  <2> QED  BY <1>1, <1>7, <1>20, <2>1 DEF FeesKept
<1>24. OldestUsedFirst(left, O, M \cup made)
  <2> SUFFICES ASSUME NEW o \in O, NEW p \in O, OlderLot(o, p), o.id < p.id,
                      NEW m \in M \cup made, m.lot = p.id, NEW x \in left, x.id = o.id
               PROVE  FALSE
    BY DEF OldestUsedFirst
  <2>1. PICK a \in L : a.id = o.id /\ x.remaining = a.remaining - mq(a) /\ mq(a) < a.remaining
    BY <1>14
  <2>2. CASE m \in M  BY <1>1, <2>1, <2>2 DEF OldestUsedFirst
  <2>3. CASE m \in made
    <3>1. PICK b \in L : m.lot = b.id /\ m.quantity = mq(b)  BY <1>5, <2>3
    <3>2. mq(b) > 0  BY <1>5, <2>3, <3>1 DEF MatchTable
    <3>3. PICK e \in O : SameLot(a, e)  BY <1>13
    <3>4. PICK f \in O : SameLot(b, f)  BY <1>13
    <3>5. e = o /\ f = p  BY <1>1, <2>1, <3>1, <3>3, <3>4 DEF SameLot, LotTable
    <3>6. OlderLot(a, b)
      <4>1. a.id = o.id /\ a.openedAt = o.openedAt /\ b.id = p.id /\ b.openedAt = p.openedAt
        BY <3>3, <3>4, <3>5 DEF SameLot
      <4> QED  BY <4>1 DEF OlderLot
    <3>7. mq(a) = a.remaining  BY <1>9, <3>2, <3>6
    <3> QED  BY <1>8, <2>1, <3>7
  <2> QED  BY <2>2, <2>3
<1> QED  BY <1>1, <1>4, <1>6, <1>11, <1>12, <1>15, <1>18, <1>20, <1>21, <1>22, <1>23, <1>24
         DEF Accounted, d

\* An accepted close takes no more than is open.
LEMMA NoReversal ==
  ASSUME NEW fill, NEW position, NEW lots, RejectionCode(fill, position, lots) = "none",
         ~IsOpeningAction(fill.action, position.direction)
  PROVE  ~(fill.quantity > OpenQuantity(lots))
<1> DEFINE open == OpenQuantity(lots)
           d == position.direction
           flip == d \in Directions /\ fill.action = OpeningAction(
                     IF d = "long" THEN "short" ELSE "long")
           mixed == d \in Directions /\ fill.action = ClosingAction(
                      IF d = "long" THEN "short" ELSE "long")
<1> SUFFICES ASSUME fill.quantity > open PROVE FALSE  OBVIOUS
<1>1. RejectionCode(fill, position, lots) =
        CASE d = "none" /\ ~IsOpeningAction(fill.action, d) -> "NO_POSITION_TO_CLOSE"
          [] flip -> "UNSUPPORTED_FLIP"
          [] mixed -> "MIXED_SIDE"
          [] ~IsOpeningAction(fill.action, d) /\ fill.quantity > open -> "REVERSAL"
          [] OTHER -> "none"
  BY DEF RejectionCode
<1> HIDE DEF open, flip, mixed, d
<1>2. ~IsOpeningAction(fill.action, d)  BY DEF d
<1> QED  BY <1>1, <1>2

\* The empty replay.
LEMMA NothingReplayed ==
  ASSUME NEW stream
  PROVE  /\ ReplayShape(ReplayStart) /\ ReplayStart.rejected = FALSE
         /\ Accounted(ReplayStart, stream, 0)
<1> DEFINE acc == ReplayStart
           p == acc.position
<1>1. /\ p.lots = {} /\ p.quantity = 0 /\ p.direction = "none" /\ acc.opened = {}
      /\ acc.matches = {} /\ acc.counter = 0 /\ acc.rejected = FALSE
  BY DEF ReplayStart, NoPosition
<1>2. ReplayShape(acc)  BY DEF ReplayShape, ReplayStart, NoPosition
<1> HIDE DEF acc
<1>3. LotTable({}) /\ MatchTable({})  BY FS_EmptySet DEF LotTable, MatchTable
<1>4. OpenQuantity({}) = 0 /\ LotFees({}) = 0 /\ EntryFees({}) = 0
  BY TotalOfNone DEF OpenQuantity, LotFees, EntryFees
<1>5. LotsOpened({}, 0, stream, 0) /\ StillOpen({}, {}) /\ MatchesClosed({}, 0, stream, 0)
      /\ LotsUsed({}, {}, {}) /\ OldestUsedFirst({}, {}, {})
  BY DEF LotsOpened, StillOpen, MatchesClosed, LotsUsed, OldestUsedFirst
<1>6. FeesKept({}, {}, {})  BY <1>4 DEF FeesKept
<1>7. Holding("none", 0, {})  BY <1>4 DEF Holding, Directions
<1>8. Accounted(acc, stream, 0)  BY <1>1, <1>3, <1>5, <1>6, <1>7 DEF Accounted
<1> QED  BY <1>1, <1>2, <1>8 DEF acc

\* What a fill adds to the position, and the position with its sign.
SignedOf(fill) == SignedQuantity(fill.action, fill.quantity)

NetOfPosition(position) ==
  IF position.direction = "short" THEN -position.quantity ELSE position.quantity

\* What the first n fills add up to.
SumTo(stream, n) == Total([k \in 1 .. n |-> SignedOf(stream[k])])

\* A fill of one side leaves no position of the other, and finds none.
Sided(net, action) ==
  /\ net > 0 => action \in {"buy", "sell"}
  /\ net < 0 => action \in {"sell_short", "buy_to_cover"}

Walked(position, stream, n) ==
  /\ NetOfPosition(position) = SumTo(stream, n)
  /\ n > 0 => /\ Sided(SumTo(stream, n), stream[n].action)
              /\ Sided(SumTo(stream, n - 1), stream[n].action)

LEMMA SidedNet ==
  ASSUME NEW net \in Int, NEW action,
         \/ net >= 0 /\ action \in {"buy", "sell"}
         \/ net <= 0 /\ action \in {"sell_short", "buy_to_cover"}
  PROVE  Sided(net, action)
<1>1. CASE net >= 0 /\ action \in {"buy", "sell"}
  <2>1. ~(net < 0)  BY <1>1
  <2> QED  BY <1>1, <2>1 DEF Sided
<1>2. CASE net <= 0 /\ action \in {"sell_short", "buy_to_cover"}
  <2>1. ~(net > 0)  BY <1>2
  <2> QED  BY <1>2, <2>1 DEF Sided
<1> QED  BY <1>1, <1>2

LEMMA SignedInt ==
  ASSUME NEW fill \in FillRow
  PROVE  /\ SignedOf(fill) \in Int
         /\ fill.action \in {"buy", "buy_to_cover"} => SignedOf(fill) = fill.quantity
         /\ fill.action \in {"sell", "sell_short"} => SignedOf(fill) = -fill.quantity
BY DEF SignedOf, SignedQuantity, FillRow

LEMMA OneFillMore ==
  ASSUME NEW stream, Fills(stream), NEW n \in Nat, NEW m, m = n + 1, m \in DOMAIN stream
  PROVE  SumTo(stream, n) \in Int /\ SumTo(stream, m) = SumTo(stream, n) + SignedOf(stream[m])
<1> DEFINE S == 1 .. m
           T == 1 .. n
           f == [k \in S |-> SignedOf(stream[k])]
<1>1. \A k \in S : SignedOf(stream[k]) \in Int
  <2>1. \A k \in S : stream[k] \in FillRow  BY DEF Fills
  <2> QED  BY <2>1, SignedInt
<1>2. f \in [S -> Int]  BY <1>1
<1>3. IsFiniteSet(S)  BY FS_Interval
<1>4. T \in SUBSET S /\ m \in S /\ m \notin T /\ T \cup {m} = S  OBVIOUS
<1>5. Restrict(f, T) = [k \in T |-> SignedOf(stream[k])] /\ Restrict(f, S) = f
  BY <1>4 DEF Restrict
<1>6. f[m] = SignedOf(stream[m])  OBVIOUS
<1>7. SumTo(stream, n) = Total(Restrict(f, T)) /\ SumTo(stream, m) = Total(Restrict(f, S))
  BY <1>5 DEF SumTo
<1> HIDE DEF S, T, f
<1>8. Total(Restrict(f, T)) \in Int  BY <1>2, <1>3, <1>4, RestrictedInt
<1>9. Total(Restrict(f, T \cup {m})) = Total(Restrict(f, T)) + f[m]
  BY <1>2, <1>3, <1>4, RestrictionAdded
<1> QED  BY <1>4, <1>6, <1>7, <1>8, <1>9

\* Nothing adds up to nothing.
LEMMA NothingWalked ==
  ASSUME NEW stream
  PROVE  Walked(NoPosition, stream, 0)
<1>1. SumTo(stream, 0) = 0
  <2>1. 1 .. 0 = {}  OBVIOUS
  <2> QED  BY <2>1, TotalOfNone DEF SumTo
<1>2. NetOfPosition(NoPosition) = 0  BY DEF NetOfPosition, NoPosition
<1> QED  BY <1>1, <1>2 DEF Walked

LEMMA WalkedTo ==
  ASSUME NEW stream, NEW n \in Nat, NEW m, m = n + 1, NEW position,
         NetOfPosition(position) = SumTo(stream, m),
         Sided(SumTo(stream, m), stream[m].action), Sided(SumTo(stream, n), stream[m].action)
  PROVE  Walked(position, stream, m)
<1>1. m - 1 = n  OBVIOUS
<1> QED  BY <1>1 DEF Walked

\* An accepted fill opens on its own side or none, or closes the side that is open.
LEMMA NoFlip ==
  ASSUME NEW fill \in FillRow, NEW position, NEW lots,
         Holding(position.direction, position.quantity, lots), LotTable(lots),
         RejectionCode(fill, position, lots) = "none"
  PROVE  IF IsOpeningAction(fill.action, position.direction)
           THEN \/ position.direction \notin Directions /\ fill.action \in {"buy", "sell_short"}
                \/ position.direction = "long" /\ fill.action = "buy"
                \/ position.direction = "short" /\ fill.action = "sell_short"
           ELSE \/ position.direction = "long" /\ fill.action = "sell"
                \/ position.direction = "short" /\ fill.action = "buy_to_cover"
<1> DEFINE open == OpenQuantity(lots)
           d == position.direction
           action == fill.action
           opens == IsOpeningAction(action, d)
           flip == d \in Directions /\ action = OpeningAction(
                     IF d = "long" THEN "short" ELSE "long")
           mixed == d \in Directions /\ action = ClosingAction(
                      IF d = "long" THEN "short" ELSE "long")
<1>1. RejectionCode(fill, position, lots) =
        CASE d = "none" /\ ~opens -> "NO_POSITION_TO_CLOSE"
          [] flip -> "UNSUPPORTED_FLIP"
          [] mixed -> "MIXED_SIDE"
          [] ~opens /\ fill.quantity > open -> "REVERSAL"
          [] OTHER -> "none"
  BY DEF RejectionCode
<1>2. ~flip /\ ~mixed
  <2> HIDE DEF open, flip, mixed, d, opens
  <2> QED  BY <1>1
<1>3. action \in {"buy", "sell", "sell_short", "buy_to_cover"}
  BY DEF FillRow, EconomicActions
<1>4. CASE opens  BY <1>4 DEF IsOpeningAction, OpeningAction, Directions
<1>5. CASE ~opens
  <2>1. ~(fill.quantity > open)  BY <1>5, NoReversal
  <2>2. fill.quantity \in Nat \ {0} /\ open \in Nat  BY OpenQuantities DEF FillRow
  <2>3. open # 0  BY <2>1, <2>2
  <2>4. d \in Directions  BY <2>3 DEF Holding
  <2>5. d = "long" \/ d = "short"  BY <2>4 DEF Directions
  <2>6. action # OpeningAction(d)  BY <1>5, <2>4 DEF IsOpeningAction
  <2> QED
    BY <1>2, <1>3, <1>5, <2>4, <2>5, <2>6 DEF OpeningAction, ClosingAction
<1> QED  BY <1>4, <1>5

\* An opening fill carries the position on by what it adds.
LEMMA OpeningWalks ==
  ASSUME NEW stream, Fills(stream), NEW n \in Nat, NEW m, m = n + 1, m \in DOMAIN stream,
         NEW acc, Accounted(acc, stream, n), Walked(acc.position, stream, n),
         NEW fill, fill = stream[m], NEW next, AfterOpening(acc, fill, next),
         RejectionCode(fill, acc.position, acc.position.lots) = "none",
         IsOpeningAction(fill.action, acc.position.direction)
  PROVE  Walked(next.position, stream, m)
<1> DEFINE p == acc.position
           q == next.position
           sum == SumTo(stream, n)
<1>1. /\ Holding(p.direction, p.quantity, p.lots) /\ LotTable(p.lots)
      /\ q.quantity = p.quantity + fill.quantity
      /\ q.direction = IF fill.action = "buy" THEN "long" ELSE "short"
      /\ NetOfPosition(p) = sum /\ fill \in FillRow
  BY DEF Accounted, AfterOpening, Walked, Fills
<1>2. sum \in Int /\ SumTo(stream, m) = sum + SignedOf(fill)  BY OneFillMore
<1>3. \/ p.direction \notin Directions /\ fill.action \in {"buy", "sell_short"}
      \/ p.direction = "long" /\ fill.action = "buy"
      \/ p.direction = "short" /\ fill.action = "sell_short"
  BY <1>1, NoFlip
<1>4. p.quantity \in Nat /\ fill.quantity \in Nat \ {0}
      /\ (p.direction \notin Directions => p.quantity = 0)
  BY <1>1, OpenQuantities DEF Holding, FillRow
<1> HIDE DEF p, q, sum
<1>5. CASE fill.action = "buy"
  <2>1. SignedOf(fill) = fill.quantity  BY <1>1, <1>5, SignedInt
  <2>2. NetOfPosition(p) = p.quantity  BY <1>3, <1>4, <1>5 DEF NetOfPosition, Directions
  <2>3. NetOfPosition(q) = q.quantity  BY <1>1, <1>5 DEF NetOfPosition
  <2>4. /\ sum >= 0 /\ SumTo(stream, m) >= 0
        /\ SumTo(stream, m) \in Int /\ NetOfPosition(q) = SumTo(stream, m)
    BY <1>1, <1>2, <1>4, <2>1, <2>2, <2>3
  <2>5. Sided(sum, fill.action)  BY <1>2, <1>5, <2>4, SidedNet
  <2>6. Sided(SumTo(stream, m), fill.action)
    <3> DEFINE net == SumTo(stream, m)
    <3>1. net \in Int  BY <2>4
    <3>2. net >= 0  BY <2>4
    <3> HIDE DEF net
    <3>3. Sided(net, fill.action)  BY <1>5, <3>1, <3>2, SidedNet
    <3> QED  BY <3>3 DEF net
  <2> QED  BY <2>4, <2>5, <2>6, WalkedTo DEF q, sum
<1>6. CASE fill.action = "sell_short"
  <2>1. SignedOf(fill) = -fill.quantity  BY <1>1, <1>6, SignedInt
  <2>2. NetOfPosition(p) = -p.quantity  BY <1>3, <1>4, <1>6 DEF NetOfPosition, Directions
  <2>3. NetOfPosition(q) = -q.quantity  BY <1>1, <1>6 DEF NetOfPosition
  <2>4. /\ sum <= 0 /\ SumTo(stream, m) <= 0
        /\ SumTo(stream, m) \in Int /\ NetOfPosition(q) = SumTo(stream, m)
    BY <1>1, <1>2, <1>4, <2>1, <2>2, <2>3
  <2>5. Sided(sum, fill.action)  BY <1>2, <1>6, <2>4, SidedNet
  <2>6. Sided(SumTo(stream, m), fill.action)
    <3> DEFINE net == SumTo(stream, m)
    <3>1. net \in Int  BY <2>4
    <3>2. net <= 0  BY <2>4
    <3> HIDE DEF net
    <3>3. Sided(net, fill.action)  BY <1>6, <3>1, <3>2, SidedNet
    <3> QED  BY <3>3 DEF net
  <2> QED  BY <2>4, <2>5, <2>6, WalkedTo DEF q, sum
<1> QED  BY <1>3, <1>5, <1>6

\* So does a closing one, which stops at flat.
LEMMA ClosingWalks ==
  ASSUME NEW stream, Fills(stream), NEW n \in Nat, NEW m, m = n + 1, m \in DOMAIN stream,
         NEW acc, Accounted(acc, stream, n), Walked(acc.position, stream, n),
         NEW fill, fill = stream[m], NEW next, AfterClosing(acc, fill, next),
         RejectionCode(fill, acc.position, acc.position.lots) = "none",
         ~IsOpeningAction(fill.action, acc.position.direction)
  PROVE  Walked(next.position, stream, m)
<1> DEFINE p == acc.position
           q == next.position
           sum == SumTo(stream, n)
           open == OpenQuantity(p.lots)
<1>1. /\ Holding(p.direction, p.quantity, p.lots) /\ LotTable(p.lots)
      /\ q.quantity = p.quantity - fill.quantity
      /\ q.direction = IF q.quantity = 0 THEN "flat" ELSE p.direction
      /\ NetOfPosition(p) = sum /\ fill \in FillRow
  BY DEF Accounted, AfterClosing, Walked, Fills
<1>2. sum \in Int /\ SumTo(stream, m) = sum + SignedOf(fill)  BY OneFillMore
<1>3. \/ p.direction = "long" /\ fill.action = "sell"
      \/ p.direction = "short" /\ fill.action = "buy_to_cover"
  BY <1>1, NoFlip
<1>4. p.quantity \in Nat /\ fill.quantity \in Nat \ {0} /\ fill.quantity <= p.quantity
  <2>1. open \in Nat /\ p.quantity = open  BY <1>1, OpenQuantities DEF Holding
  <2>2. ~(fill.quantity > open)  BY NoReversal
  <2>3. fill.quantity \in Nat \ {0}  BY <1>1 DEF FillRow
  <2> HIDE DEF open
  <2> QED  BY <2>1, <2>2, <2>3
<1> HIDE DEF p, q, sum, open
<1>5. CASE p.direction = "long" /\ fill.action = "sell"
  <2>1. SignedOf(fill) = -fill.quantity  BY <1>1, <1>5, SignedInt
  <2>2. NetOfPosition(p) = p.quantity  BY <1>5 DEF NetOfPosition
  <2>3. NetOfPosition(q) = q.quantity  BY <1>1, <1>5 DEF NetOfPosition
  <2>4. /\ sum >= 0 /\ SumTo(stream, m) >= 0
        /\ SumTo(stream, m) \in Int /\ NetOfPosition(q) = SumTo(stream, m)
    BY <1>1, <1>2, <1>4, <2>1, <2>2, <2>3
  <2>5. Sided(sum, fill.action)  BY <1>2, <1>5, <2>4, SidedNet
  <2>6. Sided(SumTo(stream, m), fill.action)
    <3> DEFINE net == SumTo(stream, m)
    <3>1. net \in Int  BY <2>4
    <3>2. net >= 0  BY <2>4
    <3> HIDE DEF net
    <3>3. Sided(net, fill.action)  BY <1>5, <3>1, <3>2, SidedNet
    <3> QED  BY <3>3 DEF net
  <2> QED  BY <2>4, <2>5, <2>6, WalkedTo DEF q, sum
<1>6. CASE p.direction = "short" /\ fill.action = "buy_to_cover"
  <2>1. SignedOf(fill) = fill.quantity  BY <1>1, <1>6, SignedInt
  <2>2. NetOfPosition(p) = -p.quantity  BY <1>6 DEF NetOfPosition
  <2>3. NetOfPosition(q) = -q.quantity  BY <1>1, <1>4, <1>6 DEF NetOfPosition
  <2>4. /\ sum <= 0 /\ SumTo(stream, m) <= 0
        /\ SumTo(stream, m) \in Int /\ NetOfPosition(q) = SumTo(stream, m)
    BY <1>1, <1>2, <1>4, <2>1, <2>2, <2>3
  <2>5. Sided(sum, fill.action)  BY <1>2, <1>6, <2>4, SidedNet
  <2>6. Sided(SumTo(stream, m), fill.action)
    <3> DEFINE net == SumTo(stream, m)
    <3>1. net \in Int  BY <2>4
    <3>2. net <= 0  BY <2>4
    <3> HIDE DEF net
    <3>3. Sided(net, fill.action)  BY <1>6, <3>1, <3>2, SidedNet
    <3> QED  BY <3>3 DEF net
  <2> QED  BY <2>4, <2>5, <2>6, WalkedTo DEF q, sum
<1> QED  BY <1>3, <1>5, <1>6

-----------------------------------------------------------------------------
(* The cash of whole shares.                                                 *)

\* A product with a whole number of shares is exact.
LEMMA ExactProduct ==
  ASSUME NEW q \in Nat, WholeShares(q), NEW p \in Int
  PROVE  /\ q \div 100 \in Nat /\ q = 100 * (q \div 100)
         /\ MultiplyDecimal(q, p) = (q \div 100) * p
         /\ MultiplyDecimal(p, q) = (q \div 100) * p
<1> DEFINE k == q \div 100
           w == k * p
<1>1. k \in Nat /\ q = 100 * k  BY DEF WholeShares
<1> HIDE DEF k
<1>2. w \in Int /\ q * p = 100 * w /\ p * q = 100 * w  BY <1>1
<1> HIDE DEF w
<1>3. (100 * w + 50) \div 100 = w  BY <1>2
<1>4. MultiplyDecimal(q, p) = w /\ MultiplyDecimal(p, q) = w  BY <1>2, <1>3 DEF MultiplyDecimal
<1> QED  BY <1>1, <1>4 DEF k, w

\* Such products add up.
LEMMA ProductsAdd ==
  ASSUME NEW a \in Nat, WholeShares(a), NEW b \in Nat, WholeShares(b), NEW p \in Int
  PROVE  /\ a + b \in Nat /\ WholeShares(a + b)
         /\ MultiplyDecimal(a, p) \in Int /\ MultiplyDecimal(b, p) \in Int
         /\ MultiplyDecimal(a + b, p) = MultiplyDecimal(a, p) + MultiplyDecimal(b, p)
<1> DEFINE j == a \div 100
           k == b \div 100
           c == a + b
<1>1. j \in Nat /\ a = 100 * j /\ MultiplyDecimal(a, p) = j * p  BY ExactProduct
<1>2. k \in Nat /\ b = 100 * k /\ MultiplyDecimal(b, p) = k * p  BY ExactProduct
<1> HIDE DEF j, k
<1>3. c \in Nat /\ c = 100 * (j + k) /\ c \div 100 = j + k /\ WholeShares(c)
  BY <1>1, <1>2 DEF WholeShares
<1> HIDE DEF c
<1>4. MultiplyDecimal(c, p) = (j + k) * p  BY <1>3, ExactProduct
<1>5. (j + k) * p = j * p + k * p /\ j * p \in Int /\ k * p \in Int  BY <1>1, <1>2
<1> QED  BY <1>1, <1>2, <1>3, <1>4, <1>5 DEF c

\* So do those of one quantity with two prices.
LEMMA PricesApart ==
  ASSUME NEW a \in Nat, WholeShares(a), NEW p \in Int, NEW r \in Int
  PROVE  /\ MultiplyDecimal(a, p) \in Int /\ MultiplyDecimal(a, r) \in Int
         /\ MultiplyDecimal(p - r, a) = MultiplyDecimal(a, p) - MultiplyDecimal(a, r)
<1> DEFINE j == a \div 100
           d == p - r
<1>1. /\ j \in Nat /\ MultiplyDecimal(a, p) = j * p /\ MultiplyDecimal(a, r) = j * r
  BY ExactProduct
<1>2. d \in Int  OBVIOUS
<1> HIDE DEF d
<1>3. MultiplyDecimal(d, a) = j * d  BY <1>2, ExactProduct
<1> HIDE DEF j
<1>4. j * d = j * p - j * r /\ j * p \in Int /\ j * r \in Int  BY <1>1 DEF d
<1> QED  BY <1>1, <1>3, <1>4 DEF d

\* Nothing costs nothing.
LEMMA NoProduct ==
  ASSUME NEW p \in Int
  PROVE  MultiplyDecimal(0, p) = 0 /\ MultiplyDecimal(p, 0) = 0 /\ WholeShares(0)
<1>1. 0 * p = 0 /\ p * 0 = 0  OBVIOUS
<1>2. (0 + 50) \div 100 = 0 /\ 0 % 100 = 0  OBVIOUS
<1> QED  BY <1>1, <1>2 DEF MultiplyDecimal, WholeShares

\* Whole numbers of shares add up to one, and so do their products with one price.
LEMMA WholeTotal ==
  ASSUME NEW S, IsFiniteSet(S), NEW f \in [S -> Int], NEW p \in Int,
         \A x \in S : f[x] \in Nat /\ WholeShares(f[x]),
         NEW e \in [S -> Int], \A x \in S : e[x] = MultiplyDecimal(f[x], p)
  PROVE  /\ Total(f) \in Nat /\ WholeShares(Total(f))
         /\ Total(e) = MultiplyDecimal(Total(f), p)
<1> DEFINE Whole(n) == n \in Nat /\ WholeShares(n)
           P == {T \in SUBSET S : /\ Whole(Total(Restrict(f, T)))
                                  /\ Total(Restrict(e, T))
                                       = MultiplyDecimal(Total(Restrict(f, T)), p)}
<1>0. P \in SUBSET (SUBSET S)  OBVIOUS
<1>1. {} \in P
  <2>1. Total(Restrict(f, {})) = 0 /\ Total(Restrict(e, {})) = 0
    BY TotalOfNone DEF Restrict
  <2> QED  BY <2>1, NoProduct
<1>2. ASSUME NEW T \in P, NEW x \in S, x \notin T PROVE T \cup {x} \in P
  <2> DEFINE U == T \cup {x}
             a == Total(Restrict(f, T))
             b == f[x]
             c == Total(Restrict(f, U))
             s == Total(Restrict(e, T))
             t == Total(Restrict(e, U))
  <2>1. T \in SUBSET S /\ U \in SUBSET S  OBVIOUS
  <2>2. c = a + b /\ t = s + e[x]  BY <1>2, <2>1, RestrictionAdded
  <2>3. a \in Nat /\ WholeShares(a) /\ s = MultiplyDecimal(a, p)  OBVIOUS
  <2>4. b \in Nat /\ WholeShares(b) /\ e[x] = MultiplyDecimal(b, p)  OBVIOUS
  <2> HIDE DEF U, a, b, c, s, t
  <2>5. /\ a + b \in Nat /\ WholeShares(a + b)
        /\ MultiplyDecimal(a + b, p) = MultiplyDecimal(a, p) + MultiplyDecimal(b, p)
    BY <2>3, <2>4, ProductsAdd
  <2>6. Whole(c) /\ t = MultiplyDecimal(c, p)  BY <2>2, <2>3, <2>4, <2>5
  <2> QED  BY <2>1, <2>6 DEF U, c, t
<1>3. S \in P
  <2> HIDE DEF P
  <2> QED  BY <1>0, <1>1, <1>2, SubsetInduction
<1>4. Restrict(f, S) = f /\ Restrict(e, S) = e  BY DEF Restrict
<1> QED  BY <1>3, <1>4

\* Lots of whole shares, each with its cost.
WholeLots(lots) ==
  \A l \in lots : WholeShares(l.remaining) /\ l.cost = MultiplyDecimal(l.remaining, l.price)

LEMMA WholeOpen ==
  ASSUME NEW lots, LotTable(lots), WholeLots(lots), NEW D \in SUBSET lots
  PROVE  WholeShares(OpenQuantity(D))
<1> DEFINE f == [l \in D |-> l.remaining]
           e == [l \in D |-> MultiplyDecimal(l.remaining, 0)]
<1>1. IsFiniteSet(D) /\ f \in [D -> Int]  BY OpenQuantities DEF LotTable
<1>2. \A l \in D : f[l] \in Nat /\ WholeShares(f[l])  BY LotFields DEF WholeLots
<1>3. \A l \in D : e[l] = MultiplyDecimal(f[l], 0) /\ e[l] = 0
  <2>1. \A l \in D : l.remaining \in Int  BY LotFields
  <2> QED  BY <2>1, NoProduct
<1>4. e \in [D -> Int] /\ 0 \in Int
  <2>1. e = [l \in D |-> e[l]]  OBVIOUS
  <2> HIDE DEF e
  <2> QED  BY <1>3, <2>1
<1> HIDE DEF f, e
<1>5. WholeShares(Total(f))  BY <1>1, <1>2, <1>3, <1>4, WholeTotal
<1> QED  BY <1>5 DEF OpenQuantity, f

LEMMA WholeDifference ==
  ASSUME NEW a \in Nat, WholeShares(a), NEW b \in Nat, WholeShares(b), b <= a
  PROVE  a - b \in Nat /\ WholeShares(a - b)
BY DEF WholeShares

\* A close of whole shares takes whole shares from each lot.
LEMMA WholeMatches ==
  ASSUME NEW lots, LotTable(lots), WholeLots(lots), NEW q \in Nat, WholeShares(q), NEW l \in lots
  PROVE  WholeShares(MatchQuantity(lots, q, l))
<1> DEFINE older == OpenQuantity(Older(lots, l))
<1>1. /\ MatchQuantity(lots, q, l) = Minimum(l.remaining, Maximum(q - older, 0))
      /\ older \in Nat
  BY MatchRange
<1>2. WholeShares(older)  BY WholeOpen DEF Older
<1>3. l.remaining \in Nat /\ WholeShares(l.remaining)  BY LotFields DEF WholeLots
<1> HIDE DEF older
<1>4. WholeShares(Maximum(q - older, 0))
  <2>1. CASE q > older
    <3>1. WholeShares(q - older)  BY <1>1, <1>2, <2>1, WholeDifference
    <3>2. Maximum(q - older, 0) = q - older  BY <1>1, <2>1 DEF Maximum
    <3> QED  BY <3>1, <3>2
  <2>2. CASE ~(q > older)
    <3>1. Maximum(q - older, 0) = 0  BY <1>1, <2>2 DEF Maximum
    <3> QED  BY <3>1, NoProduct
  <2> QED  BY <2>1, <2>2
<1> QED  BY <1>1, <1>3, <1>4 DEF Minimum

\* What the lots cost, and what a close takes of that.
CostTaken(lots, q) ==
  Total([l \in lots |-> MultiplyDecimal(MatchQuantity(lots, q, l), l.price)])

LEMMA CostsLeft ==
  ASSUME NEW lots, LotTable(lots), WholeLots(lots), NEW fill,
         fill.quantity \in Nat, WholeShares(fill.quantity)
  PROVE  /\ WholeLots(LeftOpen(fill, lots))
         /\ LotCosts(lots) \in Int /\ CostTaken(lots, fill.quantity) \in Int
         /\ LotCosts(lots) = LotCosts(LeftOpen(fill, lots)) + CostTaken(lots, fill.quantity)
<1> DEFINE q == fill.quantity
           mq(l) == MatchQuantity(lots, q, l)
           rest(l) == l.remaining - mq(l)
           Left == LeftOpen(fill, lots)
           cost == [l \in lots |-> l.cost]
           taken == [l \in lots |-> MultiplyDecimal(mq(l), l.price)]
           kept == [l \in lots |-> MultiplyDecimal(rest(l), l.price)]
           costLeft == [l \in Left |-> l.cost]
<1>1. ASSUME NEW l \in lots
      PROVE  /\ mq(l) \in Nat /\ WholeShares(mq(l)) /\ rest(l) \in Nat /\ WholeShares(rest(l))
             /\ mq(l) <= l.remaining /\ l.remaining \in Nat /\ l.price \in Int
             /\ cost[l] \in Int /\ taken[l] \in Int /\ kept[l] \in Int
             /\ cost[l] = kept[l] + taken[l]
             /\ mq(l) = l.remaining => kept[l] = 0
  <2> DEFINE m == mq(l)
             r == rest(l)
             all == l.remaining
             price == l.price
  <2>1. m \in 0 .. all /\ all \in Nat /\ price \in Int  BY MatchRange, LotFields
  <2>2. WholeShares(m)  BY WholeMatches
  <2>3. WholeShares(all) /\ l.cost = MultiplyDecimal(all, price)  BY DEF WholeLots
  <2>4. r = all - m /\ cost[l] = l.cost /\ taken[l] = MultiplyDecimal(m, price)
        /\ kept[l] = MultiplyDecimal(r, price)
    OBVIOUS
  <2> HIDE DEF m, r, all, price, mq, rest, cost, taken, kept
  <2>5. r \in Nat /\ WholeShares(r) /\ m \in Nat /\ r + m = all
    BY <2>1, <2>2, <2>3, <2>4, WholeDifference
  <2>6. /\ MultiplyDecimal(r, price) \in Int /\ MultiplyDecimal(m, price) \in Int
        /\ MultiplyDecimal(r + m, price) = MultiplyDecimal(r, price) + MultiplyDecimal(m, price)
    <3>1. r \in Nat /\ m \in Nat /\ price \in Int  BY <2>1, <2>5
    <3>2. WholeShares(r) /\ WholeShares(m)  BY <2>2, <2>5
    <3> HIDE DEF q, Left, costLeft
    <3> QED  BY <3>1, <3>2, ProductsAdd
  <2>7. m = all => r = 0  BY <2>1, <2>4
  <2>8. m = all => kept[l] = 0  BY <2>1, <2>4, <2>7, NoProduct
  <2> QED  BY <2>1, <2>2, <2>3, <2>4, <2>5, <2>6, <2>8 DEF m, r, all, price
<1>2. /\ \A x \in Left : \E l \in lots : x = After(lots, q, l) /\ mq(l) < l.remaining
      /\ \A l \in lots : mq(l) < l.remaining => After(lots, q, l) \in Left
      /\ LotTable(Left)
  BY LotsLeft
<1>3. \A l \in lots : /\ After(lots, q, l).price = l.price
                      /\ After(lots, q, l).remaining = rest(l)
                      /\ After(lots, q, l).cost = MultiplyDecimal(rest(l), l.price)
  BY LotAfter
<1>4. IsFiniteSet(lots)  BY DEF LotTable
<1>5. \A l \in lots : kept[l] = MultiplyDecimal(rest(l), l.price)  OBVIOUS
<1>6. cost = [l \in lots |-> cost[l]] /\ taken = [l \in lots |-> taken[l]]
      /\ kept = [l \in lots |-> kept[l]] /\ costLeft = [l \in Left |-> costLeft[l]]
      /\ \A x \in Left : costLeft[x] = x.cost
  OBVIOUS
<1>7. LotCosts(lots) = Total(cost) /\ LotCosts(Left) = Total(costLeft)
      /\ CostTaken(lots, q) = Total(taken)
  BY DEF LotCosts, CostTaken
<1> HIDE DEF q, mq, rest, Left, cost, taken, kept, costLeft
<1>8. WholeLots(Left)
  <2> SUFFICES ASSUME NEW x \in Left
               PROVE WholeShares(x.remaining) /\ x.cost = MultiplyDecimal(x.remaining, x.price)
    BY DEF WholeLots
  <2>1. PICK l \in lots : x = After(lots, q, l)  BY <1>2
  <2> QED  BY <1>1, <1>3, <2>1
<1>9. cost \in [lots -> Int] /\ taken \in [lots -> Int] /\ kept \in [lots -> Int]
  BY <1>1, <1>6
<1>10. costLeft \in [Left -> Int]
  <2>1. \A x \in Left : x.cost \in Int  BY <1>2, LotFields
  <2> QED  BY <1>6, <2>1
<1>11. Total(cost) = Total(kept) + Total(taken)  BY <1>1, <1>4, <1>9, TotalOfSum
<1>12. \A l \in lots : mq(l) = l.remaining => kept[l] = 0  BY <1>1
<1>13. \A l \in lots : mq(l) < l.remaining => costLeft[After(lots, q, l)] = kept[l]
  BY <1>2, <1>3, <1>5, <1>6
<1>14. Total(costLeft) = Total(kept)
  BY <1>9, <1>10, <1>12, <1>13, TotalLeft DEF q, mq, Left
<1>15. Total(cost) \in Int /\ Total(taken) \in Int  BY <1>4, <1>9, TotalInt
<1> QED  BY <1>7, <1>8, <1>11, <1>14, <1>15 DEF q, Left

\* The gross P&L of a close is what it brings in less what the shares had cost.
LEMMA GrossMade ==
  ASSUME NEW lots, LotTable(lots), WholeLots(lots), NEW position, position.lots = lots,
         NEW fill, fill.quantity \in Nat, WholeShares(fill.quantity), fill.price \in Int,
         fill.quantity <= OpenQuantity(lots)
  PROVE  /\ MultiplyDecimal(fill.quantity, fill.price) \in Int
         /\ GrossOf(Matches(fill, position))
              = IF position.direction = "short"
                  THEN CostTaken(lots, fill.quantity) - MultiplyDecimal(fill.quantity, fill.price)
                  ELSE MultiplyDecimal(fill.quantity, fill.price) - CostTaken(lots, fill.quantity)
<1> DEFINE q == fill.quantity
           p == fill.price
           mq(l) == MatchQuantity(lots, q, l)
           match(l) == Match(fill, position, l)
           U == {l \in lots : mq(l) > 0}
           h == [l \in U |-> match(l)]
           M == Matches(fill, position)
           f == [l \in lots |-> mq(l)]
           brought == [l \in lots |-> MultiplyDecimal(mq(l), p)]
           taken == [l \in lots |-> MultiplyDecimal(mq(l), l.price)]
           pnl == [l \in lots |-> MatchPnl(l, p, mq(l), position.direction)]
           gross == [m \in M |-> m.gross]
<1>1. M = {match(l) : l \in U}  BY DEF Matches, MatchedLots
<1>2. \A l \in lots : match(l).lot = l.id /\ match(l).gross = pnl[l]  BY DEF Match
<1>3. \A l \in U : l \in lots /\ h[l] = match(l)  OBVIOUS
<1>4. IsFiniteSet(lots) /\ \A a, b \in lots : a.id = b.id => a = b  BY DEF LotTable
<1>5. ASSUME NEW l \in lots
      PROVE  /\ mq(l) \in Nat /\ WholeShares(mq(l))
             /\ f[l] = mq(l) /\ brought[l] = MultiplyDecimal(f[l], p)
             /\ brought[l] \in Int /\ taken[l] \in Int /\ pnl[l] \in Int
             /\ position.direction # "short" => brought[l] = pnl[l] + taken[l]
             /\ position.direction = "short" => taken[l] = pnl[l] + brought[l]
             /\ mq(l) = 0 => pnl[l] = 0
  <2> DEFINE m == mq(l)
             paid == l.price
  <2>1. m \in Nat /\ paid \in Int /\ p \in Int  BY MatchRange, LotFields
  <2>2. WholeShares(m)  BY WholeMatches
  <2>3. f[l] = m /\ brought[l] = MultiplyDecimal(m, p) /\ taken[l] = MultiplyDecimal(m, paid)
        /\ pnl[l] = IF position.direction = "short" THEN -MultiplyDecimal(p - paid, m)
                                                    ELSE MultiplyDecimal(p - paid, m)
    BY DEF MatchPnl
  <2> HIDE DEF m, paid, p, mq, f, brought, taken, pnl
  <2>4. /\ MultiplyDecimal(m, p) \in Int /\ MultiplyDecimal(m, paid) \in Int
        /\ MultiplyDecimal(p - paid, m) = MultiplyDecimal(m, p) - MultiplyDecimal(m, paid)
    BY <2>1, <2>2, PricesApart
  <2>5. m = 0 => MultiplyDecimal(m, p) = 0 /\ MultiplyDecimal(m, paid) = 0
    BY <2>1, NoProduct
  <2> QED  BY <2>1, <2>2, <2>3, <2>4, <2>5 DEF m, p
<1>6. /\ f = [l \in lots |-> f[l]] /\ brought = [l \in lots |-> brought[l]]
      /\ taken = [l \in lots |-> taken[l]] /\ pnl = [l \in lots |-> pnl[l]]
      /\ gross = [m \in M |-> gross[m]] /\ \A m \in M : gross[m] = m.gross
  OBVIOUS
<1>7. GrossOf(M) = Total(gross) /\ CostTaken(lots, q) = Total(taken)
  BY DEF GrossOf, CostTaken
<1>8. Total(f) = Minimum(q, OpenQuantity(lots))  BY TakesItsQuantity
<1>9. U \in SUBSET lots /\ \A l \in lots \ U : mq(l) = 0  BY <1>5
<1>10. q \in Nat /\ p \in Int /\ q <= OpenQuantity(lots) /\ OpenQuantity(lots) \in Nat
  BY OpenQuantities
<1> HIDE DEF match, mq, U, h, M, q, p, f, brought, taken, pnl, gross
<1>11. Pairs(h, U, M)
  <2>1. \A x \in U : h[x] \in M  BY <1>1, <1>3
  <2>2. \A y \in M : \E x \in U : y = h[x]  BY <1>1, <1>3
  <2>3. \A x, y \in U : h[x] = h[y] => x = y
    <3> SUFFICES ASSUME NEW x \in U, NEW y \in U, h[x] = h[y] PROVE x = y  OBVIOUS
    <3>1. x.id = y.id  BY <1>2, <1>3
    <3> QED  BY <1>3, <1>4, <3>1
  <2> QED  BY <2>1, <2>2, <2>3 DEF Pairs
<1>12. /\ f \in [lots -> Int] /\ brought \in [lots -> Int]
       /\ taken \in [lots -> Int] /\ pnl \in [lots -> Int]
  BY <1>5, <1>6
<1>13. /\ gross \in [M -> Int] /\ \A l \in U : gross[h[l]] = pnl[l]
       /\ \A l \in lots \ U : pnl[l] = 0
  <2>1. \A m \in M : m.gross \in Int  BY <1>1, <1>2, <1>3, <1>5
  <2>2. \A l \in U : h[l] \in M  BY <1>11 DEF Pairs
  <2>3. \A l \in U : gross[h[l]] = pnl[l]  BY <1>2, <1>3, <1>6, <2>2
  <2>4. \A l \in lots \ U : pnl[l] = 0  BY <1>5, <1>9
  <2> QED  BY <1>6, <2>1, <2>3, <2>4
<1>14. Total(gross) = Total(pnl)
  BY <1>4, <1>9, <1>11, <1>12, <1>13, TotalOfImage
<1>15. Total(f) = q  BY <1>8, <1>10 DEF Minimum
<1>16. \A l \in lots : f[l] \in Nat /\ WholeShares(f[l]) /\ brought[l] = MultiplyDecimal(f[l], p)
  BY <1>5
<1>17. Total(brought) = MultiplyDecimal(Total(f), p)
  BY <1>4, <1>10, <1>12, <1>16, WholeTotal
<1>18. Total(brought) \in Int /\ Total(taken) \in Int /\ Total(pnl) \in Int
  BY <1>4, <1>12, TotalInt
<1>19. CASE position.direction = "short"
  <2>1. \A l \in lots : taken[l] = pnl[l] + brought[l]  BY <1>5, <1>19
  <2>2. Total(taken) = Total(pnl) + Total(brought)  BY <1>4, <1>12, <2>1, TotalOfSum
  <2> QED  BY <1>7, <1>14, <1>15, <1>17, <1>18, <1>19, <2>2 DEF M, q, p
<1>20. CASE position.direction # "short"
  <2>1. \A l \in lots : brought[l] = pnl[l] + taken[l]  BY <1>5, <1>20
  <2>2. Total(brought) = Total(pnl) + Total(taken)  BY <1>4, <1>12, <2>1, TotalOfSum
  <2> QED  BY <1>7, <1>14, <1>15, <1>17, <1>18, <1>20, <2>2 DEF M, q, p
<1> QED  BY <1>19, <1>20

LEMMA CostsInt ==
  ASSUME NEW lots, LotTable(lots)
  PROVE  LotCosts(lots) \in Int
<1> DEFINE cost == [l \in lots |-> l.cost]
<1>1. \A l \in lots : l.cost \in Int  BY LotFields
<1>2. IsFiniteSet(lots) /\ cost \in [lots -> Int]  BY <1>1 DEF LotTable
<1>3. LotCosts(lots) = Total(cost)  BY DEF LotCosts
<1> HIDE DEF cost
<1> QED  BY <1>2, <1>3, TotalInt

\* The cash the first n fills moved.
CashTo(stream, n) == Total([k \in 1 .. n |-> CashMoved(stream[k])])

SignedCost(position) ==
  IF position.direction = "long" THEN position.cost ELSE -position.cost

\* What the position holds and has realised is the cash its fills moved.
Cashed(position, stream, n) ==
  /\ WholeLots(position.lots)
  /\ position.cost = LotCosts(position.lots) /\ position.gross \in Int
  /\ CashTo(stream, n) = position.gross - SignedCost(position)

AllWhole(stream) == \A k \in DOMAIN stream : WholeShares(stream[k].quantity)

LEMMA CashInt ==
  ASSUME NEW fill \in FillRow
  PROVE  /\ MultiplyDecimal(fill.quantity, fill.price) \in Nat /\ CashMoved(fill) \in Int
         /\ fill.action \in {"buy", "buy_to_cover"}
              => CashMoved(fill) = -MultiplyDecimal(fill.quantity, fill.price)
         /\ fill.action \in {"sell", "sell_short"}
              => CashMoved(fill) = MultiplyDecimal(fill.quantity, fill.price)
<1> DEFINE amount == MultiplyDecimal(fill.quantity, fill.price)
<1>1. fill.quantity \in Nat /\ fill.price \in Nat  BY DEF FillRow
<1>2. amount \in Nat  BY <1>1, ProductNat
<1>3. CashMoved(fill) = IF fill.action \in {"sell", "sell_short"} THEN amount ELSE -amount
  BY DEF CashMoved, CashDirection
<1> HIDE DEF amount
<1>4. CashMoved(fill) \in Int  BY <1>2, <1>3
<1>5. fill.action \in {"buy", "buy_to_cover"} => CashMoved(fill) = -amount  BY <1>3
<1> QED  BY <1>2, <1>3, <1>4, <1>5 DEF amount

LEMMA CashMore ==
  ASSUME NEW stream, Fills(stream), NEW n \in Nat, NEW m, m = n + 1, m \in DOMAIN stream
  PROVE  CashTo(stream, n) \in Int /\ CashTo(stream, m) = CashTo(stream, n) + CashMoved(stream[m])
<1> DEFINE S == 1 .. m
           T == 1 .. n
           f == [k \in S |-> CashMoved(stream[k])]
<1>1. \A k \in S : CashMoved(stream[k]) \in Int
  <2>1. \A k \in S : stream[k] \in FillRow  BY DEF Fills
  <2> QED  BY <2>1, CashInt
<1>2. f \in [S -> Int]  BY <1>1
<1>3. IsFiniteSet(S)  BY FS_Interval
<1>4. T \in SUBSET S /\ m \in S /\ m \notin T /\ T \cup {m} = S  OBVIOUS
<1>5. Restrict(f, T) = [k \in T |-> CashMoved(stream[k])] /\ Restrict(f, S) = f
  BY <1>4 DEF Restrict
<1>6. f[m] = CashMoved(stream[m])  OBVIOUS
<1>7. CashTo(stream, n) = Total(Restrict(f, T)) /\ CashTo(stream, m) = Total(Restrict(f, S))
  BY <1>5 DEF CashTo
<1> HIDE DEF S, T, f
<1>8. Total(Restrict(f, T)) \in Int  BY <1>2, <1>3, <1>4, RestrictedInt
<1>9. Total(Restrict(f, T \cup {m})) = Total(Restrict(f, T)) + f[m]
  BY <1>2, <1>3, <1>4, RestrictionAdded
<1> QED  BY <1>4, <1>6, <1>7, <1>8, <1>9

\* Nothing moved, nothing held, nothing realised.
LEMMA NothingCashed ==
  ASSUME NEW stream
  PROVE  Cashed(NoPosition, stream, 0)
<1>1. CashTo(stream, 0) = 0
  <2>1. 1 .. 0 = {}  OBVIOUS
  <2> QED  BY <2>1, TotalOfNone DEF CashTo
<1>2. /\ NoPosition.lots = {} /\ NoPosition.cost = 0 /\ NoPosition.gross = 0
      /\ NoPosition.direction = "none"
  BY DEF NoPosition
<1>3. LotCosts({}) = 0  BY TotalOfNone DEF LotCosts
<1>4. WholeLots({})  BY DEF WholeLots
<1> QED  BY <1>1, <1>2, <1>3, <1>4 DEF Cashed, SignedCost

LEMMA MinusNothing ==
  ASSUME NEW a \in Int, a = 0
  PROVE  -a = 0
<1> DEFINE b == -a
<1>1. b \in Int  OBVIOUS
<1>2. b = -a  OBVIOUS
<1> HIDE DEF b
<1>3. b + a = 0  BY <1>1, <1>2
<1>4. b = 0  BY <1>1, <1>3
<1> QED  BY <1>4 DEF b

\* A position without a direction holds no lots, which cost nothing.
LEMMA NoCost ==
  ASSUME NEW d, d \notin Directions, NEW quantity, NEW lots, Holding(d, quantity, lots),
         LotTable(lots)
  PROVE  LotCosts(lots) = 0
<1>1. OpenQuantity(lots) = 0  BY DEF Holding
<1>2. lots = {}
  <2> SUFFICES ASSUME NEW x \in lots PROVE FALSE  OBVIOUS
  <2> DEFINE E == {} \cup {x}
  <2>1. {} \in SUBSET lots /\ x \notin {} /\ lots \in SUBSET lots /\ E \in SUBSET lots  OBVIOUS
  <2>2. OpenQuantity(E) = OpenQuantity({}) + x.remaining  BY <2>1, OneLotMore
  <2> HIDE DEF E
  <2>3. OpenQuantity(E) <= OpenQuantity(lots)  BY <2>1, MoreLots
  <2>4. OpenQuantity({}) \in Nat  BY <2>1, OpenQuantities
  <2>5. x.remaining \in Nat \ {0}  BY LotFields
  <2> QED  BY <1>1, <2>2, <2>3, <2>4, <2>5
<1> QED  BY <1>2, TotalOfNone DEF LotCosts

\* A lot more costs what it costs.
LEMMA OneCostMore ==
  ASSUME NEW lots, LotTable(lots), NEW x, x \notin lots, LotTable(lots \cup {x})
  PROVE  /\ LotCosts(lots) \in Int /\ x.cost \in Int
         /\ LotCosts(lots \cup {x}) = LotCosts(lots) + x.cost
<1> DEFINE all == lots \cup {x}
           cost == [l \in all |-> l.cost]
           some == [l \in lots |-> l.cost]
<1>1. \A l \in all : l.cost \in Int  BY LotFields
<1>2. IsFiniteSet(all) /\ IsFiniteSet(lots) /\ x \in all /\ all \ {x} = lots  BY DEF LotTable
<1>3. cost \in [all -> Int] /\ some \in [all \ {x} -> Int] /\ cost[x] = x.cost
      /\ \A l \in all \ {x} : cost[l] = some[l]
  BY <1>1, <1>2
<1>4. LotCosts(all) = Total(cost) /\ LotCosts(lots) = Total(some)  BY DEF LotCosts
<1> HIDE DEF cost, some
<1>5. Total(cost) = Total(some) + cost[x]  BY <1>2, <1>3, TotalAdded
<1>6. Total(some) \in Int  BY <1>2, <1>3, TotalInt
<1>7. x.cost \in Int  BY <1>1
<1> QED  BY <1>3, <1>4, <1>5, <1>6, <1>7

\* An opening fill moves the cost of the lot it opens.
LEMMA OpeningCashes ==
  ASSUME NEW stream, Fills(stream), AllWhole(stream),
         NEW n \in Nat, NEW m, m = n + 1, m \in DOMAIN stream,
         NEW acc, Accounted(acc, stream, n), Cashed(acc.position, stream, n),
         NEW fill, fill = stream[m], NEW next, AfterOpening(acc, fill, next),
         RejectionCode(fill, acc.position, acc.position.lots) = "none",
         IsOpeningAction(fill.action, acc.position.direction)
  PROVE  Cashed(next.position, stream, m)
<1> DEFINE p == acc.position
           r == next.position
           c == acc.counter
           new == c + 1
           x == NewLot(fill, new)
           L == p.lots
           amount == MultiplyDecimal(fill.quantity, fill.price)
           cash == CashTo(stream, n)
<1>1. /\ Holding(p.direction, p.quantity, L) /\ LotTable(L) /\ c \in Nat
      /\ LotsOpened(acc.opened, c, stream, n) /\ StillOpen(L, acc.opened)
  BY DEF Accounted
<1>2. /\ r.lots = L \cup {x} /\ r.cost = p.cost + amount /\ r.gross = p.gross
      /\ r.direction = IF fill.action = "buy" THEN "long" ELSE "short"
  BY DEF AfterOpening
<1>3. /\ WholeLots(L) /\ p.cost = LotCosts(L) /\ p.gross \in Int
      /\ cash = p.gross - (IF p.direction = "long" THEN p.cost ELSE -p.cost)
  BY DEF Cashed, SignedCost
<1>4. fill \in FillRow /\ WholeShares(fill.quantity)  BY DEF Fills, AllWhole
<1>5. cash \in Int /\ CashTo(stream, m) = cash + CashMoved(fill)  BY CashMore
<1>6. \/ p.direction \notin Directions /\ fill.action \in {"buy", "sell_short"}
      \/ p.direction = "long" /\ fill.action = "buy"
      \/ p.direction = "short" /\ fill.action = "sell_short"
  BY <1>1, <1>4, NoFlip
<1>7. /\ amount \in Nat
      /\ fill.action \in {"buy", "buy_to_cover"} => CashMoved(fill) = -amount
      /\ fill.action \in {"sell", "sell_short"} => CashMoved(fill) = amount
  BY <1>4, CashInt
<1> HIDE DEF p, r, c, L, cash
<1>8. new \in Nat /\ \A l \in L : l.id # new
  <2>1. \A o \in acc.opened : o.id \in 1 .. c  BY <1>1 DEF LotsOpened
  <2>2. \A l \in L : \E o \in acc.opened : l.id = o.id  BY <1>1 DEF StillOpen, SameLot
  <2>3. \A l \in L : l.id \in 1 .. c  BY <2>1, <2>2
  <2> QED  BY <1>1, <2>3
<1>9. x.remaining = fill.quantity /\ x.price = fill.price /\ x.cost = amount
  BY DEF NewLot
<1>10. x = NewLot(fill, new)  OBVIOUS
<1> HIDE DEF new, x
<1>11. x \notin L /\ LotTable(L \cup {x})  BY <1>1, <1>4, <1>8, <1>10, LotOpened
<1>12. LotCosts(L) \in Int /\ LotCosts(L \cup {x}) = LotCosts(L) + amount
  BY <1>1, <1>9, <1>11, OneCostMore
<1>13. WholeShares(x.remaining) /\ x.cost = MultiplyDecimal(x.remaining, x.price)
  BY <1>4, <1>9
<1>14. WholeLots(r.lots)  BY <1>2, <1>3, <1>13 DEF WholeLots
<1>15. p.direction \notin Directions => p.cost = 0  BY <1>1, <1>3, NoCost
<1> DEFINE moved == CashMoved(fill)
<1> HIDE DEF amount, moved
<1>16. CASE fill.action = "buy"
  <2>1. moved = -amount  BY <1>7, <1>16 DEF moved
  <2>2. cash = p.gross - p.cost  BY <1>3, <1>6, <1>12, <1>15, <1>16 DEF Directions
  <2>3. r.direction = "long"  BY <1>2, <1>16
  <2>4. CashTo(stream, m) = r.gross - r.cost
    BY <1>2, <1>3, <1>5, <1>7, <1>12, <2>1, <2>2 DEF moved
  <2>5. CashTo(stream, m) = r.gross - SignedCost(r)  BY <2>3, <2>4 DEF SignedCost
  <2> QED  BY <1>2, <1>3, <1>12, <1>14, <2>5 DEF Cashed, r
<1>17. CASE fill.action = "sell_short"
  <2>1. moved = amount  BY <1>7, <1>17 DEF moved
  <2>2. cash = p.gross + p.cost
    <3>1. p.direction # "long"  BY <1>6, <1>17 DEF Directions
    <3>2. cash = p.gross - (-p.cost)  BY <1>3, <3>1
    <3> QED  BY <1>3, <1>12, <3>2
  <2>3. r.direction = "short"  BY <1>2, <1>17
  <2>4. CashTo(stream, m) = r.gross - (-r.cost)
    BY <1>2, <1>3, <1>5, <1>7, <1>12, <2>1, <2>2 DEF moved
  <2>5. CashTo(stream, m) = r.gross - SignedCost(r)  BY <2>3, <2>4 DEF SignedCost
  <2> QED  BY <1>2, <1>3, <1>12, <1>14, <2>5 DEF Cashed, r
<1> QED  BY <1>6, <1>16, <1>17

\* A closing fill moves what the shares it takes had cost, and what it makes on them.
LEMMA ClosingCashes ==
  ASSUME NEW stream, Fills(stream), AllWhole(stream),
         NEW n \in Nat, NEW m, m = n + 1, m \in DOMAIN stream,
         NEW acc, Accounted(acc, stream, n), Cashed(acc.position, stream, n),
         NEW fill, fill = stream[m], NEW next, AfterClosing(acc, fill, next),
         Accounted(next, stream, m),
         RejectionCode(fill, acc.position, acc.position.lots) = "none",
         ~IsOpeningAction(fill.action, acc.position.direction)
  PROVE  Cashed(next.position, stream, m)
<1> DEFINE p == acc.position
           r == next.position
           L == p.lots
           left == LeftOpen(fill, L)
           amount == MultiplyDecimal(fill.quantity, fill.price)
           cash == CashTo(stream, n)
           taken == CostTaken(L, fill.quantity)
           made == GrossOf(Matches(fill, p))
           open == OpenQuantity(L)
<1>1. /\ Holding(p.direction, p.quantity, L) /\ LotTable(L)
      /\ Holding(r.direction, r.quantity, r.lots) /\ LotTable(r.lots)
  BY DEF Accounted
<1>2. /\ r.lots = left /\ r.cost = LotCosts(left) /\ r.gross = p.gross + made
      /\ r.direction = IF r.quantity = 0 THEN "flat" ELSE p.direction
  BY DEF AfterClosing
<1>3. /\ WholeLots(L) /\ p.cost = LotCosts(L) /\ p.gross \in Int
      /\ cash = p.gross - (IF p.direction = "long" THEN p.cost ELSE -p.cost)
  BY DEF Cashed, SignedCost
<1>4. fill \in FillRow /\ WholeShares(fill.quantity)  BY DEF Fills, AllWhole
<1>5. cash \in Int /\ CashTo(stream, m) = cash + CashMoved(fill)  BY CashMore
<1>6. \/ p.direction = "long" /\ fill.action = "sell"
      \/ p.direction = "short" /\ fill.action = "buy_to_cover"
  BY <1>1, <1>4, NoFlip
<1>7. /\ amount \in Nat
      /\ fill.action \in {"buy", "buy_to_cover"} => CashMoved(fill) = -amount
      /\ fill.action \in {"sell", "sell_short"} => CashMoved(fill) = amount
  BY <1>4, CashInt
<1>8. fill.quantity \in Nat /\ fill.price \in Int  BY <1>4 DEF FillRow
<1>9. fill.quantity <= open
  <2>1. open \in Nat  BY <1>1, OpenQuantities
  <2>2. ~(fill.quantity > open)  BY NoReversal
  <2> HIDE DEF open
  <2> QED  BY <1>8, <2>1, <2>2
<1>10. /\ WholeLots(left) /\ LotCosts(L) \in Int /\ taken \in Int
       /\ LotCosts(L) = LotCosts(left) + taken
  BY <1>1, <1>3, <1>4, <1>8, CostsLeft
<1>11. made = IF p.direction = "short" THEN taken - amount ELSE amount - taken
  BY <1>1, <1>3, <1>4, <1>8, <1>9, GrossMade
<1>12. LotCosts(left) \in Int  BY <1>1, <1>2, <1>10, CostsInt
<1> DEFINE moved == CashMoved(fill)
           rest == LotCosts(left)
<1> HIDE DEF L, left, amount, cash, taken, made, open, moved, rest
<1>13. r.direction \notin Directions => rest = 0  BY <1>1, <1>2, NoCost DEF rest
<1>14. "flat" \notin Directions /\ "long" # "flat" /\ "short" # "long"  BY DEF Directions
<1>15. CASE p.direction = "long" /\ fill.action = "sell"
  <2>1. moved = amount  BY <1>7, <1>15 DEF moved
  <2>2. cash = p.gross - p.cost /\ made = amount - taken  BY <1>3, <1>11, <1>15
  <2>3. SignedCost(r) = rest
    <3>1. CASE r.quantity = 0
      <4>1. r.direction = "flat"  BY <1>2, <3>1
      <4>2. rest = 0  BY <1>13, <1>14, <4>1
      <4>3. r.cost = rest  BY <1>2 DEF rest
      <4>4. SignedCost(r) = -r.cost  BY <1>14, <4>1 DEF SignedCost
      <4> DEFINE cost == r.cost
      <4>5. cost \in Int /\ cost = 0 /\ SignedCost(r) = -cost  BY <4>2, <4>3, <4>4
      <4> HIDE DEF cost
      <4>6. -cost = 0  BY <4>5, MinusNothing
      <4> QED  BY <4>2, <4>5, <4>6
    <3>2. CASE r.quantity # 0
      <4>1. r.direction = "long"  BY <1>2, <1>15, <3>2
      <4> QED  BY <1>2, <4>1 DEF SignedCost, rest
    <3> QED  BY <3>1, <3>2
  <2>4. r.gross \in Int /\ CashTo(stream, m) = r.gross - rest
    BY <1>2, <1>3, <1>5, <1>7, <1>10, <1>12, <2>1, <2>2 DEF moved, rest
  <2> QED  BY <1>2, <1>10, <2>3, <2>4 DEF Cashed, r
<1>16. CASE p.direction = "short" /\ fill.action = "buy_to_cover"
  <2>1. moved = -amount  BY <1>7, <1>16 DEF moved
  <2>2. cash = p.gross - (-p.cost) /\ made = taken - amount  BY <1>3, <1>11, <1>14, <1>16
  <2>3. SignedCost(r) = -rest
    <3>1. r.direction # "long"  BY <1>2, <1>14, <1>16
    <3> QED  BY <1>2, <3>1 DEF SignedCost, rest
  <2>4. r.gross \in Int /\ CashTo(stream, m) = r.gross - (-rest)
    BY <1>2, <1>3, <1>5, <1>7, <1>10, <1>12, <2>1, <2>2 DEF moved, rest
  <2> QED  BY <1>2, <1>10, <2>3, <2>4 DEF Cashed, r
<1> QED  BY <1>6, <1>15, <1>16

\* A replay in which no fill was rejected accounts for every fill.
LEMMA ReplayAccounted ==
  ASSUME NEW stream, Fills(stream), Replay(stream).rejected # TRUE
  PROVE  /\ Accounted(Replay(stream), stream, Len(stream))
         /\ Walked(Replay(stream).position, stream, Len(stream))
         /\ AllWhole(stream) => Cashed(Replay(stream).position, stream, Len(stream))
<1> DEFINE N == Len(stream)
           st == ReplayStates(stream)
           Fine(n) == /\ ReplayShape(st[n])
                      /\ \/ st[n].rejected = TRUE
                         \/ /\ st[n].rejected = FALSE /\ Accounted(st[n], stream, n)
                            /\ Walked(st[n].position, stream, n)
                            /\ AllWhole(stream) => Cashed(st[n].position, stream, n)
           P == {n \in Nat : Fine(n)}
<1>1. N \in Nat /\ DOMAIN stream = 1 .. N  BY DEF Fills
<1>2. /\ st[0] = ReplayStart
      /\ \A n \in 1 .. N : st[n] = ReplayFill(st[n - 1], stream[n])
      /\ Replay(stream) = st[N]
  BY <1>1, ReplayUnfolds
<1> HIDE DEF st, N
<1>3. Fine(0)
  <2>1. ReplayStart.position = NoPosition  BY DEF ReplayStart
  <2> QED  BY <1>2, <2>1, NothingReplayed, NothingWalked, NothingCashed
<1>4. ASSUME NEW n \in 0 .. (N - 1), Fine(n) PROVE Fine(n + 1)
  <2> DEFINE acc == st[n]
             next == st[n + 1]
             fill == stream[n + 1]
             lots == acc.position.lots
             code == RejectionCode(fill, acc.position, lots)
             opens == IsOpeningAction(fill.action, acc.position.direction)
  <2>1. n + 1 \in 1 .. N /\ (n + 1) - 1 = n /\ n \in Nat  BY <1>1
  <2>2. next = ReplayFill(acc, fill) /\ n + 1 \in DOMAIN stream  BY <1>1, <1>2, <2>1
  <2>3. ReplayShape(acc) /\ (acc.rejected = TRUE
          \/ (/\ acc.rejected = FALSE /\ Accounted(acc, stream, n)
              /\ Walked(acc.position, stream, n)
              /\ AllWhole(stream) => Cashed(acc.position, stream, n)))
    BY <1>4
  <2>4. fill \in FillRow  BY <2>2 DEF Fills
  <2> HIDE DEF acc, next, fill
  <2>5. ReplayShape(next)  BY <2>2, <2>3, FillReplayed
  <2>6. CASE code # "none"
    <3>1. next.rejected = TRUE  BY <2>2, <2>3, <2>6, FillReplayed
    <3> QED  BY <2>5, <3>1 DEF next
  <2>7. CASE code = "none" /\ opens
    <3>1. AfterOpening(acc, fill, next)  BY <2>2, <2>3, <2>7, FillReplayed
    <3>2. next.rejected = acc.rejected  BY <3>1 DEF AfterOpening
    <3>3. Accounted(acc, stream, n) => Accounted(next, stream, n + 1)
      BY <2>1, <2>2, <3>1, OpeningKeeps DEF fill
    <3>4. Accounted(acc, stream, n) /\ Walked(acc.position, stream, n)
            => Walked(next.position, stream, n + 1)
      BY <2>1, <2>2, <2>7, <3>1, OpeningWalks DEF fill
    <3>5. AllWhole(stream) /\ Accounted(acc, stream, n) /\ Cashed(acc.position, stream, n)
            => Cashed(next.position, stream, n + 1)
      BY <2>1, <2>2, <2>7, <3>1, OpeningCashes DEF fill
    <3> QED  BY <2>3, <2>5, <3>2, <3>3, <3>4, <3>5 DEF next
  <2>8. CASE code = "none" /\ ~opens
    <3>1. AfterClosing(acc, fill, next)  BY <2>2, <2>3, <2>8, FillReplayed
    <3>4. next.rejected = acc.rejected  BY <3>1 DEF AfterClosing
    <3>2. ASSUME Accounted(acc, stream, n) PROVE fill.quantity <= OpenQuantity(lots)
      <4>1. ~(fill.quantity > OpenQuantity(lots))  BY <2>8, NoReversal
      <4>2. LotTable(lots)  BY <3>2 DEF Accounted
      <4>3. OpenQuantity(lots) \in Nat  BY <4>2, OpenQuantities
      <4>4. fill.quantity \in Nat  BY <2>4 DEF FillRow
      <4> QED  BY <4>1, <4>3, <4>4
    <3>3. Accounted(acc, stream, n) => Accounted(next, stream, n + 1)
      BY <2>1, <2>2, <3>1, <3>2, ClosingKeeps DEF fill
    <3>5. Accounted(acc, stream, n) /\ Walked(acc.position, stream, n)
            => Walked(next.position, stream, n + 1)
      BY <2>1, <2>2, <2>8, <3>1, ClosingWalks DEF fill
    <3>6. AllWhole(stream) /\ Accounted(acc, stream, n) /\ Cashed(acc.position, stream, n)
            => Cashed(next.position, stream, n + 1)
      BY <2>1, <2>2, <2>8, <3>1, <3>3, ClosingCashes DEF fill
    <3> QED  BY <2>3, <2>5, <3>3, <3>4, <3>5, <3>6 DEF next
  <2> QED  BY <2>6, <2>7, <2>8
<1> HIDE DEF Fine
<1>5. 0 \in P  BY <1>3
<1>6. \A n \in 0 .. (N - 1) : n \in P => n + 1 \in P  BY <1>4
<1> HIDE DEF P
<1>7. \A n \in 0 .. N : n \in P  BY <1>1, <1>5, <1>6, UpTo
<1>8. Fine(N)
  <2>1. N \in P  BY <1>1, <1>7
  <2> QED  BY <2>1 DEF P
<1> QED  BY <1>2, <1>8 DEF Fine, N

-----------------------------------------------------------------------------
(* What a rebuild leaves in the tables.                                      *)

PersistedLot(lots, o) ==
  \/ o \in lots
  \/ o.remaining = 0 /\ \A l \in lots : l.id # o.id

\* The persisted lots are the open ones and, emptied, the others that were opened.
LEMMA LotsPersisted ==
  ASSUME NEW replay, NEW lots, lots = replay.position.lots, LotTable(lots),
         NEW opened, opened = replay.opened, LotTable(opened), StillOpen(lots, opened),
         NEW rows, rows = PersistedLots(replay)
  PROVE  /\ IsFiniteSet(rows) /\ lots \subseteq rows
         /\ \A x \in rows :
              /\ x.remaining \in Nat /\ x.fees \in Nat /\ x.cost \in Nat /\ x.id \in Nat
              /\ (x.remaining > 0 <=> x \in lots) /\ PersistedLot(lots, x)
              /\ \E o \in opened : SameLot(x, o)
         /\ \A o \in opened : \E x \in rows : SameLot(x, o)
<1> DEFINE closed == {o \in opened : \A l \in lots : l.id # o.id}
           empty(o) == [o EXCEPT !.remaining = 0]
           emptied == {empty(o) : o \in closed}
<1>1. rows = lots \cup emptied  BY DEF PersistedLots
<1>2. IsFiniteSet(emptied)
  <2> DEFINE g == [o \in closed |-> empty(o)]
  <2>1. IsFiniteSet(closed)  BY FS_Subset DEF LotTable
  <2>2. DOMAIN g = closed /\ emptied = {g[o] : o \in closed}  OBVIOUS
  <2> HIDE DEF g, closed, emptied
  <2> QED  BY <2>1, <2>2, ImageFinite
<1>3. ASSUME NEW o \in opened
      PROVE  /\ empty(o).remaining = 0 /\ empty(o).id = o.id /\ empty(o).fees = o.fees
             /\ empty(o).cost = o.cost /\ SameLot(empty(o), o)
             /\ o.id \in Nat /\ o.fees \in Nat /\ o.cost \in Nat
  <2>1. o \in Lot  BY DEF LotTable
  <2>2. /\ empty(o).remaining = 0 /\ empty(o).id = o.id /\ empty(o).fees = o.fees
        /\ empty(o).cost = o.cost /\ empty(o).openedBy = o.openedBy
        /\ empty(o).openedAt = o.openedAt /\ empty(o).original = o.original
    BY <2>1 DEF Lot
  <2> HIDE DEF empty
  <2> QED  BY <2>1, <2>2 DEF SameLot, Lot
<1>4. ASSUME NEW x \in lots
      PROVE  /\ x.remaining \in Nat \ {0} /\ x.fees \in Nat /\ x.cost \in Nat /\ x.id \in Nat
             /\ \E o \in opened : SameLot(x, o)
  BY LotFields DEF StillOpen
<1> HIDE DEF empty
<1>5. ASSUME NEW x \in rows
      PROVE  /\ x.remaining \in Nat /\ x.fees \in Nat /\ x.cost \in Nat /\ x.id \in Nat
             /\ (x.remaining > 0 <=> x \in lots) /\ PersistedLot(lots, x)
             /\ \E o \in opened : SameLot(x, o)
  <2>1. CASE x \in lots  BY <1>4, <2>1 DEF PersistedLot
  <2>2. CASE x \in emptied
    <3>1. PICK o \in closed : x = empty(o)  BY <2>2
    <3>2. o \in opened /\ \A l \in lots : l.id # o.id  OBVIOUS
    <3>3. /\ x.remaining = 0 /\ x.id = o.id /\ x.fees \in Nat /\ x.cost \in Nat /\ x.id \in Nat
          /\ SameLot(x, o)
      BY <1>3, <3>1, <3>2
    <3>4. x \notin lots  BY <3>2, <3>3
    <3> QED  BY <3>2, <3>3, <3>4 DEF PersistedLot
  <2> QED  BY <1>1, <2>1, <2>2
<1>6. ASSUME NEW o \in opened PROVE \E x \in rows : SameLot(x, o)
  <2>1. CASE o \in closed
    <3>1. empty(o) \in rows  BY <1>1, <2>1
    <3> QED  BY <1>3, <3>1
  <2>2. CASE o \notin closed
    <3>1. PICK l \in lots : l.id = o.id  BY <2>2
    <3>2. PICK p \in opened : SameLot(l, p)  BY <1>4
    <3>3. p = o  BY <3>1, <3>2 DEF SameLot, LotTable
    <3> QED  BY <1>1, <3>1, <3>2, <3>3
  <2> QED  BY <2>1, <2>2
<1>7. IsFiniteSet(rows) /\ lots \subseteq rows
  <2>1. IsFiniteSet(lots)  BY DEF LotTable
  <2> HIDE DEF emptied
  <2> QED  BY <1>1, <1>2, <2>1, FS_Union
<1> QED  BY <1>5, <1>6, <1>7

\* What is left of the persisted lots is what is left of the open ones.
LEMMA OpenOfPersisted ==
  ASSUME NEW rows, IsFiniteSet(rows), NEW lots, LotTable(lots), lots \subseteq rows,
         \A x \in rows : x.remaining \in Nat /\ (x.remaining > 0 <=> x \in lots)
  PROVE  OpenQuantity(rows) = OpenQuantity(lots) /\ {x \in rows : x.remaining > 0} = lots
<1> DEFINE f == [x \in rows |-> x.remaining]
<1>1. f \in [rows -> Int] /\ \A x \in rows \ lots : f[x] = 0  OBVIOUS
<1>2. Restrict(f, lots) = [x \in lots |-> x.remaining]  BY DEF Restrict
<1> HIDE DEF f
<1>3. Total(f) = Total(Restrict(f, lots))  BY <1>1, TotalOfOthers
<1> QED  BY <1>2, <1>3 DEF OpenQuantity, f

-----------------------------------------------------------------------------
(* One instrument's projection, as a rebuild leaves it.                      *)

ReplayedFills(rows, corrections, i) ==
  LET ids == EffectiveIds(rows, corrections, i) IN
  [n \in DOMAIN ids |-> Fill(rows[ids[n]], ids[n])]

\* The stream a rebuild replays: the n-th fill is that of the n-th effective execution.
LEMMA FillsReplayed ==
  ASSUME NEW rows, NEW corrections, Tables(rows, corrections), NEW i,
         NEW stream, stream = ReplayedFills(rows, corrections, i),
         NEW ids, ids = EffectiveIds(rows, corrections, i)
  PROVE  /\ Fills(stream) /\ ReplayOf(rows, corrections, i) = Replay(stream)
         /\ DOMAIN stream = DOMAIN ids /\ DOMAIN stream = 1 .. Len(stream)
         /\ \A n \in DOMAIN stream :
              /\ ids[n] \in DOMAIN rows
              /\ stream[n].id = ids[n]
              /\ stream[n].postedAt = rows[ids[n]].postedAt
              /\ stream[n].fees = rows[ids[n]].fees
<1>1. /\ ids \in Seq(Counted(rows, corrections, i))
      /\ \A j, k \in DOMAIN ids : ids[j] = ids[k] => j = k
  BY EffectiveStream
<1>2. \A n \in DOMAIN ids : ids[n] \in DOMAIN rows /\ ids[n] \in Nat
  <2>1. \A n \in DOMAIN ids : ids[n] \in Counted(rows, corrections, i)  BY <1>1
  <2>2. DOMAIN rows \subseteq Nat  BY DEF Tables
  <2> QED  BY <2>1, <2>2 DEF Counted
<1>3. stream = [n \in DOMAIN ids |-> Fill(rows[ids[n]], ids[n])]
  BY DEF ReplayedFills
<1>4. ASSUME NEW n \in DOMAIN ids
      PROVE  /\ stream[n] \in FillRow /\ stream[n].id = ids[n]
             /\ stream[n].postedAt = rows[ids[n]].postedAt
             /\ stream[n].fees = rows[ids[n]].fees
  <2> DEFINE r == rows[ids[n]]
  <2>1. r \in Execution  BY <1>2 DEF Tables
  <2>2. stream[n] = Fill(r, ids[n]) /\ ids[n] \in Nat  BY <1>2, <1>3
  <2> HIDE DEF r
  <2>3. /\ stream[n] \in FillRow /\ stream[n].id = ids[n]
        /\ stream[n].postedAt = r.postedAt /\ stream[n].fees = r.fees
    BY <2>1, <2>2 DEF Fill, FillRow, Execution
  <2> QED  BY <2>3 DEF r
<1>5. DOMAIN ids = 1 .. Len(ids) /\ Len(ids) \in Nat  BY <1>1
<1>6. stream \in Seq(FillRow) /\ DOMAIN stream = DOMAIN ids /\ DOMAIN stream = 1 .. Len(stream)
  BY <1>3, <1>4, <1>5
<1>7. Fills(stream)  BY <1>1, <1>4, <1>6 DEF Fills
<1>8. ReplayOf(rows, corrections, i) = Replay(stream)
  BY DEF ReplayOf, ReplayedFills
<1> QED  BY <1>2, <1>4, <1>6, <1>7, <1>8

\* The projection accounts for the fills behind it.
Explained(p, rows, corrections) ==
  LET MatchedFromLot(lot) == MatchedOf(p.matches, lot.id) IN
  /\ p.direction \in Directions \cup {"none", "flat"} /\ p.quantity \in Nat
  /\ \A x \in p.lots : x.fees \in Nat /\ x.cost \in Nat
  /\ p.quantity = OpenQuantity(p.lots) /\ (p.quantity = 0 <=> p.direction \notin Directions)
  /\ \A x \in p.lots : x.original = x.remaining + MatchedFromLot(x)
  /\ EntryFees(p.matches) + LotFees({x \in p.lots : x.remaining > 0})
       = Total([id \in {x.openedBy : x \in p.lots} |-> rows[id].fees])
  /\ \A a, b \in p.lots :
       OlderLot(a, b) /\ a.id < b.id /\ MatchedFromLot(b) > 0 => a.remaining = 0
  /\ \A a, b \in p.lots :
       /\ a.openedBy \in DOMAIN rows /\ a.openedAt = rows[a.openedBy].postedAt /\ a.id \in Nat
       /\ StreamBefore(rows, corrections, a.openedBy, b.openedBy) => a.id < b.id

\* Nothing is explained by nothing.
LEMMA NothingExplained ==
  ASSUME NEW rows, NEW corrections
  PROVE  Explained(NoProjection, rows, corrections)
<1>1. /\ NoProjection.direction = "none" /\ NoProjection.quantity = 0
      /\ NoProjection.lots = {} /\ NoProjection.matches = {}
  BY DEF NoProjection, Rows, NoPosition
<1>2. OpenQuantity({}) = 0 /\ LotFees({}) = 0 /\ EntryFees({}) = 0
  BY TotalOfNone DEF OpenQuantity, LotFees, EntryFees
<1> DEFINE p == NoProjection
           none == [id \in {x.openedBy : x \in p.lots} |-> rows[id].fees]
<1>3. DOMAIN none = {}  BY <1>1
<1> HIDE DEF none
<1>4. Total(none) = 0  BY <1>3, TotalOfNone
<1>5. {x \in p.lots : x.remaining > 0} = {}  BY <1>1
<1> HIDE DEF p
<1> QED  BY <1>1, <1>2, <1>4, <1>5 DEF Explained, Directions, none, p

\* What every opened lot knows of the execution that opened it.
OpenedByExecution(opened, rows, ids) ==
  \A o \in opened : \E k \in DOMAIN ids :
    /\ o.openedBy = ids[k] /\ ids[k] \in DOMAIN rows
    /\ o.openedAt = rows[ids[k]].postedAt /\ o.fees = rows[ids[k]].fees

InStreamOrder(opened, ids) ==
  \A o, q \in opened : \A j, k \in DOMAIN ids :
    o.openedBy = ids[j] /\ q.openedBy = ids[k] => (j < k => o.id < q.id) /\ (j = k => o = q)

LEMMA OpenedByFills ==
  ASSUME NEW rows, NEW corrections, Tables(rows, corrections), NEW i,
         NEW ids, ids = EffectiveIds(rows, corrections, i),
         NEW stream, stream = ReplayedFills(rows, corrections, i),
         NEW opened, NEW c, LotsOpened(opened, c, stream, Len(stream))
  PROVE  OpenedByExecution(opened, rows, ids) /\ InStreamOrder(opened, ids)
<1> DEFINE N == Len(stream)
<1>1. /\ DOMAIN stream = DOMAIN ids /\ DOMAIN stream = 1 .. N
      /\ \A n \in DOMAIN stream :
           /\ ids[n] \in DOMAIN rows
           /\ stream[n].id = ids[n]
           /\ stream[n].postedAt = rows[ids[n]].postedAt
           /\ stream[n].fees = rows[ids[n]].fees
  BY FillsReplayed
<1> HIDE DEF N
<1>2. LotsOpened(opened, c, stream, N)  BY DEF N
<1>3. OpenedByExecution(opened, rows, ids)
  <2> SUFFICES ASSUME NEW o \in opened
               PROVE  \E k \in DOMAIN ids :
                        /\ o.openedBy = ids[k] /\ ids[k] \in DOMAIN rows
                        /\ o.openedAt = rows[ids[k]].postedAt /\ o.fees = rows[ids[k]].fees
    BY DEF OpenedByExecution
  <2>1. PICK k \in 1 .. N : /\ o.openedBy = stream[k].id
                            /\ o.openedAt = stream[k].postedAt /\ o.fees = stream[k].fees
    BY <1>2 DEF LotsOpened
  <2> QED  BY <1>1, <2>1
<1>4. InStreamOrder(opened, ids)
  <2> SUFFICES ASSUME NEW o \in opened, NEW q \in opened, NEW j \in DOMAIN ids,
                      NEW k \in DOMAIN ids, o.openedBy = ids[j], q.openedBy = ids[k]
               PROVE  (j < k => o.id < q.id) /\ (j = k => o = q)
    BY DEF InStreamOrder
  <2>1. j \in 1 .. N /\ k \in 1 .. N /\ o.openedBy = stream[j].id /\ q.openedBy = stream[k].id
    BY <1>1
  <2> QED  BY <1>2, <2>1 DEF LotsOpened
<1> QED  BY <1>3, <1>4

\* The fees of the lots opened are the fees of the executions that opened them.
LEMMA OpeningFees ==
  ASSUME NEW opened, LotTable(opened), NEW rows, NEW ids,
         OpenedByExecution(opened, rows, ids), InStreamOrder(opened, ids),
         NEW T, \A o \in opened : o.openedBy \in T,
         \A id \in T : \E o \in opened : id = o.openedBy
  PROVE  Total([id \in T |-> rows[id].fees]) = LotFees(opened)
<1> DEFINE f == [o \in opened |-> o.fees]
           h == [o \in opened |-> o.openedBy]
           e == [id \in T |-> rows[id].fees]
<1>1. IsFiniteSet(opened) /\ \A o \in opened : o.fees \in Int
  BY LotFields DEF LotTable
<1>2. \A o \in opened : rows[o.openedBy].fees = o.fees
  BY DEF OpenedByExecution
<1>3. \A o, q \in opened : h[o] = h[q] => o = q
  <2> SUFFICES ASSUME NEW o \in opened, NEW q \in opened, o.openedBy = q.openedBy PROVE o = q
    OBVIOUS
  <2>1. PICK k \in DOMAIN ids : o.openedBy = ids[k]  BY DEF OpenedByExecution
  <2> QED  BY <2>1 DEF InStreamOrder
<1>4. Pairs(h, opened, T)
  <2>1. \A o \in opened : h[o] \in T  OBVIOUS
  <2>2. \A id \in T : \E o \in opened : id = h[o]  OBVIOUS
  <2> HIDE DEF h
  <2> QED  BY <1>3, <2>1, <2>2 DEF Pairs
<1>5. f \in [opened -> Int] /\ \A o \in opened : f[o] = o.fees  BY <1>1
<1>6. e \in [T -> Int]
  <2>1. \A id \in T : rows[id].fees \in Int  BY <1>1, <1>2
  <2> QED  BY <2>1
<1>7. \A o \in opened : e[h[o]] = f[o]  BY <1>2
<1>8. LotFees(opened) = Total(f) /\ opened \in SUBSET opened /\ \A o \in opened \ opened : f[o] = 0
  BY DEF LotFees
<1> HIDE DEF f, h, e
<1>9. Total(e) = Total(f)  BY <1>1, <1>4, <1>5, <1>6, <1>7, <1>8, TotalOfImage
<1> QED  BY <1>8, <1>9 DEF e

\* A replay that accounts for its fills leaves a projection that does.
LEMMA ReplayExplained ==
  ASSUME NEW rows, NEW corrections, Tables(rows, corrections), NEW i,
         NEW stream, stream = ReplayedFills(rows, corrections, i),
         NEW replay, Accounted(replay, stream, Len(stream))
  PROVE  Explained(Projection(replay), rows, corrections)
<1> DEFINE ids == EffectiveIds(rows, corrections, i)
           lots == replay.position.lots
           opened == replay.opened
           matches == replay.matches
           kept == PersistedLots(replay)
           p == Projection(replay)
<1>1. /\ p.direction = replay.position.direction /\ p.quantity = replay.position.quantity
      /\ p.lots = kept /\ p.matches = matches
  BY DEF Projection, Rows
<1>2. /\ LotTable(lots) /\ LotTable(opened) /\ MatchTable(matches)
      /\ LotsOpened(opened, replay.counter, stream, Len(stream))
      /\ StillOpen(lots, opened)
      /\ Holding(p.direction, p.quantity, lots)
      /\ LotsUsed(lots, opened, matches)
      /\ FeesKept(lots, opened, matches)
      /\ OldestUsedFirst(lots, opened, matches)
  BY <1>1 DEF Accounted
<1>3. ids = EffectiveIds(rows, corrections, i)  OBVIOUS
<1> HIDE DEF ids
<1>4. OpenedByExecution(opened, rows, ids) /\ InStreamOrder(opened, ids)
  <2> HIDE DEF opened
  <2> QED  BY <1>2, <1>3, OpenedByFills
<1>5. /\ IsFiniteSet(kept) /\ lots \subseteq kept
      /\ \A x \in kept :
           /\ x.remaining \in Nat /\ x.fees \in Nat /\ x.cost \in Nat /\ x.id \in Nat
           /\ (x.remaining > 0 <=> x \in lots) /\ PersistedLot(lots, x)
           /\ \E o \in opened : SameLot(x, o)
      /\ \A o \in opened : \E x \in kept : SameLot(x, o)
  BY <1>2, LotsPersisted
<1> HIDE DEF lots, opened, matches, kept, p
<1>6. OpenQuantity(kept) = OpenQuantity(lots) /\ {x \in kept : x.remaining > 0} = lots
  BY <1>2, <1>5, OpenOfPersisted
<1>7. OpenQuantity(lots) \in Nat  BY <1>2, OpenQuantities
<1>8. \A x \in kept : x.original = x.remaining + MatchedOf(matches, x.id)
  <2> SUFFICES ASSUME NEW x \in kept PROVE x.original = x.remaining + MatchedOf(matches, x.id)
    OBVIOUS
  <2>1. CASE x \in lots  BY <1>2, <2>1 DEF LotsUsed
  <2>2. CASE x \notin lots
    <3>1. x.remaining = 0 /\ \A l \in lots : l.id # x.id  BY <1>5, <2>2 DEF PersistedLot
    <3>2. PICK o \in opened : SameLot(x, o)  BY <1>5
    <3>3. x.original = o.original /\ x.id = o.id  BY <3>2 DEF SameLot
    <3>4. o.original = MatchedOf(matches, o.id)  BY <1>2, <3>1, <3>3 DEF LotsUsed
    <3>5. o.original \in Nat  BY <1>2, LotFields
    <3>6. MatchedOf(matches, x.id) \in Nat /\ x.original = MatchedOf(matches, x.id)
      BY <3>3, <3>4, <3>5
    <3> QED  BY <3>1, <3>6
  <2> QED  BY <2>1, <2>2
<1>9. Total([id \in {x.openedBy : x \in kept} |-> rows[id].fees]) = LotFees(opened)
  <2> DEFINE T == {x.openedBy : x \in kept}
  <2>1. \A o \in opened : o.openedBy \in T  BY <1>5 DEF SameLot
  <2>2. \A id \in T : \E o \in opened : id = o.openedBy  BY <1>5 DEF SameLot
  <2> HIDE DEF T
  <2>3. Total([id \in T |-> rows[id].fees]) = LotFees(opened)
    BY <1>2, <1>4, <2>1, <2>2, OpeningFees
  <2> QED  BY <2>3 DEF T
<1>10. EntryFees(matches) + LotFees({x \in kept : x.remaining > 0})
         = Total([id \in {x.openedBy : x \in kept} |-> rows[id].fees])
  BY <1>2, <1>6, <1>9 DEF FeesKept
<1>11. \A a, b \in kept : OlderLot(a, b) /\ a.id < b.id /\ MatchedOf(matches, b.id) > 0
                            => a.remaining = 0
  <2> SUFFICES ASSUME NEW a \in kept, NEW b \in kept, OlderLot(a, b), a.id < b.id,
                      MatchedOf(matches, b.id) > 0
               PROVE  a.remaining = 0
    OBVIOUS
  <2>1. PICK o \in opened : SameLot(a, o)  BY <1>5
  <2>2. PICK q \in opened : SameLot(b, q)  BY <1>5
  <2>3. a.id = o.id /\ b.id = q.id /\ a.openedAt = o.openedAt /\ b.openedAt = q.openedAt
    BY <2>1, <2>2 DEF SameLot
  <2>4. OlderLot(o, q)  BY <2>3 DEF OlderLot
  <2>5. \E m \in matches : m.lot = q.id
    <3> SUFFICES ASSUME \A m \in matches : m.lot # b.id PROVE FALSE  BY <2>3
    <3>1. MatchedOf(matches, b.id) = 0  BY Untouched
    <3> QED  BY <3>1
  <2>6. \A l \in lots : l.id # o.id
    BY <1>2, <2>3, <2>4, <2>5 DEF OldestUsedFirst
  <2>7. a \notin lots  BY <2>3, <2>6
  <2> QED  BY <1>5, <2>7
<1>12. \A a, b \in kept :
         /\ a.openedBy \in DOMAIN rows /\ a.openedAt = rows[a.openedBy].postedAt /\ a.id \in Nat
         /\ StreamBefore(rows, corrections, a.openedBy, b.openedBy) => a.id < b.id
  <2> SUFFICES ASSUME NEW a \in kept, NEW b \in kept
               PROVE  /\ a.openedBy \in DOMAIN rows
                      /\ a.openedAt = rows[a.openedBy].postedAt /\ a.id \in Nat
                      /\ StreamBefore(rows, corrections, a.openedBy, b.openedBy) => a.id < b.id
    OBVIOUS
  <2>1. PICK o \in opened : SameLot(a, o)  BY <1>5
  <2>2. PICK q \in opened : SameLot(b, q)  BY <1>5
  <2>3. PICK j \in DOMAIN ids :
          /\ o.openedBy = ids[j] /\ ids[j] \in DOMAIN rows
          /\ o.openedAt = rows[ids[j]].postedAt
    BY <1>4 DEF OpenedByExecution
  <2>4. PICK k \in DOMAIN ids : q.openedBy = ids[k]
    BY <1>4 DEF OpenedByExecution
  <2>5. /\ a.openedBy = ids[j] /\ b.openedBy = ids[k] /\ a.openedAt = o.openedAt
        /\ a.id = o.id /\ b.id = q.id
    BY <2>1, <2>2, <2>3, <2>4 DEF SameLot
  <2>6. StreamBefore(rows, corrections, ids[j], ids[k]) <=> j < k
    BY <1>3, EffectiveStream
  <2>7. j < k => o.id < q.id  BY <1>4, <2>3, <2>4 DEF InStreamOrder
  <2> QED  BY <1>5, <2>3, <2>5, <2>6, <2>7
<1>13. /\ p.direction \in Directions \cup {"none", "flat"} /\ p.quantity \in Nat
       /\ p.quantity = OpenQuantity(kept) /\ (p.quantity = 0 <=> p.direction \notin Directions)
  BY <1>2, <1>6, <1>7 DEF Holding
<1>14. \A x \in kept : x.fees \in Nat /\ x.cost \in Nat  BY <1>5
<1>15. Explained(p, rows, corrections)
  BY <1>1, <1>8, <1>10, <1>11, <1>12, <1>13, <1>14 DEF Explained
<1> QED  BY <1>15 DEF p

\* What a rebuild leaves accounts for the fills behind it.
LEMMA RebuildExplained ==
  ASSUME NEW rows, NEW corrections, Tables(rows, corrections), NEW i,
         CanRebuild(rows, corrections, i)
  PROVE  Explained(RebuildPositions(rows, corrections, i), rows, corrections)
<1> DEFINE stream == ReplayedFills(rows, corrections, i)
<1>1. CASE EffectiveIds(rows, corrections, i) = <<>>
  BY <1>1, NothingExplained DEF RebuildPositions
<1>2. CASE EffectiveIds(rows, corrections, i) # <<>>
  <2>1. /\ Fills(stream) /\ ReplayOf(rows, corrections, i) = Replay(stream)
    BY FillsReplayed
  <2>2. Replay(stream).rejected # TRUE  BY <2>1 DEF CanRebuild
  <2>3. stream = ReplayedFills(rows, corrections, i)  OBVIOUS
  <2> HIDE DEF stream
  <2> DEFINE replay == Replay(stream)
  <2>4. Accounted(replay, stream, Len(stream))  BY <2>1, <2>2, ReplayAccounted
  <2>5. replay = ReplayOf(rows, corrections, i)  BY <2>1
  <2> HIDE DEF replay
  <2>6. Explained(Projection(replay), rows, corrections)
    BY <2>3, <2>4, ReplayExplained
  <2> QED  BY <1>2, <2>5, <2>6 DEF RebuildPositions
<1> QED  BY <1>1, <1>2

-----------------------------------------------------------------------------
(* The position a rebuild leaves, from the executions alone.                 *)

\* What the executions that count add up to.
PartOf(rows, corrections, i, id) ==
  IF id \in Counted(rows, corrections, i) THEN SignedOf(rows[id]) ELSE 0

NetSum(rows, corrections, i) ==
  Total([id \in DOMAIN rows |-> PartOf(rows, corrections, i, id)])

\* The execution that is replayed last.
IsLast(x, rows, corrections, i) ==
  /\ x \in Counted(rows, corrections, i)
  /\ \A y \in Counted(rows, corrections, i) : y # x => StreamBefore(rows, corrections, y, x)

\* The last fill leaves no position of the other side, and finds none.
LastSided(rows, corrections, i) ==
  \A x \in DOMAIN rows :
    IsLast(x, rows, corrections, i)
      => /\ Sided(NetSum(rows, corrections, i), rows[x].action)
         /\ Sided(NetSum(rows, corrections, i) - SignedOf(rows[x]), rows[x].action)

LEMMA SignedExecution ==
  ASSUME NEW row \in Execution
  PROVE  SignedOf(row) \in Int
BY DEF SignedOf, SignedQuantity, Execution

LEMMA PartsInt ==
  ASSUME NEW rows, NEW corrections, Tables(rows, corrections), NEW i
  PROVE  /\ IsFiniteSet(DOMAIN rows)
         /\ [id \in DOMAIN rows |-> PartOf(rows, corrections, i, id)] \in [DOMAIN rows -> Int]
         /\ NetSum(rows, corrections, i) \in Int
<1> DEFINE S == DOMAIN rows
           f == [id \in S |-> PartOf(rows, corrections, i, id)]
<1>1. IsFiniteSet(S)
  <2>1. S = 1 .. Len(rows) /\ Len(rows) \in Nat  BY DEF Tables
  <2> QED  BY <2>1, FS_Interval
<1>2. \A id \in S : PartOf(rows, corrections, i, id) \in Int
  <2> SUFFICES ASSUME NEW id \in S PROVE PartOf(rows, corrections, i, id) \in Int  OBVIOUS
  <2> DEFINE row == rows[id]
  <2>1. row \in Execution  BY DEF Tables
  <2> HIDE DEF row
  <2>2. SignedOf(row) \in Int  BY <2>1, SignedExecution
  <2> QED  BY <2>2 DEF PartOf, row
<1>3. f \in [S -> Int]  BY <1>2
<1>4. NetSum(rows, corrections, i) = Total(f)  BY DEF NetSum
<1> HIDE DEF f, S
<1>5. Total(f) \in Int  BY <1>1, <1>3, TotalInt
<1> QED  BY <1>1, <1>3, <1>4, <1>5 DEF f, S

\* The fills of the stream add up to what the executions that count do.
LEMMA StreamSum ==
  ASSUME NEW rows, NEW corrections, Tables(rows, corrections), NEW i,
         NEW stream, stream = ReplayedFills(rows, corrections, i)
  PROVE  SumTo(stream, Len(stream)) = NetSum(rows, corrections, i)
<1> DEFINE ids == EffectiveIds(rows, corrections, i)
           N == Len(stream)
           T == 1 .. N
           C == Counted(rows, corrections, i)
           D == DOMAIN rows
           f == [id \in D |-> PartOf(rows, corrections, i, id)]
           g == [k \in T |-> SignedOf(stream[k])]
           h == Restrict(f, C)
<1>1. /\ ids \in Seq(C) /\ \A j, k \in DOMAIN ids : ids[j] = ids[k] => j = k
      /\ \A x \in C : \E k \in DOMAIN ids : x = ids[k]
  <2> HIDE DEF ids, C
  <2> QED  BY EffectiveStream DEF ids, C
<1>2. Fills(stream) /\ DOMAIN stream = DOMAIN ids /\ DOMAIN stream = T
  BY FillsReplayed
<1>3. stream = [n \in DOMAIN ids |-> Fill(rows[ids[n]], ids[n])]  BY DEF ReplayedFills
<1>4. /\ IsFiniteSet(D) /\ f \in [D -> Int] /\ NetSum(rows, corrections, i) = Total(f)
  BY PartsInt DEF NetSum
<1>5. C \in SUBSET D /\ \A x \in D \ C : f[x] = 0  BY DEF Counted, PartOf
<1>6. \A x \in C : f[x] = SignedOf(rows[x])  BY <1>5 DEF PartOf
<1>7. SumTo(stream, N) = Total(g)  BY DEF SumTo
<1>8. N \in Nat  BY <1>2 DEF Fills
<1> HIDE DEF ids, C, D, f, N
<1>9. \A k \in T : ids[k] \in C /\ g[k] = SignedOf(rows[ids[k]])
  <2> SUFFICES ASSUME NEW k \in T PROVE ids[k] \in C /\ g[k] = SignedOf(rows[ids[k]])  OBVIOUS
  <2>0. k \in DOMAIN ids  BY <1>2
  <2>1. k \in DOMAIN ids /\ ids[k] \in C
    <3> HIDE DEF T
    <3> QED  BY <1>1, <2>0
  <2>2. stream[k] = Fill(rows[ids[k]], ids[k])  BY <1>3, <2>1
  <2>3. SignedOf(stream[k]) = SignedOf(rows[ids[k]])  BY <2>2 DEF SignedOf, Fill
  <2> QED  BY <2>1, <2>3
<1>10. IsFiniteSet(T)  BY <1>8, FS_Interval
<1>11. \A k \in T : g[k] \in Int /\ f[ids[k]] = g[k]
  BY <1>4, <1>5, <1>6, <1>9
<1>12. DOMAIN ids = T /\ g = [k \in T |-> g[k]]  BY <1>2
<1> HIDE DEF T, g
<1>13. g \in [T -> Int]  BY <1>11, <1>12
<1>14. h \in [C -> Int] /\ \A x \in C : h[x] = f[x]  BY <1>4, <1>5 DEF Restrict
<1>15. Total(h) = Total(f)
  <2> HIDE DEF h
  <2>1. h = Restrict(f, C)  BY DEF h
  <2> QED  BY <1>4, <1>5, <2>1, TotalOfOthers
<1> HIDE DEF h
<1>16. Pairs(ids, T, C)
  <2>1. \A k \in T : ids[k] \in C  BY <1>9
  <2>2. \A x \in C : \E k \in T : x = ids[k]  BY <1>1, <1>12
  <2>3. \A j, k \in T : ids[j] = ids[k] => j = k  BY <1>1, <1>12
  <2> QED  BY <2>1, <2>2, <2>3 DEF Pairs
<1>17. T \in SUBSET T /\ \A k \in T \ T : g[k] = 0  OBVIOUS
<1>18. \A k \in T : h[ids[k]] = g[k]  BY <1>9, <1>11, <1>14
<1>19. Total(h) = Total(g)
  BY <1>10, <1>13, <1>14, <1>16, <1>17, <1>18, TotalOfImage
<1> QED  BY <1>4, <1>7, <1>15, <1>19 DEF N

\* The position a rebuild leaves is what the executions that count add up to.
LEMMA RebuildWalked ==
  ASSUME NEW rows, NEW corrections, Tables(rows, corrections), NEW i,
         CanRebuild(rows, corrections, i)
  PROVE  /\ NetOfPosition(RebuildPositions(rows, corrections, i)) = NetSum(rows, corrections, i)
         /\ LastSided(rows, corrections, i)
<1> DEFINE stream == ReplayedFills(rows, corrections, i)
           ids == EffectiveIds(rows, corrections, i)
           N == Len(stream)
           net == NetSum(rows, corrections, i)
<1>1. /\ Fills(stream) /\ ReplayOf(rows, corrections, i) = Replay(stream)
      /\ DOMAIN stream = DOMAIN ids /\ DOMAIN stream = 1 .. N
  BY FillsReplayed
<1>2. Replay(stream).rejected # TRUE  BY <1>1 DEF CanRebuild
<1>3. stream = ReplayedFills(rows, corrections, i)  OBVIOUS
<1>4. net = SumTo(stream, N)  BY StreamSum
<1>5. \A n \in DOMAIN ids : stream[n] = Fill(rows[ids[n]], ids[n])  BY DEF ReplayedFills
<1>6. /\ ids \in Seq(Counted(rows, corrections, i))
      /\ \A j, k \in DOMAIN ids :
           StreamBefore(rows, corrections, ids[j], ids[k]) <=> j < k
      /\ \A x \in Counted(rows, corrections, i) : \E k \in DOMAIN ids : x = ids[k]
  <2> HIDE DEF ids
  <2> QED  BY EffectiveStream DEF ids
<1>7. N \in Nat  BY <1>1 DEF Fills
<1> HIDE DEF stream, N
<1> DEFINE replay == Replay(stream)
<1>8. Walked(replay.position, stream, N)  BY <1>1, <1>2, ReplayAccounted DEF N
<1>9. NetOfPosition(replay.position) = net  BY <1>4, <1>8 DEF Walked
<1>10. NetOfPosition(RebuildPositions(rows, corrections, i)) = net
  <2>1. CASE ids = <<>>
    <3>1. N = 0
      <4>1. DOMAIN ids = {}  BY <2>1
      <4>2. 1 \notin 1 .. N  BY <1>1, <4>1
      <4> QED  BY <1>7, <4>2
    <3>2. net = 0
      <4>1. 1 .. 0 = {}  OBVIOUS
      <4> QED  BY <1>4, <3>1, <4>1, TotalOfNone DEF SumTo
    <3>3. RebuildPositions(rows, corrections, i) = NoProjection  BY <2>1 DEF RebuildPositions
    <3>4. NetOfPosition(NoProjection) = 0  BY DEF NetOfPosition, NoProjection, NoPosition, Rows
    <3> HIDE DEF net
    <3> QED  BY <3>2, <3>3, <3>4
  <2>2. CASE ids # <<>>
    <3>1. RebuildPositions(rows, corrections, i) = Projection(replay)
      BY <1>1, <2>2 DEF RebuildPositions
    <3> HIDE DEF net, replay
    <3>2. NetOfPosition(Projection(replay)) = NetOfPosition(replay.position)
      BY DEF NetOfPosition, Projection, Rows
    <3> QED  BY <1>9, <3>1, <3>2
  <2> QED  BY <2>1, <2>2
<1> HIDE DEF replay, net
<1>11. ASSUME NEW x \in DOMAIN rows, IsLast(x, rows, corrections, i)
       PROVE  Sided(net, rows[x].action) /\ Sided(net - SignedOf(rows[x]), rows[x].action)
  <2>1. PICK k \in DOMAIN ids : x = ids[k]  BY <1>6, <1>11 DEF IsLast
  <2>2. k \in 1 .. N /\ N \in DOMAIN ids  BY <1>1, <1>7, <2>1
  <2>3. ids[N] \in Counted(rows, corrections, i) /\ ids[k] \in Counted(rows, corrections, i)
    BY <1>6, <2>1, <2>2
  <2>4. k = N
    <3>1. CASE ids[N] = ids[k]
      <4>1. ~(k < N)
        <5>1. ASSUME k < N PROVE FALSE
          <6>1. StreamBefore(rows, corrections, ids[k], ids[N])  BY <1>6, <2>1, <2>2, <5>1
          <6>2. StreamBefore(rows, corrections, ids[k], ids[k])  BY <3>1, <6>1
          <6>3. k < k  BY <1>6, <2>1, <6>2
          <6> QED  BY <2>2, <6>3
        <5> QED  BY <5>1
      <4> QED  BY <1>7, <2>2, <4>1
    <3>2. CASE ids[N] # ids[k]
      <4>1. StreamBefore(rows, corrections, ids[N], ids[k])
        BY <1>11, <2>1, <2>3, <3>2 DEF IsLast
      <4>2. N < k  BY <1>6, <2>1, <2>2, <4>1
      <4> QED  BY <1>7, <2>2, <4>2
    <3> QED  BY <3>1, <3>2
  <2> DEFINE n == N - 1
             row == rows[x]
             fill == stream[N]
  <2>5. n \in Nat /\ N = n + 1 /\ N \in DOMAIN stream /\ N > 0  BY <1>1, <1>7, <2>2
  <2>6. fill = Fill(row, ids[N])  BY <1>5, <2>1, <2>2, <2>4
  <2>7. fill.action = row.action /\ SignedOf(fill) = SignedOf(row)
    <3> HIDE DEF fill, row
    <3> QED  BY <2>6 DEF Fill, SignedOf
  <2>8. Sided(SumTo(stream, N), fill.action) /\ Sided(SumTo(stream, n), fill.action)
    BY <1>8, <2>5 DEF Walked
  <2> HIDE DEF n
  <2>9. SumTo(stream, n) \in Int /\ SumTo(stream, N) = SumTo(stream, n) + SignedOf(fill)
    BY <1>1, <2>5, OneFillMore DEF fill
  <2>10. SignedOf(row) \in Int
    <3>1. row \in Execution  BY DEF Tables
    <3> HIDE DEF row
    <3> QED  BY <3>1, SignedExecution
  <2> HIDE DEF row, fill
  <2>11. net - SignedOf(row) = SumTo(stream, n)  BY <1>4, <2>7, <2>9, <2>10
  <2>12. Sided(net, row.action) /\ Sided(net - SignedOf(row), row.action)
    BY <1>4, <2>7, <2>8, <2>11
  <2> QED  BY <2>12 DEF row
<1> QED  BY <1>10, <1>11 DEF LastSided, net

\* In whole shares, what a rebuild leaves is the cash the executions moved.
LEMMA RebuildCashed ==
  ASSUME NEW rows, NEW corrections, Tables(rows, corrections), NEW i,
         CanRebuild(rows, corrections, i),
         NEW ids, ids = EffectiveIds(rows, corrections, i),
         \A n \in DOMAIN ids : WholeShares(rows[ids[n]].quantity),
         NEW p, p = RebuildPositions(rows, corrections, i)
  PROVE  Total([n \in DOMAIN ids |-> CashMoved(rows[ids[n]])]) = p.gross - SignedCost(p)
<1> DEFINE stream == ReplayedFills(rows, corrections, i)
           N == Len(stream)
           D == DOMAIN ids
           cash == [n \in D |-> CashMoved(rows[ids[n]])]
<1>1. /\ Fills(stream) /\ ReplayOf(rows, corrections, i) = Replay(stream)
      /\ DOMAIN stream = D /\ D = 1 .. N
  BY FillsReplayed
<1>2. Replay(stream).rejected # TRUE  BY <1>1 DEF CanRebuild
<1>3. \A n \in D : stream[n] = Fill(rows[ids[n]], ids[n])  BY DEF ReplayedFills
<1>4. \A n \in D : /\ stream[n].quantity = rows[ids[n]].quantity
                   /\ CashMoved(stream[n]) = CashMoved(rows[ids[n]])
  <2> SUFFICES ASSUME NEW n \in D
               PROVE  /\ stream[n].quantity = rows[ids[n]].quantity
                      /\ CashMoved(stream[n]) = CashMoved(rows[ids[n]])
    OBVIOUS
  <2> DEFINE row == rows[ids[n]]
             fill == stream[n]
  <2>1. fill = Fill(row, ids[n])  BY <1>3
  <2> HIDE DEF row, fill
  <2>2. fill.quantity = row.quantity /\ CashMoved(fill) = CashMoved(row)
    BY <2>1 DEF Fill, CashMoved
  <2> QED  BY <2>2 DEF row, fill
<1> HIDE DEF stream, N, D
<1>5. AllWhole(stream)  BY <1>1, <1>4 DEF AllWhole, D
<1> DEFINE replay == Replay(stream)
<1>6. Cashed(replay.position, stream, N)  BY <1>1, <1>2, <1>5, ReplayAccounted DEF N
<1>7. Total(cash) = CashTo(stream, N)
  <2>1. cash = [n \in 1 .. N |-> CashMoved(stream[n])]  BY <1>1, <1>4
  <2> QED  BY <2>1 DEF CashTo
<1>8. Total(cash) = replay.position.gross - SignedCost(replay.position)
  BY <1>6, <1>7 DEF Cashed
<1>9. CASE ids = <<>>
  <2>1. D = {}  BY <1>9 DEF D
  <2>2. Total(cash) = 0  BY <2>1, TotalOfNone
  <2>3. p = NoProjection  BY <1>9 DEF RebuildPositions
  <2>4. /\ NoProjection.gross = 0 /\ NoProjection.cost = 0
        /\ NoProjection.direction = "none"
    BY DEF NoProjection, NoPosition, Rows
  <2>5. SignedCost(NoProjection) = 0
    <3> DEFINE cost == NoProjection.cost
    <3>1. cost \in Int /\ cost = 0 /\ SignedCost(NoProjection) = -cost
      BY <2>4 DEF SignedCost
    <3> HIDE DEF cost
    <3>2. -cost = 0  BY <3>1, MinusNothing
    <3> QED  BY <3>1, <3>2
  <2> HIDE DEF cash
  <2>6. Total(cash) = p.gross - SignedCost(p)  BY <2>2, <2>3, <2>4, <2>5
  <2> QED  BY <2>6 DEF cash, D
<1>10. CASE ids # <<>>
  <2>1. p = Projection(replay)  BY <1>1, <1>10 DEF RebuildPositions
  <2> HIDE DEF replay, cash
  <2>2. p.gross = replay.position.gross /\ SignedCost(p) = SignedCost(replay.position)
    BY <2>1 DEF SignedCost, Projection, Rows
  <2>3. Total(cash) = p.gross - SignedCost(p)  BY <1>8, <2>2
  <2> QED  BY <2>3 DEF cash, D
<1> QED  BY <1>9, <1>10

-----------------------------------------------------------------------------
(* What an operation leaves of the other instruments' streams.               *)

\* No execution replaces two others.
OneReplacement(corrections) ==
  \A c, d \in corrections : c.replacement = d.replacement => c = d

\* Rows and corrections are only added; what corrects comes after what was there.
Later(rows, corrections, rows2, corrections2) ==
  /\ DOMAIN rows \subseteq DOMAIN rows2
  /\ \A id \in DOMAIN rows : rows2[id] = rows[id]
  /\ corrections \subseteq corrections2
  /\ \A c \in corrections2 \ corrections :
       c.replacement \notin DOMAIN rows /\ c.reversal \notin DOMAIN rows

\* An execution keeps its place in the stream when rows and corrections are added.
LEMMA PlaceKept ==
  ASSUME NEW rows, NEW corrections, Tables(rows, corrections),
         NEW rows2, NEW corrections2, OneReplacement(corrections2),
         Later(rows, corrections, rows2, corrections2), NEW id \in DOMAIN rows
  PROVE  /\ id \in Replacements(corrections2) <=> id \in Replacements(corrections)
         /\ StreamPostedAt(rows2, corrections2, id) = StreamPostedAt(rows, corrections, id)
<1>1. id \in Replacements(corrections2) <=> id \in Replacements(corrections)
  BY DEF Later, Replacements
<1>2. CASE id \in Replacements(corrections)
  <2> DEFINE c == CHOOSE x \in corrections : x.replacement = id
             d == CHOOSE x \in corrections2 : x.replacement = id
  <2>1. c \in corrections /\ c.replacement = id  BY <1>2 DEF Replacements
  <2>2. d \in corrections2 /\ d.replacement = id  BY <1>1, <1>2 DEF Replacements
  <2>3. StreamPostedAt(rows, corrections, id) = rows[c.original].postedAt
    BY <1>2 DEF StreamPostedAt
  <2>4. StreamPostedAt(rows2, corrections2, id) = rows2[d.original].postedAt
    BY <1>1, <1>2 DEF StreamPostedAt
  <2> HIDE DEF c, d
  <2>5. c = d  BY <2>1, <2>2 DEF OneReplacement, Later
  <2>6. c.original \in DOMAIN rows  BY <2>1 DEF Tables, Correction
  <2> QED  BY <1>1, <1>2, <2>3, <2>4, <2>5, <2>6 DEF Later
<1>3. CASE id \notin Replacements(corrections)
  BY <1>1, <1>3 DEF StreamPostedAt, Later
<1> QED  BY <1>1, <1>2, <1>3

\* And so any two executions keep their order.
LEMMA OrderKept ==
  ASSUME NEW rows, NEW corrections, Tables(rows, corrections),
         NEW rows2, NEW corrections2, OneReplacement(corrections2),
         Later(rows, corrections, rows2, corrections2), NEW a \in DOMAIN rows, NEW b \in DOMAIN rows
  PROVE  StreamBefore(rows2, corrections2, a, b) <=> StreamBefore(rows, corrections, a, b)
<1>1. /\ a \in Replacements(corrections2) <=> a \in Replacements(corrections)
      /\ StreamPostedAt(rows2, corrections2, a) = StreamPostedAt(rows, corrections, a)
  BY PlaceKept
<1>2. /\ b \in Replacements(corrections2) <=> b \in Replacements(corrections)
      /\ StreamPostedAt(rows2, corrections2, b) = StreamPostedAt(rows, corrections, b)
  BY PlaceKept
<1> QED  BY <1>1, <1>2 DEF StreamBefore

\* An operation on other instruments leaves an instrument's stream as it was.
LEMMA StreamKept ==
  ASSUME NEW rows, NEW corrections, Tables(rows, corrections),
         NEW rows2, NEW corrections2, OneReplacement(corrections2),
         Later(rows, corrections, rows2, corrections2),
         NEW i, Counted(rows2, corrections2, i) = Counted(rows, corrections, i)
  PROVE  EffectiveIds(rows2, corrections2, i) = EffectiveIds(rows, corrections, i)
<1> DEFINE S == Counted(rows, corrections, i)
           S2 == Counted(rows2, corrections2, i)
           before(x) == {y \in S : StreamBefore(rows, corrections, y, x)}
           before2(x) == {y \in S2 : StreamBefore(rows2, corrections2, y, x)}
           places == {<<1 + Cardinality(before(x)), x>> : x \in S}
           places2 == {<<1 + Cardinality(before2(x)), x>> : x \in S2}
           at(k) == (CHOOSE p \in places : p[1] = k)[2]
           at2(k) == (CHOOSE p \in places2 : p[1] = k)[2]
<1>1. EffectiveIds(rows, corrections, i) = [k \in 1 .. Cardinality(S) |-> at(k)]
  BY DEF EffectiveIds, StreamIds, InOrder, Counted
<1>2. EffectiveIds(rows2, corrections2, i) = [k \in 1 .. Cardinality(S2) |-> at2(k)]
  BY DEF EffectiveIds, StreamIds, InOrder, Counted
<1>3. S = S2  OBVIOUS
<1>4. S \subseteq DOMAIN rows  BY DEF Counted
<1>5. \A x, y \in S : StreamBefore(rows2, corrections2, y, x) <=> StreamBefore(rows, corrections, y, x)
  <2> HIDE DEF S
  <2> QED  BY <1>4, OrderKept
<1>6. \A x \in S : before2(x) = before(x)  BY <1>3, <1>5
<1> HIDE DEF S, S2, before, before2
<1>7. places2 = places  BY <1>3, <1>6
<1> HIDE DEF places, places2
<1>8. \A k : at2(k) = at(k)  BY <1>7
<1> HIDE DEF at, at2
<1> QED  BY <1>1, <1>2, <1>3, <1>8

\* What is added concerns other instruments.
Elsewhere(rows, corrections, rows2, corrections2, i) ==
  /\ \A id \in DOMAIN rows2 \ DOMAIN rows : rows2[id].instrument # i
  /\ \A c \in corrections2 \ corrections : rows2[c.original].instrument # i

LEMMA CountedKept ==
  ASSUME NEW rows, NEW corrections, NEW rows2, NEW corrections2,
         Later(rows, corrections, rows2, corrections2),
         NEW i, Elsewhere(rows, corrections, rows2, corrections2, i)
  PROVE  Counted(rows2, corrections2, i) = Counted(rows, corrections, i)
<1>1. ASSUME NEW id \in Counted(rows2, corrections2, i) PROVE id \in Counted(rows, corrections, i)
  <2>1. id \in DOMAIN rows2 /\ rows2[id].instrument = i /\ id \notin Superseded(corrections2)
    BY <1>1 DEF Counted
  <2>2. id \in DOMAIN rows /\ rows[id] = rows2[id]  BY <2>1 DEF Elsewhere, Later
  <2>3. id \notin Superseded(corrections)  BY <2>1 DEF Superseded, Later
  <2> QED  BY <2>1, <2>2, <2>3 DEF Counted
<1>2. ASSUME NEW id \in Counted(rows, corrections, i) PROVE id \in Counted(rows2, corrections2, i)
  <2>1. id \in DOMAIN rows /\ rows[id].instrument = i /\ id \notin Superseded(corrections)
    BY <1>2 DEF Counted
  <2>2. id \in DOMAIN rows2 /\ rows2[id] = rows[id]  BY <2>1 DEF Later
  <2>3. \A c \in corrections2 : c.original # id /\ c.reversal # id
    <3> SUFFICES ASSUME NEW c \in corrections2 PROVE c.original # id /\ c.reversal # id
      OBVIOUS
    <3>1. CASE c \in corrections  BY <2>1, <3>1 DEF Superseded
    <3>2. CASE c \notin corrections  BY <2>1, <2>2, <3>2 DEF Elsewhere, Later
    <3> QED  BY <3>1, <3>2
  <2>4. id \notin Superseded(corrections2)  BY <2>3 DEF Superseded
  <2> QED  BY <2>1, <2>2, <2>4 DEF Counted
<1> QED  BY <1>1, <1>2

\* An operation on other instruments leaves what a rebuild makes of an instrument.
LEMMA RebuildKept ==
  ASSUME NEW rows, NEW corrections, Tables(rows, corrections),
         NEW rows2, NEW corrections2, OneReplacement(corrections2),
         Later(rows, corrections, rows2, corrections2),
         NEW i, Elsewhere(rows, corrections, rows2, corrections2, i)
  PROVE  /\ RebuildPositions(rows2, corrections2, i) = RebuildPositions(rows, corrections, i)
         /\ CanRebuild(rows2, corrections2, i) <=> CanRebuild(rows, corrections, i)
<1> DEFINE ids == EffectiveIds(rows, corrections, i)
<1>1. Counted(rows2, corrections2, i) = Counted(rows, corrections, i)  BY CountedKept
<1>2. EffectiveIds(rows2, corrections2, i) = ids  BY <1>1, StreamKept
<1>3. ids \in Seq(Counted(rows, corrections, i))  BY EffectiveStream
<1>4. \A n \in DOMAIN ids : rows2[ids[n]] = rows[ids[n]]
  <2> HIDE DEF ids
  <2>1. \A n \in DOMAIN ids : ids[n] \in DOMAIN rows  BY <1>3 DEF Counted
  <2> QED  BY <2>1 DEF Later
<1>5. ReplayOf(rows, corrections, i) = Replay([n \in DOMAIN ids |-> Fill(rows[ids[n]], ids[n])])
  BY DEF ReplayOf
<1>6. ReplayOf(rows2, corrections2, i) = Replay([n \in DOMAIN ids |-> Fill(rows2[ids[n]], ids[n])])
  BY <1>2 DEF ReplayOf
<1>7. EffectiveIds(rows, corrections, i) = ids  OBVIOUS
<1> HIDE DEF ids
<1>8. [n \in DOMAIN ids |-> Fill(rows2[ids[n]], ids[n])]
        = [n \in DOMAIN ids |-> Fill(rows[ids[n]], ids[n])]
  BY <1>4
<1>9. ReplayOf(rows2, corrections2, i) = ReplayOf(rows, corrections, i)
  BY <1>5, <1>6, <1>8
<1> QED  BY <1>2, <1>7, <1>9 DEF RebuildPositions, CanRebuild

-----------------------------------------------------------------------------
(* The invariant of the book.                                                *)

\* Every projection is what a rebuild of its instrument makes of the tables, and
\* the rebuild succeeds.
Rebuilt(p, rows, corrections) ==
  /\ p = [i \in Instruments |-> p[i]]
  /\ \A i \in Instruments :
       p[i] = RebuildPositions(rows, corrections, i) /\ CanRebuild(rows, corrections, i)

IInv ==
  /\ Tables(executions, lineage)
  /\ OneReplacement(lineage)
  /\ Rebuilt(projection, executions, lineage)

\* No fill has been posted.
LEMMA NothingPosted ==
  ASSUME NEW i
  PROVE  EffectiveIds(<<>>, {}, i) = <<>> /\ CanRebuild(<<>>, {}, i)
<1>1. Tables(<<>>, {})  BY DEF Tables
<1>2. Counted(<<>>, {}, i) = {}  BY DEF Counted
<1> DEFINE ids == EffectiveIds(<<>>, {}, i)
<1>3. ids \in Seq(Counted(<<>>, {}, i))  BY <1>1, EffectiveStream
<1> HIDE DEF ids
<1>4. ids = <<>>  BY <1>2, <1>3
<1> DEFINE stream == [n \in DOMAIN ids |-> Fill(<<>>[ids[n]], ids[n])]
<1>5. Len(stream) = 0
  <2>1. DOMAIN stream = {}  BY <1>4
  <2> QED  BY <1>4
<1>6. ReplayOf(<<>>, {}, i) = Replay(stream)  BY DEF ReplayOf, ids
<1> HIDE DEF stream
<1>7. Replay(stream) = ReplayStart
  <2> DEFINE st == ReplayStates(stream)
             N == 0
  <2>1. N \in Nat /\ Len(stream) = N /\ st = ReplayStates(stream)  BY <1>5
  <2> HIDE DEF st, N
  <2>2. st[0] = ReplayStart /\ Replay(stream) = st[N]  BY <2>1, ReplayUnfolds
  <2> QED  BY <2>2 DEF N
<1>8. ~ReplayStart.rejected  BY DEF ReplayStart
<1> QED  BY <1>4, <1>6, <1>7, <1>8 DEF CanRebuild, ids

LEMMA InitBook == Init => IInv
<1> SUFFICES ASSUME Init PROVE IInv  OBVIOUS
<1>1. executions = <<>> /\ lineage = {} /\ projection = [i \in Instruments |-> NoProjection]
  BY DEF Init
<1>2. Tables(<<>>, {}) /\ OneReplacement({})  BY DEF Tables, OneReplacement
<1>3. \A i \in Instruments : NoProjection = RebuildPositions(<<>>, {}, i) /\ CanRebuild(<<>>, {}, i)
  BY NothingPosted DEF RebuildPositions
<1>4. Rebuilt(projection, <<>>, {})  BY <1>1, <1>3 DEF Rebuilt
<1> QED  BY <1>1, <1>2, <1>4 DEF IInv

\* Rebuilding the instruments an operation names keeps all projections up to date.
LEMMA NamedRebuilt ==
  ASSUME NEW p, NEW rows, NEW corrections, Tables(rows, corrections), Rebuilt(p, rows, corrections),
         NEW rows2, NEW corrections2, OneReplacement(corrections2),
         Later(rows, corrections, rows2, corrections2),
         NEW A, \A i \in Instruments \ A : Elsewhere(rows, corrections, rows2, corrections2, i),
         \A i \in Instruments \cap A : CanRebuild(rows2, corrections2, i),
         NEW q, q = [i \in Instruments |->
                       IF i \in A THEN RebuildPositions(rows2, corrections2, i) ELSE p[i]]
  PROVE  Rebuilt(q, rows2, corrections2)
<1>1. q = [i \in Instruments |-> q[i]]  OBVIOUS
<1>2. ASSUME NEW i \in Instruments
      PROVE  q[i] = RebuildPositions(rows2, corrections2, i) /\ CanRebuild(rows2, corrections2, i)
  <2>1. CASE i \in A  BY <2>1
  <2>2. CASE i \notin A
    <3>1. Elsewhere(rows, corrections, rows2, corrections2, i)  BY <2>2
    <3>2. /\ RebuildPositions(rows2, corrections2, i) = RebuildPositions(rows, corrections, i)
          /\ CanRebuild(rows2, corrections2, i) <=> CanRebuild(rows, corrections, i)
      BY <3>1, RebuildKept
    <3>3. p[i] = RebuildPositions(rows, corrections, i) /\ CanRebuild(rows, corrections, i)
      BY DEF Rebuilt
    <3> QED  BY <2>2, <3>2, <3>3
  <2> QED  BY <2>1, <2>2
<1> QED  BY <1>1, <1>2 DEF Rebuilt

\* A posted fill extends the tables by one execution of its instrument.
LEMMA PostingKeepsBook ==
  ASSUME IInv, NEW row \in Execution, Post(row)
  PROVE  IInv'
<1> DEFINE rows == Append(executions, row)
           N == Len(executions)
<1>1. Tables(executions, lineage) /\ OneReplacement(lineage) /\ Rebuilt(projection, executions, lineage)
  BY DEF IInv
<1>2. /\ executions' = rows /\ lineage' = lineage
      /\ CanRebuild(rows, lineage, row.instrument)
      /\ projection' = [projection EXCEPT
           ![row.instrument] = RebuildPositions(rows, lineage, row.instrument)]
  BY DEF Post
<1>3. N \in Nat /\ DOMAIN executions = 1 .. N /\ DOMAIN rows = 1 .. (N + 1)
      /\ rows \in Seq(Execution) /\ rows[N + 1] = row
      /\ \A id \in DOMAIN executions : rows[id] = executions[id]
  BY <1>1 DEF Tables
<1> HIDE DEF rows, N
<1>4. Tables(rows, lineage)  BY <1>1, <1>3 DEF Tables, Correction
<1>5. Later(executions, lineage, rows, lineage)  BY <1>3 DEF Later
<1> DEFINE A == {row.instrument}
<1>6. \A i \in Instruments \ A : Elsewhere(executions, lineage, rows, lineage, i)
  <2> SUFFICES ASSUME NEW i \in Instruments, i # row.instrument
               PROVE  Elsewhere(executions, lineage, rows, lineage, i)
    OBVIOUS
  <2>1. \A id \in DOMAIN rows \ DOMAIN executions : id = N + 1  BY <1>3
  <2> QED  BY <1>3, <2>1 DEF Elsewhere
<1>7. \A i \in Instruments \cap A : CanRebuild(rows, lineage, i)  BY <1>2
<1>8. projection' = [i \in Instruments |->
                       IF i \in A THEN RebuildPositions(rows, lineage, i) ELSE projection[i]]
  <2>1. projection = [i \in Instruments |-> projection[i]]  BY <1>1 DEF Rebuilt
  <2> QED  BY <1>2, <2>1
<1> HIDE DEF A
<1>9. Rebuilt(projection', rows, lineage)
  BY <1>1, <1>4, <1>5, <1>6, <1>7, <1>8, NamedRebuilt
<1> QED  BY <1>1, <1>2, <1>4, <1>9 DEF IInv

\* Reversing an execution is an execution.
LEMMA ReversalIsExecution ==
  ASSUME NEW row \in Execution, NEW at \in Nat
  PROVE  Row(row.instrument, ReverseAction(row.action), row, at) \in Execution
<1>1. ReverseAction(row.action) \in EconomicActions
  BY DEF Execution, EconomicActions, ReverseAction
<1> QED  BY <1>1 DEF Row, Execution

LEMMA FillIsExecution ==
  ASSUME NEW i \in Instruments, NEW t \in Tickets, NEW action \in EconomicActions, NEW at \in Nat
  PROVE  Row(i, action, t, at) \in Execution
BY TicketsAssumption DEF Row, Execution

\* A correction extends the tables by a reversal and a replacement, and rebuilds the
\* instruments of both.
LEMMA CorrectionKeepsBook ==
  ASSUME IInv, NEW o \in DOMAIN executions, NEW i \in Instruments, NEW t \in Tickets,
         NEW requested \in Nat, CorrectExecution(o, i, t, requested)
  PROVE  IInv'
<1> DEFINE old == executions[o]
           at == Maximum(old.postedAt + 1, requested)
           reversal == Row(old.instrument, ReverseAction(old.action), old, at)
           replacement == Row(i, t.action, t, at + 1)
           rows == executions \o <<reversal, replacement>>
           N == Len(executions)
           c == [original |-> o, reversal |-> N + 1, replacement |-> N + 2]
           corrections == lineage \cup {c}
           A == {old.instrument, i}
<1>1. Tables(executions, lineage) /\ OneReplacement(lineage) /\ Rebuilt(projection, executions, lineage)
  BY DEF IInv
<1>2. /\ executions' = rows /\ lineage' = corrections
      /\ \A j \in A : CanRebuild(rows, corrections, j)
      /\ projection' = [j \in Instruments |->
           IF j \in A THEN RebuildPositions(rows, corrections, j) ELSE projection[j]]
      /\ t.action \in EconomicActions
  BY DEF CorrectExecution
<1>3. old \in Execution  BY <1>1 DEF Tables
<1>4. at \in Nat
  <2>1. old.postedAt \in Nat  BY <1>3 DEF Execution
  <2> QED  BY <2>1 DEF Maximum
<1>5. reversal \in Execution
  <2> HIDE DEF old, at
  <2> QED  BY <1>3, <1>4, ReversalIsExecution
<1>6. replacement \in Execution
  <2> HIDE DEF at
  <2> QED  BY <1>2, <1>4, FillIsExecution
<1>7. /\ N \in Nat /\ DOMAIN executions = 1 .. N /\ DOMAIN rows = 1 .. (N + 2)
      /\ rows \in Seq(Execution) /\ rows[N + 1] = reversal /\ rows[N + 2] = replacement
      /\ \A id \in DOMAIN executions : rows[id] = executions[id]
  <2> HIDE DEF reversal, replacement
  <2>1. executions \in Seq(Execution)  BY <1>1 DEF Tables
  <2> QED  BY <1>5, <1>6, <2>1
<1>8. reversal.instrument = old.instrument /\ replacement.instrument = i  BY DEF Row
<1>9. c.original = o /\ c.reversal = N + 1 /\ c.replacement = N + 2 /\ c \in Correction(rows)
  <2> HIDE DEF rows
  <2> QED  BY <1>7 DEF Correction
<1> HIDE DEF rows, N, at, reversal, replacement, c
<1>10. /\ Tables(rows, corrections) /\ \A d \in lineage : d.replacement \in 1 .. N
  <2>1. \A d \in lineage : d \in Correction(rows) /\ d.replacement \in 1 .. N
    BY <1>1, <1>7 DEF Tables, Correction
  <2> QED  BY <1>7, <1>9, <2>1 DEF Tables
<1>11. OneReplacement(corrections)
  BY <1>1, <1>7, <1>9, <1>10 DEF OneReplacement
<1>12. Later(executions, lineage, rows, corrections)
  <2>1. \A d \in corrections \ lineage : d = c  OBVIOUS
  <2> HIDE DEF corrections
  <2>2. lineage \subseteq corrections  BY DEF corrections
  <2> QED  BY <1>7, <1>9, <2>1, <2>2 DEF Later
<1>13. \A j \in Instruments \ A : Elsewhere(executions, lineage, rows, corrections, j)
  <2> SUFFICES ASSUME NEW j \in Instruments, j # old.instrument, j # i
               PROVE  Elsewhere(executions, lineage, rows, corrections, j)
    OBVIOUS
  <2>1. \A id \in DOMAIN rows \ DOMAIN executions : id = N + 1 \/ id = N + 2  BY <1>7
  <2>2. rows[o].instrument = old.instrument  BY <1>7
  <2>3. \A d \in corrections \ lineage : d = c  OBVIOUS
  <2> HIDE DEF corrections, old
  <2> QED  BY <1>7, <1>8, <1>9, <2>1, <2>2, <2>3 DEF Elsewhere
<1> HIDE DEF corrections, A
<1>14. \A j \in Instruments \cap A : CanRebuild(rows, corrections, j)  BY <1>2
<1>15. Rebuilt(projection', rows, corrections)
  BY <1>1, <1>2, <1>11, <1>12, <1>13, <1>14, NamedRebuilt
<1> QED  BY <1>2, <1>10, <1>11, <1>15 DEF IInv

\* The resolver turns what a position's holder may ask for into a concrete action.
LEMMA ResolvedIsEconomic ==
  ASSUME NEW action \in JournalActions, NEW direction,
         action \in GenericActions => direction \in Directions
  PROVE  (IF action \in GenericActions
            THEN ResolveEconomicExecutionAction(action, direction) ELSE action) \in EconomicActions
<1>1. CASE action \in GenericActions
  <2>1. direction \in Directions  BY <1>1
  <2>2. action = "add" \/ action = "reduce"  BY <1>1 DEF GenericActions
  <2>3. /\ LongEconomicMap["add"] = "buy" /\ LongEconomicMap["reduce"] = "sell"
        /\ ShortEconomicMap["add"] = "sell_short" /\ ShortEconomicMap["reduce"] = "buy_to_cover"
    BY DEF LongEconomicMap, ShortEconomicMap
  <2> QED
    BY <1>1, <2>1, <2>2, <2>3
    DEF ResolveEconomicExecutionAction, EconomicMap, Directions, EconomicActions
<1>2. CASE action \notin GenericActions  BY <1>2 DEF JournalActions
<1> QED  BY <1>1, <1>2

LEMMA StepKeepsBook == IInv /\ [Next]_vars => IInv'
<1> SUFFICES ASSUME IInv, [Next]_vars PROVE IInv'  OBVIOUS
<1>1. CASE UNCHANGED vars
  <2>1. executions' = executions /\ lineage' = lineage /\ projection' = projection
    BY <1>1 DEF vars
  <2> QED  BY <2>1 DEF IInv
<1>2. ASSUME NEW i \in Instruments, NEW t \in Tickets, NEW at \in Times,
             PostAccountExecution(i, t, at)
      PROVE  IInv'
  <2> DEFINE direction == projection[i].direction
             action == IF t.action \in GenericActions
                         THEN ResolveEconomicExecutionAction(t.action, direction) ELSE t.action
             row == Row(i, action, t, at)
  <2>1. (t.action \in GenericActions => direction \in Directions) /\ Post(row)
    BY <1>2 DEF PostAccountExecution
  <2>2. t.action \in JournalActions /\ at \in Nat  BY TicketsAssumption, TimesAssumption
  <2>3. action \in EconomicActions
    <3> HIDE DEF direction
    <3> QED  BY <2>1, <2>2, ResolvedIsEconomic
  <2> HIDE DEF action
  <2>4. row \in Execution  BY <2>2, <2>3, FillIsExecution
  <2> HIDE DEF row
  <2> QED  BY <2>1, <2>4, PostingKeepsBook
<1>3. ASSUME NEW i \in Instruments, NEW t \in Tickets, NEW at \in Times, PostTradeFill(i, t, at)
      PROVE  IInv'
  <2> DEFINE row == Row(i, t.action, t, at)
  <2>1. t.action \in EconomicActions /\ Post(row)  BY <1>3 DEF PostTradeFill
  <2>2. row \in Execution  BY <2>1, FillIsExecution, TimesAssumption
  <2> HIDE DEF row
  <2> QED  BY <2>1, <2>2, PostingKeepsBook
<1>4. ASSUME NEW o \in DOMAIN executions, NEW i \in Instruments, NEW t \in Tickets,
             NEW at \in Times \cup {0}, CorrectExecution(o, i, t, at)
      PROVE  IInv'
  BY <1>4, CorrectionKeepsBook, TimesAssumption
<1> QED  BY <1>1, <1>2, <1>3, <1>4 DEF Next

THEOREM BookHolds == Spec => []IInv
BY InitBook, StepKeepsBook, PTL DEF Spec

\* Every projection accounts for the fills behind it.
LEMMA BookExplained ==
  ASSUME IInv, NEW i \in Instruments
  PROVE  Explained(projection[i], executions, lineage)
<1>1. /\ Tables(executions, lineage) /\ CanRebuild(executions, lineage, i)
      /\ projection[i] = RebuildPositions(executions, lineage, i)
  BY DEF IInv, Rebuilt
<1> QED  BY <1>1, RebuildExplained

-----------------------------------------------------------------------------
(* The theorems.                                                             *)

\* The projection of an instrument that an operation left alone is still what a full
\* rebuild from the immutable rows would make of it, and no operation leaves rows a
\* rebuild would refuse (rebuildPositions is run for the affected instruments only).
ProjectionIsRebuilt ==
  \A i \in Instruments :
    /\ CanRebuild(executions, lineage, i)
    /\ projection[i] = RebuildPositions(executions, lineage, i)

THEOREM ProjectionsAreCurrent == Spec => []ProjectionIsRebuilt
<1>1. IInv => ProjectionIsRebuilt  BY DEF IInv, Rebuilt, ProjectionIsRebuilt
<1> QED  BY <1>1, BookHolds, PTL

\* Every row holds values the schema accepts, and the projection is one the position
\* tables can hold.
THEOREM TypeCorrect == Spec => []TypeOK
<1>1. IInv => TypeOK
  <2> SUFFICES ASSUME IInv PROVE TypeOK  OBVIOUS
  <2>1. executions \in Seq(Execution) /\ lineage \subseteq Correction(executions)
    BY DEF IInv, Tables
  <2>2. ASSUME NEW i \in Instruments
        PROVE  /\ projection[i].direction \in Directions \cup {"none", "flat"}
               /\ projection[i].quantity \in Nat
               /\ \A lot \in Lots(i) : lot.fees \in Nat /\ lot.cost \in Nat
    BY BookExplained DEF Explained, Lots
  <2> QED  BY <2>1, <2>2 DEF TypeOK, Execution, Correction
<1> QED  BY <1>1, BookHolds, PTL

\* A position is exactly what its open lots hold, each lot is what was opened less
\* what the persisted matches took from it, and a position without quantity has no
\* direction, after any number of fills and corrections.
THEOREM LotsExplain == Spec => []LotsExplainPosition
<1>1. IInv => LotsExplainPosition
  <2> SUFFICES ASSUME IInv, NEW i \in Instruments
               PROVE  /\ projection[i].quantity = OpenQuantity(Lots(i))
                      /\ projection[i].quantity = 0 <=> projection[i].direction \notin Directions
                      /\ \A lot \in Lots(i) :
                           lot.original = lot.remaining + MatchedFrom(i, lot)
    BY DEF LotsExplainPosition
  <2> QED  BY BookExplained DEF Explained, Lots, MatchedFrom, MatchesOf, MatchedOf
<1> QED  BY <1>1, BookHolds, PTL

\* No cent of an opening fee disappears or is charged twice: what the matches realised
\* and what the open lots carry add up to the fees of the opening executions.
THEOREM FeesConserved == Spec => []EntryFeesConserved
<1>1. IInv => EntryFeesConserved
  <2> SUFFICES ASSUME IInv, NEW i \in Instruments
               PROVE  Total([m \in MatchesOf(i) |-> m.entryFee])
                        + Total([lot \in OpenLots(i) |-> lot.fees])
                      = Total([id \in OpeningIds(i) |-> executions[id].fees])
    BY DEF EntryFeesConserved
  <2> QED
    BY BookExplained DEF Explained, Lots, OpenLots, MatchesOf, OpeningIds, EntryFees, LotFees
<1> QED  BY <1>1, BookHolds, PTL

\* In whole shares the cash the counted fills moved is the gross P&L realised less the
\* cost of what is still open, so the ledger's view and the position's view of the same
\* fills agree, after any number of fills and corrections.
THEOREM CashAgrees == Spec => []CashAgreesWithPosition
<1>1. IInv => CashAgreesWithPosition
  <2> SUFFICES ASSUME IInv, NEW i \in Instruments, NEW ids, ids = EffectiveIds(executions, lineage, i),
                      \A n \in DOMAIN ids : WholeShares(executions[ids[n]].quantity),
                      NEW p, p = projection[i]
               PROVE  Total([n \in DOMAIN ids |-> CashMoved(executions[ids[n]])])
                        = p.gross - (IF p.direction = "long" THEN p.cost ELSE -p.cost)
    BY DEF CashAgreesWithPosition
  <2>1. /\ Tables(executions, lineage) /\ CanRebuild(executions, lineage, i)
        /\ p = RebuildPositions(executions, lineage, i)
    BY DEF IInv, Rebuilt
  <2>2. Total([n \in DOMAIN ids |-> CashMoved(executions[ids[n]])]) = p.gross - SignedCost(p)
    BY <2>1, RebuildCashed
  <2> QED  BY <2>2 DEF SignedCost
<1> QED  BY <1>1, BookHolds, PTL

\* Ids of one digit are in the order of their numbers.
LEMMA OneDigit == \A n \in 1 .. 9 : Leading(n) = n * 1000
<1> SUFFICES ASSUME NEW n \in 1 .. 9 PROVE Leading(n) = n * 1000  OBVIOUS
<1>1. n < 10 /\ n \notin 10 .. 99 /\ n \notin 100 .. 999 /\ ~(n > 999)  OBVIOUS
<1> QED  BY <1>1 DEF Leading

\* Lots of executions nobody corrected are consumed first in, first out.
THEOREM FirstInFirstOut == Spec => []UncorrectedLotsCloseFirstInFirstOut
<1>1. IInv => UncorrectedLotsCloseFirstInFirstOut
  <2> SUFFICES ASSUME IInv, NEW i \in Instruments, NEW a \in Lots(i), NEW b \in Lots(i),
                      {a.openedBy, b.openedBy} \cap Replacements(lineage) = {},
                      a.openedAt # b.openedAt \/ {a.id, b.id} \subseteq 1 .. 9,
                      OpenedBefore(a, b), MatchedFrom(i, b) > 0
               PROVE  a.remaining = 0
    BY DEF UncorrectedLotsCloseFirstInFirstOut
  <2> DEFINE p == projection[i]
  <2>1. Explained(p, executions, lineage) /\ a \in p.lots /\ b \in p.lots
    BY BookExplained DEF Lots
  <2>2. MatchedOf(p.matches, b.id) > 0  BY DEF MatchedFrom, MatchesOf, MatchedOf
  <2> HIDE DEF p
  <2>3. /\ a.openedBy \in DOMAIN executions /\ b.openedBy \in DOMAIN executions
        /\ a.openedAt = executions[a.openedBy].postedAt
        /\ b.openedAt = executions[b.openedBy].postedAt
        /\ a.id \in Nat /\ b.id \in Nat
    BY <2>1 DEF Explained
  <2>4. a.id < b.id  BY <2>1 DEF Explained, OpenedBefore
  <2>5. a.openedAt < b.openedAt \/ a.openedAt = b.openedAt
    BY <2>3 DEF OpenedBefore, StreamBefore, StreamPostedAt
  <2>6. OlderLot(a, b)
    <3>1. CASE a.openedAt < b.openedAt  BY <3>1 DEF OlderLot
    <3>2. CASE ~(a.openedAt < b.openedAt)
      <4>1. a.openedAt = b.openedAt /\ a.id \in 1 .. 9 /\ b.id \in 1 .. 9
        <5>1. a.openedAt = b.openedAt  BY <2>5, <3>2
        <5> QED  BY <5>1
      <4>2. Leading(a.id) = a.id * 1000 /\ Leading(b.id) = b.id * 1000
        BY <4>1, OneDigit
      <4>3. Leading(a.id) < Leading(b.id)  BY <2>4, <4>1, <4>2
      <4> QED  BY <4>1, <4>3 DEF OlderLot, IdBefore
    <3> QED  BY <3>1, <3>2
  <2> QED  BY <2>1, <2>2, <2>4, <2>6 DEF Explained
<1> QED  BY <1>1, BookHolds, PTL
-----------------------------------------------------------------------------
(* The book implements NetPositions: the sums.                               *)

\* A sum changes by what one of its terms does.
LEMMA TotalChanged ==
  ASSUME NEW S, IsFiniteSet(S), NEW f \in [S -> Int], NEW e \in [S -> Int], NEW x \in S,
         \A y \in S : y # x => e[y] = f[y]
  PROVE  Total(e) = Total(f) - f[x] + e[x]
<1> DEFINE T == S \ {x}
           r == [y \in T |-> f[y]]
<1>1. r \in [T -> Int] /\ \A y \in T : f[y] = r[y] /\ e[y] = r[y]  OBVIOUS
<1>2. IsFiniteSet(T)  BY FS_RemoveElement
<1> HIDE DEF r
<1>3. Total(f) = Total(r) + f[x]  BY <1>1, TotalAdded
<1>4. Total(e) = Total(r) + e[x]  BY <1>1, TotalAdded
<1>5. Total(r) \in Int  BY <1>1, <1>2, TotalInt
<1>6. f[x] \in Int /\ e[x] \in Int  OBVIOUS
<1> QED  BY <1>3, <1>4, <1>5, <1>6

LEMMA TotalGrown ==
  ASSUME NEW W, IsFiniteSet(W), NEW S, NEW x \in W, x \notin S, \A y \in W : y = x \/ y \in S,
         \A y \in S : y \in W, NEW f \in [S -> Int], NEW e \in [W -> Int],
         \A y \in S : e[y] = f[y]
  PROVE  Total(e) = Total(f) + e[x]
<1> DEFINE T == W \ {x}
           r == [y \in T |-> f[y]]
<1>1. r = f
  <2>1. T = S  OBVIOUS
  <2> HIDE DEF T
  <2> QED  BY <2>1
<1>2. r \in [T -> Int] /\ \A y \in T : e[y] = r[y]  OBVIOUS
<1> HIDE DEF r
<1>3. Total(e) = Total(r) + e[x]  BY <1>2, TotalAdded
<1> QED  BY <1>1, <1>3

\* W has the indices of S and two more.
TwoMore(W, S, x, z) ==
  /\ x \in W /\ x \notin S /\ z \in W /\ z \notin S /\ x # z
  /\ \A y \in W : y = x \/ y = z \/ y \in S
  /\ \A y \in S : y \in W

LEMMA TotalGrownTwice ==
  ASSUME NEW W, IsFiniteSet(W), NEW S, NEW x, NEW z, TwoMore(W, S, x, z),
         NEW f \in [S -> Int], NEW e \in [W -> Int], \A y \in S : e[y] = f[y]
  PROVE  Total(e) = Total(f) + e[x] + e[z]
<1> DEFINE V == W \ {z}
           h == [y \in V |-> e[y]]
<1>0. /\ x \in W /\ x \notin S /\ z \in W /\ z \notin S /\ x # z
      /\ \A y \in W : y = x \/ y = z \/ y \in S
      /\ \A y \in S : y \in W
  BY DEF TwoMore
<1>1. IsFiniteSet(V)  BY FS_RemoveElement
<1>2. h \in [V -> Int] /\ \A y \in V : h[y] = e[y]  OBVIOUS
<1>3. \A y : y \in V <=> y \in W /\ y # z  OBVIOUS
<1> HIDE DEF V, h
<1>4. x \in V /\ \A y \in V : y = x \/ y \in S  BY <1>0, <1>3
<1>5. (\A y \in S : y \in V) /\ \A y \in S : h[y] = f[y]  BY <1>0, <1>2, <1>3
<1>6. Total(h) = Total(f) + h[x]  BY <1>0, <1>1, <1>2, <1>4, <1>5, TotalGrown
<1>7. z \notin V /\ (\A y \in W : y = z \/ y \in V) /\ \A y \in V : y \in W  BY <1>3
<1>8. Total(e) = Total(h) + e[z]  BY <1>0, <1>2, <1>7, TotalGrown
<1> QED  BY <1>2, <1>4, <1>6, <1>8

\* What corrections refer to are rows of the table.
LEMMA SupersededRows ==
  ASSUME NEW rows, NEW corrections, Tables(rows, corrections)
  PROVE  /\ Superseded(corrections) \subseteq DOMAIN rows
         /\ Constituents(corrections) \subseteq DOMAIN rows
BY DEF Tables, Correction, Superseded, Constituents, Replacements

\* One execution of some instrument.
Of(row, i) == IF row.instrument = i THEN SignedOf(row) ELSE 0

\* A fill adds itself to its instrument.
LEMMA NetPosted ==
  ASSUME NEW rows, NEW corrections, Tables(rows, corrections),
         NEW rows2, Tables(rows2, corrections), NEW N \in Nat, NEW M, M = N + 1,
         DOMAIN rows = 1 .. N, DOMAIN rows2 = 1 .. M,
         \A id \in DOMAIN rows : rows2[id] = rows[id],
         NEW row, row = rows2[M], NEW i
  PROVE  NetSum(rows2, corrections, i) = NetSum(rows, corrections, i) + Of(row, i)
<1> DEFINE W == DOMAIN rows2
           D == DOMAIN rows
           f == [id \in D |-> PartOf(rows, corrections, i, id)]
           e == [id \in W |-> PartOf(rows2, corrections, i, id)]
<1>1. M \in W /\ W \ {M} = D  OBVIOUS
<1>2. IsFiniteSet(W) /\ f \in [D -> Int] /\ e \in [W -> Int]  BY PartsInt
<1>3. \A id \in D : e[id] = f[id]
  <2> SUFFICES ASSUME NEW id \in DOMAIN rows
               PROVE  PartOf(rows2, corrections, i, id) = PartOf(rows, corrections, i, id)
    BY <1>1
  <2>1. id \in Counted(rows2, corrections, i) <=> id \in Counted(rows, corrections, i)
    BY DEF Counted
  <2> QED  BY <2>1 DEF PartOf
<1>4. e[M] = Of(row, i)
  <2>1. M \notin Superseded(corrections)  BY SupersededRows
  <2>2. M \in Counted(rows2, corrections, i) <=> row.instrument = i
    BY <1>1, <2>1 DEF Counted
  <2> QED  BY <1>1, <2>2 DEF PartOf, Of
<1>5. NetSum(rows2, corrections, i) = Total(e) /\ NetSum(rows, corrections, i) = Total(f)
  BY DEF NetSum
<1> HIDE DEF W, D, f, e
<1>6. M \notin D /\ \A y \in W : y = M \/ y \in D  BY <1>1
<1>7. \A y \in D : y \in W  BY <1>1
<1>8. Total(e) = Total(f) + e[M]  BY <1>1, <1>2, <1>3, <1>6, <1>7, TotalGrown
<1> QED  BY <1>4, <1>5, <1>8

\* A correction takes the original out of its instrument and puts the replacement in its.
LEMMA NetCorrected ==
  ASSUME NEW rows, NEW corrections, Tables(rows, corrections),
         NEW rows2, NEW corrections2, Tables(rows2, corrections2),
         NEW N \in Nat, NEW M, M = N + 1, NEW K, K = N + 2,
         DOMAIN rows = 1 .. N, DOMAIN rows2 = 1 .. K,
         \A id \in DOMAIN rows : rows2[id] = rows[id],
         NEW o \in DOMAIN rows, o \notin Superseded(corrections),
         Superseded(corrections2) = Superseded(corrections) \cup {o, M},
         NEW old, old = rows[o], NEW new, new = rows2[K], NEW i
  PROVE  NetSum(rows2, corrections2, i)
           = NetSum(rows, corrections, i) - Of(old, i) + Of(new, i)
<1> DEFINE W == DOMAIN rows2
           D == DOMAIN rows
           f == [id \in D |-> PartOf(rows, corrections, i, id)]
           g == [id \in D |-> IF id = o THEN 0 ELSE f[id]]
           e == [id \in W |-> PartOf(rows2, corrections2, i, id)]
<1>1. IsFiniteSet(W) /\ IsFiniteSet(D) /\ f \in [D -> Int] /\ e \in [W -> Int]  BY PartsInt
<1>2. /\ K \in W /\ M \in W /\ M \notin D /\ K \notin D /\ M # K
      /\ \A id \in W : id = M \/ id = K \/ id \in D
      /\ \A id \in D : id \in W
  OBVIOUS
<1>3. Superseded(corrections) \subseteq D  BY SupersededRows
<1>4. \A id \in D : id # o => e[id] = f[id]
  <2> SUFFICES ASSUME NEW id \in D, id # o
               PROVE  PartOf(rows2, corrections2, i, id) = PartOf(rows, corrections, i, id)
    BY <1>2
  <2>1. id \in Superseded(corrections2) <=> id \in Superseded(corrections)  BY <1>2
  <2>2. id \in Counted(rows2, corrections2, i) <=> id \in Counted(rows, corrections, i)
    BY <1>2, <2>1 DEF Counted
  <2> QED  BY <2>2 DEF PartOf
<1>5. e[o] = 0 /\ e[M] = 0
  <2>1. o \notin Counted(rows2, corrections2, i) /\ M \notin Counted(rows2, corrections2, i)
    BY DEF Counted
  <2> QED  BY <1>2, <2>1 DEF PartOf
<1>6. e[K] = Of(new, i)
  <2>1. K \notin Superseded(corrections2)  BY <1>2, <1>3
  <2>2. K \in Counted(rows2, corrections2, i) <=> new.instrument = i
    BY <1>2, <2>1 DEF Counted
  <2> QED  BY <1>2, <2>2 DEF PartOf, Of
<1>7. f[o] = Of(old, i)
  <2>1. o \in Counted(rows, corrections, i) <=> old.instrument = i  BY DEF Counted
  <2> QED  BY <2>1 DEF PartOf, Of
<1>8. g \in [D -> Int] /\ g[o] = 0 /\ \A id \in D : id # o => g[id] = f[id]
  <2> HIDE DEF f
  <2> QED  BY <1>1
<1>9. \A id \in D : e[id] = g[id]
  <2> HIDE DEF g, e, f
  <2> QED  BY <1>4, <1>5, <1>8
<1>10. /\ NetSum(rows2, corrections2, i) = Total(e)
       /\ NetSum(rows, corrections, i) = Total(f)
  BY DEF NetSum
<1>11. o \in D  OBVIOUS
<1> HIDE DEF W, D, f, g, e
<1>12. Total(g) = Total(f) - f[o] + g[o]  
  <2>1. IsFiniteSet(D) /\ f \in [D -> Int] /\ g \in [D -> Int]  BY <1>1, <1>8
  <2>2. \A id \in D : id # o => g[id] = f[id]  BY <1>8
  <2> QED  BY <1>11, <2>1, <2>2, TotalChanged
<1>13. Total(e) = Total(g) + e[M] + e[K]
  <2>1. IsFiniteSet(W) /\ e \in [W -> Int] /\ g \in [D -> Int]  BY <1>1, <1>8
  <2>2. TwoMore(W, D, M, K)  BY <1>2 DEF TwoMore
  <2> QED  BY <1>9, <2>1, <2>2, TotalGrownTwice
<1>14. Total(f) \in Int /\ f[o] \in Int /\ e[K] \in Int
  <2>1. Total(f) \in Int  BY <1>1, TotalInt
  <2> QED  BY <1>1, <1>2, <1>11, <2>1
<1> QED  BY <1>5, <1>6, <1>7, <1>8, <1>10, <1>12, <1>13, <1>14

\* The execution that is replayed last, if any.
LEMMA LastCounted ==
  ASSUME NEW rows, NEW corrections, Tables(rows, corrections), NEW i,
         Counted(rows, corrections, i) # {}
  PROVE  \E x \in DOMAIN rows : IsLast(x, rows, corrections, i)
<1> DEFINE S == Counted(rows, corrections, i)
           R == {p \in S \X S : StreamBefore(rows, corrections, p[1], p[2])}
<1>1. S \in SUBSET (DOMAIN rows) /\ IsFiniteSet(S)
  <2>1. IsFiniteSet(DOMAIN rows)  BY PartsInt
  <2>2. S \in SUBSET (DOMAIN rows)  BY DEF Counted
  <2> HIDE DEF S
  <2> QED  BY <2>1, <2>2, FS_Subset
<1>2. S = Counted(rows, corrections, i) /\ S # {}  OBVIOUS
<1> HIDE DEF S
<1>3. TotallyOrders(R, S)  BY <1>1, StreamOrder
<1>4. \A x, y \in S : <<x, y>> \in R => StreamBefore(rows, corrections, x, y)  OBVIOUS
<1> HIDE DEF R
<1>5. PICK x \in S : \A y \in S : y # x => <<y, x>> \in R  BY <1>1, <1>2, <1>3, LastOne
<1> QED  BY <1>1, <1>2, <1>4, <1>5 DEF IsLast

\* Of two sums on the same side of an action neither opposes the other.
LEMMA SameSide ==
  ASSUME NEW a \in Int, NEW b \in Int, NEW action, Sided(a, action), Sided(b, action)
  PROVE  ~Net!Opposes(a, b)
<1>1. ~(a > 0 /\ b < 0) /\ ~(a < 0 /\ b > 0)  BY DEF Sided
<1> QED  BY <1>1 DEF Net!Opposes

\* A fill never carries the position through flat, wherever it falls in the stream.
LEMMA NoFlipAnywhere ==
  ASSUME NEW rows, NEW corrections, Tables(rows, corrections), OneReplacement(corrections),
         NEW rows2, Tables(rows2, corrections), NEW N \in Nat, NEW M, M = N + 1,
         DOMAIN rows = 1 .. N, DOMAIN rows2 = 1 .. M,
         \A id \in DOMAIN rows : rows2[id] = rows[id],
         NEW row, row = rows2[M], NEW i, row.instrument = i,
         CanRebuild(rows, corrections, i), CanRebuild(rows2, corrections, i)
  PROVE  ~Net!Opposes(NetSum(rows, corrections, i), NetSum(rows2, corrections, i))
<1> DEFINE a == NetSum(rows, corrections, i)
           b == NetSum(rows2, corrections, i)
<1>1. a \in Int /\ b \in Int  BY PartsInt
<1>2. SignedOf(row) \in Int
  <2>1. row \in Execution  BY DEF Tables
  <2> QED  BY <2>1, SignedExecution
<1>3. b = a + SignedOf(row)
  <2>1. b = a + Of(row, i)  BY NetPosted
  <2> QED  BY <2>1 DEF Of
<1>4. LastSided(rows, corrections, i) /\ LastSided(rows2, corrections, i)  BY RebuildWalked
<1>5. M \in Counted(rows2, corrections, i)
  <2>1. M \notin Superseded(corrections)  BY SupersededRows
  <2> QED  BY <2>1 DEF Counted
<1>6. PICK x \in DOMAIN rows2 : IsLast(x, rows2, corrections, i)  BY <1>5, LastCounted
<1>7. /\ Sided(b, rows2[x].action)
      /\ Sided(b - SignedOf(rows2[x]), rows2[x].action)
  BY <1>4, <1>6 DEF LastSided
<1> HIDE DEF a, b
<1>8. CASE x = M
  <2>1. Sided(b, row.action) /\ Sided(b - SignedOf(row), row.action)  BY <1>7, <1>8
  <2>2. b - SignedOf(row) = a  BY <1>1, <1>2, <1>3
  <2>3. Sided(a, row.action)  BY <2>1, <2>2
  <2> QED  BY <1>1, <2>1, <2>3, SameSide DEF a, b
<1>9. CASE x # M
  <2>1. x \in DOMAIN rows /\ rows2[x] = rows[x]  BY <1>9
  <2>2. Later(rows, corrections, rows2, corrections)  BY DEF Later
  <2>3. \A y \in Counted(rows, corrections, i) : y \in Counted(rows2, corrections, i)
    BY DEF Counted
  <2>4. x \in Counted(rows, corrections, i)  BY <1>6, <2>1 DEF IsLast, Counted
  <2>5. ASSUME NEW y \in Counted(rows, corrections, i), y # x
        PROVE  StreamBefore(rows, corrections, y, x)
    <3>1. StreamBefore(rows2, corrections, y, x)  BY <1>6, <2>3, <2>5 DEF IsLast
    <3>2. y \in DOMAIN rows  BY DEF Counted
    <3> QED  BY <2>1, <2>2, <3>1, <3>2, OrderKept
  <2>6. IsLast(x, rows, corrections, i)  BY <2>4, <2>5 DEF IsLast
  <2>7. Sided(a, rows[x].action)  BY <1>4, <2>1, <2>6 DEF LastSided, a
  <2>8. Sided(b, rows[x].action)  BY <1>7, <2>1
  <2> QED  BY <1>1, <2>7, <2>8, SameSide DEF a, b
<1> QED  BY <1>8, <1>9
-----------------------------------------------------------------------------
(* The book implements NetPositions: the fills.                              *)

\* No execution is corrected twice.
OneCorrection(corrections) ==
  \A c, d \in corrections : c.original = d.original => c = d

\* The fills as posted.
PostedSet(rows, corrections) == {id \in DOMAIN rows : id \notin Constituents(corrections)}

LEMMA PostedListed ==
  ASSUME NEW rows, NEW corrections, Tables(rows, corrections),
         NEW S, S = PostedSet(rows, corrections)
  PROVE  /\ Lists(Posted(rows, corrections), S, Lesser(S))
         /\ Cardinality(S) \in Nat
         /\ DOMAIN Posted(rows, corrections) = 1 .. Cardinality(S)
         /\ S \subseteq DOMAIN rows /\ IsFiniteSet(S)
<1> DEFINE s == Posted(rows, corrections)
           places == {<<1 + Cardinality({y \in S : y < x}), x>> : x \in S}
<1>1. S \in SUBSET (DOMAIN rows) /\ IsFiniteSet(S) /\ S \in SUBSET Nat
  <2>1. DOMAIN rows = 1 .. Len(rows) /\ Len(rows) \in Nat  BY DEF Tables
  <2>2. IsFiniteSet(DOMAIN rows)  BY <2>1, FS_Interval
  <2>3. S \in SUBSET (DOMAIN rows)  BY DEF PostedSet
  <2> QED  BY <2>1, <2>2, <2>3, FS_Subset
<1>2. Placed(s, S, places)  BY DEF Posted, PostedSet, InOrder, Placed
<1>4. places = {<<1 + Cardinality({y \in S : y < x}), x>> : x \in S}  OBVIOUS
<1> HIDE DEF s, places
<1>3. Lists(s, S, Lesser(S)) /\ Cardinality(S) \in Nat /\ DOMAIN s = 1 .. Cardinality(S)
  BY <1>1, <1>2, <1>4, NumbersListed
<1> QED  BY <1>1, <1>3 DEF s

\* An execution that comes after all that were posted is listed last.
LEMMA PostedGrows ==
  ASSUME NEW rows, NEW corrections, Tables(rows, corrections),
         NEW rows2, Tables(rows2, corrections), NEW N \in Nat, NEW M, M = N + 1,
         DOMAIN rows = 1 .. N, DOMAIN rows2 = 1 .. M
  PROVE  /\ Posted(rows2, corrections) = Append(Posted(rows, corrections), M)
         /\ Posted(rows, corrections) \in Seq(DOMAIN rows)
<1> DEFINE S == PostedSet(rows, corrections)
           T == PostedSet(rows2, corrections)
           s == Posted(rows, corrections)
           t == Posted(rows2, corrections)
           n == Cardinality(S)
<1>1. M \notin S /\ T = S \cup {M} /\ \A x \in S : x \in Int /\ x < M
  <2>1. Constituents(corrections) \subseteq 1 .. N  BY SupersededRows
  <2> QED  BY <2>1 DEF PostedSet
<1>2. /\ Lists(s, S, Lesser(S)) /\ n \in Nat /\ DOMAIN s = 1 .. n
      /\ S \subseteq DOMAIN rows /\ IsFiniteSet(S)
  <2> HIDE DEF S, s
  <2> QED  BY PostedListed DEF S, s
<1>3. Lists(t, T, Lesser(T)) /\ DOMAIN t = 1 .. Cardinality(T)
  <2> HIDE DEF T, t
  <2> QED  BY PostedListed DEF T, t
<1> HIDE DEF S, T, s, t
<1>4. Cardinality(T) = n + 1  BY <1>1, <1>2, FS_AddElement
<1>5. \A x \in S : Rank(x, T, Lesser(T)) = Rank(x, S, Lesser(S))
  <2> SUFFICES ASSUME NEW x \in S PROVE Rank(x, T, Lesser(T)) = Rank(x, S, Lesser(S))
    OBVIOUS
  <2>1. ~(M < x) /\ x \in Int /\ x \in T  BY <1>1
  <2>2. {y \in T : <<y, x>> \in Lesser(T)} = {y \in S : <<y, x>> \in Lesser(S)}
    BY <1>1, <2>1 DEF Lesser
  <2> QED  BY <2>2 DEF Rank
<1>6. Rank(M, T, Lesser(T)) = n + 1
  <2>1. {y \in T : <<y, M>> \in Lesser(T)} = S
    <3>1. ~(M < M)  OBVIOUS
    <3>2. \A y \in S : y < M  BY <1>1
    <3>3. \A y : y \in T <=> y \in S \/ y = M  BY <1>1
    <3>4. \A y \in T : <<y, M>> \in Lesser(T) <=> y < M  BY <3>3 DEF Lesser
    <3> QED  BY <3>1, <3>2, <3>3, <3>4
  <2>2. Rank(M, T, Lesser(T)) = 1 + Cardinality({y \in T : <<y, M>> \in Lesser(T)})
    BY DEF Rank
  <2>3. Rank(M, T, Lesser(T)) = 1 + n  BY <2>1, <2>2
  <2> HIDE DEF n
  <2> QED  BY <1>2, <2>3
<1> HIDE DEF n
<1>7. \A k \in 1 .. n : t[k] = s[k]
  <2> SUFFICES ASSUME NEW k \in 1 .. n PROVE t[k] = s[k]  OBVIOUS
  <2> DEFINE x == s[k]
  <2>1. x \in S  BY <1>2 DEF Lists
  <2>2. Rank(x, S, Lesser(S)) = k  BY <1>2, <2>1 DEF Lists
  <2>3. x \in T /\ k \in DOMAIN t  BY <1>1, <1>2, <1>3, <1>4, <2>1
  <2> HIDE DEF x
  <2>4. t[k] = x  BY <1>3, <1>5, <2>1, <2>2, <2>3 DEF Lists
  <2> QED  BY <2>4 DEF x
<1>8. t[n + 1] = M
  <2> DEFINE k == n + 1
  <2>1. k \in DOMAIN t /\ M \in T  BY <1>1, <1>2, <1>3, <1>4
  <2>2. Rank(M, T, Lesser(T)) = k  BY <1>6
  <2> HIDE DEF k
  <2>3. t[k] = M  BY <1>3, <2>1, <2>2 DEF Lists
  <2> QED  BY <2>3 DEF k
<1>9. s \in Seq(DOMAIN rows) /\ Len(s) = n
  <2>1. s \in Seq(S)  BY <1>2 DEF Lists
  <2>2. s \in Seq(DOMAIN rows)  BY <1>2, <2>1
  <2> QED  BY <1>2, <2>2
<1>10. t \in Seq(T) /\ Len(t) = n + 1
  <2>1. t \in Seq(T)  BY <1>3 DEF Lists
  <2> QED  BY <1>2, <1>3, <1>4, <2>1
<1>11. t = Append(s, M)
  <2> DEFINE u == Append(s, M)
  <2>1. u \in Seq(T) /\ Len(u) = n + 1
    <3>1. s \in Seq(T) /\ M \in T
      <4>1. s \in Seq(S) /\ S \subseteq T /\ M \in T  BY <1>1, <1>2 DEF Lists
      <4> QED  BY <4>1, WiderRows
    <3> QED  BY <1>9, <3>1
  <2>2. u[n + 1] = M /\ \A k \in 1 .. n : u[k] = s[k]  BY <1>9
  <2> HIDE DEF u
  <2>3. \A k \in 1 .. (n + 1) : t[k] = u[k]  BY <1>2, <1>7, <1>8, <2>2
  <2>4. t = u  BY <1>10, <2>1, <2>3
  <2> QED  BY <2>4 DEF u
<1> QED  BY <1>9, <1>11 DEF s, t
LEMMA RestatedRow ==
  ASSUME NEW rows, NEW corrections, Tables(rows, corrections), NEW id
  PROVE  /\ id \notin DOMAIN rows => AsRestated(corrections, id) = id
         /\ id \in DOMAIN rows => AsRestated(corrections, id) \in DOMAIN rows
         /\ id \notin {c.original : c \in corrections} => AsRestated(corrections, id) = id
<1>1. CASE \E c \in corrections : c.original = id
  <2> DEFINE c == CHOOSE c \in corrections : c.original = id
  <2>1. c \in corrections /\ c.original = id  BY <1>1
  <2>2. AsRestated(corrections, id) = c.replacement  BY <1>1 DEF AsRestated
  <2> HIDE DEF c
  <2>3. c.original \in DOMAIN rows /\ c.replacement \in DOMAIN rows
    BY <2>1 DEF Tables, Correction
  <2> QED  BY <2>1, <2>2, <2>3
<1>2. CASE ~\E c \in corrections : c.original = id  BY <1>2 DEF AsRestated
<1> QED  BY <1>1, <1>2

\* A fill posted is entered at the end of the book.
LEMMA BookGrows ==
  ASSUME NEW rows, NEW corrections, Tables(rows, corrections),
         NEW rows2, Tables(rows2, corrections), NEW N \in Nat, NEW M, M = N + 1,
         DOMAIN rows = 1 .. N, DOMAIN rows2 = 1 .. M,
         \A id \in DOMAIN rows : rows2[id] = rows[id], NEW row, row = rows2[M]
  PROVE  BookOf(rows2, corrections) = Append(BookOf(rows, corrections), Entry(row))
<1> DEFINE s == Posted(rows, corrections)
           t == Posted(rows2, corrections)
           n == Len(s)
           a == BookOf(rows, corrections)
           b == BookOf(rows2, corrections)
           at(id) == AsRestated(corrections, id)
<1>1. t = Append(s, M) /\ s \in Seq(DOMAIN rows)  BY PostedGrows
<1>2. a = [k \in DOMAIN s |-> Entry(rows[at(s[k])])]  BY DEF BookOf
<1>3. b = [k \in DOMAIN t |-> Entry(rows2[at(t[k])])]  BY DEF BookOf
<1> HIDE DEF s, t, a, b
<1>4. /\ n \in Nat /\ DOMAIN s = 1 .. n /\ DOMAIN t = 1 .. (n + 1) /\ t[n + 1] = M
      /\ \A k \in 1 .. n : t[k] = s[k] /\ s[k] \in DOMAIN rows
  BY <1>1
<1> HIDE DEF n, at
<1>5. at(M) = M
  <2>1. M \notin DOMAIN rows  OBVIOUS
  <2> QED  BY <2>1, RestatedRow DEF at
<1>6. \A k \in 1 .. n : b[k] = a[k]
  <2> SUFFICES ASSUME NEW k \in 1 .. n PROVE b[k] = a[k]  OBVIOUS
  <2> DEFINE x == s[k]
  <2>1. t[k] = x /\ x \in DOMAIN rows /\ k \in DOMAIN s /\ k \in DOMAIN t  BY <1>4
  <2> HIDE DEF x
  <2>2. at(x) \in DOMAIN rows  BY <2>1, RestatedRow DEF at
  <2>3. rows2[at(x)] = rows[at(x)]  BY <2>2
  <2>4. a[k] = Entry(rows[at(x)])  BY <1>2, <2>1 DEF x
  <2>5. b[k] = Entry(rows2[at(x)])  BY <1>3, <2>1 DEF x
  <2> QED  BY <2>3, <2>4, <2>5
<1>7. b[n + 1] = Entry(row)  BY <1>3, <1>4, <1>5
<1>8. DOMAIN a = 1 .. n /\ DOMAIN b = 1 .. (n + 1)  BY <1>2, <1>3, <1>4
<1>9. a = [k \in 1 .. n |-> a[k]] /\ b = [k \in 1 .. (n + 1) |-> b[k]]  BY <1>2, <1>3, <1>4
<1>10. b = Append(a, Entry(row))
  <2> DEFINE e == Entry(row)
             U == {a[k] : k \in 1 .. n} \cup {e}
  <2>1. a \in [1 .. n -> U] /\ e \in U  BY <1>9
  <2> HIDE DEF e, U
  <2>2. a \in Seq(U)  BY <1>4, <2>1, SequenceOf
  <2>3. Len(a) = n  BY <1>4, <1>8, <2>2
  <2>4. b \in [1 .. (n + 1) -> U]
    <3>1. \A k \in 1 .. (n + 1) : b[k] \in U
      <4> SUFFICES ASSUME NEW k \in 1 .. (n + 1) PROVE b[k] \in U  OBVIOUS
      <4>1. CASE k \in 1 .. n  BY <1>6, <2>1, <4>1
      <4>2. CASE k = n + 1  BY <1>7, <2>1, <4>2 DEF e
      <4> QED  BY <1>4, <4>1, <4>2
    <3> QED  BY <1>9, <3>1
  <2>5. b \in Seq(U) /\ Len(b) = n + 1
    <3>1. n + 1 \in Nat  BY <1>4
    <3>2. b \in Seq(U)  BY <2>4, <3>1, SequenceOf
    <3> QED  BY <1>8, <3>1, <3>2
  <2> DEFINE u == Append(a, e)
  <2>6. u \in Seq(U) /\ Len(u) = n + 1 /\ u[n + 1] = e /\ \A k \in 1 .. n : u[k] = a[k]
    BY <2>1, <2>2, <2>3
  <2> HIDE DEF u
  <2>7. \A k \in 1 .. (n + 1) : b[k] = u[k]
    <3> SUFFICES ASSUME NEW k \in 1 .. (n + 1) PROVE b[k] = u[k]  OBVIOUS
    <3>1. CASE k \in 1 .. n  BY <1>6, <2>6, <3>1
    <3>2. CASE k = n + 1  BY <1>7, <2>6, <3>2 DEF e
    <3> QED  BY <1>4, <3>1, <3>2
  <2>8. b = u  BY <2>5, <2>6, <2>7
  <2> QED  BY <2>8 DEF u, e
<1> QED  BY <1>10 DEF a, b

\* A correction restates its fill in place.
LEMMA BookRestated ==
  ASSUME NEW rows, NEW corrections, Tables(rows, corrections),
         NEW rows2, NEW corrections2, Tables(rows2, corrections2),
         NEW N \in Nat, NEW M, M = N + 1, NEW K, K = N + 2,
         DOMAIN rows = 1 .. N, DOMAIN rows2 = 1 .. K,
         \A id \in DOMAIN rows : rows2[id] = rows[id],
         NEW o \in DOMAIN rows, o \notin Constituents(corrections),
         o \notin {c.original : c \in corrections},
         NEW c, c.original = o, c.reversal = M, c.replacement = K,
         corrections2 = corrections \cup {c}, OneCorrection(corrections)
  PROVE  \E n \in DOMAIN BookOf(rows, corrections) :
           /\ BookOf(rows, corrections)[n] = Entry(rows[o])
           /\ BookOf(rows2, corrections2)
                = [BookOf(rows, corrections) EXCEPT ![n] = Entry(rows2[K])]
<1> DEFINE S == PostedSet(rows, corrections)
           T == PostedSet(rows2, corrections2)
           s == Posted(rows, corrections)
           t == Posted(rows2, corrections2)
           a == BookOf(rows, corrections)
           b == BookOf(rows2, corrections2)
           at(id) == AsRestated(corrections, id)
           at2(id) == AsRestated(corrections2, id)
<1>1. T = S /\ o \in S
  <2>1. \A x : x \in Constituents(corrections2) <=> x \in Constituents(corrections) \/ x = M \/ x = K
    BY DEF Constituents, Replacements
  <2>2. (\A x : x \in 1 .. K <=> x \in 1 .. N \/ x = M \/ x = K) /\ M \notin 1 .. N /\ K \notin 1 .. N
    OBVIOUS
  <2>4. o \in S  BY DEF PostedSet
  <2> DEFINE C == Constituents(corrections)
             C2 == Constituents(corrections2)
             D == 1 .. N
             E == 1 .. K
  <2>5. \A x : x \in S <=> x \in D /\ x \notin C  BY DEF PostedSet
  <2>6. \A x : x \in T <=> x \in E /\ x \notin C2  BY DEF PostedSet
  <2>7. \A x : x \in C2 <=> x \in C \/ x = M \/ x = K  BY <2>1
  <2>8. (\A x : x \in E <=> x \in D \/ x = M \/ x = K) /\ M \notin D /\ K \notin D  BY <2>2
  <2> HIDE DEF S, T, C, C2, D, E
  <2>3. \A x : x \in T <=> x \in S  BY <2>5, <2>6, <2>7, <2>8
  <2> HIDE DEF S, T
  <2> QED  BY <2>3, <2>4
<1>2. Lists(s, S, Lesser(S)) /\ S \subseteq DOMAIN rows
  <2> HIDE DEF S, s
  <2> QED  BY PostedListed DEF S, s
<1>3. t = s
  <2>1. s = [k \in 1 .. Cardinality(S) |->
               (CHOOSE p \in {<<1 + Cardinality({y \in S : y < x}), x>> : x \in S} :
                  p[1] = k)[2]]
    BY DEF Posted, InOrder, PostedSet
  <2>2. t = [k \in 1 .. Cardinality(T) |->
               (CHOOSE p \in {<<1 + Cardinality({y \in T : y < x}), x>> : x \in T} :
                  p[1] = k)[2]]
    BY DEF Posted, InOrder, PostedSet
  <2> HIDE DEF S, T, s, t
  <2> QED  BY <1>1, <2>1, <2>2
<1>4. a = [k \in DOMAIN s |-> Entry(rows[at(s[k])])]  BY DEF BookOf
<1>5. b = [k \in DOMAIN t |-> Entry(rows2[at2(t[k])])]  BY DEF BookOf
<1>6. at(o) = o  BY RestatedRow
<1>7. at2(o) = K
  <2> DEFINE d == CHOOSE d \in corrections2 : d.original = o
  <2>1. d \in corrections2 /\ d.original = o  OBVIOUS
  <2>2. AsRestated(corrections2, o) = d.replacement  BY <2>1 DEF AsRestated
  <2> HIDE DEF d
  <2>3. d = c  BY <2>1
  <2> QED  BY <2>2, <2>3
<1>8. ASSUME NEW x \in DOMAIN rows, x # o PROVE at2(x) = at(x)
  <2>1. \A d \in corrections2 : d.original = x <=> d \in corrections /\ d.original = x
    BY <1>8
  <2>2. CASE \E d \in corrections : d.original = x
    <3> DEFINE d == CHOOSE y \in corrections : y.original = x
               e == CHOOSE y \in corrections2 : y.original = x
    <3>1. d \in corrections /\ d.original = x  BY <2>2
    <3>2. \E y \in corrections2 : y.original = x  BY <2>2
    <3>3. e \in corrections2 /\ e.original = x  BY <3>2
    <3>4. AsRestated(corrections, x) = d.replacement  BY <2>2 DEF AsRestated
    <3>5. AsRestated(corrections2, x) = e.replacement  BY <3>2 DEF AsRestated
    <3> HIDE DEF d, e
    <3>6. e = d  BY <2>1, <3>1, <3>3 DEF OneCorrection
    <3> QED  BY <3>4, <3>5, <3>6
  <2>3. CASE ~\E d \in corrections : d.original = x
    <3>1. ~\E d \in corrections2 : d.original = x  BY <2>1, <2>3
    <3> QED  BY <2>3, <3>1 DEF AsRestated
  <2> QED  BY <2>2, <2>3
<1> HIDE DEF S, T, s, t, a, b, at, at2
<1>9. PICK n \in DOMAIN s : o = s[n]  BY <1>1, <1>2 DEF Lists
<1>10. n \in DOMAIN a /\ a[n] = Entry(rows[o])  BY <1>4, <1>6, <1>9
<1>11. b[n] = Entry(rows2[K])  BY <1>3, <1>5, <1>7, <1>9
<1>12. ASSUME NEW k \in DOMAIN s, k # n PROVE b[k] = a[k]
  <2> DEFINE x == s[k]
  <2>1. x \in S  BY <1>2 DEF Lists
  <2>2. x # o  BY <1>2, <1>9, <1>12 DEF Lists
  <2>3. x \in DOMAIN rows  BY <1>2, <2>1
  <2>4. a[k] = Entry(rows[at(x)]) /\ b[k] = Entry(rows2[at2(x)])  BY <1>3, <1>4, <1>5
  <2> HIDE DEF x
  <2>5. at2(x) = at(x) /\ at(x) \in DOMAIN rows  BY <1>8, <2>2, <2>3, RestatedRow DEF at
  <2>6. rows2[at(x)] = rows[at(x)]  BY <2>5
  <2> QED  BY <2>4, <2>5, <2>6
<1>13. b = [a EXCEPT ![n] = Entry(rows2[K])]
  <2> DEFINE e == Entry(rows2[K])
             D == DOMAIN s
  <2>1. a = [k \in D |-> a[k]] /\ b = [k \in D |-> b[k]]  BY <1>3, <1>4, <1>5
  <2>2. b[n] = e /\ n \in D /\ \A k \in D : k # n => b[k] = a[k]  BY <1>9, <1>11, <1>12
  <2> HIDE DEF e, D
  <2>3. b = [a EXCEPT ![n] = e]  BY <2>1, <2>2
  <2> QED  BY <2>3 DEF e
<1> QED  BY <1>10, <1>13 DEF a, b
-----------------------------------------------------------------------------
(* The book implements NetPositions: the steps.                              *)

\* The invariant of the book and that no execution is corrected twice.
RInv == IInv /\ OneCorrection(lineage)

\* The positions of a book that holds what a rebuild makes of it.
LEMMA NetsAre ==
  ASSUME NEW rows, NEW corrections, NEW p, Tables(rows, corrections), Rebuilt(p, rows, corrections)
  PROVE  /\ [i \in Instruments |-> NetOfPosition(p[i])]
              = [i \in Instruments |-> NetSum(rows, corrections, i)]
         /\ \A i \in Instruments : NetSum(rows, corrections, i) \in Int
<1>1. \A i \in Instruments : NetSum(rows, corrections, i) \in Int  BY PartsInt
<1>2. ASSUME NEW i \in Instruments PROVE NetOfPosition(p[i]) = NetSum(rows, corrections, i)
  <2>1. p[i] = RebuildPositions(rows, corrections, i) /\ CanRebuild(rows, corrections, i)
    BY DEF Rebuilt
  <2>2. NetOfPosition(RebuildPositions(rows, corrections, i)) = NetSum(rows, corrections, i)
    BY <2>1, RebuildWalked
  <2> QED  BY <2>1, <2>2
<1> QED  BY <1>1, <1>2

LEMMA NetsNow ==
  ASSUME IInv
  PROVE  /\ NetOf = [i \in Instruments |-> NetSum(executions, lineage, i)]
         /\ \A i \in Instruments : NetSum(executions, lineage, i) \in Int
<1>1. Tables(executions, lineage) /\ Rebuilt(projection, executions, lineage)  BY DEF IInv
<1>2. NetOf = [i \in Instruments |-> NetOfPosition(projection[i])]  BY DEF NetOf, NetOfPosition
<1> QED  BY <1>1, <1>2, NetsAre

LEMMA NetsNext ==
  ASSUME IInv'
  PROVE  NetOf' = [i \in Instruments |-> NetSum(executions', lineage', i)]
<1>1. Tables(executions', lineage') /\ Rebuilt(projection', executions', lineage')
  BY DEF IInv
<1>2. NetOf' = [i \in Instruments |-> NetOfPosition(projection'[i])]  BY DEF NetOf, NetOfPosition
<1> QED  BY <1>1, <1>2, NetsAre

\* The signed quantities of the tickets are those of the abstract book.
LEMMA SignedTicket ==
  ASSUME NEW t \in Tickets, NEW action
  PROVE  SignedQuantity(action, t.quantity) \in Net!Signed
BY DEF SignedQuantity, Net!Signed

\* Posting a fill enters it.
LEMMA PostingEnters ==
  ASSUME IInv, IInv', NEW row \in Execution, Post(row)
  PROVE  Net!Enter(row.instrument, SignedOf(row))
<1> DEFINE rows == Append(executions, row)
           N == Len(executions)
           M == N + 1
           i == row.instrument
           q == SignedOf(row)
<1>1. Tables(executions, lineage) /\ OneReplacement(lineage) /\ Rebuilt(projection, executions, lineage)
  BY DEF IInv
<1>2. /\ executions' = rows /\ lineage' = lineage /\ CanRebuild(rows, lineage, i)
  BY DEF Post
<1>3. Tables(rows, lineage)  BY <1>2 DEF IInv
<1>4. N \in Nat /\ DOMAIN executions = 1 .. N /\ DOMAIN rows = 1 .. M
      /\ row = rows[M] /\ \A id \in DOMAIN executions : rows[id] = executions[id]
  BY <1>1 DEF Tables
<1>5. i \in Instruments  BY DEF Execution
<1>6. CanRebuild(executions, lineage, i)  BY <1>1, <1>5 DEF Rebuilt
<1>7. M = N + 1  OBVIOUS
<1> HIDE DEF rows, N, M, i
<1>8. BookOf(rows, lineage) = Append(BookOf(executions, lineage), Entry(row))
  BY <1>1, <1>3, <1>4, <1>7, BookGrows
<1>9. \A j : NetSum(rows, lineage, j) = NetSum(executions, lineage, j) + Of(row, j)
  BY <1>1, <1>3, <1>4, <1>7, NetPosted
<1>10. i = row.instrument  BY DEF i
<1>11. ~Net!Opposes(NetSum(executions, lineage, i), NetSum(rows, lineage, i))
  BY <1>1, <1>2, <1>3, <1>4, <1>6, <1>7, <1>10, NoFlipAnywhere
<1>12. Entry(row) = [instrument |-> i, signed |-> q]  BY <1>10 DEF Entry, SignedOf
<1>13. NetOf = [j \in Instruments |-> NetSum(executions, lineage, j)]
       /\ \A j \in Instruments : NetSum(executions, lineage, j) \in Int
  BY NetsNow
<1>14. NetOf' = [j \in Instruments |-> NetSum(rows, lineage, j)]  BY <1>2, NetsNext
<1>15. Of(row, i) = q /\ \A j : j # i => Of(row, j) = 0  BY <1>10 DEF Of
<1> HIDE DEF q
<1>16. NetOf' = [NetOf EXCEPT ![i] = @ + q]
  <2> DEFINE a(j) == NetSum(executions, lineage, j)
             b(j) == NetSum(rows, lineage, j)
             c(j) == Of(row, j)
  <2>1. NetOf = [j \in Instruments |-> a(j)] /\ NetOf' = [j \in Instruments |-> b(j)]
    BY <1>13, <1>14
  <2>2. \A j : b(j) = a(j) + c(j)  BY <1>9
  <2>3. c(i) = q /\ \A j : j # i => c(j) = 0  BY <1>15
  <2>4. \A j \in Instruments : a(j) \in Int  BY <1>13
  <2> HIDE DEF a, b, c
  <2>5. \A j \in Instruments : j # i => b(j) = a(j)  BY <2>2, <2>3, <2>4
  <2>6. b(i) = a(i) + q  BY <2>2, <2>3
  <2> QED  BY <1>5, <2>1, <2>5, <2>6
<1>17. ~Net!Opposes(NetOf[i], NetOf[i] + q)
  BY <1>5, <1>9, <1>11, <1>13, <1>15
<1>18. BookOf(executions, lineage)' = Append(BookOf(executions, lineage), [instrument |-> i, signed |-> q])
  BY <1>2, <1>8, <1>12
<1>19. Net!Enter(i, q)  BY <1>16, <1>17, <1>18 DEF Net!Enter
<1> QED  BY <1>19 DEF i, q

\* Correcting a fill restates it.
LEMMA CorrectionRestates ==
  ASSUME RInv, IInv', NEW o \in DOMAIN executions, NEW i \in Instruments, NEW t \in Tickets,
         NEW requested \in Nat, CorrectExecution(o, i, t, requested)
  PROVE  \E n \in DOMAIN BookOf(executions, lineage) :
           Net!Restate(n, i, SignedQuantity(t.action, t.quantity))
<1> DEFINE old == executions[o]
           at == Maximum(old.postedAt + 1, requested)
           reversal == Row(old.instrument, ReverseAction(old.action), old, at)
           new == Row(i, t.action, t, at + 1)
           rows == executions \o <<reversal, new>>
           N == Len(executions)
           M == N + 1
           K == N + 2
           c == [original |-> o, reversal |-> M, replacement |-> K]
           corrections == lineage \cup {c}
           q == SignedQuantity(t.action, t.quantity)
           book == BookOf(executions, lineage)
<1>1. Tables(executions, lineage) /\ OneCorrection(lineage)
  BY DEF IInv, RInv
<1>2. /\ executions' = rows /\ lineage' = corrections
      /\ o \notin Constituents(lineage) /\ o \notin {d.original : d \in lineage}
  BY DEF CorrectExecution
<1>3. Tables(rows, corrections)  BY <1>2 DEF IInv
<1>4. /\ N \in Nat /\ DOMAIN executions = 1 .. N /\ DOMAIN rows = 1 .. K /\ new = rows[K]
      /\ \A id \in DOMAIN executions : rows[id] = executions[id]
  <2> HIDE DEF reversal, new
  <2>1. executions \in Seq(Execution)  BY <1>1 DEF Tables
  <2> QED  BY <2>1
<1>5. new.instrument = i /\ SignedOf(new) = q /\ Entry(new) = [instrument |-> i, signed |-> q]
  BY DEF Row, SignedOf, Entry
<1>6. M = N + 1 /\ K = N + 2 /\ old = executions[o]
      /\ c.original = o /\ c.reversal = M /\ c.replacement = K
  OBVIOUS
<1>7. old \in Execution  BY <1>1 DEF Tables
<1> HIDE DEF rows, N, M, K, c, at, reversal, new, q, old
<1>8. corrections = lineage \cup {c}  OBVIOUS
<1> HIDE DEF corrections
<1>9. PICK n \in DOMAIN book :
        book[n] = Entry(old) /\ BookOf(rows, corrections) = [book EXCEPT ![n] = Entry(new)]
  <2>1. \E n \in DOMAIN BookOf(executions, lineage) :
          /\ BookOf(executions, lineage)[n] = Entry(executions[o])
          /\ BookOf(rows, corrections)
               = [BookOf(executions, lineage) EXCEPT ![n] = Entry(rows[K])]
    <3>1. Tables(executions, lineage) /\ OneCorrection(lineage) /\ Tables(rows, corrections)
      BY <1>1, <1>3
    <3>2. DOMAIN executions = 1 .. N /\ DOMAIN rows = 1 .. K /\ N \in Nat  BY <1>4
    <3>3. \A id \in DOMAIN executions : rows[id] = executions[id]  BY <1>4
    <3>4. o \notin Constituents(lineage) /\ o \notin {d.original : d \in lineage}  BY <1>2
    <3> QED  BY <1>6, <1>8, <3>1, <3>2, <3>3, <3>4, BookRestated
  <2> QED  BY <1>4, <1>6, <2>1
<1>10. o \notin Superseded(lineage)  BY <1>2 DEF Superseded, Constituents
<1>11. Superseded(corrections) = Superseded(lineage) \cup {o, M}
  BY <1>6, <1>8 DEF Superseded
<1>12. \A j : NetSum(rows, corrections, j)
                = NetSum(executions, lineage, j) - Of(old, j) + Of(new, j)
  BY <1>1, <1>3, <1>4, <1>6, <1>10, <1>11, NetCorrected
<1>13. NetOf = [j \in Instruments |-> NetSum(executions, lineage, j)]
       /\ \A j \in Instruments : NetSum(executions, lineage, j) \in Int
  BY NetsNow DEF RInv
<1>14. NetOf' = [j \in Instruments |-> NetSum(rows, corrections, j)]  BY <1>2, NetsNext
<1>15. old.instrument \in Instruments /\ SignedOf(old) \in Int  BY <1>7, SignedExecution DEF Execution
<1>16. SignedOf(new) \in Int
  <2>1. new \in Execution
    <3>1. K \in DOMAIN rows  BY <1>4, <1>6
    <3> QED  BY <1>3, <1>4, <3>1 DEF Tables
  <2> QED  BY <2>1, SignedExecution
<1> DEFINE without == [NetOf EXCEPT ![book[n].instrument] = @ - book[n].signed]
<1>17. book[n].instrument = old.instrument /\ book[n].signed = SignedOf(old)
  BY <1>9 DEF Entry, SignedOf
<1> HIDE DEF book
<1>18. NetOf' = [without EXCEPT ![i] = @ + q]
  <2> DEFINE a(j) == NetSum(executions, lineage, j)
             b(j) == NetSum(rows, corrections, j)
             x == old.instrument
             y == SignedOf(old)
  <2>1. NetOf = [j \in Instruments |-> a(j)] /\ NetOf' = [j \in Instruments |-> b(j)]
    BY <1>13, <1>14
  <2>2. \A j : b(j) = a(j) - (IF x = j THEN y ELSE 0) + (IF i = j THEN q ELSE 0)
    BY <1>5, <1>12 DEF Of
  <2>3. \A j \in Instruments : a(j) \in Int  BY <1>13
  <2>4. without = [NetOf EXCEPT ![x] = @ - y]  BY <1>17
  <2>5. x \in Instruments /\ y \in Int /\ q \in Int  BY <1>5, <1>15, <1>16
  <2> HIDE DEF a, b, x, y, without
  <2>6. without = [j \in Instruments |-> a(j) - (IF x = j THEN y ELSE 0)]
    BY <2>1, <2>3, <2>4, <2>5
  <2>7. [without EXCEPT ![i] = @ + q] = [j \in Instruments |-> b(j)]
    BY <2>2, <2>3, <2>5, <2>6
  <2> QED  BY <2>1, <2>7
<1>19. BookOf(executions, lineage)' = [book EXCEPT ![n] = [instrument |-> i, signed |-> q]]
  BY <1>2, <1>5, <1>9
<1>20. Net!Restate(n, i, q)  BY <1>18, <1>19 DEF Net!Restate, book
<1> QED  BY <1>20 DEF book, q
\* A correction is the first of its original.
LEMMA CorrectedOnce ==
  IInv /\ OneCorrection(lineage) /\ [Next]_vars => OneCorrection(lineage)'
<1> SUFFICES ASSUME IInv, OneCorrection(lineage), [Next]_vars PROVE OneCorrection(lineage')
  BY DEF OneCorrection
<1>1. CASE UNCHANGED vars  BY <1>1 DEF vars
<1>2. ASSUME NEW i \in Instruments, NEW t \in Tickets, NEW at \in Times,
             PostAccountExecution(i, t, at) \/ PostTradeFill(i, t, at)
      PROVE  OneCorrection(lineage')
  BY <1>2 DEF PostAccountExecution, PostTradeFill, Post
<1>3. ASSUME NEW o \in DOMAIN executions, NEW i \in Instruments, NEW t \in Tickets,
             NEW at \in Times \cup {0}, CorrectExecution(o, i, t, at)
      PROVE  OneCorrection(lineage')
  <2> DEFINE c == [original |-> o, reversal |-> Len(executions) + 1,
                   replacement |-> Len(executions) + 2]
  <2>1. o \notin {d.original : d \in lineage} /\ lineage' = lineage \cup {c}
    BY <1>3 DEF CorrectExecution
  <2>2. c.original = o  OBVIOUS
  <2> HIDE DEF c
  <2> QED  BY <2>1, <2>2 DEF OneCorrection
<1> QED  BY <1>1, <1>2, <1>3 DEF Next

LEMMA NothingInBook == BookOf(<<>>, {}) = <<>>
<1> DEFINE s == Posted(<<>>, {})
           S == PostedSet(<<>>, {})
<1>1. Tables(<<>>, {})  BY DEF Tables
<1>2. S = {}  BY DEF PostedSet
<1>3. Lists(s, S, Lesser(S))
  <2> HIDE DEF s, S
  <2> QED  BY <1>1, PostedListed DEF s, S
<1> HIDE DEF s
<1>4. s = <<>>  BY <1>2, <1>3 DEF Lists
<1>5. Posted(<<>>, {}) = <<>>  BY <1>4 DEF s
<1> QED  BY <1>5 DEF BookOf

\* Every step of the book is one of the abstract book, or none.
LEMMA StepImplementsNet == RInv /\ IInv' /\ [Next]_vars => [Net!Next]_(Net!vars)
<1> SUFFICES ASSUME RInv, IInv', [Next]_vars PROVE [Net!Next]_(Net!vars)  OBVIOUS
<1>1. CASE UNCHANGED vars
  <2>1. executions' = executions /\ lineage' = lineage /\ projection' = projection
    BY <1>1 DEF vars
  <2>2. BookOf(executions, lineage)' = BookOf(executions, lineage)  BY <2>1
  <2>3. NetOf' = NetOf  BY <2>1 DEF NetOf
  <2> QED  BY <2>2, <2>3 DEF Net!vars
<1>2. ASSUME NEW row \in Execution, Post(row), NEW t \in Tickets, row.quantity = t.quantity
      PROVE  Net!Next
  <2>1. Net!Enter(row.instrument, SignedOf(row))  BY <1>2, PostingEnters DEF RInv
  <2>2. SignedOf(row) \in Net!Signed  BY <1>2, SignedTicket DEF SignedOf
  <2>3. row.instrument \in Instruments  BY DEF Execution
  <2> QED  BY <2>1, <2>2, <2>3 DEF Net!Next
<1>3. ASSUME NEW i \in Instruments, NEW t \in Tickets, NEW at \in Times,
             PostAccountExecution(i, t, at)
      PROVE  Net!Next
  <2> DEFINE direction == projection[i].direction
             action == IF t.action \in GenericActions
                         THEN ResolveEconomicExecutionAction(t.action, direction) ELSE t.action
             row == Row(i, action, t, at)
  <2>1. (t.action \in GenericActions => direction \in Directions) /\ Post(row)
    BY <1>3 DEF PostAccountExecution
  <2>2. t.action \in JournalActions /\ at \in Nat  BY TicketsAssumption, TimesAssumption
  <2>3. action \in EconomicActions
    <3> HIDE DEF direction
    <3> QED  BY <2>1, <2>2, ResolvedIsEconomic
  <2> HIDE DEF action
  <2>4. row \in Execution  BY <2>2, <2>3, FillIsExecution
  <2>5. row.quantity = t.quantity  BY DEF Row
  <2> HIDE DEF row
  <2> QED  BY <1>2, <2>1, <2>4, <2>5
<1>4. ASSUME NEW i \in Instruments, NEW t \in Tickets, NEW at \in Times, PostTradeFill(i, t, at)
      PROVE  Net!Next
  <2> DEFINE row == Row(i, t.action, t, at)
  <2>1. t.action \in EconomicActions /\ Post(row)  BY <1>4 DEF PostTradeFill
  <2>2. row \in Execution  BY <2>1, FillIsExecution, TimesAssumption
  <2>3. row.quantity = t.quantity  BY DEF Row
  <2> HIDE DEF row
  <2> QED  BY <1>2, <2>1, <2>2, <2>3
<1>5. ASSUME NEW o \in DOMAIN executions, NEW i \in Instruments, NEW t \in Tickets,
             NEW at \in Times \cup {0}, CorrectExecution(o, i, t, at)
      PROVE  Net!Next
  <2> DEFINE q == SignedQuantity(t.action, t.quantity)
  <2>1. at \in Nat  BY TimesAssumption
  <2>2. q \in Net!Signed  BY SignedTicket
  <2>3. PICK n \in DOMAIN BookOf(executions, lineage) : Net!Restate(n, i, q)
    BY <1>5, <2>1, CorrectionRestates
  <2> HIDE DEF q
  <2> QED  BY <2>2, <2>3 DEF Net!Next
<1> QED  BY <1>1, <1>3, <1>4, <1>5 DEF Next

\* The FIFO projection, rebuilt in full from the immutable rows by every operation,
\* moves as an incremental account of signed quantities does: a fill is entered once
\* and never carries its position through flat, a correction restates one fill in
\* place, and no other instrument moves (rebuildPositions, correctExecution).
THEOREM ImplementsNet == Spec => ImplementsNetPositions
<1>1. Init => Net!Init
  <2> SUFFICES ASSUME Init PROVE Net!Init  OBVIOUS
  <2>1. BookOf(executions, lineage) = <<>>  BY NothingInBook DEF Init
  <2>2. NoProjection.direction = "none" /\ NoProjection.quantity = 0
    BY DEF NoProjection, NoPosition, Rows
  <2>3. NetOf = [i \in Instruments |-> 0]
    <3> HIDE DEF NoProjection
    <3> QED  BY <2>2 DEF Init, NetOf
  <2> QED  BY <2>1, <2>3 DEF Net!Init
<1>2. Init => OneCorrection(lineage)  BY DEF Init, OneCorrection
<1>3. IInv /\ OneCorrection(lineage) => RInv  BY DEF RInv
<1> QED
  BY <1>1, <1>2, <1>3, BookHolds, CorrectedOnce, StepImplementsNet, PTL
  DEF Spec, ImplementsNetPositions, Net!Spec
=============================================================================
