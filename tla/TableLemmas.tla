----------------------------- MODULE TableLemmas -----------------------------
(***************************************************************************)
(* What appending rows to an immutable table keeps and adds, and what sums *)
(* over the rows of a table obey.                                          *)
(***************************************************************************)
EXTENDS Totals, Orders, Sequences, SequenceTheorems, FiniteSetTheorems, WellFoundedInduction, TLAPS

-----------------------------------------------------------------------------
(* Appending rows.                                                           *)

\* The rows appended follow the rows that were there.
LEMMA AppendedRows ==
  ASSUME NEW S, NEW s \in Seq(S), NEW t \in Seq(S)
  PROVE  /\ s \o t \in Seq(S)
         /\ Len(s \o t) = Len(s) + Len(t)
         /\ DOMAIN (s \o t) = 1 .. (Len(s) + Len(t))
         /\ DOMAIN s \subseteq DOMAIN (s \o t)
         /\ \A i \in DOMAIN s : (s \o t)[i] = s[i]
         /\ \A j \in DOMAIN t :
              Len(s) + j \in DOMAIN (s \o t) /\ (s \o t)[Len(s) + j] = t[j]
  BY ConcatProperties

\* A row of the longer table is an old one or an appended one.
LEMMA RowsOfEither ==
  ASSUME NEW S, NEW s \in Seq(S), NEW t \in Seq(S), NEW m \in DOMAIN (s \o t)
  PROVE  \/ m \in DOMAIN s /\ (s \o t)[m] = s[m]
         \/ m - Len(s) \in DOMAIN t /\ (s \o t)[m] = t[m - Len(s)]
<1>1. CASE m <= Len(s)
  BY <1>1, AppendedRows
<1>2. CASE m > Len(s)
  <2>1. m - Len(s) \in DOMAIN t  BY <1>2, AppendedRows
  <2>2. m = Len(s) + (m - Len(s))  BY AppendedRows
  <2> QED  BY <2>1, <2>2, AppendedRows
<1> QED  BY <1>1, <1>2, AppendedRows

\* A table of rows of a type is one of any wider type.
LEMMA WiderRows ==
  ASSUME NEW S, NEW T, S \subseteq T, NEW s \in Seq(S)
  PROVE  s \in Seq(T)
  OBVIOUS

-----------------------------------------------------------------------------
(* Finite sets.                                                              *)

\* A family of sets that misses a finite set misses a smallest one: the subsets
\* of a finite set are well founded.
LEMMA SmallestMissing ==
  ASSUME NEW S, IsFiniteSet(S), NEW P \in SUBSET (SUBSET S), S \notin P
  PROVE  \E T \in SUBSET S : T \notin P /\ \A U \in SUBSET T : U # T => U \in P
<1> DEFINE Missing == (SUBSET S) \ P
<1>1. Missing \subseteq FiniteSubsetsOf(S) /\ Missing # {}
  BY FS_FiniteSubsetsOfFinite
<1>2. PICK T \in Missing : \A U \in Missing : <<U, T>> \notin StrictSubsetOrdering(S)
  <2> HIDE DEF Missing
  <2> QED  BY <1>1, FS_StrictSubsetOrderingWellFounded, WFMin
<1>3. \A U \in SUBSET T : U # T => U \in P
  BY <1>2 DEF StrictSubsetOrdering
<1> QED  BY <1>2, <1>3

\* Induction on a finite set, one element at a time.
LEMMA SubsetInduction ==
  ASSUME NEW S, IsFiniteSet(S), NEW P \in SUBSET (SUBSET S), {} \in P,
         \A T \in P, x \in S : x \notin T => T \cup {x} \in P
  PROVE  S \in P
<1> SUFFICES ASSUME S \notin P PROVE FALSE  OBVIOUS
<1>1. PICK T \in SUBSET S : T \notin P /\ \A U \in SUBSET T : U # T => U \in P
  BY SmallestMissing
<1>2. PICK x \in T : TRUE  BY <1>1
<1>3. T \ {x} \in P  BY <1>1, <1>2
<1> DEFINE W == T \ {x}
<1>4. T = W \cup {x} /\ x \in S /\ x \notin W  BY <1>2
<1> HIDE DEF W
<1>5. W \cup {x} \in P  BY <1>3, <1>4 DEF W
<1> QED  BY <1>1, <1>4, <1>5

\* The rows of a finite set of indices are finitely many.
LEMMA ImageFinite ==
  ASSUME NEW S, IsFiniteSet(S), NEW f, DOMAIN f = S
  PROVE  IsFiniteSet({f[x] : x \in S})
<1> DEFINE T == {f[x] : x \in S}
           g == [x \in S |-> f[x]]
<1>1. g \in Surjection(S, T)  BY DEF Surjection
<1> HIDE DEF T, g
<1>2. IsFiniteSet(T)  BY <1>1, FS_Surjection
<1> QED  BY <1>2 DEF T

-----------------------------------------------------------------------------
\* The folds of the community modules, unfolded: g sums the terms of f over each
\* subset of S.
Pick(s) == CHOOSE x \in s : TRUE

\* A fold picks its next index from the set that is left.
LEMMA PickOne == ASSUME NEW s, s # {} PROVE Pick(s) \in s
BY DEF Pick

Sums(f, g, S) ==
  g = [s \in SUBSET S |-> IF s = {} THEN 0 ELSE f[Pick(s)] + g[s \ {Pick(s)}]]

IntSums(f, g, S) == f \in [S -> Int] /\ g \in [SUBSET S -> Int] /\ Sums(f, g, S)

\* A total is the value, at all indices, of a function that sums any of them.
LEMMA TotalIsSum ==
  ASSUME NEW f
  PROVE  Total(f) = (CHOOSE g : Sums(f, g, DOMAIN f))[DOMAIN f]
BY DEF Total, FoldFunction, FoldFunctionOnSet, MapThenFoldSet, Sums, Pick

\* Two such functions agree wherever their terms do.
LEMMA SumsAgree ==
  ASSUME NEW S, NEW T \in SUBSET S, IsFiniteSet(T), NEW f, NEW e, NEW g, NEW h,
         Sums(f, g, S), Sums(e, h, T), \A x \in T : f[x] = e[x]
  PROVE  \A U \in SUBSET T : g[U] = h[U]
<1> DEFINE Same == {s \in SUBSET T : g[s] = h[s]}
<1>1. \A s \in SUBSET T : s # {} => Pick(s) \in s
  BY PickOne
<1>2. ASSUME NEW U \in SUBSET T, \A V \in SUBSET U : V # U => V \in Same PROVE U \in Same
  <2>1. CASE U = {}  BY <2>1 DEF Sums
  <2>2. CASE U # {}
    <3>1. U \ {Pick(U)} \in Same  BY <1>1, <1>2, <2>2
    <3>2. /\ g[U] = f[Pick(U)] + g[U \ {Pick(U)}]
          /\ h[U] = e[Pick(U)] + h[U \ {Pick(U)}]
      BY <2>2 DEF Sums
    <3> QED  BY <1>1, <2>2, <3>1, <3>2
  <2> QED  BY <2>1, <2>2
<1>3. SUFFICES ASSUME NEW R \in SUBSET T, R \notin Same PROVE FALSE
  OBVIOUS
<1> DEFINE P == Same \cap SUBSET R
<1>4. IsFiniteSet(R) /\ P \in SUBSET (SUBSET R) /\ R \notin P  BY <1>3, FS_Subset
<1>5. PICK U \in SUBSET R : U \notin P /\ \A V \in SUBSET U : V # U => V \in P
  <2> HIDE DEF P
  <2> QED  BY <1>4, SmallestMissing
<1> QED  BY <1>2, <1>5

\* Such a function exists, for a finite set of integers.
LEMMA SumsExist ==
  ASSUME NEW S, IsFiniteSet(S), NEW f \in [S -> Int]
  PROVE  \E g \in [SUBSET S -> Int] : Sums(f, g, S)
<1> DEFINE Summed(T) == \E g \in [SUBSET T -> Int] : Sums(f, g, T)
           P == {T \in SUBSET S : Summed(T)}
           h == [T \in SUBSET S |-> CHOOSE g \in [SUBSET T -> Int] : Sums(f, g, T)]
<1>1. SUFFICES ASSUME S \notin P PROVE FALSE  OBVIOUS
<1>0. P \in SUBSET (SUBSET S)  OBVIOUS
<1>2. PICK T \in SUBSET S : T \notin P /\ \A U \in SUBSET T : U # T => U \in P
  <2> HIDE DEF P
  <2> QED  BY <1>0, <1>1, SmallestMissing
<1>3. \A U \in SUBSET T : U # T => h[U] \in [SUBSET U -> Int] /\ Sums(f, h[U], U)
  BY <1>2
<1>4. ASSUME NEW U \in SUBSET T, U # T, NEW V \in SUBSET U
      PROVE  h[U][V] = h[V][V]
  <2>1. Sums(f, h[U], U) /\ Sums(f, h[V], V)  BY <1>3, <1>4
  <2>2. IsFiniteSet(V)  BY FS_Subset
  <2> HIDE DEF h
  <2>3. ASSUME NEW g, NEW k, Sums(f, g, U), Sums(f, k, V) PROVE g[V] = k[V]
    BY <2>2, <2>3, SumsAgree
  <2> QED  BY <2>1, <2>3
<1> DEFINE without(s) == s \ {Pick(s)}
           G == [s \in SUBSET T |-> IF s = {} THEN 0
                                    ELSE f[Pick(s)] + h[without(s)][without(s)]]
<1>5. \A s \in SUBSET T : s # {} => Pick(s) \in s /\ without(s) \in SUBSET s /\ without(s) # T
  BY PickOne
<1>6. \A U \in SUBSET T : U # T => G[U] = h[U][U]
  <2> SUFFICES ASSUME NEW U \in SUBSET T, U # T PROVE G[U] = h[U][U]  OBVIOUS
  <2>0. Sums(f, h[U], U)  BY <1>3
  <2> HIDE DEF h
  <2>1. CASE U = {}  BY <2>0, <2>1 DEF Sums
  <2>2. CASE U # {}
    <3>1. h[U][U] = f[Pick(U)] + h[U][without(U)]  BY <2>0, <2>2 DEF Sums
    <3>2. h[U][without(U)] = h[without(U)][without(U)]  BY <1>4, <1>5, <2>2
    <3> QED  BY <2>2, <3>1, <3>2
  <2> QED  BY <2>1, <2>2
<1>7. \A s \in SUBSET T : s # {} => h[without(s)][without(s)] = G[without(s)]
  <2> HIDE DEF h, G
  <2> QED  BY <1>5, <1>6
<1>8. Sums(f, G, T)
  <2> HIDE DEF h
  <2>1. \A s \in SUBSET T : G[s] = IF s = {} THEN 0 ELSE f[Pick(s)] + G[without(s)]
    BY <1>7
  <2> HIDE DEF G
  <2>2. G = [s \in SUBSET T |-> G[s]]  BY DEF G
  <2> QED  BY <2>1, <2>2 DEF Sums
<1>9. G \in [SUBSET T -> Int]
  <2>1. \A s \in SUBSET T : s # {} => G[s] = f[Pick(s)] + h[without(s)][without(s)]  OBVIOUS
  <2>2. ASSUME NEW s \in SUBSET T, s # {} PROVE h[without(s)][without(s)] \in Int
    <3>1. without(s) \in SUBSET T /\ without(s) # T  BY <1>5, <2>2
    <3>2. h[without(s)] \in [SUBSET (without(s)) -> Int]  BY <1>3, <3>1
    <3> HIDE DEF h, without
    <3> QED  BY <3>2
  <2>3. \A s \in SUBSET T : s # {} => f[Pick(s)] \in Int  BY <1>5
  <2>4. G[{}] = 0  OBVIOUS
  <2>5. ASSUME NEW s \in SUBSET T PROVE G[s] \in Int
    <3> HIDE DEF G, h, without
    <3>1. CASE s = {}  BY <2>4, <3>1
    <3>2. CASE s # {}  BY <2>1, <2>2, <2>3, <3>2
    <3> QED  BY <3>1, <3>2
  <2> HIDE DEF h, without
  <2> QED  BY <2>5
<1> HIDE DEF G
<1> QED  BY <1>2, <1>8, <1>9

\* The order in which the indices are taken does not matter.
LEMMA SumsCommute ==
  ASSUME NEW S, IsFiniteSet(S), NEW f, NEW g, IntSums(f, g, S), NEW R \in SUBSET S, NEW z \in R
  PROVE  g[R] = f[z] + g[R \ {z}]
<1> USE DEF IntSums
<1> DEFINE Free == {T \in SUBSET S : \A y \in T : g[T] = f[y] + g[T \ {y}]}
<1>0. Free \in SUBSET (SUBSET S)  OBVIOUS
<1>1. ASSUME NEW T \in SUBSET S, \A U \in SUBSET T : U # T => U \in Free, NEW y \in T
      PROVE  g[T] = f[y] + g[T \ {y}]
  <2> DEFINE p == Pick(T)
  <2>1. p \in T /\ g[T] = f[p] + g[T \ {p}]  BY PickOne DEF Sums
  <2> HIDE DEF p
  <2>2. CASE y = p  BY <2>1, <2>2
  <2>3. CASE y # p
    <3>1. T \ {p} \in Free /\ T \ {y} \in Free /\ y \in T \ {p} /\ p \in T \ {y}
      BY <1>1, <2>1, <2>3
    <3>2. g[T \ {p}] = f[y] + g[(T \ {p}) \ {y}] /\ g[T \ {y}] = f[p] + g[(T \ {y}) \ {p}]
      BY <3>1
    <3>3. (T \ {p}) \ {y} = (T \ {y}) \ {p}  OBVIOUS
    <3> DEFINE rest == g[(T \ {y}) \ {p}]
    <3>4. f[y] \in Int /\ f[p] \in Int /\ rest \in Int  BY <2>1
    <3> HIDE DEF rest
    <3>5. g[T \ {p}] = f[y] + rest /\ g[T \ {y}] = f[p] + rest  BY <3>2, <3>3 DEF rest
    <3> QED  BY <2>1, <3>4, <3>5
  <2> QED  BY <2>2, <2>3
<1>2. SUFFICES ASSUME R \notin Free PROVE FALSE  OBVIOUS
<1> DEFINE P == Free \cap SUBSET R
<1>3. IsFiniteSet(R) /\ P \in SUBSET (SUBSET R) /\ R \notin P  BY <1>2, FS_Subset
<1>4. PICK U \in SUBSET R : U \notin P /\ \A V \in SUBSET U : V # U => V \in P
  <2> HIDE DEF P
  <2> QED  BY <1>3, SmallestMissing
<1> QED  BY <1>1, <1>4

\* A total of integers, by such a function.
LEMMA TotalOf ==
  ASSUME NEW S, IsFiniteSet(S), NEW f \in [S -> Int]
  PROVE  \E g \in [SUBSET S -> Int] : Sums(f, g, S) /\ Total(f) = g[S]
<1>1. PICK g \in [SUBSET S -> Int] : Sums(f, g, S)  BY SumsExist
<1> DEFINE chosen == CHOOSE h : Sums(f, h, DOMAIN f)
<1>2. DOMAIN f = S  OBVIOUS
<1>3. Sums(f, chosen, S)  BY <1>1, <1>2
<1>4. Total(f) = chosen[S]  BY <1>2, TotalIsSum
<1> HIDE DEF chosen
<1>5. chosen[S] = g[S]  BY <1>1, <1>3, SumsAgree
<1> QED  BY <1>1, <1>4, <1>5

-----------------------------------------------------------------------------
(* Totals.                                                                   *)

\* A total of integers is one.
LEMMA TotalInt ==
  ASSUME NEW S, IsFiniteSet(S), NEW f \in [S -> Int]
  PROVE  Total(f) \in Int
<1>1. PICK g \in [SUBSET S -> Int] : Total(f) = g[S]  BY TotalOf
<1>2. S \in SUBSET S  OBVIOUS
<1> QED  BY <1>1, <1>2

\* Nothing adds up to zero.
LEMMA TotalOfNone ==
  ASSUME NEW f, DOMAIN f = {}
  PROVE  Total(f) = 0
<1>1. f \in [{} -> Int] /\ IsFiniteSet({})  BY FS_EmptySet
<1>2. PICK g \in [SUBSET {} -> Int] : Sums(f, g, {}) /\ Total(f) = g[{}]  BY <1>1, TotalOf
<1> QED  BY <1>2 DEF Sums

\* A sum, less one of its terms.
LEMMA TotalLess ==
  ASSUME NEW W, IsFiniteSet(W), NEW x \in W, NEW e \in [W -> Int]
  PROVE  \E g \in [SUBSET W -> Int] :
           Sums(e, g, W) /\ Total(e) = g[W] /\ g[W] = e[x] + g[W \ {x}]
<1>1. PICK g \in [SUBSET W -> Int] : Sums(e, g, W) /\ Total(e) = g[W]  BY TotalOf
<1>3. W \in SUBSET W  OBVIOUS
<1>2. IntSums(e, g, W)  BY <1>1 DEF IntSums
<1>4. g[W] = e[x] + g[W \ {x}]  BY <1>2, <1>3, SumsCommute
<1> QED  BY <1>1, <1>4

\* A total without one of its terms.
LEMMA TotalAdded ==
  ASSUME NEW W, IsFiniteSet(W), NEW x \in W, NEW f \in [W \ {x} -> Int],
         NEW e \in [W -> Int], \A y \in W \ {x} : e[y] = f[y]
  PROVE  Total(e) = Total(f) + e[x]
<1> DEFINE S == W \ {x}
<1>1. IsFiniteSet(S) /\ S \in SUBSET W /\ S \in SUBSET S /\ f \in [S -> Int]
      /\ \A y \in S : e[y] = f[y]
  BY FS_Subset
<1>2. PICK g \in [SUBSET W -> Int] :
        Sums(e, g, W) /\ Total(e) = g[W] /\ g[W] = e[x] + g[W \ {x}]
  BY TotalLess
<1>3. g[W] = e[x] + g[S]  BY <1>2
<1> HIDE DEF S
<1>4. PICK h \in [SUBSET S -> Int] : Sums(f, h, S) /\ Total(f) = h[S]  BY <1>1, TotalOf
<1>5. g[S] = h[S]
  <2>1. \A U \in SUBSET S : g[U] = h[U]  BY <1>1, <1>2, <1>4, SumsAgree
  <2> QED  BY <1>1, <2>1
<1>6. e[x] \in Int /\ h[S] \in Int  BY <1>1
<1> QED  BY <1>2, <1>3, <1>4, <1>5, <1>6

\* The total over some of the indices and one more.
LEMMA RestrictionAdded ==
  ASSUME NEW S, IsFiniteSet(S), NEW f \in [S -> Int], NEW T \in SUBSET S, NEW x \in S, x \notin T
  PROVE  Total(Restrict(f, T \cup {x})) = Total(Restrict(f, T)) + f[x]
<1> DEFINE W == T \cup {x}
           e == Restrict(f, W)
           r == Restrict(f, T)
<1>1. IsFiniteSet(W) /\ W \in SUBSET S /\ x \in W /\ W \ {x} = T  BY FS_Subset
<1>2. r \in [T -> Int]  BY DEF Restrict
<1> HIDE DEF W
<1>3. e \in [W -> Int] /\ e[x] = f[x] /\ \A y \in T : e[y] = r[y]
  BY <1>1 DEF Restrict
<1> HIDE DEF e, r
<1>6. r \in [W \ {x} -> Int] /\ \A y \in W \ {x} : e[y] = r[y]  BY <1>1, <1>2, <1>3
<1>4. Total(e) = Total(r) + e[x]
  <2>1. x \in W /\ IsFiniteSet(W) /\ e \in [W -> Int]  BY <1>1, <1>3
  <2> QED  BY ONLY <1>6, <2>1, TotalAdded
<1>5. Total(e) = Total(r) + f[x]  BY <1>3, <1>4
<1> QED  BY <1>5 DEF e, r, W

\* The total over some of the indices is an integer.
LEMMA RestrictedInt ==
  ASSUME NEW S, IsFiniteSet(S), NEW f \in [S -> Int], NEW T \in SUBSET S
  PROVE  Total(Restrict(f, T)) \in Int
<1>1. IsFiniteSet(T)  BY FS_Subset
<1>2. Restrict(f, T) \in [T -> Int]  BY DEF Restrict
<1> QED  BY <1>1, <1>2, TotalInt

\* Totals add up term by term.
LEMMA TotalOfSum ==
  ASSUME NEW S, IsFiniteSet(S), NEW f \in [S -> Int], NEW g \in [S -> Int], NEW h \in [S -> Int],
         \A x \in S : h[x] = f[x] + g[x]
  PROVE  Total(h) = Total(f) + Total(g)
<1> DEFINE P == {T \in SUBSET S :
                   Total(Restrict(h, T)) = Total(Restrict(f, T)) + Total(Restrict(g, T))}
<1>0. P \in SUBSET (SUBSET S)  OBVIOUS
<1>1. {} \in P
  BY TotalOfNone DEF Restrict
<1>2. ASSUME NEW T \in P, NEW x \in S, x \notin T PROVE T \cup {x} \in P
  <2>1. /\ Total(Restrict(f, T \cup {x})) = Total(Restrict(f, T)) + f[x]
        /\ Total(Restrict(g, T \cup {x})) = Total(Restrict(g, T)) + g[x]
        /\ Total(Restrict(h, T \cup {x})) = Total(Restrict(h, T)) + h[x]
    BY <1>2, RestrictionAdded
  <2>2. Total(Restrict(f, T)) \in Int /\ Total(Restrict(g, T)) \in Int  BY RestrictedInt
  <2> QED  BY <2>1, <2>2
<1>3. S \in P
  <2> HIDE DEF P
  <2> QED  BY <1>0, <1>1, <1>2, SubsetInduction
<1>4. Restrict(f, S) = f /\ Restrict(g, S) = g /\ Restrict(h, S) = h  BY DEF Restrict
<1> QED  BY <1>3, <1>4

\* Zeros add up to zero.
LEMMA TotalOfZeros ==
  ASSUME NEW S, IsFiniteSet(S), NEW f \in [S -> Int], \A x \in S : f[x] = 0
  PROVE  Total(f) = 0
<1>1. Total(f) = Total(f) + Total(f)  BY TotalOfSum
<1> QED  BY <1>1, TotalInt

\* Naturals add up to a natural.
LEMMA TotalOfNaturals ==
  ASSUME NEW S, IsFiniteSet(S), NEW f \in [S -> Int], \A x \in S : f[x] \in Nat
  PROVE  Total(f) \in Nat
<1> DEFINE P == {T \in SUBSET S : Total(Restrict(f, T)) \in Nat}
<1>0. P \in SUBSET (SUBSET S)  OBVIOUS
<1>1. {} \in P
  BY TotalOfNone DEF Restrict
<1>2. ASSUME NEW T \in P, NEW x \in S, x \notin T PROVE T \cup {x} \in P
  BY <1>2, RestrictionAdded
<1>3. S \in P
  <2> HIDE DEF P
  <2> QED  BY <1>0, <1>1, <1>2, SubsetInduction
<1>4. Restrict(f, S) = f  BY DEF Restrict
<1> QED  BY <1>3, <1>4

\* A number, once more.
LEMMA OnceMore ==
  ASSUME NEW k \in Nat, NEW c \in Int
  PROVE  (k + 1) * c = k * c + c
OBVIOUS

\* Equal terms add up to their multiple.
LEMMA TotalOfSame ==
  ASSUME NEW S, IsFiniteSet(S), NEW f \in [S -> Int], NEW c \in Int, \A x \in S : f[x] = c
  PROVE  Total(f) = Cardinality(S) * c
<1> DEFINE P == {T \in SUBSET S : Total(Restrict(f, T)) = Cardinality(T) * c}
<1>0. P \in SUBSET (SUBSET S)  OBVIOUS
<1>1. {} \in P
  <2>1. Cardinality({}) = 0  BY FS_EmptySet
  <2>2. Total(Restrict(f, {})) = 0  BY TotalOfNone DEF Restrict
  <2> QED  BY <2>1, <2>2
<1>2. ASSUME NEW T \in P, NEW x \in S, x \notin T PROVE T \cup {x} \in P
  <2>1. T \in SUBSET S /\ IsFiniteSet(T)  BY FS_Subset
  <2>2. Cardinality(T) \in Nat /\ Cardinality(T \cup {x}) = Cardinality(T) + 1
    BY <1>2, <2>1, FS_AddElement, FS_CardinalityType
  <2>3. Total(Restrict(f, T \cup {x})) = Total(Restrict(f, T)) + f[x]
    BY <1>2, <2>1, RestrictionAdded
  <2>4. Total(Restrict(f, T)) = Cardinality(T) * c /\ f[x] = c  OBVIOUS
  <2>5. PICK k \in Nat : k = Cardinality(T)  BY <2>2
  <2>6. (k + 1) * c = k * c + c  BY OnceMore
  <2> QED  BY <2>1, <2>2, <2>3, <2>4, <2>5, <2>6
<1>3. S \in P
  <2> HIDE DEF P
  <2> QED  BY <1>0, <1>1, <1>2, SubsetInduction
<1>4. Restrict(f, S) = f  BY DEF Restrict
<1> QED  BY <1>3, <1>4

\* The terms of one set of indices, then those of the others.
LEMMA TotalSplit ==
  ASSUME NEW S, IsFiniteSet(S), NEW f \in [S -> Int], NEW T \in SUBSET S
  PROVE  Total(f) = Total(Restrict(f, T)) + Total(Restrict(f, S \ T))
<1> DEFINE P == {U \in SUBSET S :
                   Total(Restrict(f, U)) = Total(Restrict(f, U \cap T)) + Total(Restrict(f, U \ T))}
<1>0. P \in SUBSET (SUBSET S)  OBVIOUS
<1>1. {} \in P
  <2>1. Total(Restrict(f, {})) = 0  BY TotalOfNone DEF Restrict
  <2>2. {} \cap T = {} /\ {} \ T = {}  OBVIOUS
  <2> QED  BY <2>1, <2>2
<1>2. ASSUME NEW U \in P, NEW x \in S, x \notin U PROVE U \cup {x} \in P
  <2> DEFINE In == U \cap T
             Out == U \ T
  <2>1. In \in SUBSET S /\ Out \in SUBSET S /\ x \notin In /\ x \notin Out  BY <1>2
  <2>2. /\ Total(Restrict(f, U \cup {x})) = Total(Restrict(f, U)) + f[x]
        /\ Total(Restrict(f, In \cup {x})) = Total(Restrict(f, In)) + f[x]
        /\ Total(Restrict(f, Out \cup {x})) = Total(Restrict(f, Out)) + f[x]
    <3> HIDE DEF In, Out
    <3> QED  BY <1>2, <2>1, RestrictionAdded
  <2>3. Total(Restrict(f, In)) \in Int /\ Total(Restrict(f, Out)) \in Int
    <3> HIDE DEF In, Out
    <3> QED  BY <2>1, RestrictedInt
  <2>4. IF x \in T THEN (U \cup {x}) \cap T = In \cup {x} /\ (U \cup {x}) \ T = Out
                   ELSE (U \cup {x}) \cap T = In /\ (U \cup {x}) \ T = Out \cup {x}
    OBVIOUS
  <2>5. Total(Restrict(f, U)) = Total(Restrict(f, In)) + Total(Restrict(f, Out))  OBVIOUS
  <2>6. f[x] \in Int /\ U \cup {x} \in SUBSET S  OBVIOUS
  <2> DEFINE V == U \cup {x}
             Sum(R) == Total(Restrict(f, R))
  <2>7. Sum(V) = Sum(V \cap T) + Sum(V \ T)
    <3> HIDE DEF In, Out, V
    <3>1. CASE x \in T
      <4>1. V \cap T = In \cup {x} /\ V \ T = Out  BY <2>4, <3>1 DEF V
      <4>2. Sum(V) = Sum(U) + f[x] /\ Sum(In \cup {x}) = Sum(In) + f[x]  BY <2>2, <3>1 DEF V
      <4> HIDE DEF Sum
      <4>3. Sum(In) \in Int /\ Sum(Out) \in Int /\ Sum(U) = Sum(In) + Sum(Out)  BY <2>3, <2>5 DEF Sum
      <4>4. Sum(V \cap T) = Sum(In) + f[x] /\ Sum(V \ T) = Sum(Out)  BY <4>1, <4>2
      <4> QED  BY <2>6, <4>2, <4>3, <4>4
    <3>2. CASE x \notin T
      <4>1. V \cap T = In /\ V \ T = Out \cup {x}  BY <2>4, <3>2 DEF V
      <4>2. Sum(V) = Sum(U) + f[x] /\ Sum(Out \cup {x}) = Sum(Out) + f[x]  BY <2>2, <3>2 DEF V
      <4> HIDE DEF Sum
      <4>3. Sum(In) \in Int /\ Sum(Out) \in Int /\ Sum(U) = Sum(In) + Sum(Out)  BY <2>3, <2>5 DEF Sum
      <4>4. Sum(V \cap T) = Sum(In) /\ Sum(V \ T) = Sum(Out) + f[x]  BY <4>1, <4>2
      <4> QED  BY <2>6, <4>2, <4>3, <4>4
    <3> QED  BY <3>1, <3>2
  <2> QED  BY <2>6, <2>7
<1>3. S \in P
  <2> HIDE DEF P
  <2> QED  BY <1>0, <1>1, <1>2, SubsetInduction
<1>4. Restrict(f, S) = f /\ S \cap T = T  BY DEF Restrict
<1> QED  BY <1>3, <1>4

\* One term counts, the others are zero.
LEMMA TotalOfOne ==
  ASSUME NEW S, IsFiniteSet(S), NEW f \in [S -> Int], NEW x \in S, \A y \in S : y # x => f[y] = 0
  PROVE  Total(f) = f[x]
<1> DEFINE T == S \ {x}
           r == Restrict(f, T)
<1>1. T \in SUBSET S /\ x \notin T /\ T \cup {x} = S /\ IsFiniteSet(T)  BY FS_Subset
<1>2. r \in [T -> Int] /\ \A y \in T : r[y] = 0  BY DEF Restrict
<1>3. Restrict(f, S) = f  BY DEF Restrict
<1> HIDE DEF T
<1>4. Total(Restrict(f, T \cup {x})) = Total(r) + f[x]  BY <1>1, RestrictionAdded
<1> HIDE DEF r
<1>5. Total(r) = 0  BY <1>1, <1>2, TotalOfZeros
<1>6. f[x] \in Int  OBVIOUS
<1> QED  BY <1>1, <1>3, <1>4, <1>5, <1>6

\* Terms gathered by where p sends their index.
LEMMA TotalGrouped ==
  ASSUME NEW S, IsFiniteSet(S), NEW f \in [S -> Int], NEW D, IsFiniteSet(D), NEW p \in [S -> D]
  PROVE  Total(f) = Total([d \in D |-> Total(Restrict(f, {x \in S : p[x] = d}))])
<1> DEFINE Fibre(T, d) == {x \in T : p[x] = d}
           Grouped(T) == [d \in D |-> Total(Restrict(f, Fibre(T, d)))]
           P == {T \in SUBSET S : Total(Restrict(f, T)) = Total(Grouped(T))}
<1>0. P \in SUBSET (SUBSET S)  OBVIOUS
<1>1. {} \in P
  <2>1. Total(Restrict(f, {})) = 0  BY TotalOfNone DEF Restrict
  <2>2. \A d \in D : Fibre({}, d) = {}  OBVIOUS
  <2>3. Grouped({}) \in [D -> Int] /\ \A d \in D : Grouped({})[d] = 0
    <3> DEFINE t(d) == Total(Restrict(f, Fibre({}, d)))
    <3>1. \A d \in D : t(d) = 0
      <4> HIDE DEF Fibre
      <4> QED  BY <2>1, <2>2
    <3>2. Grouped({}) = [d \in D |-> t(d)]  OBVIOUS
    <3> HIDE DEF t, Grouped
    <3> QED  BY <3>1, <3>2
  <2> DEFINE g == Grouped({})
  <2> HIDE DEF Grouped
  <2>4. g \in [D -> Int] /\ \A d \in D : g[d] = 0  BY <2>3
  <2> HIDE DEF g
  <2>5. Total(g) = 0  BY <2>4, TotalOfZeros
  <2> QED  BY <2>1, <2>5 DEF g
<1>2. ASSUME NEW T \in P, NEW x \in S, x \notin T PROVE T \cup {x} \in P
  <2> DEFINE W == T \cup {x}
             c == p[x]
             unit == [d \in D |-> IF d = c THEN f[x] ELSE 0]
             g == Grouped(T)
             h == Grouped(W)
  <2>1. W \in SUBSET S /\ T \in SUBSET S /\ c \in D  BY <1>0
  <2>2. \A d \in D : /\ Fibre(T, d) \in SUBSET S /\ Fibre(W, d) \in SUBSET S
                     /\ x \notin Fibre(T, d)
                     /\ d # c => Fibre(W, d) = Fibre(T, d)
                     /\ d = c => Fibre(W, d) = Fibre(T, d) \cup {x}
    BY <1>2, <2>1
  <2>3. \A d \in D : g[d] \in Int /\ h[d] = g[d] + unit[d]
    <3> SUFFICES ASSUME NEW d \in D PROVE g[d] \in Int /\ h[d] = g[d] + unit[d]  OBVIOUS
    <3> DEFINE F == Fibre(T, d)
    <3>1. F \in SUBSET S /\ x \notin F  BY <2>2
    <3>2. Total(Restrict(f, F)) \in Int
      <4> HIDE DEF F
      <4> QED  BY <3>1, RestrictedInt
    <3>3. Total(Restrict(f, F \cup {x})) = Total(Restrict(f, F)) + f[x]
      <4> HIDE DEF F
      <4> QED  BY <3>1, RestrictionAdded
    <3>4. Fibre(W, d) = IF d = c THEN F \cup {x} ELSE F  BY <2>2
    <3>5. g[d] = Total(Restrict(f, F)) /\ h[d] = Total(Restrict(f, Fibre(W, d)))  OBVIOUS
    <3> HIDE DEF F, g, h, Fibre
    <3>6. CASE d = c  BY <3>2, <3>3, <3>4, <3>5, <3>6
    <3>7. CASE d # c  BY <3>2, <3>4, <3>5, <3>7
    <3> QED  BY <3>6, <3>7
  <2>4. unit \in [D -> Int] /\ unit[c] = f[x] /\ \A d \in D : d # c => unit[d] = 0  BY <2>1
  <2>5. f[x] \in Int  OBVIOUS
  <2>6. g = [d \in D |-> g[d]] /\ h = [d \in D |-> h[d]]  OBVIOUS
  <2> HIDE DEF unit, c, g, h, Fibre
  <2>7. g \in [D -> Int] /\ h \in [D -> Int]  BY <2>3, <2>4, <2>6
  <2>8. Total(unit) = f[x]  BY <2>1, <2>4, TotalOfOne
  <2>9. Total(h) = Total(g) + Total(unit)  BY <2>3, <2>4, <2>7, TotalOfSum
  <2>10. Total(Restrict(f, W)) = Total(Restrict(f, T)) + f[x]
    BY <1>2, <2>1, RestrictionAdded
  <2>11. Total(Restrict(f, T)) = Total(g)  BY DEF g
  <2>12. Total(Restrict(f, W)) = Total(h)  BY <2>8, <2>9, <2>10, <2>11
  <2> QED  BY <2>1, <2>12 DEF h
<1>3. S \in P
  <2> HIDE DEF P
  <2> QED  BY <1>0, <1>1, <1>2, SubsetInduction
<1>4. Restrict(f, S) = f  BY DEF Restrict
<1> QED  BY <1>3, <1>4

\* No index, one, or two.
LEMMA TotalOfFew ==
  ASSUME NEW S, IsFiniteSet(S), NEW f \in [S -> Int]
  PROVE  /\ Total(Restrict(f, {})) = 0
         /\ \A x \in S : Total(Restrict(f, {x})) = f[x]
         /\ \A x, y \in S : x # y => Total(Restrict(f, {x, y})) = f[x] + f[y]
<1>1. Total(Restrict(f, {})) = 0
  BY TotalOfNone DEF Restrict
<1>2. ASSUME NEW x \in S PROVE Total(Restrict(f, {x})) = f[x]
  <2>1. {} \in SUBSET S /\ x \notin {} /\ {} \cup {x} = {x}  OBVIOUS
  <2>2. Total(Restrict(f, {} \cup {x})) = Total(Restrict(f, {})) + f[x]
    BY <2>1, RestrictionAdded
  <2>3. f[x] \in Int  OBVIOUS
  <2> QED  BY <1>1, <2>1, <2>2, <2>3
<1>3. ASSUME NEW x \in S, NEW y \in S, x # y
      PROVE  Total(Restrict(f, {x, y})) = f[x] + f[y]
  <2>1. {x} \in SUBSET S /\ y \notin {x} /\ {x} \cup {y} = {x, y}  BY <1>3
  <2>2. Total(Restrict(f, {x} \cup {y})) = Total(Restrict(f, {x})) + f[y]
    BY <2>1, RestrictionAdded
  <2> QED  BY <1>2, <2>1, <2>2
<1> QED  BY <1>1, <1>2, <1>3

\* The terms that are zero do not count.
LEMMA TotalOfOthers ==
  ASSUME NEW S, IsFiniteSet(S), NEW f \in [S -> Int], NEW T \in SUBSET S,
         \A x \in S \ T : f[x] = 0
  PROVE  Total(f) = Total(Restrict(f, T))
<1> DEFINE U == S \ T
           r == Restrict(f, U)
<1>1. U \in SUBSET S /\ IsFiniteSet(U) /\ \A x \in U : f[x] = 0  BY FS_Subset
<1>2. r \in [U -> Int] /\ \A x \in U : r[x] = 0  BY <1>1 DEF Restrict
<1>3. Total(f) = Total(Restrict(f, T)) + Total(r)  BY TotalSplit
<1>4. Total(Restrict(f, T)) \in Int  BY RestrictedInt
<1> HIDE DEF U, r
<1>5. Total(r) = 0  BY <1>1, <1>2, TotalOfZeros
<1> QED  BY <1>3, <1>4, <1>5

\* h maps U one to one onto T.
Pairs(h, U, T) ==
  /\ \A x \in U : h[x] \in T
  /\ \A y \in T : \E x \in U : y = h[x]
  /\ \A x, y \in U : h[x] = h[y] => x = y

\* The values a one-to-one map gathers add up as their indices do; an index it
\* leaves out counts for nothing.
LEMMA TotalOfImage ==
  ASSUME NEW S, IsFiniteSet(S), NEW f \in [S -> Int], NEW U \in SUBSET S,
         \A x \in S \ U : f[x] = 0,
         NEW h, NEW T, Pairs(h, U, T),
         NEW e \in [T -> Int], \A x \in U : e[h[x]] = f[x]
  PROVE  IsFiniteSet(T) /\ Total(e) = Total(f)
<1> DEFINE Image(V) == {h[x] : x \in V}
           P == {V \in SUBSET U : Total(Restrict(e, Image(V))) = Total(Restrict(f, V))}
<1>0. /\ \A x \in U : h[x] \in T
      /\ \A y \in T : \E x \in U : y = h[x]
      /\ \A x, y \in U : h[x] = h[y] => x = y
  BY DEF Pairs
<1>1. IsFiniteSet(U) /\ Image(U) = T /\ \A V \in SUBSET U : Image(V) \in SUBSET T
  BY <1>0, FS_Subset
<1>2. IsFiniteSet(T)
  <2> DEFINE g == [x \in U |-> h[x]]
  <2>1. g \in Surjection(U, T)  BY <1>0 DEF Surjection
  <2> HIDE DEF g
  <2> QED  BY <1>1, <2>1, FS_Surjection
<1>3. P \in SUBSET (SUBSET U)  OBVIOUS
<1>4. {} \in P
  <2>1. Total(Restrict(e, {})) = 0 /\ Total(Restrict(f, {})) = 0
    BY TotalOfNone DEF Restrict
  <2>2. Image({}) = {}  OBVIOUS
  <2> HIDE DEF Image
  <2> QED  BY <2>1, <2>2
<1>5. ASSUME NEW V \in P, NEW x \in U, x \notin V PROVE V \cup {x} \in P
  <2> DEFINE I == Image(V)
             y == h[x]
  <2>1. y \in T /\ I \in SUBSET T /\ y \notin I /\ Image(V \cup {x}) = I \cup {y}
    BY <1>0, <1>5
  <2>2. e[y] = f[x] /\ V \in SUBSET S /\ x \in S /\ V \cup {x} \in SUBSET U  BY <1>3
  <2>3. Total(Restrict(e, I)) = Total(Restrict(f, V))  OBVIOUS
  <2> HIDE DEF I, y, Image
  <2>4. Total(Restrict(e, I \cup {y})) = Total(Restrict(e, I)) + e[y]
    BY <1>2, <2>1, RestrictionAdded
  <2>5. Total(Restrict(f, V \cup {x})) = Total(Restrict(f, V)) + f[x]
    BY <1>5, <2>2, RestrictionAdded
  <2> QED  BY <2>1, <2>2, <2>3, <2>4, <2>5
<1>6. U \in P
  <2> HIDE DEF P
  <2> QED  BY <1>1, <1>3, <1>4, <1>5, SubsetInduction
<1>7. Total(Restrict(e, T)) = Total(Restrict(f, U))
  <2>1. Total(Restrict(e, Image(U))) = Total(Restrict(f, U))  BY <1>6
  <2> HIDE DEF Image
  <2> QED  BY <1>1, <2>1
<1>8. Restrict(e, T) = e  BY DEF Restrict
<1>9. Total(f) = Total(Restrict(f, U))
  <2> HIDE DEF P, Image
  <2> QED  BY TotalOfOthers
<1> QED  BY <1>2, <1>7, <1>8, <1>9

\* The terms of two sets that share no index.
LEMMA TotalOfUnion ==
  ASSUME NEW S, IsFiniteSet(S), NEW T, IsFiniteSet(T), S \cap T = {},
         NEW f \in [S -> Int], NEW g \in [T -> Int], NEW e, DOMAIN e = S \cup T,
         e = [x \in DOMAIN e |-> e[x]],
         \A x \in S : e[x] = f[x], \A x \in T : e[x] = g[x]
  PROVE  e \in [S \cup T -> Int] /\ Total(e) = Total(f) + Total(g)
<1> DEFINE W == S \cup T
<1>1. IsFiniteSet(W) /\ S \in SUBSET W /\ W \ S = T  BY FS_Union
<1>2. Restrict(e, S) = f /\ Restrict(e, T) = g /\ e \in [W -> Int]  BY DEF Restrict
<1> HIDE DEF W
<1>3. Total(e) = Total(Restrict(e, S)) + Total(Restrict(e, W \ S))
  BY <1>1, <1>2, TotalSplit
<1> QED  BY <1>1, <1>2, <1>3 DEF W

-----------------------------------------------------------------------------
(* Induction on the length of a replay, and orders on finite sets.           *)

\* What holds of 0, and of a successor when it holds of a number below n, holds up to n.
LEMMA UpTo ==
  ASSUME NEW n \in Nat, NEW P, 0 \in P, \A k \in 0 .. (n - 1) : k \in P => k + 1 \in P
  PROVE  \A k \in 0 .. n : k \in P
<1> SUFFICES ASSUME NEW k \in 0 .. n, k \notin P PROVE FALSE  OBVIOUS
<1> DEFINE S == 0 .. k
           Q == {T \in SUBSET S : \A m \in 0 .. k : T = 0 .. m => m \in P}
<1>1. IsFiniteSet(S) /\ S \notin Q /\ Q \in SUBSET (SUBSET S)  BY FS_Interval
<1>2. PICK T \in SUBSET S : T \notin Q /\ \A U \in SUBSET T : U # T => U \in Q
  <2> HIDE DEF S, Q
  <2> QED  BY <1>1, SmallestMissing
<1>3. PICK m \in 0 .. k : T = 0 .. m /\ m \notin P  BY <1>2
<1>4. m # 0  BY <1>3
<1> DEFINE U == 0 .. (m - 1)
<1>5. U \in SUBSET T /\ U # T
  <2>1. m \in T /\ m \notin U  BY <1>3
  <2>2. \A i \in U : i \in T  BY <1>3, <1>4
  <2> QED  BY <2>1, <2>2
<1>6. m - 1 \in P
  <2>1. U \in Q  BY <1>2, <1>5
  <2>2. m - 1 \in 0 .. k  BY <1>4
  <2> QED  BY <2>1, <2>2
<1>7. m - 1 \in 0 .. (n - 1) /\ (m - 1) + 1 = m  BY <1>4
<1> QED  BY <1>3, <1>6, <1>7

\* An order that relates any two elements of a set one way.
TotallyOrders(R, S) ==
  /\ \A x \in S : <<x, x>> \notin R
  /\ \A x, y, z \in S : <<x, y>> \in R /\ <<y, z>> \in R => <<x, z>> \in R
  /\ \A x, y \in S : x = y \/ <<x, y>> \in R \/ <<y, x>> \in R

\* A finite set has a last element.
LEMMA LastOne ==
  ASSUME NEW S, IsFiniteSet(S), S # {}, NEW R, TotallyOrders(R, S)
  PROVE  \E x \in S : \A y \in S : y # x => <<y, x>> \in R
<1> DEFINE P == {T \in SUBSET S : T = {} \/ \E x \in T : \A y \in T : y # x => <<y, x>> \in R}
<1>1. P \in SUBSET (SUBSET S) /\ {} \in P  OBVIOUS
<1>2. ASSUME NEW T \in P, NEW x \in S, x \notin T PROVE T \cup {x} \in P
  <2>1. CASE T = {}  BY <2>1
  <2>2. CASE T # {}
    <3>1. PICK last \in T : \A y \in T : y # last => <<y, last>> \in R  BY <2>2
    <3>2. CASE <<last, x>> \in R
      <4>1. \A y \in T \cup {x} : y # x => <<y, x>> \in R
        BY <3>1, <3>2 DEF TotallyOrders
      <4> QED  BY <4>1
    <3>3. CASE <<x, last>> \in R
      <4>1. \A y \in T \cup {x} : y # last => <<y, last>> \in R  BY <3>1, <3>3
      <4> QED  BY <4>1
    <3> QED  BY <1>2, <3>2, <3>3 DEF TotallyOrders
  <2> QED  BY <2>1, <2>2
<1>3. S \in P
  <2> HIDE DEF P
  <2> QED  BY <1>1, <1>2, SubsetInduction
<1> QED  BY <1>3

\* Counting what comes before numbers the elements of a finite set in order.
LEMMA PlacesInOrder ==
  ASSUME NEW S, IsFiniteSet(S), NEW R, TotallyOrders(R, S), NEW place,
         \A x \in S : place[x] = 1 + Cardinality({y \in S : <<y, x>> \in R})
  PROVE  /\ \A x \in S : place[x] \in 1 .. Cardinality(S)
         /\ \A x, y \in S : place[x] = place[y] => x = y
         /\ \A x, y \in S : <<x, y>> \in R <=> place[x] < place[y]
         /\ \A n \in 1 .. Cardinality(S) : \E x \in S : place[x] = n
<1> DEFINE before(x) == {y \in S : <<y, x>> \in R}
           N == Cardinality(S)
<1>1. \A x \in S : before(x) \in SUBSET S /\ before(x) # S /\ place[x] = 1 + Cardinality(before(x))
  BY DEF TotallyOrders
<1>2. \A x, y \in S : <<x, y>> \in R =>
        before(x) \in SUBSET before(y) /\ before(x) # before(y)
  BY DEF TotallyOrders
<1> HIDE DEF before
<1>3. N \in Nat /\ \A x \in S : IsFiniteSet(before(x)) /\ Cardinality(before(x)) \in Nat
  BY <1>1, FS_Subset, FS_CardinalityType
<1>4. \A x \in S : place[x] \in 1 .. N
  <2> SUFFICES ASSUME NEW x \in S PROVE place[x] \in 1 .. N  OBVIOUS
  <2>1. Cardinality(before(x)) <= N /\ Cardinality(before(x)) # N  BY <1>1, FS_Subset
  <2> QED  BY <1>1, <1>3, <2>1
<1>5. \A x, y \in S : <<x, y>> \in R => place[x] < place[y]
  <2> SUFFICES ASSUME NEW x \in S, NEW y \in S, <<x, y>> \in R PROVE place[x] < place[y]
    OBVIOUS
  <2>1. Cardinality(before(x)) <= Cardinality(before(y))
        /\ Cardinality(before(x)) # Cardinality(before(y))
    BY <1>2, <1>3, FS_Subset
  <2> QED  BY <1>1, <1>3, <2>1
<1>6. \A x, y \in S : x = y \/ place[x] < place[y] \/ place[y] < place[x]
  BY <1>5 DEF TotallyOrders
<1>7. \A x, y \in S : place[x] = place[y] => x = y
  BY <1>3, <1>4, <1>6
<1>8. \A x, y \in S : place[x] < place[y] => <<x, y>> \in R
  <2> SUFFICES ASSUME NEW x \in S, NEW y \in S, place[x] < place[y] PROVE <<x, y>> \in R
    OBVIOUS
  <2>1. place[x] \in Int /\ place[y] \in Int  BY <1>3, <1>4
  <2>2. x # y /\ <<y, x>> \notin R  BY <1>5, <2>1
  <2> QED  BY <2>2 DEF TotallyOrders
<1>9. \A n \in 1 .. N : \E x \in S : place[x] = n
  <2> DEFINE p == [x \in S |-> place[x]]
  <2>0. p \in [S -> 1 .. N] /\ \A x, y \in S : p[x] = p[y] => x = y  BY <1>4, <1>7
  <2>1. p \in Injection(S, 1 .. N)
    <3> HIDE DEF p
    <3> QED  BY <2>0 DEF Injection, IsInjective
  <2>2. IsFiniteSet(1 .. N) /\ Cardinality(1 .. N) = N  BY <1>3, FS_Interval
  <2>3. p \in Surjection(S, 1 .. N)
    <3> HIDE DEF p
    <3> QED  BY <2>1, <2>2, FS_Injection
  <2>4. \A n \in 1 .. N : \E x \in S : p[x] = n  BY <2>3 DEF Surjection
  <2> QED  BY <2>4
<1> QED  BY <1>4, <1>5, <1>7, <1>8, <1>9

\* How many come before an element, itself included.
Rank(x, S, R) == 1 + Cardinality({y \in S : <<y, x>> \in R})

\* A sequence that lists a set in order.
Lists(s, S, R) ==
  /\ s \in Seq(S)
  /\ \A x \in S : \A k \in DOMAIN s : s[k] = x <=> Rank(x, S, R) = k
  /\ \A x \in S : \E k \in DOMAIN s : x = s[k]
  /\ \A j, k \in DOMAIN s : s[j] = s[k] => j = k
  /\ \A j, k \in DOMAIN s : <<s[j], s[k]>> \in R <=> j < k

\* A function on 1 .. n is a sequence.
LEMMA SequenceOf ==
  ASSUME NEW S, NEW n \in Nat, NEW s \in [1 .. n -> S]
  PROVE  s \in Seq(S)
OBVIOUS

\* The elements with their places.
Ranked(places, S, R) == places = {<<Rank(x, S, R), x>> : x \in S}

\* A sequence that has each element at its place.
Placed(s, S, places) ==
  s = [k \in 1 .. Cardinality(S) |-> (CHOOSE p \in places : p[1] = k)[2]]

\* What InOrder makes of a set lists it in order.
LEMMA Listed ==
  ASSUME NEW S, IsFiniteSet(S), NEW R, TotallyOrders(R, S),
         NEW places, Ranked(places, S, R), NEW s, Placed(s, S, places)
  PROVE  Lists(s, S, R) /\ Cardinality(S) \in Nat /\ DOMAIN s = 1 .. Cardinality(S)
<1> DEFINE N == Cardinality(S)
           place == [x \in S |-> Rank(x, S, R)]
           at(k) == CHOOSE p \in places : p[1] = k
<1>1. \A x \in S : place[x] = 1 + Cardinality({y \in S : <<y, x>> \in R})  BY DEF Rank
<1>2. \A x \in S : place[x] = Rank(x, S, R)  OBVIOUS
<1>0. places = {<<Rank(x, S, R), x>> : x \in S}  BY DEF Ranked
<1> HIDE DEF place
<1>3. /\ \A x \in S : place[x] \in 1 .. N
      /\ \A x, y \in S : place[x] = place[y] => x = y
      /\ \A x, y \in S : <<x, y>> \in R <=> place[x] < place[y]
      /\ \A n \in 1 .. N : \E x \in S : place[x] = n
  BY <1>1, PlacesInOrder
<1>4. N \in Nat  BY FS_CardinalityType
<1> HIDE DEF N
<1>5. \A k \in 1 .. N : at(k)[2] \in S /\ place[at(k)[2]] = k
  <2> SUFFICES ASSUME NEW k \in 1 .. N PROVE at(k)[2] \in S /\ place[at(k)[2]] = k
    OBVIOUS
  <2>1. PICK x \in S : place[x] = k  BY <1>3
  <2>2. <<place[x], x>> \in places  BY <1>0, <1>2
  <2>3. \E p \in places : p[1] = k  BY <2>1, <2>2
  <2>4. at(k) \in places /\ at(k)[1] = k  BY <2>3
  <2>5. PICK y \in S : at(k) = <<place[y], y>>
    <3> HIDE DEF at
    <3> QED  BY <1>0, <1>2, <2>4
  <2> HIDE DEF at
  <2> QED  BY <2>4, <2>5
<1>6. s = [k \in 1 .. N |-> at(k)[2]]  BY DEF N, Placed
<1> HIDE DEF at
<1>7. s \in Seq(S) /\ DOMAIN s = 1 .. N /\ \A k \in 1 .. N : s[k] \in S /\ place[s[k]] = k
  <2>1. DOMAIN s = 1 .. N /\ \A k \in 1 .. N : s[k] = at(k)[2]  BY <1>6
  <2>2. \A k \in 1 .. N : s[k] \in S /\ place[s[k]] = k  BY <1>5, <2>1
  <2>3. s = [k \in 1 .. N |-> s[k]]  BY <1>6, <2>1
  <2>4. s \in [1 .. N -> S]  BY <2>2, <2>3
  <2>5. s \in Seq(S)  BY <1>4, <2>4, SequenceOf
  <2> QED  BY <2>1, <2>2, <2>5
<1>8. \A x \in S : \A k \in 1 .. N : s[k] = x <=> place[x] = k
  <2> SUFFICES ASSUME NEW x \in S, NEW k \in 1 .. N PROVE s[k] = x <=> place[x] = k  OBVIOUS
  <2>1. s[k] \in S /\ place[s[k]] = k  BY <1>7
  <2> QED  BY <1>3, <2>1
<1>9. \A x \in S : \E k \in 1 .. N : x = s[k]
  <2> SUFFICES ASSUME NEW x \in S PROVE \E k \in 1 .. N : x = s[k]  OBVIOUS
  <2>1. PICK k \in 1 .. N : place[x] = k  BY <1>3
  <2> QED  BY <1>8, <2>1
<1>10. \A j, k \in 1 .. N : s[j] = s[k] => j = k  BY <1>7
<1>11. \A j, k \in 1 .. N : <<s[j], s[k]>> \in R <=> j < k
  <2> SUFFICES ASSUME NEW j \in 1 .. N, NEW k \in 1 .. N
               PROVE  <<s[j], s[k]>> \in R <=> j < k
    OBVIOUS
  <2> DEFINE x == s[j]
             y == s[k]
  <2>1. x \in S /\ y \in S /\ place[x] = j /\ place[y] = k  BY <1>7
  <2> HIDE DEF x, y
  <2>2. <<x, y>> \in R <=> place[x] < place[y]  BY <1>3, <2>1
  <2> QED  BY <2>1, <2>2 DEF x, y
<1>12. \A x \in S : \A k \in 1 .. N : s[k] = x <=> Rank(x, S, R) = k  BY <1>2, <1>8
<1>13. Lists(s, S, R)
  <2> DEFINE D == 1 .. N
  <2>1. s \in Seq(S) /\ DOMAIN s = D  BY <1>7
  <2>2. /\ \A x \in S : \A k \in D : s[k] = x <=> Rank(x, S, R) = k
        /\ \A x \in S : \E k \in D : x = s[k]
        /\ \A j, k \in D : s[j] = s[k] => j = k
        /\ \A j, k \in D : <<s[j], s[k]>> \in R <=> j < k
    BY <1>9, <1>10, <1>11, <1>12
  <2> HIDE DEF D
  <2>3. /\ \A x \in S : \A k \in DOMAIN s : s[k] = x <=> Rank(x, S, R) = k
        /\ \A x \in S : \E k \in DOMAIN s : x = s[k]
        /\ \A j, k \in DOMAIN s : s[j] = s[k] => j = k
        /\ \A j, k \in DOMAIN s : <<s[j], s[k]>> \in R <=> j < k
    BY <2>1, <2>2
  <2> QED  BY <2>1, <2>3 DEF Lists
<1> QED  BY <1>4, <1>7, <1>13 DEF N

\* The pairs of numbers the first of which is the smaller.
Lesser(S) == {p \in S \X S : p[1] < p[2]}

\* Numbers in ascending order.
LEMMA NumbersListed ==
  ASSUME NEW S \in SUBSET Nat, IsFiniteSet(S),
         NEW places, places = {<<1 + Cardinality({y \in S : y < x}), x>> : x \in S},
         NEW s, Placed(s, S, places)
  PROVE  Lists(s, S, Lesser(S)) /\ Cardinality(S) \in Nat /\ DOMAIN s = 1 .. Cardinality(S)
<1> DEFINE R == Lesser(S)
           before(x) == {y \in S : y < x}
<1>3. \A x, y \in S : <<x, y>> \in R <=> x < y  BY DEF Lesser
<1>4. \A x \in S : before(x) = {y \in S : <<y, x>> \in R}  BY <1>3
<1> HIDE DEF R, before
<1>5. TotallyOrders(R, S)
  <2>1. \A x, y \in S : x \in Int /\ y \in Int  OBVIOUS
  <2> QED  BY <1>3, <2>1 DEF TotallyOrders
<1>6. \A x \in S : 1 + Cardinality(before(x)) = Rank(x, S, R)  BY <1>4 DEF Rank
<1>7. places = {<<1 + Cardinality(before(x)), x>> : x \in S}  BY DEF before
<1>8. places = {<<Rank(x, S, R), x>> : x \in S}  BY <1>6, <1>7
<1>9. Ranked(places, S, R)  BY <1>8 DEF Ranked
<1>10. Lists(s, S, R) /\ Cardinality(S) \in Nat /\ DOMAIN s = 1 .. Cardinality(S)
  BY <1>5, <1>9, Listed
<1> QED  BY <1>10 DEF R

\* A nonempty set of numbers has a least element, the one with the smallest set of
\* smaller numbers.
LEMMA LeastNumber ==
  ASSUME NEW S \in SUBSET Nat, S # {}
  PROVE  \E x \in S : \A y \in S : x <= y
<1> DEFINE T == {0 .. x : x \in S}
<1>1. ASSUME NEW x \in S PROVE 0 .. x \in FiniteSubsetsOf(Nat)
  <2>1. IsFiniteSet(0 .. x)  BY FS_Interval
  <2> QED  BY <2>1 DEF FiniteSubsetsOf
<1>2. T \subseteq FiniteSubsetsOf(Nat) /\ T # {}
  BY <1>1
<1>3. PICK m \in T : \A n \in T : <<n, m>> \notin StrictSubsetOrdering(Nat)
  <2> HIDE DEF T
  <2> QED  BY <1>2, FS_StrictSubsetOrderingWellFounded, WFMin
<1>4. PICK x \in S : m = 0 .. x
  BY <1>3
<1>5. ASSUME NEW y \in S, y < x PROVE FALSE
  <2>1. 0 .. y \in T /\ 0 .. y \in SUBSET Nat /\ 0 .. x \in SUBSET Nat  OBVIOUS
  <2>2. 0 .. y \subseteq 0 .. x  BY <1>5
  <2>3. x \in 0 .. x /\ x \notin 0 .. y  BY <1>5
  <2>4. <<0 .. y, m>> \in StrictSubsetOrdering(Nat)
    BY <1>4, <2>1, <2>2, <2>3 DEF StrictSubsetOrdering
  <2> QED  BY <1>3, <2>1, <2>4
<1>6. \A y \in S : x <= y  BY <1>5
<1> QED  BY <1>4, <1>6
=============================================================================
