----------------------------- MODULE OrderLemmas -----------------------------
(***************************************************************************)
(* Finite sets in order: what ORDER BY and sort.SliceStable put first      *)
(* exists, and so does the list they sort. Orders are sets of pairs, so    *)
(* that the lemmas can be cited for any of them.                           *)
(***************************************************************************)
EXTENDS Integers, FiniteSetTheorems, WellFoundedInduction, TLAPS

LEMMA LeastNatural ==
  ASSUME NEW S \in SUBSET Nat, S # {}
  PROVE  \E x \in S : \A y \in S : x <= y
<1> DEFINE R == OpToRel(<, Nat)
<1>1. R = {p \in Nat \X Nat : p[1] < p[2]}
  BY DEF OpToRel
<1>2. IsWellFoundedOn(R, Nat)
  BY NatLessThanWellFounded
<1> HIDE DEF R
<1>3. PICK x \in S : \A y \in S : ~ (<<y, x>> \in R)
  BY <1>2, WFMin
<1>4. ASSUME NEW y \in S PROVE x <= y
  <2>1. <<y, x>> \in Nat \X Nat /\ ~(<<y, x>> \in R)
    BY <1>3
  <2>2. ~(y < x)
    BY <1>1, <2>1
  <2> QED
    BY <2>2
<1> QED
  BY <1>4

\* A strict order R that is total on a finite set has a first element there.
LEMMA FirstOfFinite ==
  ASSUME NEW R, NEW S, IsFiniteSet(S), S # {},
         \A x, y \in S : x # y => <<x, y>> \in R \/ <<y, x>> \in R,
         \A x, y, z \in S : <<x, y>> \in R /\ <<y, z>> \in R => <<x, z>> \in R
  PROVE  \E x \in S : \A y \in S \ {x} : <<x, y>> \in R
<1> DEFINE HasFirst(T) == \E x \in T : \A y \in T \ {x} : <<x, y>> \in R
           Bad == {T \in SUBSET S : T # {} /\ ~HasFirst(T)}
           Sizes == {Cardinality(T) : T \in Bad}
<1>1. \A T \in SUBSET S : IsFiniteSet(T) /\ Cardinality(T) \in Nat
  BY FS_Subset, FS_CardinalityType
<1>2. ASSUME Bad # {} PROVE FALSE
  <2>1. Sizes \in SUBSET Nat /\ Sizes # {}
    BY <1>1, <1>2
  <2>2. PICK n \in Sizes : \A m \in Sizes : n <= m
    BY <2>1, LeastNatural
  <2>3. PICK T \in Bad : n = Cardinality(T)
    BY <2>2
  <2>4. PICK x \in T : TRUE
    BY <2>3
  <2> DEFINE U == T \ {x}
  <2>5. U \in SUBSET S /\ Cardinality(U) = n - 1
    <3>1. T \in SUBSET S /\ IsFiniteSet(T)
      BY <1>1, <2>3
    <3>2. Cardinality(T \ {x}) = Cardinality(T) - 1
      BY <2>4, <3>1, FS_RemoveElement
    <3> QED
      BY <2>3, <3>1, <3>2
  <2>6. n \in Nat
    BY <2>1, <2>2
  <2>7. U \notin Bad
    <3> SUFFICES ASSUME U \in Bad PROVE FALSE
      OBVIOUS
    <3>1. Cardinality(U) \in Sizes
      OBVIOUS
    <3>2. n <= Cardinality(U)
      BY <2>2, <3>1
    <3> HIDE DEF U
    <3> QED
      BY <2>5, <2>6, <3>2
  <2>8. CASE U = {}
    <3>1. \A y \in T \ {x} : <<x, y>> \in R
      BY <2>8
    <3> QED
      BY <2>3, <2>4, <3>1
  <2>9. CASE U # {}
    <3>1. PICK m \in U : \A y \in U \ {m} : <<m, y>> \in R
      BY <2>5, <2>7, <2>9
    <3>2. x \in S /\ m \in S /\ x # m /\ m \in T
      BY <2>3, <2>4, <3>1
    <3>3. CASE <<m, x>> \in R
      <4>1. \A y \in T \ {m} : <<m, y>> \in R
        BY <3>1, <3>3
      <4> QED
        BY <2>3, <3>2, <4>1
    <3>4. CASE <<x, m>> \in R
      <4>1. ASSUME NEW y \in T \ {x} PROVE <<x, y>> \in R
        <5>1. y \in S /\ y \in U
          BY <2>3, <4>1
        <5> QED
          BY <3>1, <3>2, <3>4, <5>1
      <4> QED
        BY <2>3, <2>4, <4>1
    <3> QED
      BY <3>2, <3>3, <3>4
  <2> QED
    BY <2>8, <2>9
<1>3. S \notin Bad
  BY <1>2
<1> QED
  BY <1>3

\* The elements of a finite set in a strict total order.
Sorted(R, S, s) ==
    /\ s \in [1..Cardinality(S) -> S]
    /\ \A i, j \in 1..Cardinality(S) : i < j => <<s[i], s[j]>> \in R

\* Each element is put behind those that precede it.
LEMMA SortingExists ==
  ASSUME NEW R, NEW S, IsFiniteSet(S),
         \A x \in S : <<x, x>> \notin R,
         \A x, y \in S : x # y => <<x, y>> \in R \/ <<y, x>> \in R,
         \A x, y, z \in S : <<x, y>> \in R /\ <<y, z>> \in R => <<x, z>> \in R
  PROVE  \E s : Sorted(R, S, s)
<1> DEFINE n == Cardinality(S)
           Earlier(x) == {y \in S : <<y, x>> \in R}
           rank == [x \in S |-> Cardinality(Earlier(x)) + 1]
<1>1. n \in Nat
  BY FS_CardinalityType
<1>2. \A x \in S : IsFiniteSet(Earlier(x)) /\ Cardinality(Earlier(x)) \in Nat
  BY FS_Subset, FS_CardinalityType
<1>3. ASSUME NEW x \in S PROVE rank[x] \in 1..n
  <2>1. IsFiniteSet(S \ {x}) /\ Cardinality(S \ {x}) = n - 1
    BY FS_RemoveElement
  <2>2. Earlier(x) \subseteq S \ {x}
    OBVIOUS
  <2> HIDE DEF Earlier
  <2>3. Cardinality(Earlier(x)) <= Cardinality(S \ {x})
    BY <2>1, <2>2, FS_Subset
  <2> QED
    BY <1>1, <1>2, <2>1, <2>3
<1>4. ASSUME NEW x \in S, NEW y \in S, <<x, y>> \in R PROVE rank[x] < rank[y]
  <2>1. Earlier(x) \cup {x} \subseteq Earlier(y) /\ x \notin Earlier(x)
    BY <1>4
  <2>2. Cardinality(Earlier(x) \cup {x}) = Cardinality(Earlier(x)) + 1
    BY <1>2, <2>1, FS_AddElement
  <2>3. Cardinality(Earlier(x) \cup {x}) <= Cardinality(Earlier(y))
    BY <1>2, <2>1, FS_Subset
  <2> HIDE DEF Earlier
  <2> QED
    BY <1>2, <2>2, <2>3
<1> HIDE DEF rank
<1>5. rank \in Surjection(S, 1..n)
  <2>1. rank \in [S -> 1..n]
    BY <1>3 DEF rank
  <2>2. ASSUME NEW x \in S, NEW y \in S, rank[x] = rank[y] PROVE x = y
    <3>1. rank[x] \in Int /\ ~(rank[x] < rank[y]) /\ ~(rank[y] < rank[x])
      BY <1>3, <2>2
    <3>2. <<x, y>> \notin R /\ <<y, x>> \notin R
      BY <1>4, <3>1
    <3> QED
      BY <3>2
  <2>3. rank \in Injection(S, 1..n)
    BY <2>1, <2>2 DEF Injection, IsInjective
  <2>4. IsFiniteSet(1..n) /\ Cardinality(1..n) = n
    BY <1>1, FS_Interval
  <2> QED
    BY <2>3, <2>4, FS_Injection
<1> DEFINE s == [i \in 1..n |-> CHOOSE x \in S : rank[x] = i]
<1>6. \A i \in 1..n : s[i] \in S /\ rank[s[i]] = i
  BY <1>5 DEF Surjection
<1>7. s \in [1..n -> S]
  BY <1>6
<1> HIDE DEF s
<1>8. ASSUME NEW i \in 1..n, NEW j \in 1..n, i < j PROVE <<s[i], s[j]>> \in R
  <2>1. s[i] \in S /\ s[j] \in S /\ rank[s[i]] = i /\ rank[s[j]] = j
    BY <1>6
  <2>2. ~(j < i) /\ i # j
    BY <1>1, <1>8
  <2>3. <<s[j], s[i]>> \notin R
    BY <1>4, <2>1, <2>2
  <2> QED
    BY <2>1, <2>2, <2>3
<1> QED
  BY <1>7, <1>8 DEF Sorted

\* A sorted sequence has every element, once.
LEMMA SortedCovers ==
  ASSUME NEW R, NEW S, NEW s, IsFiniteSet(S), Sorted(R, S, s),
         \A x \in S : <<x, x>> \notin R
  PROVE  Cardinality(S) \in Nat /\ s \in Surjection(1..Cardinality(S), S)
<1> DEFINE n == Cardinality(S)
<1>1. n \in Nat
  BY FS_CardinalityType
<1>2. IsFiniteSet(1..n) /\ Cardinality(1..n) = n
  BY <1>1, FS_Interval
<1>3. ASSUME NEW i \in 1..n, NEW j \in 1..n, s[i] = s[j] PROVE i = j
  <2>1. s[i] \in S /\ <<s[i], s[j]>> \notin R /\ <<s[j], s[i]>> \notin R
    BY <1>3 DEF Sorted
  <2>2. ~(i < j) /\ ~(j < i)
    BY <2>1 DEF Sorted
  <2> QED
    BY <2>2
<1>4. s \in Injection(1..n, S)
  BY <1>3 DEF Sorted, Injection, IsInjective
<1> QED
  BY <1>1, <1>2, <1>4, FS_Injection

=============================================================================
