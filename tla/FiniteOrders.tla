---------------------------- MODULE FiniteOrders ----------------------------
(***************************************************************************)
(* Finite ordered sets: ranks, least elements, and the largest of finitely *)
(* many integers.  The proofs about positions rest on these lemmas.        *)
(***************************************************************************)
EXTENDS Integers, FiniteSetTheorems, TLAPS

(***************************************************************************)
(* Ranks in a finite, strictly and totally ordered set.                    *)
(***************************************************************************)
StrictOrder(S, R) ==
    /\ \A x \in S : <<x, x>> \notin R
    /\ \A x, y, z \in S : <<x, y>> \in R /\ <<y, z>> \in R => <<x, z>> \in R
    /\ \A x, y \in S : x # y => <<x, y>> \in R \/ <<y, x>> \in R

DownSet(S, R, x) == {y \in S : y = x \/ <<y, x>> \in R}

\* A proper subset of a finite set has fewer elements.
LEMMA FewerElements ==
    ASSUME NEW S, IsFiniteSet(S), NEW T \in SUBSET S, NEW x \in S, x \notin T
    PROVE  /\ IsFiniteSet(T)
           /\ Cardinality(T) \in Nat
           /\ Cardinality(S) \in Nat
           /\ Cardinality(T) < Cardinality(S)
<1>1. /\ IsFiniteSet(T)
      /\ Cardinality(T) <= Cardinality(S)
      /\ Cardinality(S) = Cardinality(T) => S = T
    BY FS_Subset
<1>2. Cardinality(S) \in Nat /\ Cardinality(T) \in Nat
    BY <1>1, FS_CardinalityType
<1>. QED  BY <1>1, <1>2

\* The number of elements up to x is a rank: it lies in 1 .. Cardinality(S) and
\* grows along the order.
LEMMA RankLemma ==
    ASSUME NEW S, NEW R, IsFiniteSet(S), StrictOrder(S, R)
    PROVE  /\ \A x \in S : Cardinality(DownSet(S, R, x)) \in 1 .. Cardinality(S)
           /\ \A x, y \in S : <<x, y>> \in R =>
                Cardinality(DownSet(S, R, x)) < Cardinality(DownSet(S, R, y))
<1>1. ASSUME NEW x \in S
      PROVE  Cardinality(DownSet(S, R, x)) \in 1 .. Cardinality(S)
    <2>1. DownSet(S, R, x) \in SUBSET S /\ x \in DownSet(S, R, x)
        BY DEF DownSet
    <2>2. /\ IsFiniteSet(DownSet(S, R, x))
          /\ Cardinality(DownSet(S, R, x)) <= Cardinality(S)
        BY <2>1, FS_Subset
    <2>3. Cardinality(DownSet(S, R, x)) # 0
        BY <2>1, <2>2, FS_EmptySet
    <2>4. Cardinality(DownSet(S, R, x)) \in Nat /\ Cardinality(S) \in Nat
        BY <2>2, FS_CardinalityType
    <2>. QED  BY <2>2, <2>3, <2>4
<1>2. ASSUME NEW x \in S, NEW y \in S, <<x, y>> \in R
      PROVE  Cardinality(DownSet(S, R, x)) < Cardinality(DownSet(S, R, y))
    <2>1. DownSet(S, R, y) \in SUBSET S
        BY DEF DownSet
    <2>2. IsFiniteSet(DownSet(S, R, y))
        BY <2>1, FS_Subset
    <2>3. DownSet(S, R, x) \in SUBSET DownSet(S, R, y)
        BY <1>2 DEF DownSet, StrictOrder
    <2>4. y \in DownSet(S, R, y) /\ y \notin DownSet(S, R, x)
        BY <1>2 DEF DownSet, StrictOrder
    <2>. QED  BY <2>2, <2>3, <2>4, FewerElements
<1>. QED  BY <1>1, <1>2

\* A non-empty finite ordered set has a least element: were every element
\* above another one, the ranks would all lie above 1 and two would be equal.
LEMMA LeastElement ==
    ASSUME NEW S, NEW R, IsFiniteSet(S), StrictOrder(S, R), S # {}
    PROVE  \E x \in S : \A y \in S : y = x \/ <<x, y>> \in R
<1>. DEFINE rank == [x \in S |-> Cardinality(DownSet(S, R, x))]
            n == Cardinality(S)
<1>1. n \in Nat
    BY FS_CardinalityType
<1>2. SUFFICES ASSUME \A x \in S : \E y \in S : <<y, x>> \in R
               PROVE  FALSE
    BY DEF StrictOrder
<1>3. \A x \in S : rank[x] \in 1 .. n
    BY RankLemma
<1>4. \A x, y \in S : <<x, y>> \in R => rank[x] < rank[y]
    BY RankLemma
<1>5. n # 0
    BY FS_EmptySet
<1>. HIDE DEF n
<1>6. IsFiniteSet(2 .. n) /\ Cardinality(2 .. n) < n
    <2>1. IsFiniteSet(2 .. n) /\ Cardinality(2 .. n) = IF 2 > n THEN 0 ELSE n - 2 + 1
        BY <1>1, FS_Interval
    <2>. QED  BY <1>1, <1>5, <2>1
<1>. HIDE DEF rank
<1>7. \A x \in S : rank[x] \in 2 .. n
    <2>1. SUFFICES ASSUME NEW x \in S
                   PROVE  rank[x] \in 2 .. n
        OBVIOUS
    <2>2. PICK y \in S : <<y, x>> \in R
        BY <1>2
    <2>. QED  BY <1>1, <1>3, <1>4, <2>2
<1>8. rank \in [S -> 2 .. n]
    BY <1>7 DEF rank
<1>9. PICK x \in S, y \in S : x # y /\ rank[x] = rank[y]
    BY <1>6, <1>8, FS_PigeonHole DEF n
<1>10. <<x, y>> \in R \/ <<y, x>> \in R
    BY <1>9 DEF StrictOrder
<1>. QED  BY <1>3, <1>4, <1>9, <1>10

\* Every non-empty set of naturals has a least element.
LEMMA LeastNatural ==
    ASSUME NEW S \in SUBSET Nat, S # {}
    PROVE  \E x \in S : \A y \in S : x <= y
<1>1. PICK a \in S : TRUE
    OBVIOUS
<1>. DEFINE T == S \cap (0 .. a)
            R == {p \in T \X T : p[1] < p[2]}
<1>2. a \in Nat /\ a \in T /\ T \in SUBSET Nat /\ T \in SUBSET (0 .. a)
    BY <1>1
<1>3. \A x \in S \ T : a <= x
    BY <1>2
<1>. HIDE DEF T
<1>4. IsFiniteSet(T)
    <2>1. IsFiniteSet(0 .. a)
        BY <1>2, FS_Interval
    <2>. QED  BY <1>2, <2>1, FS_Subset
<1>5. \A x, y \in T : <<x, y>> \in R <=> x < y
    OBVIOUS
<1>. HIDE DEF R
<1>6. StrictOrder(T, R)
    <2>1. \A x, y, z \in T : x < y /\ y < z => x < z
        BY <1>2
    <2>2. \A x, y \in T : x # y => x < y \/ y < x
        BY <1>2
    <2>3. \A x \in T : ~ (x < x)
        BY <1>2
    <2>. QED  BY <1>5, <2>1, <2>2, <2>3 DEF StrictOrder
<1>7. PICK m \in T : \A y \in T : y = m \/ <<m, y>> \in R
    BY <1>2, <1>4, <1>6, LeastElement
<1>8. \A y \in T : m <= y
    <2>1. SUFFICES ASSUME NEW y \in T, y # m
                   PROVE  m <= y
        BY <1>2
    <2>2. <<m, y>> \in R
        BY <1>7, <2>1
    <2>3. m < y
        BY <1>5, <2>2
    <2>. QED  BY <1>2, <2>3
<1>9. m \in S
    BY DEF T
<1>10. \A y \in S : m <= y
    <2>1. m <= a
        BY <1>2, <1>8
    <2>2. SUFFICES ASSUME NEW y \in S
                   PROVE  m <= y
        OBVIOUS
    <2>3. CASE y \in T
        BY <1>8, <2>3
    <2>4. CASE y \notin T
        <3>1. a <= y
            BY <1>3, <2>4
        <3>. QED  BY <1>2, <2>1, <3>1
    <2>. QED  BY <2>3, <2>4
<1>. QED  BY <1>9, <1>10

\* A non-empty finite set of integers has a largest element.
LEMMA LargestInteger ==
    ASSUME NEW S \in SUBSET Int, IsFiniteSet(S), S # {}
    PROVE  \E x \in S : \A y \in S : y <= x
<1>. DEFINE R == {p \in S \X S : p[1] > p[2]}
<1>1. \A x, y \in S : <<x, y>> \in R <=> x > y
    OBVIOUS
<1>. HIDE DEF R
<1>2. StrictOrder(S, R)
    <2>1. \A x, y, z \in S : x > y /\ y > z => x > z
        OBVIOUS
    <2>2. \A x, y \in S : x # y => x > y \/ y > x
        OBVIOUS
    <2>3. \A x \in S : ~ (x > x)
        OBVIOUS
    <2>. QED  BY <1>1, <2>1, <2>2, <2>3 DEF StrictOrder
<1>3. PICK x \in S : \A y \in S : y = x \/ <<x, y>> \in R
    BY <1>2, LeastElement
<1>4. ASSUME NEW y \in S PROVE y <= x
    <2>1. y = x \/ x > y
        BY <1>1, <1>3
    <2>. QED  BY <2>1
<1>. QED  BY <1>4
=============================================================================
