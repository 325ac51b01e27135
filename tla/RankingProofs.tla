---------------------------- MODULE RankingProofs ----------------------------
(***************************************************************************)
(* Facts about the operators of TierTable, for every set of courses: which *)
(* of them keep a table well formed, and that renumbering a well-formed    *)
(* table leaves every tier numbered 1, 2, ... without ties.                *)
(*                                                                         *)
(* The invariants of Ranking, for every set of courses, rounds, requests   *)
(* and answers.  IInv is the inductive invariant: the typed rows, the      *)
(* snapshot they stage, and for every current rating the round it belongs  *)
(* to.                                                                     *)
(*                                                                         *)
(* Then the action properties, and the rating scale of RatingScale.        *)
(*                                                                         *)
(* Last that Ranking implements RankedLists: what each operation does to   *)
(* the lists that the rows stand for, and from it every request's step.    *)
(***************************************************************************)
EXTENDS Ranking, RatingScale, FiniteOrders

-----------------------------------------------------------------------------
(***************************************************************************)
(* Slots: the places of the rows of a set in their order.                  *)
(***************************************************************************)
DistinctAges(t, S) == \A c, d \in S : c # d => t[c].age # t[d].age

LEMMA SlotLemma ==
    ASSUME NEW t \in Table, NEW S \in SUBSET Course, DistinctAges(t, S)
    PROVE  /\ \A c \in S : Slot(t, S, c) \in 1 .. Cardinality(S)
           /\ \A c, d \in S : Before(t, c, d) => Slot(t, S, c) < Slot(t, S, d)
           /\ \A c, d \in S : c # d => Slot(t, S, c) # Slot(t, S, d)
<1>. DEFINE R == {p \in S \X S : Before(t, p[1], p[2])}
<1>1. IsFiniteSet(S)
    BY CourseFinite, FS_Subset
<1>2. \A c \in S : t[c].pos \in Nat /\ t[c].age \in Nat
    BY DEF Table, Row
<1>3. \A c, d \in S : <<c, d>> \in R <=> Before(t, c, d)
    OBVIOUS
<1>4. \A c, d \in S : c # d => Before(t, c, d) \/ Before(t, d, c)
    BY <1>2 DEF Before, DistinctAges
<1>5. StrictOrder(S, R)
    <2>1. \A c \in S : ~ Before(t, c, c)
        BY <1>2 DEF Before
    <2>2. \A c, d, e \in S : Before(t, c, d) /\ Before(t, d, e) => Before(t, c, e)
        BY <1>2 DEF Before
    <2>. HIDE DEF R
    <2>. QED  BY <1>3, <1>4, <2>1, <2>2 DEF StrictOrder
<1>6. \A c \in S : Slot(t, S, c) = Cardinality(DownSet(S, R, c))
    <2>. HIDE DEF R
    <2>1. \A c \in S : DownSet(S, R, c) = {d \in S : d = c \/ Before(t, d, c)}
        BY <1>3 DEF DownSet
    <2>. QED  BY <2>1 DEF Slot
<1>. HIDE DEF R
<1>7. /\ \A c \in S : Slot(t, S, c) \in 1 .. Cardinality(S)
      /\ \A c, d \in S : Before(t, c, d) => Slot(t, S, c) < Slot(t, S, d)
    BY <1>1, <1>3, <1>5, <1>6, RankLemma
<1>8. \A c \in S : Slot(t, S, c) \in Nat
    <2>1. Cardinality(S) \in Nat
        BY <1>1, FS_CardinalityType
    <2>. QED  BY <1>7, <2>1
<1>. QED  BY <1>4, <1>7, <1>8

\* The number of rows of any kind is a natural number.
LEMMA CountIsNat ==
    ASSUME NEW S \in SUBSET Course
    PROVE  IsFiniteSet(S) /\ Cardinality(S) \in Nat
BY CourseFinite, FS_Subset, FS_CardinalityType

LEMMA SlotIsNat ==
    ASSUME NEW t, NEW S \in SUBSET Course, NEW c
    PROVE  Slot(t, S, c) \in Nat
BY CountIsNat DEF Slot

\* Every tier of a renumbered table is numbered without ties or gaps.
Dense(t) ==
    \A c \in Assigned(t) :
        /\ t[c].pos \in 1 .. Cardinality(InTier(t, t[c].tier))
        /\ \A d \in InTier(t, t[c].tier) : d # c => t[d].pos # t[c].pos

LEMMA NormalizedWellFormed ==
    ASSUME NEW t, WellFormed(t)
    PROVE  WellFormed(Normalized(t))
<1>. DEFINE u == Normalized(t)
<1>1. \A c \in Course : t[c] \in Row
    BY DEF WellFormed, Table
<1>2. \A c \in Course : Slot(t, InTier(t, t[c].tier), c) \in Nat
    BY SlotIsNat DEF InTier
<1>3. \A c \in Course :
        /\ u[c] \in Row
        /\ u[c].tier = t[c].tier
        /\ u[c].age = t[c].age
        /\ t[c].tier = "none" => u[c] = NoRow
    BY <1>1, <1>2 DEF Normalized, Row, NoRow, WellFormed
<1>4. u = [c \in Course |-> u[c]]
    BY DEF Normalized
<1>. HIDE DEF u
<1>5. u \in Table
    BY <1>3, <1>4 DEF Table
<1>6. Assigned(u) = Assigned(t)
    BY <1>3 DEF Assigned
<1>7. \A c \in Course : u[c].tier = "none" <=> u[c] = NoRow
    BY <1>3 DEF NoRow
<1>8. WellFormed(u)
    BY <1>3, <1>5, <1>6, <1>7 DEF WellFormed, Assigned
<1>. QED  BY <1>8 DEF u

LEMMA NormalizedDense ==
    ASSUME NEW t, WellFormed(t)
    PROVE  Dense(Normalized(t))
<1>. DEFINE u == Normalized(t)
<1>1. t \in Table /\ \A c \in Course : t[c] \in Row
    BY DEF WellFormed, Table
<1>2. \A c \in Course : u[c].tier = t[c].tier
    BY <1>1 DEF Normalized, Row, NoRow
<1>3. \A c \in Course : t[c].tier # "none" => u[c].pos = Slot(t, InTier(t, t[c].tier), c)
    BY <1>1 DEF Normalized, Row
<1>. HIDE DEF u
<1>4. \A k : InTier(u, k) = InTier(t, k)
    BY <1>2 DEF InTier
<1>5. ASSUME NEW c \in Course, t[c].tier # "none"
      PROVE  /\ u[c].pos \in 1 .. Cardinality(InTier(t, t[c].tier))
             /\ \A d \in InTier(t, t[c].tier) : d # c => u[d].pos # u[c].pos
    <2>. DEFINE S == InTier(t, t[c].tier)
    <2>1. S \in SUBSET Course /\ c \in S /\ \A d \in S : t[d].tier = t[c].tier
        BY DEF InTier
    <2>. HIDE DEF S
    <2>2. DistinctAges(t, S)
        BY <1>5, <2>1 DEF WellFormed, Assigned, DistinctAges
    <2>3. \A d \in S : u[d].pos = Slot(t, S, d)
        BY <1>3, <1>5, <2>1 DEF S
    <2>4. /\ u[c].pos \in 1 .. Cardinality(S)
          /\ \A d \in S : d # c => u[d].pos # u[c].pos
        BY <1>1, <2>1, <2>2, <2>3, SlotLemma
    <2>. QED  BY <2>4 DEF S
<1>6. \A c \in Assigned(u) : c \in Course /\ t[c].tier # "none" /\ u[c].tier = t[c].tier
    BY <1>2 DEF Assigned
<1>7. Dense(u)
    BY <1>4, <1>5, <1>6 DEF Dense
<1>. QED  BY <1>7 DEF u

-----------------------------------------------------------------------------
(***************************************************************************)
(* The operations keep a table well formed.                                *)
(***************************************************************************)

\* What InsertInTier does, whether or not c had a tier before.
LEMMA InsertInTierLemma ==
    ASSUME NEW t \in Table, NEW c \in Course, NEW k \in Tiers, NEW target \in Nat
    PROVE  LET u == InsertInTier(t, c, k, target)
           IN  /\ u \in Table
               /\ u[c].tier = k
               /\ \A d \in Course : u[d].age = t[d].age
               /\ \A d \in Course \ {c} :
                      /\ u[d].tier = t[d].tier
                      /\ t[d].tier # k => u[d] = t[d]
<1>. DEFINE u == InsertInTier(t, c, k, target)
            peers == InTier(t, k) \ {c}
            shifted(d) == IF Slot(t, peers, d) < target THEN Slot(t, peers, d)
                          ELSE Slot(t, peers, d) + 1
<1>1. \A d \in Course : t[d] \in Row
    BY DEF Table
<1>2. \A d : shifted(d) \in Nat
    <2>1. peers \in SUBSET Course
        BY DEF InTier
    <2>2. \A d : Slot(t, peers, d) \in Nat
        BY <2>1, SlotIsNat
    <2>. QED  BY <2>2
<1>3. u = [d \in Course |->
            IF d = c THEN [t[c] EXCEPT !.tier = k, !.pos = target]
            ELSE IF d \in peers THEN [t[d] EXCEPT !.pos = shifted(d)]
            ELSE t[d]]
    BY DEF InsertInTier
<1>4. \A d \in peers : t[d].tier = k
    BY DEF InTier
<1>. HIDE DEF u, peers, shifted
<1>5. ASSUME NEW d \in Course
      PROVE  /\ u[d] \in Row
             /\ u[d].age = t[d].age
             /\ d # c => u[d].tier = t[d].tier
             /\ d # c /\ t[d].tier # k => u[d] = t[d]
    <2>1. CASE d = c
        BY <1>1, <1>3, <2>1 DEF Row, Tiers
    <2>2. CASE d # c /\ d \in peers
        <3>1. u[d] = [t[d] EXCEPT !.pos = shifted(d)]
            BY <1>3, <2>2
        <3>2. shifted(d) \in Nat /\ t[d] \in Row /\ t[d].tier = k
            BY <1>1, <1>2, <1>4, <2>2
        <3>. QED  BY <2>2, <3>1, <3>2 DEF Row
    <2>3. CASE d # c /\ d \notin peers
        BY <1>1, <1>3, <2>3
    <2>. QED  BY <2>1, <2>2, <2>3
<1>6. u \in Table
    BY <1>3, <1>5 DEF Table
<1>7. u[c].tier = k
    BY <1>1, <1>3 DEF Row
<1>8. /\ u \in Table
      /\ u[c].tier = k
      /\ \A d \in Course : u[d].age = t[d].age
      /\ \A d \in Course \ {c} :
             /\ u[d].tier = t[d].tier
             /\ t[d].tier # k => u[d] = t[d]
    BY <1>5, <1>6, <1>7
<1>. QED  BY <1>8 DEF u

\* Changing rows without touching their keys keeps a table well formed.
LEMMA SameAgesWellFormed ==
    ASSUME NEW t, WellFormed(t), NEW u \in Table,
           \A d \in Course :
               /\ u[d].age = t[d].age
               /\ u[d].tier = "none" <=> t[d].tier = "none"
               /\ t[d].tier = "none" => u[d] = t[d]
    PROVE  WellFormed(u)
<1>1. Assigned(u) = Assigned(t)
    BY DEF Assigned
<1>2. \A c \in Course : u[c].tier = "none" <=> u[c] = NoRow
    BY DEF WellFormed, NoRow
<1>. QED  BY <1>1, <1>2 DEF WellFormed, Assigned

\* A decisive comparison moves rows inside their tier.
LEMMA PreferWellFormed ==
    ASSUME NEW t, WellFormed(t), NEW w \in Assigned(t), NEW l \in Course
    PROVE  /\ WellFormed(Prefer(t, w, l))
           /\ \A d \in Course : Prefer(t, w, l)[d].tier = t[d].tier
<1>1. CASE t[w].pos > t[l].pos
    <2>. DEFINE k == t[w].tier
                target == Slot(t, InTier(t, k) \ {w}, l)
                u == InsertInTier(t, w, k, target)
    <2>1. w \in Course /\ k # "none" /\ t \in Table
        BY DEF Assigned, WellFormed
    <2>2. k \in Tiers
        BY <2>1 DEF Table, Row
    <2>3. target \in Nat
        BY SlotIsNat DEF InTier
    <2>4. Prefer(t, w, l) = u
        BY <1>1 DEF Prefer
    <2>. HIDE DEF target
    <2>5. /\ u \in Table
          /\ u[w].tier = k
          /\ \A d \in Course : u[d].age = t[d].age
          /\ \A d \in Course \ {w} :
                 /\ u[d].tier = t[d].tier
                 /\ t[d].tier # k => u[d] = t[d]
        BY <2>1, <2>2, <2>3, InsertInTierLemma
    <2>. HIDE DEF u
    <2>6. \A d \in Course : u[d].tier = t[d].tier
        BY <2>5
    <2>7. \A d \in Course : t[d].tier = "none" => u[d] = t[d]
        BY <2>1, <2>5
    <2>8. u \in Table /\ \A d \in Course :
                             /\ u[d].age = t[d].age
                             /\ u[d].tier = "none" <=> t[d].tier = "none"
                             /\ t[d].tier = "none" => u[d] = t[d]
        BY <2>5, <2>6, <2>7
    <2>9. WellFormed(u)
        BY <2>8, SameAgesWellFormed
    <2>. QED  BY <2>4, <2>6, <2>9
<1>2. CASE ~ (t[w].pos > t[l].pos)
    BY <1>2 DEF Prefer
<1>. QED  BY <1>1, <1>2

\* A new row is younger than every other one.
LEMMA EnsureRowLemma ==
    ASSUME NEW t, WellFormed(t), NEW c \in Course
    PROVE  LET u == EnsureRow(t, c)
           IN  /\ u \in Table
               /\ u[c].age > 0
               /\ \A d \in Course : u[d].tier = t[d].tier
               /\ \A d \in Course \ {c} : t[d].tier = "none" => u[d] = NoRow
               /\ \A d \in Assigned(t) : u[d].age > 0
               /\ DistinctAges(u, Assigned(t) \cup {c})
<1>. DEFINE u == EnsureRow(t, c)
<1>1. /\ t \in Table
      /\ \A d \in Course : t[d] \in Row
      /\ \A d \in Course : t[d].tier = "none" <=> t[d] = NoRow
      /\ \A d \in Assigned(t) : t[d].age > 0
      /\ \A d, e \in Assigned(t) : d # e => t[d].age # t[e].age
    BY DEF WellFormed, Table
<1>2. CASE t[c].tier # "none"
    <2>1. u = t /\ c \in Assigned(t)
        BY <1>2 DEF EnsureRow, Assigned
    <2>. HIDE DEF u
    <2>2. Assigned(t) \cup {c} = Assigned(t)
        BY <2>1
    <2>3. DistinctAges(u, Assigned(t) \cup {c})
        BY <1>1, <2>1, <2>2 DEF DistinctAges
    <2>4. /\ u \in Table
          /\ u[c].age > 0
          /\ \A d \in Course : u[d].tier = t[d].tier
          /\ \A d \in Course \ {c} : t[d].tier = "none" => u[d] = NoRow
          /\ \A d \in Assigned(t) : u[d].age > 0
        BY <1>1, <2>1
    <2>. QED  BY <2>3, <2>4 DEF u
<1>3. CASE t[c].tier = "none"
    <2>1. u = [d \in Course |->
                IF d = c THEN [NoRow EXCEPT !.age = 1]
                ELSE IF t[d].tier = "none" THEN t[d]
                ELSE [t[d] EXCEPT !.age = @ + 1]]
        BY <1>3 DEF EnsureRow
    <2>. HIDE DEF u
    <2>2. \A d \in Course : d # c /\ t[d].tier = "none" => u[d] = t[d]
        BY <2>1
    <2>3. u[c] \in Row /\ u[c].tier = "none" /\ u[c].age = 1
        <3>1. u[c] = [NoRow EXCEPT !.age = 1]
            BY <2>1
        <3>2. u[c] = [tier |-> "none", pos |-> 0, age |-> 1, incomplete |-> FALSE]
            BY <3>1 DEF NoRow
        <3>. QED  BY <3>2 DEF Row
    <2>4. \A d \in Assigned(t) : u[d] \in Row /\ u[d].tier = t[d].tier /\ u[d].age = t[d].age + 1
        <3>1. SUFFICES ASSUME NEW d \in Assigned(t)
                       PROVE  u[d] \in Row /\ u[d].tier = t[d].tier /\ u[d].age = t[d].age + 1
            OBVIOUS
        <3>2. d \in Course /\ t[d].tier # "none" /\ t[d] \in Row
            BY <1>1 DEF Assigned
        <3>3. u[d] = [t[d] EXCEPT !.age = @ + 1]
            BY <1>3, <2>1, <3>2
        <3>. QED  BY <3>2, <3>3 DEF Row
    <2>5. c \notin Assigned(t)
        BY <1>3 DEF Assigned
    <2>6. \A d \in Course : u[d] \in Row /\ u[d].tier = t[d].tier
        BY <1>1, <1>3, <2>2, <2>3, <2>4 DEF Assigned
    <2>7. u \in Table
        BY <2>1, <2>6 DEF Table
    <2>8. \A d \in Assigned(t) : t[d].age \in Nat
        BY <1>1 DEF Row, Assigned
    <2>9. DistinctAges(u, Assigned(t) \cup {c})
        BY <1>1, <2>3, <2>4, <2>5, <2>8 DEF DistinctAges
    <2>10. /\ u[c].age > 0
           /\ \A d \in Course \ {c} : t[d].tier = "none" => u[d] = NoRow
           /\ \A d \in Assigned(t) : u[d].age > 0
        BY <1>1, <2>2, <2>3, <2>4, <2>8
    <2>. QED  BY <2>6, <2>7, <2>9, <2>10 DEF u
<1>. QED  BY <1>2, <1>3

\* A course that enters a table: after EnsureRow its tier is set, and no other
\* row changes tier or key.
LEMMA EnteredWellFormed ==
    ASSUME NEW t, WellFormed(t), NEW c \in Course, NEW v \in Table,
           v[c].tier # "none",
           \A d \in Course : v[d].age = EnsureRow(t, c)[d].age,
           \A d \in Course \ {c} :
               /\ v[d].tier = t[d].tier
               /\ t[d].tier = "none" => v[d] = EnsureRow(t, c)[d]
    PROVE  WellFormed(v)
<1>. DEFINE u == EnsureRow(t, c)
<1>1. /\ u[c].age > 0
      /\ \A d \in Course \ {c} : t[d].tier = "none" => u[d] = NoRow
      /\ \A d \in Assigned(t) : u[d].age > 0
      /\ DistinctAges(u, Assigned(t) \cup {c})
    BY EnsureRowLemma
<1>2. Assigned(v) = Assigned(t) \cup {c}
    BY DEF Assigned
<1>3. \A d \in Course : v[d].age = u[d].age
    OBVIOUS
<1>4. \A d \in Course : v[d].tier = "none" <=> v[d] = NoRow
    <2>1. \A d \in Course \ {c} : t[d].tier = "none" => v[d] = NoRow
        BY <1>1
    <2>2. \A d \in Course : v[d] = NoRow => v[d].tier = "none"
        BY DEF NoRow
    <2>3. \A d \in Course \ {c} : v[d].tier = t[d].tier
        OBVIOUS
    <2>. QED  BY <2>1, <2>2, <2>3
<1>. HIDE DEF u
<1>5. \A d \in Assigned(v) : v[d].age > 0
    <2>1. Assigned(v) \subseteq Course
        BY DEF Assigned
    <2>. QED  BY <1>1, <1>2, <1>3, <2>1
<1>6. \A d, e \in Assigned(v) : d # e => v[d].age # v[e].age
    <2>1. Assigned(v) \subseteq Course
        BY DEF Assigned
    <2>. QED  BY <1>1, <1>2, <1>3, <2>1 DEF DistinctAges
<1>. QED  BY <1>4, <1>5, <1>6 DEF WellFormed

\* One placement of PUT /rankings/tiers.
LEMMA PlaceAtWellFormed ==
    ASSUME NEW t, WellFormed(t), NEW c \in Course, NEW k \in Tiers, NEW p \in Nat
    PROVE  WellFormed(PlaceAt(t, c, k, p))
<1>. DEFINE u == EnsureRow(t, c)
            last == Cardinality(InTier(u, k) \ {c}) + 1
            target == IF p = 0 \/ p > last THEN last ELSE p
            w == InsertInTier(u, c, k, target)
            v == [w EXCEPT ![c].incomplete = FALSE]
<1>1. /\ u \in Table
      /\ \A d \in Course : u[d].tier = t[d].tier
    BY EnsureRowLemma
<1>2. target \in Nat
    <2>1. Cardinality(InTier(u, k) \ {c}) \in Nat
        BY CountIsNat DEF InTier
    <2>. HIDE DEF u
    <2>. QED  BY <2>1
<1>3. PlaceAt(t, c, k, p) = v
    BY DEF PlaceAt
<1>. HIDE DEF u, target
<1>4. /\ w \in Table
      /\ w[c].tier = k
      /\ \A d \in Course : w[d].age = u[d].age
      /\ \A d \in Course \ {c} : w[d].tier = u[d].tier
      /\ \A d \in Course \ {c} : u[d].tier # k => w[d] = u[d]
    BY <1>1, <1>2, InsertInTierLemma
<1>. HIDE DEF w
<1>5. \A d \in Course \ {c} : v[d] = w[d]
    BY <1>4 DEF Table
<1>6. v[c] \in Row /\ v[c].tier = k /\ v[c].age = w[c].age
    BY <1>4 DEF Table, Row
<1>7. v \in Table
    BY <1>4, <1>6 DEF Table
<1>8. k # "none"
    BY DEF Tiers, RankedTiers
<1>. HIDE DEF v
<1>9. /\ v[c].tier # "none"
      /\ \A d \in Course : v[d].age = u[d].age
      /\ \A d \in Course \ {c} :
            /\ v[d].tier = t[d].tier
            /\ t[d].tier = "none" => v[d] = u[d]
    BY <1>1, <1>4, <1>5, <1>6, <1>8
<1>10. WellFormed(v)
    BY <1>7, <1>9, EnteredWellFormed DEF u
<1>. QED  BY <1>3, <1>10

\* The placement of a rating request.
LEMMA AppendToWellFormed ==
    ASSUME NEW t, WellFormed(t), NEW c \in Course, NEW k \in Tiers
    PROVE  /\ WellFormed(AppendTo(t, c, k))
           /\ AppendTo(t, c, k)[c].tier = k
           /\ \A d \in Course \ {c} : AppendTo(t, c, k)[d].tier = t[d].tier
<1>0. k # "none" /\ t \in Table
    BY DEF Tiers, RankedTiers, WellFormed
<1>1. CASE t[c].tier = k
    <2>. DEFINE v == [t EXCEPT ![c].incomplete = FALSE]
    <2>1. AppendTo(t, c, k) = v
        BY <1>1 DEF AppendTo
    <2>2. v[c] \in Row /\ v[c].tier = k /\ v[c].age = t[c].age
        BY <1>0, <1>1 DEF Table, Row
    <2>3. \A d \in Course \ {c} : v[d] = t[d]
        BY <1>0 DEF Table
    <2>4. v \in Table
        BY <1>0, <2>2 DEF Table
    <2>. HIDE DEF v
    <2>5. \A d \in Course :
              /\ v[d].age = t[d].age
              /\ v[d].tier = "none" <=> t[d].tier = "none"
              /\ t[d].tier = "none" => v[d] = t[d]
        BY <1>0, <1>1, <2>2, <2>3
    <2>6. WellFormed(v)
        BY <2>4, <2>5, SameAgesWellFormed
    <2>. QED  BY <2>1, <2>2, <2>3, <2>6
<1>2. CASE t[c].tier # k
    <2>. DEFINE u == EnsureRow(t, c)
                last == Cardinality(InTier(u, k) \ {c}) + 1
                v == [u EXCEPT ![c] = [@ EXCEPT !.tier = k, !.pos = last, !.incomplete = FALSE]]
    <2>1. /\ u \in Table
          /\ \A d \in Course : u[d].tier = t[d].tier
        BY EnsureRowLemma
    <2>2. last \in Nat
        <3>1. Cardinality(InTier(u, k) \ {c}) \in Nat
            BY CountIsNat DEF InTier
        <3>. HIDE DEF u
        <3>. QED  BY <3>1
    <2>3. AppendTo(t, c, k) = v
        BY <1>2 DEF AppendTo
    <2>. HIDE DEF u, last
    <2>4. v[c] \in Row /\ v[c].tier = k /\ v[c].age = u[c].age
        <3>1. v[c] = [u[c] EXCEPT !.tier = k, !.pos = last, !.incomplete = FALSE]
            BY <2>1 DEF Table
        <3>2. u[c] \in Row
            BY <2>1 DEF Table
        <3>. HIDE DEF v
        <3>. QED  BY <2>2, <3>1, <3>2 DEF Row
    <2>5. \A d \in Course \ {c} : v[d] = u[d]
        BY <2>1 DEF Table
    <2>6. v \in Table
        BY <2>1, <2>4 DEF Table
    <2>. HIDE DEF v
    <2>7. /\ v[c].tier # "none"
          /\ \A d \in Course : v[d].age = u[d].age
          /\ \A d \in Course \ {c} :
                /\ v[d].tier = t[d].tier
                /\ t[d].tier = "none" => v[d] = u[d]
        BY <1>0, <2>1, <2>4, <2>5
    <2>8. WellFormed(v)
        BY <2>6, <2>7, EnteredWellFormed DEF u
    <2>. QED  BY <2>3, <2>4, <2>7, <2>8
<1>. QED  BY <1>1, <1>2

\* Deleting rows: the others keep their order and close up their keys.
LEMMA DropRowsLemma ==
    ASSUME NEW t, WellFormed(t), NEW D
    PROVE  /\ WellFormed(DropRows(t, D))
           /\ Assigned(DropRows(t, D)) = Assigned(t) \ D
           /\ \A c \in Assigned(t) \ D : /\ DropRows(t, D)[c].tier = t[c].tier
                                        /\ DropRows(t, D)[c].incomplete = t[c].incomplete
                                        /\ DropRows(t, D)[c].pos = t[c].pos
           /\ \A c, d \in Assigned(t) \ D : Before(DropRows(t, D), c, d) <=> Before(t, c, d)
<1>. DEFINE left == Assigned(t) \ D
            R == {p \in left \X left : t[p[1]].age < t[p[2]].age}
            rank(c) == Cardinality({d \in left : t[d].age <= t[c].age})
            u == DropRows(t, D)
<1>1. /\ left \in SUBSET Course
      /\ \A c \in left : t[c] \in Row /\ t[c].age \in Nat /\ t[c].tier # "none"
      /\ \A c, d \in left : c # d => t[c].age # t[d].age
    BY DEF WellFormed, Assigned, Table, Row
<1>2. u = [c \in Course |-> IF c \in left THEN [t[c] EXCEPT !.age = rank(c)] ELSE NoRow]
    BY DEF DropRows
<1>. HIDE DEF left, u
<1>3. IsFiniteSet(left) /\ Cardinality(left) \in Nat
    BY <1>1, CountIsNat
<1>4. \A c, d \in left : <<c, d>> \in R <=> t[c].age < t[d].age
    OBVIOUS
<1>5. \A c \in left : rank(c) = Cardinality(DownSet(left, R, c))
    <2>1. SUFFICES ASSUME NEW c \in left
                   PROVE  {d \in left : t[d].age <= t[c].age} = DownSet(left, R, c)
        OBVIOUS
    <2>2. \A d \in left : t[d].age <= t[c].age <=> (d = c \/ t[d].age < t[c].age)
        BY <1>1
    <2>. HIDE DEF R
    <2>. QED  BY <1>4, <2>2 DEF DownSet
<1>. HIDE DEF R, rank
<1>6. StrictOrder(left, R)
    <2>1. \A c, d, e \in left : t[c].age < t[d].age /\ t[d].age < t[e].age => t[c].age < t[e].age
        BY <1>1
    <2>2. \A c, d \in left : c # d => t[c].age < t[d].age \/ t[d].age < t[c].age
        BY <1>1
    <2>3. \A c \in left : ~ (t[c].age < t[c].age)
        BY <1>1
    <2>. QED  BY <1>4, <2>1, <2>2, <2>3 DEF StrictOrder
<1>7. /\ \A c \in left : rank(c) \in 1 .. Cardinality(left)
      /\ \A c, d \in left : <<c, d>> \in R => rank(c) < rank(d)
    BY <1>3, <1>5, <1>6, RankLemma
<1>8. \A c \in left : /\ u[c] \in Row /\ u[c].tier = t[c].tier /\ u[c].age = rank(c)
                      /\ u[c].pos = t[c].pos /\ u[c].incomplete = t[c].incomplete
    <2>1. SUFFICES ASSUME NEW c \in left
                   PROVE  /\ u[c] \in Row /\ u[c].tier = t[c].tier /\ u[c].age = rank(c)
                          /\ u[c].pos = t[c].pos /\ u[c].incomplete = t[c].incomplete
        OBVIOUS
    <2>2. u[c] = [t[c] EXCEPT !.age = rank(c)]
        BY <1>1, <1>2
    <2>3. t[c] \in Row /\ rank(c) \in Nat
        BY <1>1, <1>3, <1>7
    <2>. QED  BY <2>2, <2>3 DEF Row
<1>9. \A c \in Course \ left : u[c] = NoRow
    BY <1>2
<1>10. NoRow \in Row /\ NoRow.tier = "none"
    BY DEF NoRow, Row
<1>11. u \in Table
    BY <1>2, <1>8, <1>9, <1>10 DEF Table
<1>12. Assigned(u) = left
    BY <1>1, <1>8, <1>9, <1>10 DEF Assigned
<1>13. \A c \in Course : u[c].tier = "none" <=> u[c] = NoRow
    BY <1>1, <1>8, <1>9, <1>10
<1>14. \A c \in left : u[c].age > 0
    BY <1>3, <1>7, <1>8
<1>15. \A c, d \in left : c # d => u[c].age # u[d].age
    <2>1. SUFFICES ASSUME NEW c \in left, NEW d \in left, c # d
                   PROVE  u[c].age # u[d].age
        OBVIOUS
    <2>2. <<c, d>> \in R \/ <<d, c>> \in R
        BY <1>6, <2>1 DEF StrictOrder
    <2>3. rank(c) \in Nat /\ rank(d) \in Nat
        BY <1>3, <1>7
    <2>4. rank(c) < rank(d) \/ rank(d) < rank(c)
        BY <1>7, <2>2
    <2>. QED  BY <1>8, <2>3, <2>4
<1>16. WellFormed(u)
    BY <1>11, <1>12, <1>13, <1>14, <1>15 DEF WellFormed
<1>17. \A c, d \in left : Before(u, c, d) <=> Before(t, c, d)
    <2>1. SUFFICES ASSUME NEW c \in left, NEW d \in left
                   PROVE  rank(c) > rank(d) <=> t[c].age > t[d].age
        BY <1>8 DEF Before
    <2>2. rank(c) \in Nat /\ rank(d) \in Nat
        BY <1>3, <1>7
    <2>3. CASE c = d
        BY <1>1, <2>2, <2>3
    <2>4. CASE t[c].age < t[d].age
        <3>1. rank(c) < rank(d)
            BY <1>4, <1>7, <2>4
        <3>. QED  BY <1>1, <2>2, <2>4, <3>1
    <2>5. CASE t[d].age < t[c].age
        <3>1. rank(d) < rank(c)
            BY <1>4, <1>7, <2>5
        <3>. QED  BY <1>1, <2>2, <2>5, <3>1
    <2>. QED  BY <1>1, <2>3, <2>4, <2>5
<1>. QED  BY <1>8, <1>12, <1>16, <1>17 DEF u, left

\* Of some rows one is the oldest.
LEMMA OldestLemma ==
    ASSUME NEW t, WellFormed(t), NEW rows \in SUBSET Assigned(t), rows # {}
    PROVE  (CHOOSE a \in rows : \A b \in rows : t[b].age <= t[a].age) \in rows
<1>. DEFINE R == {p \in rows \X rows : t[p[1]].age > t[p[2]].age}
<1>1. /\ rows # {} /\ rows \in SUBSET Course
      /\ \A a \in rows : t[a].age \in Nat
      /\ \A a, b \in rows : a # b => t[a].age # t[b].age
    BY DEF WellFormed, Assigned, Table, Row
<1>2. IsFiniteSet(rows)
    BY <1>1, CountIsNat
<1>3. \A a, b \in rows : <<a, b>> \in R <=> t[a].age > t[b].age
    OBVIOUS
<1>. HIDE DEF R
<1>4. StrictOrder(rows, R)
    <2>1. \A a, b, d \in rows : t[a].age > t[b].age /\ t[b].age > t[d].age => t[a].age > t[d].age
        BY <1>1
    <2>2. \A a, b \in rows : a # b => t[a].age > t[b].age \/ t[b].age > t[a].age
        BY <1>1
    <2>3. \A a \in rows : ~ (t[a].age > t[a].age)
        BY <1>1
    <2>. QED  BY <1>3, <2>1, <2>2, <2>3 DEF StrictOrder
<1>5. \E a \in rows : \A b \in rows : b = a \/ <<a, b>> \in R
    BY <1>1, <1>2, <1>4, LeastElement
<1>6. PICK a \in rows : \A b \in rows : b = a \/ <<a, b>> \in R
    BY <1>5
<1>7. \A b \in rows : t[b].age <= t[a].age
    <2>1. SUFFICES ASSUME NEW b \in rows
                   PROVE  t[b].age <= t[a].age
        OBVIOUS
    <2>2. t[a].age \in Nat /\ t[b].age \in Nat
        BY <1>1
    <2>3. CASE b = a
        BY <2>2, <2>3
    <2>4. CASE <<a, b>> \in R
        <3>1. t[a].age > t[b].age
            BY <1>3, <2>4
        <3>. QED  BY <2>2, <3>1
    <2>. QED  BY <1>6, <2>3, <2>4
<1>8. \E e \in rows : \A b \in rows : t[b].age <= t[e].age
    BY <1>7
<1>. QED  BY <1>8

\* Merging an identity: one row at most is left of it, under the canonical course.
LEMMA MergeIdentityLemma ==
    ASSUME NEW t, WellFormed(t), NEW ids \in SUBSET Course, NEW c \in ids
    PROVE  LET u == MergeIdentity(t, c, ids)
           IN  /\ WellFormed(u)
               /\ \A d \in Course \ ids : u[d].tier = t[d].tier
               /\ \A d \in ids \ {c} : u[d] = NoRow
<1>. DEFINE rows == ids \cap Assigned(t)
            kept == IF c \in rows THEN c
                    ELSE CHOOSE a \in rows : \A b \in rows : t[b].age <= t[a].age
            u == DropRows(t, rows \ {kept})
            v == [u EXCEPT ![kept] = NoRow, ![c] = u[kept]]
<1>1. CASE rows \subseteq {c}
    <2>1. MergeIdentity(t, c, ids) = t
        BY <1>1 DEF MergeIdentity
    <2>2. \A d \in ids \ {c} : t[d] = NoRow
        BY <1>1 DEF Assigned, WellFormed
    <2>. QED  BY <2>1, <2>2
<1>2. CASE ~ (rows \subseteq {c})
    <2>1. MergeIdentity(t, c, ids) = v
        BY <1>2 DEF MergeIdentity
    <2>2. kept \in rows
        <3>1. CASE c \in rows
            BY <3>1
        <3>2. CASE c \notin rows
            <4>1. rows # {} /\ rows \in SUBSET Assigned(t)
                BY <1>2
            <4>. HIDE DEF rowVars
            <4>. QED  BY <3>2, <4>1, OldestLemma
        <3>. QED  BY <3>1, <3>2
    <2>. HIDE DEF kept
    <2>3. /\ WellFormed(u)
          /\ Assigned(u) = Assigned(t) \ (rows \ {kept})
          /\ \A d \in Assigned(u) : u[d].tier = t[d].tier
        BY DropRowsLemma
    <2>. HIDE DEF u
    <2>4. kept \in Course /\ kept \in Assigned(u) /\ c \in Course
        BY <2>2, <2>3 DEF Assigned
    <2>5. kept # c => c \notin Assigned(u)
        BY <2>2, <2>3 DEF kept
    <2>6. /\ v[c] = u[kept]
          /\ kept # c => v[kept] = NoRow
          /\ \A d \in Course \ {c, kept} : v[d] = u[d]
        BY <2>3, <2>4 DEF WellFormed, Table
    <2>7. u \in Table /\ \A d \in Course : u[d] \in Row /\ (u[d].tier = "none" <=> u[d] = NoRow)
        BY <2>3 DEF WellFormed, Table
    <2>8. NoRow \in Row
        BY DEF NoRow, Row
    <2>9. v \in Table
        BY <2>4, <2>7, <2>8 DEF Table
    <2>10. \A d \in ids \ {c} : v[d] = NoRow
        <3>1. \A d \in ids \ {c, kept} : d \notin Assigned(u)
            BY <2>3
        <3>2. \A d \in ids \ {c, kept} : u[d] = NoRow
            BY <2>7, <3>1 DEF Assigned
        <3>. QED  BY <2>6, <3>2
    <2>11. \A d \in Course \ ids : v[d].tier = t[d].tier
        <3>1. SUFFICES ASSUME NEW d \in Course \ ids
                       PROVE  v[d].tier = t[d].tier
            OBVIOUS
        <3>2. v[d] = u[d]
            BY <2>2, <2>6
        <3>3. CASE d \in Assigned(t)
            BY <2>3, <3>2, <3>3
        <3>4. CASE d \notin Assigned(t)
            BY <2>3, <3>2, <3>4 DEF Assigned
        <3>. QED  BY <3>3, <3>4
    <2>. HIDE DEF v
    <2>12. Assigned(v) = (Assigned(u) \ {kept}) \cup {c}
        BY <2>4, <2>5, <2>6 DEF Assigned, NoRow
    <2>13. WellFormed(v)
        <3>1. \A d \in Course : v[d].tier = "none" <=> v[d] = NoRow
            BY <2>4, <2>6, <2>7 DEF NoRow
        <3>2. \A d \in Assigned(v) : v[d].age > 0
            BY <2>3, <2>4, <2>6, <2>12 DEF WellFormed, Assigned
        <3>3. \A d, e \in Assigned(v) : d # e => v[d].age # v[e].age
            BY <2>3, <2>4, <2>6, <2>12 DEF WellFormed, Assigned
        <3>. QED  BY <2>9, <3>1, <3>2, <3>3 DEF WellFormed
    <2>. QED  BY <2>1, <2>10, <2>11, <2>13
<1>. QED  BY <1>1, <1>2

\* Seeding: the new rows get the youngest keys, in the order of their places.
LEMMA SeedRowsLemma ==
    ASSUME NEW t, WellFormed(t), NEW S \in SUBSET Course, NEW place \in [S -> Nat],
           \A c, d \in S : c # d => place[c] # place[d]
    PROVE  /\ WellFormed(SeedRows(t, S, place))
           /\ \A c \in Course : SeedRows(t, S, place)[c].tier =
                                    IF c \in S THEN "fairway" ELSE t[c].tier
<1>. DEFINE new == S \ Assigned(t)
            n == Cardinality(new)
            start == Cardinality(InTier(t, "fairway") \ S)
            rank(c) == Cardinality({d \in new : place[d] >= place[c]})
            age(c) == IF c \in new THEN rank(c) ELSE t[c].age + n
            R == {p \in new \X new : place[p[1]] > place[p[2]]}
            u == SeedRows(t, S, place)
<1>1. u = [c \in Course |->
            IF c \in S
            THEN [tier |-> "fairway", pos |-> start + place[c],
                  age |-> age(c), incomplete |-> TRUE]
            ELSE IF t[c].tier = "none" THEN t[c]
            ELSE [t[c] EXCEPT !.age = age(c)]]
    BY DEF SeedRows
<1>2. /\ new \in SUBSET S /\ new \in SUBSET Course
      /\ \A c \in new : place[c] \in Nat
      /\ \A c, d \in new : c # d => place[c] # place[d]
    OBVIOUS
<1>3. /\ t \in Table
      /\ \A c \in Course : t[c] \in Row /\ t[c].age \in Nat
      /\ \A c \in Course : t[c].tier = "none" <=> t[c] = NoRow
      /\ \A c \in Assigned(t) : t[c].age > 0
      /\ \A c, d \in Assigned(t) : c # d => t[c].age # t[d].age
    BY DEF WellFormed, Table, Row
<1>4. \A c \in Assigned(t) : c \in Course /\ c \notin new /\ t[c].tier # "none"
    BY DEF Assigned
<1>5. start \in Nat
    BY CountIsNat DEF InTier
<1>6. S \subseteq Assigned(t) \cup new
    OBVIOUS
<1>. HIDE DEF u, new, start
<1>7. IsFiniteSet(new) /\ n \in Nat
    BY <1>2, CountIsNat
<1>8. \A c, d \in new : <<c, d>> \in R <=> place[c] > place[d]
    OBVIOUS
<1>9. \A c \in new : rank(c) = Cardinality(DownSet(new, R, c))
    <2>1. SUFFICES ASSUME NEW c \in new
                   PROVE  {d \in new : place[d] >= place[c]} = DownSet(new, R, c)
        OBVIOUS
    <2>2. \A d \in new : place[d] >= place[c] <=> (d = c \/ place[d] > place[c])
        BY <1>2
    <2>. HIDE DEF R
    <2>. QED  BY <1>8, <2>2 DEF DownSet
<1>. HIDE DEF R, rank
<1>10. StrictOrder(new, R)
    <2>1. \A c, d, e \in new : place[c] > place[d] /\ place[d] > place[e] => place[c] > place[e]
        BY <1>2
    <2>2. \A c, d \in new : c # d => place[c] > place[d] \/ place[d] > place[c]
        BY <1>2
    <2>3. \A c \in new : ~ (place[c] > place[c])
        BY <1>2
    <2>. QED  BY <1>8, <2>1, <2>2, <2>3 DEF StrictOrder
<1>11. /\ \A c \in new : rank(c) \in 1 .. n
       /\ \A c, d \in new : <<c, d>> \in R => rank(c) < rank(d)
    BY <1>7, <1>9, <1>10, RankLemma
<1>. HIDE DEF n
<1>12. \A c \in new : age(c) \in 1 .. n
    BY <1>11
<1>13. \A c \in Assigned(t) : age(c) = t[c].age + n
    BY <1>4
<1>14. \A c \in Assigned(t) : age(c) \in Nat /\ age(c) > n
    BY <1>3, <1>4, <1>7, <1>13
<1>15. \A c, d \in new : c # d => age(c) # age(d)
    <2>1. SUFFICES ASSUME NEW c \in new, NEW d \in new, c # d
                   PROVE  rank(c) # rank(d)
        OBVIOUS
    <2>2. <<c, d>> \in R \/ <<d, c>> \in R
        BY <1>10, <2>1 DEF StrictOrder
    <2>3. rank(c) \in Nat /\ rank(d) \in Nat
        BY <1>7, <1>11
    <2>. QED  BY <1>11, <2>2, <2>3
<1>16. \A c, d \in Assigned(t) : c # d => age(c) # age(d)
    <2>1. SUFFICES ASSUME NEW c \in Assigned(t), NEW d \in Assigned(t), c # d
                   PROVE  t[c].age + n # t[d].age + n
        BY <1>13
    <2>. QED  BY <1>3, <1>4, <1>7, <2>1
<1>. DEFINE U == Assigned(t) \cup new
<1>17. \A c \in U : age(c) \in Nat /\ age(c) > 0
    BY <1>7, <1>12, <1>14
<1>18. \A c, d \in U : c # d => age(c) # age(d)
    <2>1. \A c \in new, d \in Assigned(t) : age(c) < age(d)
        BY <1>7, <1>12, <1>14
    <2>2. \A c \in new, d \in Assigned(t) : age(c) # age(d)
        BY <1>17, <2>1
    <2>. HIDE DEF age
    <2>. QED  BY <1>15, <1>16, <2>2
<1>. HIDE DEF age
<1>19. ASSUME NEW c \in Course
       PROVE  /\ u[c] \in Row
              /\ c \in U => u[c].age = age(c) /\ u[c].tier # "none"
              /\ c \notin U => u[c] = NoRow
              /\ u[c].tier = IF c \in S THEN "fairway" ELSE t[c].tier
    <2>1. CASE c \in S
        <3>1. u[c] = [tier |-> "fairway", pos |-> start + place[c],
                      age |-> age(c), incomplete |-> TRUE]
            BY <1>1, <2>1
        <3>2. start + place[c] \in Nat
            BY <1>5, <2>1
        <3>3. c \in U
            BY <1>6, <2>1
        <3>4. age(c) \in Nat
            BY <1>17, <3>3
        <3>. QED  BY <2>1, <3>1, <3>2, <3>3, <3>4 DEF Row, Tiers, RankedTiers
    <2>2. CASE c \notin S /\ t[c].tier = "none"
        <3>1. u[c] = t[c]
            BY <1>1, <2>2
        <3>2. c \notin U
            BY <1>2, <2>2 DEF Assigned
        <3>. QED  BY <1>3, <2>2, <3>1, <3>2
    <2>3. CASE c \notin S /\ t[c].tier # "none"
        <3>1. u[c] = [t[c] EXCEPT !.age = age(c)]
            BY <1>1, <2>3
        <3>2. c \in U
            BY <2>3 DEF Assigned
        <3>3. age(c) \in Nat /\ t[c] \in Row
            BY <1>3, <1>17, <3>2
        <3>. QED  BY <2>3, <3>1, <3>2, <3>3 DEF Row
    <2>. QED  BY <2>1, <2>2, <2>3
<1>20. U \in SUBSET Course
    BY <1>2 DEF Assigned
<1>. HIDE DEF U
<1>21. u \in Table
    BY <1>1, <1>19 DEF Table
<1>22. Assigned(u) = U
    BY <1>19, <1>20 DEF Assigned, NoRow
<1>23. \A c \in Course : u[c].tier = "none" <=> u[c] = NoRow
    BY <1>19 DEF NoRow
<1>24. /\ \A c \in Assigned(u) : u[c].age > 0
       /\ \A c, d \in Assigned(u) : c # d => u[c].age # u[d].age
    BY <1>17, <1>18, <1>19, <1>20, <1>22
<1>25. WellFormed(u)
    BY <1>21, <1>23, <1>24 DEF WellFormed
<1>. QED  BY <1>19, <1>25 DEF u
-----------------------------------------------------------------------------
(***************************************************************************)
(* Derived values.                                                         *)
(***************************************************************************)
LEMMA RoundHalfEvenType ==
    ASSUME NEW num \in Int, NEW den \in Nat \ {0}
    PROVE  RoundHalfEven(num, den) \in Int
<1>1. num \div den \in Int
    OBVIOUS
<1>. QED  BY <1>1 DEF RoundHalfEven

LEMMA RatingType ==
    ASSUME NEW tier \in RankedTiers, NEW index \in Int, NEW count \in Nat \ {0}
    PROVE  Rating(tier, index, count) \in Int
<1>. DEFINE low == TierBand[tier].low
            high == TierBand[tier].high
<1>1. low \in Nat /\ high \in Nat
    BY DEF TierBand, RankedTiers
<1>2. Rating(tier, index, count) =
        IF count = 1 THEN RoundHalfEven(low + high, 2)
        ELSE RoundHalfEven(high * (count - 1) - (high - low) * index, count - 1)
    BY DEF Rating
<1>. HIDE DEF low, high
<1>3. CASE count = 1
    <2>1. low + high \in Int
        BY <1>1
    <2>2. RoundHalfEven(low + high, 2) \in Int
        BY <2>1, RoundHalfEvenType
    <2>. QED  BY <1>2, <1>3, <2>2
<1>4. CASE count # 1
    <2>1. count - 1 \in Nat \ {0}
        BY <1>4
    <2>2. high * (count - 1) - (high - low) * index \in Int
        BY <1>1
    <2>3. RoundHalfEven(high * (count - 1) - (high - low) * index, count - 1) \in Int
        BY <2>1, <2>2, RoundHalfEvenType
    <2>. QED  BY <1>2, <1>4, <2>3
<1>. QED  BY <1>3, <1>4

LEMMA PersonalRatingType ==
    ASSUME NEW t, NEW c \in RankedCourses(t)
    PROVE  PersonalRating(t, c) \in Int
<1>. DEFINE G == RatingGroup(t, c)
<1>1. G \in SUBSET Course /\ c \in G /\ t[c].tier \in RankedTiers
    BY DEF RatingGroup, InTier, RankedCourses
<1>. HIDE DEF G
<1>2. IsFiniteSet(G) /\ Cardinality(G) \in Nat
    BY <1>1, CountIsNat
<1>3. Cardinality(G) # 0
    BY <1>1, <1>2, FS_EmptySet
<1>4. Slot(t, G, c) \in Nat
    BY <1>1, SlotIsNat
<1>5. Slot(t, G, c) - 1 \in Int /\ Cardinality(G) \in Nat \ {0}
    BY <1>2, <1>3, <1>4
<1>6. Rating(t[c].tier, Slot(t, G, c) - 1, Cardinality(G)) \in Int
    BY <1>1, <1>5, RatingType
<1>. QED  BY <1>6 DEF PersonalRating, G

-----------------------------------------------------------------------------
(***************************************************************************)
(* Ranking: the inductive invariant.                                       *)
(***************************************************************************)
\* The rows are as TypeOK says; comparisons are finitely many.
RowsOK ==
    /\ WellFormed(table)
    /\ Dense(table)
    /\ comparisons \subseteq Comparison
    /\ IsFiniteSet(comparisons)
    /\ rounds \in [RoundId -> RoundRow]
    /\ proj \in [Course -> Projection]

\* A round that a projection names is a round of that course.
OwnsRounds(pj, rs) ==
    \A c \in Course : pj[c].round # NoRound => rs[pj[c].round].course = c

\* Current ratings are what the projection loops made of the snapshot.
RatingsOK ==
    /\ snap = SnapshotOf(table, comparisons)
    /\ OwnsRounds(proj, rounds)
    /\ \A c \in Course : proj[c] = ProjectionOf(snap.entries[c], proj[c].round)
    /\ RatedCoursesAreProjected

\* What a request has resolved: finitely many answers, each to a question of its own about two
\* different courses.
PairsOK(ps) ==
    /\ ps \in SUBSET SeedPair
    /\ IsFiniteSet(ps)
    /\ \A q \in ps : q.n \in Nat \ {0} /\ q.left # q.right
    /\ \A q, e \in ps : q.n = e.n => q = e

RequestsOK ==
    /\ canon \in [Course -> Course]
    /\ onb \in Seq(HeadToHead)
    /\ deleting \in [Request -> [round : RoundId \cup {NoRound}, course : Course \cup {NoCourse}]]
    /\ \A q \in Request : deleting[q] # Idle => deleting[q].round \in RoundId
    /\ reading \in [Request -> SUBSET SeedPair]
    /\ \A q \in Request : PairsOK(reading[q])
    /\ saving \in [busy : BOOLEAN, answers : Seq(HeadToHead), pairs : SUBSET SeedPair]
    /\ PairsOK(saving.pairs)

IInv == RowsOK /\ RatingsOK /\ RequestsOK

-----------------------------------------------------------------------------
(***************************************************************************)
(* Helpers.                                                                *)
(***************************************************************************)
LEMMA NewestRatingRoundLemma ==
    ASSUME NEW rs \in [RoundId -> RoundRow], NEW c \in Course
    PROVE  IF RatingRoundsOf(rs, c) = {} THEN NewestRatingRound(rs, c) = NoRound
           ELSE NewestRatingRound(rs, c) \in RatingRoundsOf(rs, c)
<1>. DEFINE mine == RatingRoundsOf(rs, c)
            ages == {rs[r].age : r \in mine}
<1>1. CASE mine = {}
    BY <1>1 DEF NewestRatingRound
<1>2. CASE mine # {}
    <2>1. mine \subseteq RoundId
        BY DEF RatingRoundsOf
    <2>2. ages \in SUBSET Nat /\ ages # {}
        <3>. HIDE DEF mine
        <3>. QED  BY <1>2, <2>1 DEF RoundRow
    <2>3. PICK m \in ages : \A y \in ages : m <= y
        <3>. HIDE DEF ages
        <3>. QED  BY <2>2, LeastNatural
    <2>4. \E r \in mine : \A s \in mine : rs[r].age <= rs[s].age
        <3>. HIDE DEF mine
        <3>. QED  BY <2>3
    <2>5. NewestRatingRound(rs, c) = CHOOSE r \in mine : \A s \in mine : rs[r].age <= rs[s].age
        BY <1>2 DEF NewestRatingRound
    <2>. HIDE DEF mine
    <2>6. NewestRatingRound(rs, c) \in mine
        BY <2>4, <2>5
    <2>. QED  BY <1>2, <2>6 DEF mine
<1>. QED  BY <1>1, <1>2

LEMMA SnapshotOfType ==
    ASSUME NEW t, WellFormed(t), NEW cs, IsFiniteSet(cs)
    PROVE  LET s == SnapshotOf(t, cs)
           IN  /\ s.entries \in [Course -> Entry]
               /\ s.unranked \subseteq Course
               /\ \A c \in Course : s.entries[c] = NoEntry <=> c \notin RankedCourses(t)
               /\ \A c \in Course : s.entries[c].tier \in Tiers \cup {"none"}
<1>. DEFINE s == SnapshotOf(t, cs)
            e(c) == [rank |-> OverallRank(t, c), tier |-> t[c].tier,
                     tier_position |-> t[c].pos, rating |-> PersonalRating(t, c),
                     confidence |-> ComparisonCounts(cs, c), incomplete |-> t[c].incomplete]
<1>1. /\ s.entries = [c \in Course |-> IF c \in RankedCourses(t) THEN e(c) ELSE NoEntry]
      /\ s.unranked = InTier(t, "not_sure")
    BY DEF SnapshotOf
<1>. HIDE DEF s
<1>2. ASSUME NEW c \in RankedCourses(t)
      PROVE  e(c) \in Entry /\ e(c) # NoEntry
    <2>1. c \in Course /\ t[c] \in Row /\ t[c].tier \in RankedTiers
        BY DEF RankedCourses, WellFormed, Table
    <2>2. OverallRank(t, c) \in Nat
        BY CountIsNat DEF OverallRank, RankedCourses
    <2>3. PersonalRating(t, c) \in Int
        BY PersonalRatingType
    <2>4. ComparisonCounts(cs, c) \in Nat \X Nat
        <3>1. \A T \in SUBSET cs : Cardinality(T) \in Nat
            BY FS_Subset, FS_CardinalityType
        <3>. QED  BY <3>1 DEF ComparisonCounts
    <2>5. t[c].tier \in Tiers /\ t[c].tier # "none" /\ t[c].pos \in Nat /\ t[c].incomplete \in BOOLEAN
        BY <2>1 DEF Row, Tiers, RankedTiers
    <2>6. e(c) \in Entry
        BY <2>2, <2>3, <2>4, <2>5 DEF Entry
    <2>7. e(c).tier # NoEntry.tier
        BY <2>5 DEF NoEntry
    <2>. QED  BY <2>6, <2>7
<1>. HIDE DEF e
<1>3. NoEntry \in Entry
    BY DEF NoEntry, Entry
<1>4. \A c \in Course : s.entries[c] \in Entry
    BY <1>1, <1>2, <1>3
<1>5. s.entries \in [Course -> Entry]
    BY <1>1, <1>4
<1>6. s.unranked \subseteq Course
    BY <1>1 DEF InTier
<1>7. \A c \in Course : s.entries[c] = NoEntry <=> c \notin RankedCourses(t)
    BY <1>1, <1>2
<1>8. \A c \in Course : s.entries[c].tier \in Tiers \cup {"none"}
    BY <1>4 DEF Entry
<1>. QED  BY <1>5, <1>6, <1>7, <1>8 DEF s

\* A set of two courses.
LEMMA PairIsPair ==
    ASSUME NEW a \in Course, NEW b \in Course, a # b
    PROVE  {a, b} \in Pairs
<1>1. IsFiniteSet({a}) /\ Cardinality({a}) = 1
    BY FS_Singleton
<1>2. Cardinality({a} \cup {b}) = 2
    BY <1>1, FS_AddElement
<1>3. {a} \cup {b} = {a, b}
    OBVIOUS
<1>. QED  BY <1>2, <1>3 DEF Pairs

LEMMA AddComparisonLemma ==
    ASSUME NEW cs \in SUBSET Comparison, IsFiniteSet(cs),
           NEW a \in Course, NEW b \in Course, a # b, NEW w \in Course \cup {NoCourse}
    PROVE  /\ AddComparison(cs, {a, b}, w) \subseteq Comparison
           /\ IsFiniteSet(AddComparison(cs, {a, b}, w))
<1>. DEFINE same == {x \in cs : x.pair = {a, b} /\ x.preferred = w}
            x0 == [pair |-> {a, b}, preferred |-> w, n |-> 1 + Cardinality(same)]
<1>1. Cardinality(same) \in Nat
    BY FS_Subset, FS_CardinalityType
<1>2. AddComparison(cs, {a, b}, w) = cs \cup {x0}
    BY DEF AddComparison
<1>. HIDE DEF same
<1>3. 1 + Cardinality(same) \in Nat \ {0}
    BY <1>1
<1>4. {a, b} \in Pairs
    BY PairIsPair
<1>5. x0 \in Comparison
    BY <1>3, <1>4 DEF Comparison
<1>. HIDE DEF x0
<1>6. IsFiniteSet(cs \cup {x0})
    BY FS_AddElement
<1>. QED  BY <1>2, <1>5, <1>6

-----------------------------------------------------------------------------
(***************************************************************************)
(* Staging a snapshot establishes everything the invariant says of rows    *)
(* and ratings, from well-formed rows and projections that own their round.*)
(***************************************************************************)
LEMMA StageLemma ==
    ASSUME NEW t, WellFormed(t),
           NEW cs \in SUBSET Comparison, IsFiniteSet(cs),
           NEW rs \in [RoundId -> RoundRow],
           NEW pj \in [Course -> Projection], OwnsRounds(pj, rs),
           StageAndCommit(t, cs, rs, pj)
    PROVE  RowsOK' /\ RatingsOK'
<1>1. /\ table' = Normalized(t)
      /\ comparisons' = cs
      /\ rounds' = rs
      /\ snap' = SnapshotOf(table', comparisons')
      /\ proj' = ProjectionsOf(snap', rs, pj)
    BY DEF StageAndCommit
<1>2. WellFormed(table') /\ Dense(table')
    BY <1>1, NormalizedWellFormed, NormalizedDense
<1>3. /\ snap'.entries \in [Course -> Entry]
      /\ \A c \in Course : snap'.entries[c] = NoEntry <=> c \notin RankedCourses(table')
    BY <1>1, <1>2, SnapshotOfType
<1>. DEFINE owner(c) == IF pj[c].round # NoRound THEN pj[c].round ELSE NewestRatingRound(rs, c)
<1>4. ASSUME NEW c \in Course
      PROVE  /\ proj'[c] = ProjectionOf(snap'.entries[c], owner(c))
             /\ owner(c) \in RatingRoundsOf(rs, c) \cup {NoRound}
             /\ RatingRoundsOf(rs, c) # {} => owner(c) # NoRound
    <2>1. proj'[c] = ProjectionOf(snap'.entries[c], owner(c))
        BY <1>1 DEF ProjectionsOf
    <2>2. pj[c].round # NoRound => pj[c].round \in RatingRoundsOf(rs, c)
        BY DEF OwnsRounds, RatingRoundsOf, Projection
    <2>3. NoRound \notin RatingRoundsOf(rs, c)
        BY RankingAssumption DEF RatingRoundsOf
    <2>. QED  BY <2>1, <2>2, <2>3, NewestRatingRoundLemma
<1>. HIDE DEF owner
<1>5. ASSUME NEW c \in Course
      PROVE  /\ proj'[c] \in Projection
             /\ proj'[c].round # NoRound => rs[proj'[c].round].course = c
             /\ proj'[c] = ProjectionOf(snap'.entries[c], proj'[c].round)
             /\ c \in RankedCourses(table') /\ RatingRoundsOf(rs, c) # {} => proj'[c] # NoProjection
    <2>1. CASE snap'.entries[c] = NoEntry \/ owner(c) = NoRound
        <3>1. proj'[c] = NoProjection
            BY <1>4, <2>1 DEF ProjectionOf
        <3>2. NoProjection \in Projection /\ NoProjection.round = NoRound
            BY DEF NoProjection, Projection
        <3>. QED  BY <1>3, <1>4, <2>1, <3>1, <3>2 DEF ProjectionOf
    <2>2. CASE snap'.entries[c] # NoEntry /\ owner(c) # NoRound
        <3>. DEFINE e == snap'.entries[c]
        <3>1. proj'[c] = [round |-> owner(c), tier |-> e.tier, rating |-> e.rating,
                          confidence |-> e.confidence]
            BY <1>4, <2>2 DEF ProjectionOf
        <3>2. e \in Entry
            BY <1>3
        <3>3. owner(c) \in RoundId /\ rs[owner(c)].course = c
            BY <1>4, <2>2 DEF RatingRoundsOf
        <3>. HIDE DEF e
        <3>4. proj'[c] \in Projection /\ proj'[c].round = owner(c)
            BY <3>1, <3>2, <3>3 DEF Entry, Projection
        <3>5. proj'[c] # NoProjection
            BY <2>2, <3>4 DEF NoProjection
        <3>. QED  BY <1>4, <3>3, <3>4, <3>5
    <2>. QED  BY <2>1, <2>2
<1>6. proj' \in [Course -> Projection]
    <2>1. proj' = [c \in Course |-> proj'[c]]
        BY <1>1 DEF ProjectionsOf
    <2>. QED  BY <1>5, <2>1
<1>7. RowsOK'
    BY <1>1, <1>2, <1>6 DEF RowsOK
<1>8. OwnsRounds(proj, rounds)'
    BY <1>1, <1>5 DEF OwnsRounds
<1>9. RatedCoursesAreProjected'
    <2>1. \A c \in RankedCourses(table)' : c \in Course
        BY DEF RankedCourses
    <2>2. \A c : RatingRoundsOf(rounds, c)' = RatingRoundsOf(rs, c)
        BY <1>1 DEF RatingRoundsOf
    <2>. QED  BY <1>5, <2>1, <2>2 DEF RatedCoursesAreProjected
<1>10. RatingsOK'
    BY <1>1, <1>5, <1>8, <1>9 DEF RatingsOK
<1>. QED  BY <1>7, <1>10

\* Nothing staged and no round moved to another course.
LEMMA UnstagedLemma ==
    ASSUME IInv, UNCHANGED <<table, comparisons, proj, snap>>,
           rounds' \in [RoundId -> RoundRow],
           \A r \in RoundId : rounds'[r].course = rounds[r].course
    PROVE  RowsOK' /\ RatingsOK'
<1>1. RowsOK /\ RatingsOK
    BY DEF IInv
<1>2. RowsOK'
    BY <1>1 DEF RowsOK
<1>3. \A c : RatingRoundsOf(rounds, c)' = RatingRoundsOf(rounds, c)
    BY DEF RatingRoundsOf
<1>4. RatedCoursesAreProjected'
    BY <1>1, <1>3 DEF RatingsOK, RatedCoursesAreProjected
<1>5. OwnsRounds(proj, rounds)'
    <2>1. \A c \in Course : proj[c].round # NoRound => proj[c].round \in RoundId
        BY <1>1 DEF RowsOK, Projection
    <2>. QED  BY <1>1, <2>1 DEF RatingsOK, OwnsRounds
<1>6. RatingsOK'
    BY <1>1, <1>4, <1>5 DEF RatingsOK
<1>. QED  BY <1>2, <1>6

LEMMA RemovedLemma ==
    ASSUME NEW rs \in [RoundId -> RoundRow], NEW r \in RoundId
    PROVE  /\ Removed(rs, r) \in [RoundId -> RoundRow]
           /\ \A s \in RoundId \ {r} : Removed(rs, r)[s].course = rs[s].course
<1>. DEFINE u == Removed(rs, r)
<1>1. u = [s \in RoundId |->
            IF s = r THEN FreeRound
            ELSE IF rs[r].course # NoCourse /\ rs[s].age > rs[r].age
                 THEN [rs[s] EXCEPT !.age = @ - 1] ELSE rs[s]]
    BY DEF Removed
<1>. HIDE DEF u
<1>2. u[r] \in RoundRow
    BY <1>1 DEF FreeRound, RoundRow
<1>3. ASSUME NEW s \in RoundId \ {r}
      PROVE  u[s] \in RoundRow /\ u[s].course = rs[s].course
    <2>1. rs[s] \in RoundRow /\ rs[r] \in RoundRow
        OBVIOUS
    <2>2. CASE rs[s].age > rs[r].age
        <3>1. u[s] = [rs[s] EXCEPT !.age = @ - 1] \/ u[s] = rs[s]
            BY <1>1
        <3>2. rs[s].age - 1 \in Nat
            BY <2>1, <2>2 DEF RoundRow
        <3>. QED  BY <2>1, <3>1, <3>2 DEF RoundRow
    <2>3. CASE ~ (rs[s].age > rs[r].age)
        BY <1>1, <2>1, <2>3 DEF RoundRow
    <2>. QED  BY <2>2, <2>3
<1>4. u \in [RoundId -> RoundRow]
    BY <1>1, <1>2, <1>3
<1>. QED  BY <1>3, <1>4 DEF u

\* A write to round r moves no other round to another course.
LEMMA TouchedLemma ==
    ASSUME NEW rs \in [RoundId -> RoundRow], NEW r \in RoundId, NEW c \in Course,
           NEW u \in Touched(rs, r, c)
    PROVE  /\ u \in [RoundId -> RoundRow]
           /\ u[r].course = c
           /\ \A s \in RoundId \ {r} : u[s].course = rs[s].course
<1>1. PICK others \in [RoundId -> RoundRow] : others = Removed(rs, r)
    BY RemovedLemma
<1>2. \A s \in RoundId : others[s] \in RoundRow /\ others[s].age \in Nat
    BY DEF RoundRow
<1>3. PICK n \in Nat : u = TouchedAt(rs, r, c, n)
    <2>1. PICK n \in {1} \cup {others[s].age + 1 : s \in RatingRounds(rs) \ {r}} : u = TouchedAt(rs, r, c, n)
        BY <1>1 DEF Touched
    <2>2. n \in Nat
        BY <1>2 DEF RatingRounds
    <2>. QED  BY <2>1, <2>2
<1>4. u = [s \in RoundId |->
            IF s = r THEN [course |-> c, age |-> n]
            ELSE IF others[s].age >= n THEN [others[s] EXCEPT !.age = @ + 1] ELSE others[s]]
    BY <1>1, <1>3 DEF TouchedAt
<1>5. u[r] \in RoundRow /\ u[r].course = c
    <2>1. u[r] = [course |-> c, age |-> n]
        BY <1>4
    <2>. QED  BY <2>1 DEF RoundRow
<1>6. ASSUME NEW s \in RoundId \ {r}
      PROVE  u[s] \in RoundRow /\ u[s].course = rs[s].course
    <2>1. others[s].course = rs[s].course
        BY <1>1, RemovedLemma
    <2>2. u[s] = [others[s] EXCEPT !.age = @ + 1] \/ u[s] = others[s]
        BY <1>4
    <2>. QED  BY <1>2, <2>1, <2>2 DEF RoundRow
<1>7. u \in [RoundId -> RoundRow]
    BY <1>4, <1>5, <1>6
<1>. QED  BY <1>5, <1>6, <1>7

-----------------------------------------------------------------------------
(***************************************************************************)
(* Onboarding seeds: the seeded order is total, because two courses never  *)
(* have the same first question and side.                                  *)
(***************************************************************************)
LEMMA ResolvedLemma ==
    ASSUME canon \in [Course -> Course], NEW o \in Seq(HeadToHead)
    PROVE  PairsOK(Resolved(o))
<1>. DEFINE answered == {i \in DOMAIN o : /\ o[i].winner \in {o[i].left, o[i].right}
                                          /\ canon[o[i].left] # canon[o[i].right]}
            rec(i) == [n |-> i, left |-> canon[o[i].left], right |-> canon[o[i].right],
                       winner |-> canon[o[i].winner]]
            f == [i \in answered |-> rec(i)]
<1>1. Resolved(o) = {rec(i) : i \in answered}
    BY DEF Resolved
<1>2. DOMAIN o = 1 .. Len(o) /\ Len(o) \in Nat /\ \A i \in DOMAIN o : o[i] \in HeadToHead
    OBVIOUS
<1>3. answered \subseteq DOMAIN o /\ \A i \in answered :
            /\ o[i].winner \in {o[i].left, o[i].right}
            /\ canon[o[i].left] # canon[o[i].right]
    OBVIOUS
<1>. HIDE DEF answered
<1>4. IsFiniteSet(answered)
    <2>1. IsFiniteSet(1 .. Len(o))
        BY <1>2, FS_Interval
    <2>. QED  BY <1>2, <1>3, <2>1, FS_Subset
<1>5. f \in Surjection(answered, Resolved(o))
    BY <1>1 DEF Surjection
<1>6. IsFiniteSet(Resolved(o))
    <2>. HIDE DEF f
    <2>. QED  BY <1>4, <1>5, FS_Surjection
<1>7. ASSUME NEW i \in answered
      PROVE  /\ rec(i).n = i /\ i \in Nat \ {0}
             /\ rec(i).left \in Course /\ rec(i).right \in Course /\ rec(i).winner \in Course
             /\ rec(i).left # rec(i).right
    <2>1. i \in Nat \ {0} /\ o[i] \in HeadToHead
        BY <1>2, <1>3
    <2>2. o[i].left \in Course /\ o[i].right \in Course /\ o[i].winner \in Course
        BY <1>3, <2>1 DEF HeadToHead
    <2>. QED  BY <1>3, <2>1, <2>2
<1>. HIDE DEF rec
<1>8. \A q, e \in Resolved(o) : q.n = e.n => q = e
    BY <1>1, <1>7
<1>9. \A i \in answered : rec(i) \in SeedPair
    BY <1>7 DEF SeedPair, rec
<1>10. Resolved(o) \in SUBSET SeedPair
    BY <1>1, <1>9
<1>11. \A q \in Resolved(o) : q.n \in Nat \ {0} /\ q.left # q.right
    BY <1>1, <1>7
<1>. QED  BY <1>6, <1>8, <1>10, <1>11 DEF PairsOK

LEMMA PairsToSeedLemma ==
    ASSUME canon \in [Course -> Course], NEW o \in Seq(HeadToHead)
    PROVE  PairsOK(PairsToSeed(o)) /\ PairsOK({})
<1>1. PairsOK({})
    BY FS_EmptySet DEF PairsOK
<1>2. PairsOK(Resolved(o))
    BY ResolvedLemma
<1>. QED  BY <1>1, <1>2 DEF PairsToSeed

LEMMA SeedPlaceLemma ==
    ASSUME NEW o, PairsOK(o)
    PROVE  /\ SeedCourses(o) \in SUBSET Course
           /\ SeedPlace(o) \in [SeedCourses(o) -> Nat]
           /\ \A c, d \in SeedCourses(o) : c # d => SeedPlace(o)[c] # SeedPlace(o)[d]
<1>. DEFINE Q == o
            S == SeedCourses(o)
            wins(c) == Cardinality({q \in Q : q.winner = c})
            firsts(c) == {2 * q.n - 1 : q \in {x \in Q : x.left = c}} \cup
                         {2 * q.n : q \in {x \in Q : x.right = c}}
            first(c) == Min(firsts(c))
            better(c, d) == wins(c) > wins(d) \/ (wins(c) = wins(d) /\ first(c) < first(d))
            R == {p \in S \X S : better(p[1], p[2])}
<1>1. /\ IsFiniteSet(Q)
      /\ \A q \in Q : q.n \in Nat \ {0}
      /\ \A q \in Q : q.left \in Course /\ q.right \in Course
      /\ \A q, e \in Q : q.n = e.n => q = e
    BY DEF PairsOK, SeedPair
<1>2. S \in SUBSET Course /\ \A c \in S : \E q \in Q : c = q.left \/ c = q.right
    BY <1>1 DEF SeedCourses, CoursesOf
<1>3. SeedPlace(o) = [c \in S |-> Cardinality({d \in S : d = c \/ better(d, c)})]
    BY DEF SeedPlace
<1>. HIDE DEF Q, S
<1>4. \A c : wins(c) \in Nat
    <2>1. \A T \in SUBSET Q : Cardinality(T) \in Nat
        BY <1>1, FS_Subset, FS_CardinalityType
    <2>. QED  BY <2>1
<1>5. \A c \in S : firsts(c) \in SUBSET Nat /\ firsts(c) # {}
    <2>1. SUFFICES ASSUME NEW c \in S
                   PROVE  firsts(c) \in SUBSET Nat /\ firsts(c) # {}
        OBVIOUS
    <2>2. \A q \in Q : 2 * q.n - 1 \in Nat /\ 2 * q.n \in Nat
        BY <1>1
    <2>3. PICK q \in Q : c = q.left \/ c = q.right
        BY <1>2
    <2>4. 2 * q.n - 1 \in firsts(c) \/ 2 * q.n \in firsts(c)
        BY <2>3
    <2>. QED  BY <2>2, <2>4
<1>6. \A c \in S : first(c) \in firsts(c)
    <2>1. SUFFICES ASSUME NEW c \in S
                   PROVE  Min(firsts(c)) \in firsts(c)
        OBVIOUS
    <2>. DEFINE F == firsts(c)
    <2>2. F \in SUBSET Nat /\ F # {}
        BY <1>5
    <2>. HIDE DEF F
    <2>3. \E x \in F : \A y \in F : x <= y
        BY <2>2, LeastNatural
    <2>4. Min(F) \in F
        BY <2>3 DEF Min
    <2>. QED  BY <2>4 DEF F
<1>7. \A c \in S : first(c) \in Nat
    <2>. HIDE DEF first, firsts
    <2>. QED  BY <1>5, <1>6
<1>8. ASSUME NEW c \in S, NEW d \in S, first(c) = first(d)
      PROVE  c = d
    <2>. DEFINE x == first(c)
    <2>1. x \in firsts(c) /\ x \in firsts(d)
        BY <1>6, <1>8
    <2>. HIDE DEF x
    <2>2. PICK q \in Q : (q.left = c /\ x = 2 * q.n - 1) \/ (q.right = c /\ x = 2 * q.n)
        BY <2>1
    <2>3. PICK e \in Q : (e.left = d /\ x = 2 * e.n - 1) \/ (e.right = d /\ x = 2 * e.n)
        BY <2>1
    <2>4. q.n \in Nat /\ e.n \in Nat
        BY <1>1
    <2>5. q.n = e.n /\ (x = 2 * q.n - 1 <=> x = 2 * e.n - 1)
        BY <2>2, <2>3, <2>4
    <2>6. q = e
        BY <1>1, <2>5
    <2>. QED  BY <2>2, <2>3, <2>4, <2>5, <2>6
<1>. HIDE DEF wins, first
<1>9. \A c, d \in S : <<c, d>> \in R <=> better(c, d)
    OBVIOUS
<1>10. StrictOrder(S, R)
    <2>1. \A c \in S : ~ better(c, c)
        BY <1>4, <1>7
    <2>2. \A c, d, e \in S : better(c, d) /\ better(d, e) => better(c, e)
        BY <1>4, <1>7
    <2>3. \A c, d \in S : c # d => better(c, d) \/ better(d, c)
        <3>1. SUFFICES ASSUME NEW c \in S, NEW d \in S, c # d
                       PROVE  better(c, d) \/ better(d, c)
            OBVIOUS
        <3>2. first(c) # first(d)
            BY <1>8, <3>1
        <3>3. first(c) \in Nat /\ first(d) \in Nat /\ wins(c) \in Nat /\ wins(d) \in Nat
            BY <1>4, <1>7
        <3>. QED  BY <3>2, <3>3
    <2>. HIDE DEF R, better
    <2>. QED  BY <1>9, <2>1, <2>2, <2>3 DEF StrictOrder
<1>. HIDE DEF R, better
<1>11. \A c \in S : SeedPlace(o)[c] = Cardinality(DownSet(S, R, c))
    <2>1. \A c \in S : {d \in S : d = c \/ better(d, c)} = DownSet(S, R, c)
        BY <1>9 DEF DownSet
    <2>. QED  BY <1>3, <2>1
<1>12. IsFiniteSet(S) /\ Cardinality(S) \in Nat
    BY <1>2, CountIsNat
<1>13. /\ \A c \in S : SeedPlace(o)[c] \in 1 .. Cardinality(S)
       /\ \A c, d \in S : <<c, d>> \in R => SeedPlace(o)[c] < SeedPlace(o)[d]
    BY <1>10, <1>11, <1>12, RankLemma
<1>14. \A c \in S : SeedPlace(o)[c] \in Nat
    BY <1>12, <1>13
<1>15. SeedPlace(o) \in [S -> Nat]
    BY <1>3, <1>14
<1>16. ASSUME NEW c \in S, NEW d \in S, c # d
       PROVE  SeedPlace(o)[c] # SeedPlace(o)[d]
    <2>1. <<c, d>> \in R \/ <<d, c>> \in R
        BY <1>10, <1>16 DEF StrictOrder
    <2>. QED  BY <1>13, <1>14, <2>1
<1>. QED  BY <1>2, <1>15, <1>16 DEF S

LEMMA SeedComparisonsLemma ==
    ASSUME NEW o, PairsOK(o),
           comparisons \subseteq Comparison, IsFiniteSet(comparisons)
    PROVE  SeedComparisons(o) \subseteq Comparison /\ IsFiniteSet(SeedComparisons(o))
<1>. DEFINE new == {q \in o :
                    /\ {q.left, q.right} \subseteq SeedCourses(o)
                    /\ \A x \in comparisons : x.pair = {q.left, q.right} => x.preferred = NoCourse
                    /\ \A e \in o : {e.left, e.right} = {q.left, q.right} => q.n <= e.n}
            rec(q) == [pair |-> {q.left, q.right}, preferred |-> q.winner, n |-> 1]
            f == [q \in new |-> rec(q)]
            added == {rec(q) : q \in new}
<1>1. SeedComparisons(o) = comparisons \cup added
    BY DEF SeedComparisons
<1>2. new \in SUBSET o
    OBVIOUS
<1>. HIDE DEF new
<1>3. IsFiniteSet(new)
    BY <1>2, FS_Subset DEF PairsOK
<1>4. f \in Surjection(new, added)
    BY DEF Surjection
<1>5. IsFiniteSet(added)
    <2>. HIDE DEF f, added
    <2>. QED  BY <1>3, <1>4, FS_Surjection
<1>6. \A q \in new : rec(q) \in Comparison
    <2>1. SUFFICES ASSUME NEW q \in new
                   PROVE  rec(q) \in Comparison
        OBVIOUS
    <2>2. q.left \in Course /\ q.right \in Course /\ q.winner \in Course /\ q.left # q.right
        BY <1>2 DEF PairsOK, SeedPair
    <2>3. {q.left, q.right} \in Pairs
        BY <2>2, PairIsPair
    <2>. QED  BY <2>2, <2>3 DEF Comparison
<1>7. added \subseteq Comparison
    BY <1>6
<1>. HIDE DEF added
<1>8. IsFiniteSet(comparisons \cup added)
    BY <1>5, FS_Union
<1>. QED  BY <1>1, <1>7, <1>8

\* Seeding keeps the invariant of rows and ratings.
LEMMA SeedLemma ==
    ASSUME IInv, NEW o, PairsOK(o), Seed(o)
    PROVE  RowsOK' /\ RatingsOK'
<1>1. /\ canon \in [Course -> Course]
      /\ WellFormed(table)
      /\ comparisons \subseteq Comparison /\ IsFiniteSet(comparisons)
      /\ rounds \in [RoundId -> RoundRow]
      /\ proj \in [Course -> Projection]
      /\ OwnsRounds(proj, rounds)
    BY DEF IInv, RowsOK, RatingsOK, RequestsOK
<1>2. WellFormed(SeedRows(table, SeedCourses(o), SeedPlace(o)))
    BY <1>1, SeedPlaceLemma, SeedRowsLemma
<1>3. SeedComparisons(o) \subseteq Comparison /\ IsFiniteSet(SeedComparisons(o))
    BY <1>1, SeedComparisonsLemma
<1>. QED  BY <1>1, <1>2, <1>3, StageLemma DEF Seed

-----------------------------------------------------------------------------
(***************************************************************************)
(* The requests.                                                           *)
(***************************************************************************)
LEMMA InitIInv == Init => IInv
<1>. SUFFICES ASSUME Init
              PROVE  IInv
    OBVIOUS
<1>1. /\ table = EmptyTable /\ comparisons = {}
      /\ rounds = [r \in RoundId |-> FreeRound]
      /\ proj = [c \in Course |-> NoProjection]
      /\ snap = SnapshotOf(EmptyTable, {})
      /\ canon = [c \in Course |-> c] /\ onb = <<>>
      /\ deleting = [q \in Request |-> Idle]
    BY DEF Init
<1>2. Assigned(EmptyTable) = {} /\ RankedCourses(EmptyTable) = {}
    BY DEF Assigned, RankedCourses, EmptyTable, NoRow, RankedTiers
<1>3. WellFormed(table)
    <2>1. NoRow \in Row /\ NoRow.tier = "none"
        BY DEF NoRow, Row
    <2>2. EmptyTable \in Table
        BY <2>1 DEF EmptyTable, Table
    <2>3. \A c \in Course : EmptyTable[c] = NoRow
        BY DEF EmptyTable
    <2>. QED  BY <1>1, <1>2, <2>1, <2>2, <2>3 DEF WellFormed
<1>4. Dense(table)
    BY <1>1, <1>2 DEF Dense
<1>5. FreeRound \in RoundRow /\ NoProjection \in Projection /\ NoProjection.round = NoRound
    BY DEF FreeRound, RoundRow, NoProjection, Projection
<1>6. RowsOK
    BY <1>1, <1>3, <1>4, <1>5, FS_EmptySet DEF RowsOK
<1>7. \A c \in Course : snap.entries[c] = NoEntry
    BY <1>1, <1>2, <1>3, SnapshotOfType, FS_EmptySet
<1>8. RatingsOK
    <2>1. OwnsRounds(proj, rounds)
        BY <1>1, <1>5 DEF OwnsRounds
    <2>2. \A c \in Course : proj[c] = ProjectionOf(snap.entries[c], proj[c].round)
        BY <1>1, <1>7 DEF ProjectionOf
    <2>3. RatedCoursesAreProjected
        BY <1>1, <1>2 DEF RatedCoursesAreProjected
    <2>. QED  BY <1>1, <2>1, <2>2, <2>3 DEF RatingsOK
<1>9. RequestsOK
    <2>1. PairsOK({})
        BY FS_EmptySet DEF PairsOK
    <2>2. /\ reading = [q \in Request |-> {}]
          /\ saving = NoSave /\ NoSave.pairs = {}
          /\ NoSave \in [busy : BOOLEAN, answers : Seq(HeadToHead), pairs : SUBSET SeedPair]
        BY DEF Init, NoSave
    <2>. QED  BY <1>1, <2>1, <2>2 DEF RequestsOK, Idle
<1>. QED  BY <1>6, <1>8, <1>9 DEF IInv

\* What a request may assume.
LEMMA IInvFacts ==
    ASSUME IInv
    PROVE  /\ WellFormed(table)
           /\ comparisons \in SUBSET Comparison /\ IsFiniteSet(comparisons)
           /\ rounds \in [RoundId -> RoundRow]
           /\ proj \in [Course -> Projection]
           /\ OwnsRounds(proj, rounds)
           /\ canon \in [Course -> Course]
           /\ onb \in Seq(HeadToHead)
           /\ \A q \in Request : PairsOK(reading[q])
           /\ PairsOK(saving.pairs)
BY DEF IInv, RowsOK, RatingsOK, RequestsOK

LEMMA PlaceCourseWellFormed ==
    ASSUME IInv, NEW t, WellFormed(t), NEW p \in Placement
    PROVE  WellFormed(PlaceCourse(t, p))
<1>1. canon[p.course] \in Course /\ p.tier \in Tiers
    BY IInvFacts, RankingAssumption DEF Placement
<1>2. p.pos \in Nat
    <2>1. Cardinality(Course) \in Nat
        BY CountIsNat
    <2>2. p.pos \in 0 .. Cardinality(Course)
        BY DEF Placement
    <2>. QED  BY <2>1, <2>2
<1>. QED  BY <1>1, <1>2, PlaceAtWellFormed DEF PlaceCourse

\* A decisive comparison of two ranked courses.
LEMMA RefinedWellFormed ==
    ASSUME NEW t, WellFormed(t), NEW a \in Assigned(t), NEW b \in Assigned(t), NEW result
    PROVE  WellFormed(Refined(t, a, b, result))
<1>1. a \in Course /\ b \in Course
    BY DEF Assigned
<1>2. WellFormed(Prefer(t, a, b)) /\ WellFormed(Prefer(t, b, a))
    BY <1>1, PreferWellFormed
<1>. QED  BY <1>2 DEF Refined

LEMMA PreferredType ==
    ASSUME NEW a \in Course, NEW b \in Course, NEW result
    PROVE  Preferred(a, b, result) \in Course \cup {NoCourse}
BY DEF Preferred

LEMMA PlaceStep ==
    ASSUME IInv, NEW p \in Placement, PlaceInTiers(p)
    PROVE  RowsOK' /\ RatingsOK'
<1>1. WellFormed(PlaceCourse(table, p))
    BY IInvFacts, PlaceCourseWellFormed
<1>. QED  BY <1>1, IInvFacts, StageLemma DEF PlaceInTiers

LEMMA PlaceTwoStep ==
    ASSUME IInv, NEW p \in Placement, NEW q \in Placement, PlaceTwoInTiers(p, q)
    PROVE  RowsOK' /\ RatingsOK'
<1>1. WellFormed(PlaceCourse(table, p))
    BY IInvFacts, PlaceCourseWellFormed
<1>2. WellFormed(PlaceCourse(PlaceCourse(table, p), q))
    BY <1>1, PlaceCourseWellFormed
<1>. QED  BY <1>2, IInvFacts, StageLemma DEF PlaceTwoInTiers

LEMMA CompareStep ==
    ASSUME IInv, NEW x \in Course, NEW y \in Course, NEW result \in Outcome,
           CompareCourses(x, y, result)
    PROVE  RowsOK' /\ RatingsOK'
<1>. DEFINE a == canon[x]
            b == canon[y]
            cs == AddComparison(comparisons, {a, b}, Preferred(a, b, result))
<1>1. a \in Course /\ b \in Course /\ a # b /\ table[a].tier = table[b].tier
      /\ table[a].tier \in RankedTiers
    BY IInvFacts DEF CompareCourses
<1>2. a \in Assigned(table) /\ b \in Assigned(table)
    BY <1>1 DEF Assigned, RankedTiers
<1>3. WellFormed(Refined(table, a, b, result))
    BY <1>2, IInvFacts, RefinedWellFormed
<1>4. cs \subseteq Comparison /\ IsFiniteSet(cs)
    BY <1>1, IInvFacts, PreferredType, AddComparisonLemma
<1>5. StageAndCommit(Refined(table, a, b, result), cs, rounds, proj)
    BY DEF CompareCourses
<1>. HIDE DEF cs, a, b
<1>. QED  BY <1>3, <1>4, <1>5, IInvFacts, StageLemma

\* Rows and comparisons after a rating.
LEMMA PlacedRowsLemma ==
    ASSUME IInv, NEW c \in Course, NEW k \in RatingTier
    PROVE  WellFormed(PlacedRows(c, k)) /\ PlacedRows(c, k)[c].tier = k
<1>1. IdentityOf(c) \in SUBSET Course /\ c \in IdentityOf(c)
    BY DEF IdentityOf
<1>2. WellFormed(MergeIdentity(table, c, IdentityOf(c)))
    BY <1>1, IInvFacts, MergeIdentityLemma
<1>3. k \in Tiers
    BY DEF RatingTier, Tiers
<1>. QED  BY <1>2, <1>3, AppendToWellFormed DEF PlacedRows

LEMMA RatedRowsLemma ==
    ASSUME IInv, NEW c \in Course, NEW k \in RatingTier, NEW m \in Refinements,
           RefinementAccepted(c, k, m)
    PROVE  /\ WellFormed(RatedRows(c, k, m))
           /\ RatedComparisons(c, m) \in SUBSET Comparison
           /\ IsFiniteSet(RatedComparisons(c, m))
<1>1. WellFormed(PlacedRows(c, k)) /\ PlacedRows(c, k)[c].tier = k
    BY PlacedRowsLemma
<1>2. CASE m.with = NoCourse
    BY <1>1, <1>2, IInvFacts DEF RatedRows, RatedComparisons
<1>3. CASE m.with # NoCourse
    <2>. DEFINE b == canon[m.with]
    <2>1. m.with \in Course
        BY <1>3 DEF Refinements
    <2>2. b \in Course /\ b # c /\ PlacedRows(c, k)[b].tier = k
        BY <1>3, <2>1, IInvFacts DEF RefinementAccepted
    <2>3. k # "none"
        BY DEF RatingTier, RankedTiers
    <2>4. c \in Assigned(PlacedRows(c, k)) /\ b \in Assigned(PlacedRows(c, k))
        BY <1>1, <2>2, <2>3 DEF Assigned
    <2>5. RatedRows(c, k, m) = Refined(PlacedRows(c, k), c, b, m.result)
        BY <1>3 DEF RatedRows
    <2>6. RatedComparisons(c, m) =
            AddComparison(comparisons, {c, b}, Preferred(c, b, m.result))
        BY <1>3 DEF RatedComparisons
    <2>. HIDE DEF b
    <2>7. WellFormed(Refined(PlacedRows(c, k), c, b, m.result))
        BY <1>1, <2>4, RefinedWellFormed
    <2>8. Preferred(c, b, m.result) \in Course \cup {NoCourse}
        BY <2>2, PreferredType
    <2>9. /\ AddComparison(comparisons, {c, b}, Preferred(c, b, m.result)) \subseteq Comparison
          /\ IsFiniteSet(AddComparison(comparisons, {c, b}, Preferred(c, b, m.result)))
        BY <2>2, <2>8, IInvFacts, AddComparisonLemma
    <2>. QED  BY <2>5, <2>6, <2>7, <2>9
<1>. QED  BY <1>2, <1>3

\* A rating that reuses the round of the identity's current rating.
LEMMA ReviseStep ==
    ASSUME IInv, NEW x \in Course, NEW k \in RatingTier, NEW m \in Refinements,
           ReviseRating(x, k, m)
    PROVE  RowsOK' /\ RatingsOK'
<1>. DEFINE c == canon[x]
<1>1. c \in Course /\ RefinementAccepted(c, k, m)
    BY IInvFacts DEF ReviseRating
<1>2. PICK a \in RatedAs(c) :
        \E rs \in Touched(rounds, proj[a].round, c) :
            StageAndCommit(RatedRows(c, k, m), RatedComparisons(c, m), rs,
                           IF a = c THEN proj ELSE [proj EXCEPT ![a] = NoProjection])
    BY DEF ReviseRating
<1>. HIDE DEF c
<1>3. PICK rs \in Touched(rounds, proj[a].round, c) :
        StageAndCommit(RatedRows(c, k, m), RatedComparisons(c, m), rs,
                       IF a = c THEN proj ELSE [proj EXCEPT ![a] = NoProjection])
    BY <1>2
<1>. DEFINE r == proj[a].round
            pj == IF a = c THEN proj ELSE [proj EXCEPT ![a] = NoProjection]
<1>4. a \in Course /\ proj[a] # NoProjection
    BY <1>1 DEF RatedAs, IdentityOf
<1>5. r \in RoundId /\ rounds[r].course = a
    <2>1. proj[a] = ProjectionOf(snap.entries[a], r)
        BY <1>4 DEF IInv, RatingsOK
    <2>2. r # NoRound
        BY <1>4, <2>1 DEF ProjectionOf
    <2>3. proj[a] \in Projection
        BY <1>4, IInvFacts
    <2>. QED  BY <1>4, <2>2, <2>3, IInvFacts DEF OwnsRounds, Projection
<1>6. /\ rs \in [RoundId -> RoundRow]
      /\ rs[r].course = c
      /\ \A s \in RoundId \ {r} : rs[s].course = rounds[s].course
    BY <1>1, <1>3, <1>5, IInvFacts, TouchedLemma
<1>7. pj \in [Course -> Projection] /\ OwnsRounds(pj, rs)
    <2>1. NoProjection \in Projection /\ NoProjection.round = NoRound
        BY DEF NoProjection, Projection
    <2>2. pj \in [Course -> Projection]
        BY <2>1, IInvFacts
    <2>3. SUFFICES ASSUME NEW d \in Course, pj[d].round # NoRound
                   PROVE  rs[pj[d].round].course = d
        BY <2>2 DEF OwnsRounds
    <2>4. pj[d] = proj[d] /\ (a # c => d # a)
        BY <2>1, <2>3, IInvFacts
    <2>5. proj[d].round \in RoundId /\ rounds[proj[d].round].course = d
        BY <2>3, <2>4, IInvFacts DEF OwnsRounds, Projection
    <2>6. CASE proj[d].round = r
        BY <1>5, <1>6, <2>4, <2>5, <2>6
    <2>7. CASE proj[d].round # r
        BY <1>6, <2>4, <2>5, <2>7
    <2>. QED  BY <2>6, <2>7
<1>8. StageAndCommit(RatedRows(c, k, m), RatedComparisons(c, m), rs, pj)
    BY <1>3
<1>. HIDE DEF pj
<1>. QED  BY <1>1, <1>6, <1>7, <1>8, RatedRowsLemma, StageLemma

\* A rating that creates its round.
LEMMA CreateStep ==
    ASSUME IInv, NEW x \in Course, NEW k \in RatingTier, NEW m \in Refinements,
           CreateRating(x, k, m)
    PROVE  RowsOK' /\ RatingsOK'
<1>. DEFINE c == canon[x]
<1>1. c \in Course /\ RefinementAccepted(c, k, m)
    BY IInvFacts DEF CreateRating
<1>2. PICK r \in FreshRounds : \E rs \in Touched(rounds, r, c) :
        StageAndCommit(RatedRows(c, k, m), RatedComparisons(c, m), rs, proj)
    BY DEF CreateRating
<1>6. PICK rs \in Touched(rounds, r, c) :
        StageAndCommit(RatedRows(c, k, m), RatedComparisons(c, m), rs, proj)
    BY <1>2
<1>. HIDE DEF c
<1>3. r \in RoundId /\ rounds[r].course = NoCourse
    BY DEF FreshRounds, FreeRound
<1>4. /\ rs \in [RoundId -> RoundRow]
      /\ \A s \in RoundId \ {r} : rs[s].course = rounds[s].course
    BY <1>1, <1>3, IInvFacts, TouchedLemma
<1>5. OwnsRounds(proj, rs)
    <2>1. SUFFICES ASSUME NEW d \in Course, proj[d].round # NoRound
                   PROVE  rs[proj[d].round].course = d
        BY DEF OwnsRounds
    <2>2. proj[d].round \in RoundId /\ rounds[proj[d].round].course = d
        BY <2>1, IInvFacts DEF OwnsRounds, Projection
    <2>3. proj[d].round # r
        BY <1>3, <2>2, RankingAssumption
    <2>. QED  BY <1>4, <2>2, <2>3
<1>. QED  BY <1>1, <1>6, <1>4, <1>5, IInvFacts, RatedRowsLemma, StageLemma

\* The deletion of a round, with the course it was read for.
LEMMA DeleteStep ==
    ASSUME IInv, NEW q \in Request, DeleteRoundCommit(q)
    PROVE  RowsOK' /\ RatingsOK'
<1>. DEFINE r == deleting[q].round
            c == deleting[q].course
            pj == [d \in Course |-> IF proj[d].round = r THEN NoProjection ELSE proj[d]]
            cs == {y \in comparisons : c \notin y.pair}
<1>1. r \in RoundId
    BY DEF DeleteRoundCommit, IInv, RequestsOK
<1>2. StageAndCommit(DropRows(table, {c}), cs, Removed(rounds, r), pj)
    BY DEF DeleteRoundCommit
<1>3. WellFormed(DropRows(table, {c}))
    BY IInvFacts, DropRowsLemma
<1>4. cs \subseteq Comparison /\ IsFiniteSet(cs)
    BY IInvFacts, FS_Subset
<1>. HIDE DEF r, c, cs
<1>5. /\ Removed(rounds, r) \in [RoundId -> RoundRow]
      /\ \A s \in RoundId \ {r} : Removed(rounds, r)[s].course = rounds[s].course
    BY <1>1, IInvFacts, RemovedLemma
<1>6. pj \in [Course -> Projection]
    <2>1. NoProjection \in Projection
        BY DEF NoProjection, Projection
    <2>. QED  BY <2>1, IInvFacts
<1>7. OwnsRounds(pj, Removed(rounds, r))
    <2>1. SUFFICES ASSUME NEW d \in Course, pj[d].round # NoRound
                   PROVE  Removed(rounds, r)[pj[d].round].course = d
        BY DEF OwnsRounds
    <2>2. pj[d] = proj[d] /\ proj[d].round # r
        BY <2>1 DEF NoProjection
    <2>3. proj[d].round \in RoundId /\ rounds[proj[d].round].course = d
        BY <2>1, <2>2, IInvFacts DEF OwnsRounds, Projection
    <2>. QED  BY <1>5, <2>2, <2>3
<1>. HIDE DEF pj
<1>. QED  BY <1>2, <1>3, <1>4, <1>5, <1>6, <1>7, StageLemma

-----------------------------------------------------------------------------
(***************************************************************************)
(* The invariant and the theorems.                                         *)
(***************************************************************************)
LEMMA RequestsUnchanged ==
    ASSUME IInv, UNCHANGED <<canon, onb, requestVars>>
    PROVE  RequestsOK'
BY DEF IInv, RequestsOK, requestVars

\* What a request seeds, if anything.
LEMMA SeedIfNeededStep ==
    ASSUME IInv, NEW o, PairsOK(o), SeedIfNeeded(o)
    PROVE  RowsOK' /\ RatingsOK'
<1>1. CASE Seed(o)
    BY <1>1, SeedLemma
<1>2. CASE UNCHANGED rowVars
    BY <1>2, IInvFacts, UnstagedLemma DEF rowVars
<1>. QED  BY <1>1, <1>2 DEF SeedIfNeeded

LEMMA NextIInv == IInv /\ [Next]_vars => IInv'
<1>. SUFFICES ASSUME IInv, [Next]_vars
              PROVE  IInv'
    OBVIOUS
<1>0. RowsOK /\ RatingsOK /\ RequestsOK
    BY DEF IInv
<1>1. CASE \E q \in Request : GetRankingBegin(q)
    <2>1. PICK q \in Request : GetRankingBegin(q)
        BY <1>1
    <2>2. PICK ps : ps = PairsToSeed(onb) /\ PairsOK(ps) /\ ps \in SUBSET SeedPair
        BY IInvFacts, PairsToSeedLemma DEF PairsOK
    <2>3. reading' = [reading EXCEPT ![q] = ps] /\ UNCHANGED <<rowVars, canon, onb, deleting, saving>>
        BY <2>1, <2>2 DEF GetRankingBegin
    <2>4. RequestsOK'
        BY <1>0, <2>2, <2>3 DEF RequestsOK
    <2>. QED  BY <2>3, <2>4, IInvFacts, UnstagedLemma DEF rowVars, IInv
<1>2. CASE \E q \in Request : GetRankingCommit(q)
    <2>1. PICK q \in Request : GetRankingCommit(q)
        BY <1>2
    <2>2. PairsOK({})
        BY FS_EmptySet DEF PairsOK
    <2>3. RequestsOK'
        BY <1>0, <2>1, <2>2 DEF GetRankingCommit, RequestsOK
    <2>4. PICK ps : ps = reading[q] /\ PairsOK(ps) /\ SeedIfNeeded(ps)
        BY <2>1, IInvFacts DEF GetRankingCommit
    <2>. QED  BY <2>3, <2>4, SeedIfNeededStep DEF IInv
<1>14. CASE \E o \in Answers : SaveBegin(o)
    <2>1. PICK o \in Answers : SaveBegin(o)
        BY <1>14
    <2>2. o \in Seq(HeadToHead)
        BY RankingAssumption
    <2>3. PICK ps : ps = PairsToSeed(o) /\ PairsOK(ps) /\ ps \in SUBSET SeedPair
        BY <2>2, IInvFacts, PairsToSeedLemma DEF PairsOK
    <2>4. /\ saving' = [busy |-> TRUE, answers |-> o, pairs |-> ps]
          /\ UNCHANGED <<rowVars, canon, onb, deleting, reading>>
        BY <2>1, <2>3 DEF SaveBegin
    <2>5. RequestsOK'
        BY <1>0, <2>2, <2>3, <2>4 DEF RequestsOK
    <2>. QED  BY <2>4, <2>5, IInvFacts, UnstagedLemma DEF rowVars, IInv
<1>15. CASE SaveCommit
    <2>1. PairsOK({})
        BY FS_EmptySet DEF PairsOK
    <2>2. onb' \in Seq(HeadToHead) /\ saving' = NoSave /\ UNCHANGED <<canon, deleting, reading>>
        BY <1>0, <1>15 DEF SaveCommit, RequestsOK
    <2>3. RequestsOK'
        BY <1>0, <2>1, <2>2 DEF RequestsOK, NoSave
    <2>4. PICK ps : ps = saving.pairs /\ PairsOK(ps) /\ SeedIfNeeded(ps)
        BY <1>15, IInvFacts DEF SaveCommit
    <2>. QED  BY <2>3, <2>4, SeedIfNeededStep DEF IInv
<1>3. CASE \E p \in Placement : PlaceInTiers(p)
    <2>1. PICK p \in Placement : PlaceInTiers(p)
        BY <1>3
    <2>2. RowsOK' /\ RatingsOK'
        BY <2>1, PlaceStep
    <2>. QED  BY <2>1, <2>2, RequestsUnchanged DEF PlaceInTiers, IInv
<1>4. CASE \E p, q \in Placement : PlaceTwoInTiers(p, q)
    <2>1. PICK p \in Placement, q \in Placement : PlaceTwoInTiers(p, q)
        BY <1>4
    <2>2. RowsOK' /\ RatingsOK'
        BY <2>1, PlaceTwoStep
    <2>. QED  BY <2>1, <2>2, RequestsUnchanged DEF PlaceTwoInTiers, IInv
<1>5. CASE \E x, y \in Course, result \in Outcome : CompareCourses(x, y, result)
    <2>1. PICK x \in Course, y \in Course, result \in Outcome : CompareCourses(x, y, result)
        BY <1>5
    <2>2. RowsOK' /\ RatingsOK'
        BY <2>1, CompareStep
    <2>. QED  BY <2>1, <2>2, RequestsUnchanged DEF CompareCourses, IInv
<1>6. CASE \E x \in Course, k \in RatingTier, m \in Refinements : ReviseRating(x, k, m)
    <2>1. PICK x \in Course, k \in RatingTier, m \in Refinements : ReviseRating(x, k, m)
        BY <1>6
    <2>2. RowsOK' /\ RatingsOK'
        BY <2>1, ReviseStep
    <2>. QED  BY <2>1, <2>2, RequestsUnchanged DEF ReviseRating, IInv
<1>7. CASE \E x \in Course, k \in RatingTier, m \in Refinements : CreateRating(x, k, m)
    <2>1. PICK x \in Course, k \in RatingTier, m \in Refinements : CreateRating(x, k, m)
        BY <1>7
    <2>2. RowsOK' /\ RatingsOK'
        BY <2>1, CreateStep
    <2>. QED  BY <2>1, <2>2, RequestsUnchanged DEF CreateRating, IInv
<1>8. CASE \E r \in RoundId : PatchRatingRound(r)
    <2>1. PICK r \in RoundId : PatchRatingRound(r)
        BY <1>8
    <2>2. rounds[r].course \in Course
        BY <2>1, IInvFacts DEF PatchRatingRound, RoundRow
    <2>3. /\ rounds' \in [RoundId -> RoundRow]
          /\ \A s \in RoundId : rounds'[s].course = rounds[s].course
        <3>1. PICK c \in Course : c = rounds[r].course
            BY <2>2
        <3>2. rounds \in [RoundId -> RoundRow] /\ rounds' \in Touched(rounds, r, c)
            BY <2>1, <3>1, IInvFacts DEF PatchRatingRound
        <3>. QED  BY <3>1, <3>2, TouchedLemma
    <2>4. RowsOK' /\ RatingsOK'
        BY <2>1, <2>3, UnstagedLemma DEF PatchRatingRound
    <2>. QED  BY <2>1, <2>4, RequestsUnchanged DEF PatchRatingRound, IInv
<1>9. CASE \E q \in Request, r \in RoundId : DeleteRoundBegin(q, r)
    <2>1. PICK q \in Request, r \in RoundId : DeleteRoundBegin(q, r)
        BY <1>9
    <2>2. rounds[r].course \in Course \cup {NoCourse}
        BY IInvFacts DEF RoundRow
    <2>3. RequestsOK'
        BY <1>0, <2>1, <2>2 DEF DeleteRoundBegin, rowVars, requestVars, RequestsOK
    <2>. QED  BY <2>1, <2>3, IInvFacts, UnstagedLemma DEF DeleteRoundBegin, rowVars, IInv
<1>10. CASE \E q \in Request : DeleteRoundCommit(q)
    <2>1. PICK q \in Request : DeleteRoundCommit(q)
        BY <1>10
    <2>2. RequestsOK'
        BY <1>0, <2>1 DEF DeleteRoundCommit, rowVars, requestVars, RequestsOK, Idle
    <2>. QED  BY <2>1, <2>2, DeleteStep DEF IInv
<1>11. CASE \E q \in Request : DeleteRoundAbort(q)
    <2>1. PICK q \in Request : DeleteRoundAbort(q)
        BY <1>11
    <2>2. RequestsOK'
        BY <1>0, <2>1 DEF DeleteRoundAbort, rowVars, requestVars, RequestsOK, Idle
    <2>. QED  BY <2>1, <2>2, IInvFacts, UnstagedLemma DEF DeleteRoundAbort, rowVars, IInv
<1>12. CASE \E a, b \in Course : ConfirmMapping(a, b)
    <2>1. PICK a \in Course, b \in Course : ConfirmMapping(a, b)
        BY <1>12
    <2>2. RequestsOK'
        BY <1>0, <2>1 DEF ConfirmMapping, rowVars, requestVars, RequestsOK
    <2>. QED  BY <2>1, <2>2, IInvFacts, UnstagedLemma DEF ConfirmMapping, rowVars, IInv
<1>13. CASE UNCHANGED vars
    BY <1>13, IInvFacts, UnstagedLemma, RequestsUnchanged DEF vars, rowVars, IInv
<1>. QED  BY <1>1, <1>2, <1>3, <1>4, <1>5, <1>6, <1>7, <1>8, <1>9, <1>10, <1>11, <1>12, <1>13,
          <1>14, <1>15 DEF Next

\* The inductive invariant holds in every reachable state.
THEOREM Invariant == Spec => []IInv
BY InitIInv, NextIInv, PTL DEF Spec

\* Every variable holds the rows its table can hold: tiers, positions and keys
\* of the placements, comparisons of two courses, typed entries and ratings.
THEOREM TypeCorrect == Spec => []TypeOK
<1>1. IInv => TypeOK
    <2>. SUFFICES ASSUME IInv
                  PROVE  TypeOK
        OBVIOUS
    <2>1. snap.entries \in [Course -> Entry] /\ snap.unranked \subseteq Course
        BY SnapshotOfType DEF IInv, RowsOK, RatingsOK
    <2>. QED  BY <2>1 DEF IInv, RowsOK, RequestsOK, TypeOK
<1>. QED  BY <1>1, Invariant, PTL

\* Every commit leaves each tier numbered without ties or gaps.
THEOREM DenseAlways == Spec => []DensePositions
<1>1. IInv => DensePositions
    BY DEF IInv, RowsOK, Dense, DensePositions
<1>. QED  BY <1>1, Invariant, PTL

\* The latest snapshot is what placements and comparisons say.
THEOREM SnapshotAlwaysCurrent == Spec => []SnapshotCurrent
<1>1. IInv => SnapshotCurrent
    BY DEF IInv, RatingsOK, SnapshotCurrent
<1>. QED  BY <1>1, Invariant, PTL

\* A current rating is the rating of its course's entry, and its round exists
\* and is a rating-owned round of that course.
THEOREM ProjectionsAlwaysFollow == Spec => []ProjectionsFollowSnapshot
<1>1. IInv => ProjectionsFollowSnapshot
    <2>. SUFFICES ASSUME IInv, NEW c \in Course, proj[c] # NoProjection
                  PROVE  /\ snap.entries[c] # NoEntry
                         /\ proj[c].tier = snap.entries[c].tier
                         /\ proj[c].rating = snap.entries[c].rating
                         /\ proj[c].confidence = snap.entries[c].confidence
                         /\ proj[c].round \in RatingRoundsOf(rounds, c)
        BY DEF ProjectionsFollowSnapshot
    <2>. DEFINE e == snap.entries[c]
                owner == proj[c].round
    <2>1. proj[c] = ProjectionOf(e, owner)
        BY DEF IInv, RatingsOK
    <2>. HIDE DEF e, owner
    <2>2. e # NoEntry /\ owner # NoRound
        BY <2>1 DEF ProjectionOf
    <2>3. proj[c] = [round |-> owner, tier |-> e.tier, rating |-> e.rating,
                     confidence |-> e.confidence]
        BY <2>1, <2>2 DEF ProjectionOf
    <2>4. owner \in RoundId /\ rounds[owner].course = c
        BY <2>2, IInvFacts DEF OwnsRounds, Projection, owner
    <2>. QED  BY <2>2, <2>3, <2>4 DEF RatingRoundsOf, e, owner
<1>. QED  BY <1>1, Invariant, PTL

\* No round owns the current rating of two courses.
THEOREM OneRatingAlways == Spec => []OneRatingPerRound
<1>1. IInv => OneRatingPerRound
    BY IInvFacts DEF OneRatingPerRound, OwnsRounds
<1>. QED  BY <1>1, Invariant, PTL

\* A ranked course for which a rating-owned round is kept has a current rating.
THEOREM RatedAlwaysProjected == Spec => []RatedCoursesAreProjected
<1>1. IInv => RatedCoursesAreProjected
    BY DEF IInv, RatingsOK
<1>. QED  BY <1>1, Invariant, PTL

\* Positions, comparisons, rounds, snapshot and current ratings agree after every commit.
THEOREM DerivedAlwaysAgree == Spec => []DerivedRowsAgree
<1>1. DensePositions /\ SnapshotCurrent /\ ProjectionsFollowSnapshot /\ OneRatingPerRound
        /\ RatedCoursesAreProjected => DerivedRowsAgree
    BY DEF DerivedRowsAgree
<1>. QED
    BY <1>1, DenseAlways, SnapshotAlwaysCurrent, ProjectionsAlwaysFollow, OneRatingAlways, RatedAlwaysProjected, PTL

-----------------------------------------------------------------------------
(***************************************************************************)
(* What the operations do to a row that they keep.                         *)
(***************************************************************************)

\* Renumbering changes positions only.
LEMMA NormalizedRow ==
    ASSUME NEW t, WellFormed(t), NEW c \in Course
    PROVE  /\ Normalized(t)[c].tier = t[c].tier
           /\ Normalized(t)[c].age = t[c].age
           /\ Normalized(t)[c].incomplete = t[c].incomplete
           /\ t[c].tier # "none" => Normalized(t)[c].pos = Slot(t, InTier(t, t[c].tier), c)
<1>1. t[c] \in Row /\ (t[c].tier = "none" => t[c] = NoRow)
    BY DEF WellFormed, Table
<1>2. CASE t[c].tier = "none"
    <2>1. Normalized(t)[c] = NoRow
        BY <1>2 DEF Normalized
    <2>. QED  BY <1>1, <1>2, <2>1
<1>3. CASE t[c].tier # "none"
    <2>1. Normalized(t)[c] = [t[c] EXCEPT !.pos = Slot(t, InTier(t, t[c].tier), c)]
        BY <1>3 DEF Normalized
    <2>. QED  BY <1>1, <2>1 DEF Row
<1>. QED  BY <1>2, <1>3

\* A comparison finishes no placeholder.
LEMMA PreferKeepsFlags ==
    ASSUME NEW t, WellFormed(t), NEW w \in Assigned(t), NEW l \in Course, NEW d \in Course
    PROVE  Prefer(t, w, l)[d].incomplete = t[d].incomplete
<1>. DEFINE k == t[w].tier
            target == Slot(t, InTier(t, k) \ {w}, l)
            u == InsertInTier(t, w, k, target)
<1>1. t \in Table /\ w \in Course /\ t[d] \in Row /\ t[w] \in Row
    BY DEF WellFormed, Table, Assigned
<1>2. u[d].incomplete = t[d].incomplete
    BY <1>1 DEF InsertInTier, Row
<1>. QED  BY <1>2 DEF Prefer

\* A rated course is finished.
LEMMA AppendToFinishes ==
    ASSUME NEW t, WellFormed(t), NEW c \in Course, NEW k \in Tiers
    PROVE  ~AppendTo(t, c, k)[c].incomplete
<1>1. t \in Table /\ EnsureRow(t, c) \in Table
    BY EnsureRowLemma DEF WellFormed
<1>. QED  BY <1>1 DEF AppendTo, Table, Row

\* The rows of a rating request: c is finished in tier k, and nothing of its
\* identity is left under another course.
LEMMA RatedRowOfCourse ==
    ASSUME IInv, NEW c \in Course, NEW k \in RatingTier, NEW m \in Refinements,
           RefinementAccepted(c, k, m)
    PROVE  LET t == RatedRows(c, k, m)
           IN  /\ t[c].tier = k /\ ~t[c].incomplete
               /\ \A a \in IdentityOf(c) \ {c} : t[a].tier = "none"
<1>. DEFINE u == MergeIdentity(table, c, IdentityOf(c))
            v == PlacedRows(c, k)
<1>1. IdentityOf(c) \in SUBSET Course /\ c \in IdentityOf(c)
    BY DEF IdentityOf
<1>2. WellFormed(u) /\ \A a \in IdentityOf(c) \ {c} : u[a] = NoRow
    BY <1>1, IInvFacts, MergeIdentityLemma
<1>3. v = AppendTo(u, c, k) /\ k \in Tiers /\ k # "none"
    BY DEF PlacedRows, RatingTier, Tiers, RankedTiers
<1>. HIDE DEF u, v
<1>4. /\ WellFormed(v)
      /\ v[c].tier = k
      /\ \A a \in Course \ {c} : v[a].tier = u[a].tier
      /\ ~v[c].incomplete
    BY <1>2, <1>3, AppendToWellFormed, AppendToFinishes
<1>5. \A a \in IdentityOf(c) \ {c} : v[a].tier = "none"
    BY <1>1, <1>2, <1>4 DEF NoRow
<1>6. CASE m.with = NoCourse
    BY <1>4, <1>5, <1>6 DEF RatedRows, v
<1>7. CASE m.with # NoCourse
    <2>. DEFINE b == canon[m.with]
    <2>1. m.with \in Course
        BY <1>7 DEF Refinements
    <2>2. b \in Course /\ v[b].tier = k
        BY <1>7, <2>1, IInvFacts DEF RefinementAccepted, v
    <2>3. RatedRows(c, k, m) = Refined(v, c, b, m.result)
        BY <1>7 DEF RatedRows, v
    <2>. HIDE DEF b
    <2>4. c \in Assigned(v) /\ b \in Assigned(v)
        BY <1>3, <1>4, <2>2 DEF Assigned
    <2>5. /\ \A d \in Course : Prefer(v, c, b)[d].tier = v[d].tier
          /\ \A d \in Course : Prefer(v, b, c)[d].tier = v[d].tier
        BY <1>4, <2>2, <2>4, PreferWellFormed
    <2>6. /\ Prefer(v, c, b)[c].incomplete = v[c].incomplete
          /\ Prefer(v, b, c)[c].incomplete = v[c].incomplete
        BY <1>4, <2>2, <2>4, PreferKeepsFlags
    <2>7. \A d \in Course : Refined(v, c, b, m.result)[d].tier = v[d].tier
        BY <2>5 DEF Refined
    <2>8. Refined(v, c, b, m.result)[c].incomplete = v[c].incomplete
        BY <2>6 DEF Refined
    <2>. QED  BY <1>1, <1>4, <1>5, <2>3, <2>7, <2>8
<1>. QED  BY <1>6, <1>7

-----------------------------------------------------------------------------
(***************************************************************************)
(* The order of updated_at: no two kept rounds have the same place in it.  *)
(***************************************************************************)
Kept(rs) == {r \in RoundId : rs[r].course # NoCourse}

AgesApart(rs) ==
    /\ \A r \in Kept(rs) : rs[r].age > 0
    /\ \A r, s \in Kept(rs) : r # s => rs[r].age # rs[s].age

LEMMA RemovedAges ==
    ASSUME NEW rs \in [RoundId -> RoundRow], AgesApart(rs), NEW r \in RoundId
    PROVE  AgesApart(Removed(rs, r))
<1>. DEFINE older(s) == rs[r].course # NoCourse /\ rs[s].age > rs[r].age
            u == Removed(rs, r)
<1>1. u = [s \in RoundId |->
            IF s = r THEN FreeRound
            ELSE IF older(s) THEN [rs[s] EXCEPT !.age = @ - 1] ELSE rs[s]]
    BY DEF Removed
<1>2. \A s \in RoundId : rs[s] \in RoundRow /\ rs[s].age \in Nat
    BY DEF RoundRow
<1>. HIDE DEF u, older
<1>3. u[r].course = NoCourse
    <2>1. u[r] = FreeRound
        BY <1>1
    <2>. QED  BY <2>1 DEF FreeRound
<1>4. ASSUME NEW s \in RoundId \ {r}
      PROVE  /\ u[s].course = rs[s].course
             /\ older(s) => u[s].age = rs[s].age - 1
             /\ ~older(s) => u[s].age = rs[s].age
    <2>1. CASE older(s)
        <3>1. u[s] = [rs[s] EXCEPT !.age = @ - 1]
            BY <1>1, <2>1
        <3>. QED  BY <1>2, <2>1, <3>1 DEF RoundRow
    <2>2. CASE ~older(s)
        <3>1. u[s] = rs[s]
            BY <1>1, <2>2
        <3>. QED  BY <2>2, <3>1
    <2>. QED  BY <2>1, <2>2
<1>5. ASSUME NEW s \in Kept(rs) \ {r}
      PROVE  \/ /\ u[s].age = rs[s].age - 1
                /\ r \in Kept(rs) /\ rs[s].age > rs[r].age /\ rs[r].age > 0
             \/ /\ u[s].age = rs[s].age
                /\ r \in Kept(rs) => rs[s].age < rs[r].age
    <2>1. s \in RoundId \ {r} /\ s \in Kept(rs)
        BY DEF Kept
    <2>2. CASE older(s)
        BY <1>4, <2>1, <2>2 DEF older, Kept, AgesApart
    <2>3. CASE ~older(s)
        <3>1. ASSUME r \in Kept(rs) PROVE rs[s].age < rs[r].age
            <4>1. ~(rs[s].age > rs[r].age)
                BY <2>3, <3>1 DEF older, Kept
            <4>2. rs[s].age # rs[r].age
                BY <2>1, <3>1 DEF AgesApart
            <4>. QED  BY <1>2, <2>1, <4>1, <4>2
        <3>. QED  BY <1>4, <2>1, <2>3, <3>1
    <2>. QED  BY <2>2, <2>3
<1>6. \A s \in Kept(u) : s \in Kept(rs) \ {r}
    BY <1>3, <1>4 DEF Kept
<1>7. \A s \in Kept(rs) \ {r} : rs[s].age \in Nat /\ rs[s].age > 0
    BY <1>2 DEF Kept, AgesApart
<1>8. rs[r].age \in Nat
    BY <1>2
<1>9. \A s \in Kept(u) : u[s].age > 0
    BY <1>5, <1>6, <1>7, <1>8
<1>10. \A s, z \in Kept(u) : s # z => u[s].age # u[z].age
    <2>1. \A s, z \in Kept(u) : s # z => rs[s].age # rs[z].age
        BY <1>6 DEF AgesApart
    <2>. QED  BY <1>5, <1>6, <1>7, <1>8, <2>1
<1>11. AgesApart(u)
    BY <1>9, <1>10 DEF AgesApart
<1>. QED  BY <1>11 DEF u

LEMMA TouchedAges ==
    ASSUME NEW rs \in [RoundId -> RoundRow], AgesApart(rs), NEW r \in RoundId, NEW c \in Course,
           NEW u \in Touched(rs, r, c)
    PROVE  AgesApart(u)
<1>1. PICK others \in [RoundId -> RoundRow] : others = Removed(rs, r)
    BY RemovedLemma
<1>2. AgesApart(others)
    BY <1>1, RemovedAges
<1>3. \A s \in RoundId : others[s] \in RoundRow /\ others[s].age \in Nat
    BY DEF RoundRow
<1>4. PICK n \in Nat \ {0} : u = TouchedAt(rs, r, c, n)
    <2>1. PICK n \in {1} \cup {others[s].age + 1 : s \in RatingRounds(rs) \ {r}} : u = TouchedAt(rs, r, c, n)
        BY <1>1 DEF Touched
    <2>2. n \in Nat \ {0}
        BY <1>3 DEF RatingRounds
    <2>. QED  BY <2>1, <2>2
<1>5. u = [s \in RoundId |->
            IF s = r THEN [course |-> c, age |-> n]
            ELSE IF others[s].age >= n THEN [others[s] EXCEPT !.age = @ + 1] ELSE others[s]]
    BY <1>1, <1>4 DEF TouchedAt
<1>6. u[r].age = n
    <2>1. u[r] = [course |-> c, age |-> n]
        BY <1>5
    <2>. QED  BY <2>1
<1>7. ASSUME NEW s \in RoundId \ {r}
      PROVE  /\ u[s].course = others[s].course
             /\ others[s].age >= n => u[s].age = others[s].age + 1
             /\ ~(others[s].age >= n) => u[s].age = others[s].age
    <2>1. CASE others[s].age >= n
        <3>1. u[s] = [others[s] EXCEPT !.age = @ + 1]
            BY <1>5, <2>1
        <3>. QED  BY <1>3, <2>1, <3>1 DEF RoundRow
    <2>2. CASE ~(others[s].age >= n)
        <3>1. u[s] = others[s]
            BY <1>5, <2>2
        <3>. QED  BY <2>2, <3>1
    <2>. QED  BY <2>1, <2>2
<1>8. \A s \in Kept(u) \ {r} : s \in RoundId \ {r} /\ s \in Kept(others)
    BY <1>7 DEF Kept
<1>9. \A s \in Kept(u) \ {r} : others[s].age \in Nat /\ others[s].age > 0
    BY <1>2, <1>3, <1>8 DEF AgesApart
<1>10. \A s \in Kept(u) \ {r} : u[s].age > 0 /\ u[s].age # n
    BY <1>7, <1>8, <1>9
<1>11. \A s, z \in Kept(u) \ {r} : s # z => u[s].age # u[z].age
    <2>1. \A s, z \in Kept(u) \ {r} : s # z => others[s].age # others[z].age
        BY <1>2, <1>8 DEF AgesApart
    <2>. QED  BY <1>7, <1>8, <1>9, <2>1
<1>12. \A s \in Kept(u) : s = r \/ s \in Kept(u) \ {r}
    OBVIOUS
<1>13. \A s \in Kept(u) : u[s].age > 0
    BY <1>6, <1>10, <1>12
<1>14. \A s, z \in Kept(u) : s # z => u[s].age # u[z].age
    BY <1>6, <1>10, <1>11, <1>12
<1>. QED  BY <1>13, <1>14 DEF AgesApart

\* No two kept rounds share a place in the order of updated_at.
LEMMA NextAges == IInv /\ AgesApart(rounds) /\ [Next]_vars => AgesApart(rounds)'
<1>. SUFFICES ASSUME IInv, AgesApart(rounds), [Next]_vars
              PROVE  AgesApart(rounds')
    BY DEF AgesApart, Kept
<1>0. rounds \in [RoundId -> RoundRow] /\ canon \in [Course -> Course]
    BY IInvFacts
<1>1. ASSUME NEW x \in Course, NEW k \in RatingTier, NEW m \in Refinements,
             ReviseRating(x, k, m)
      PROVE  AgesApart(rounds')
    <2>. DEFINE c == canon[x]
    <2>1. c \in Course
        BY <1>0
    <2>2. PICK a \in RatedAs(c) : rounds' \in Touched(rounds, proj[a].round, c)
        BY <1>1 DEF ReviseRating, StageAndCommit
    <2>. HIDE DEF c
    <2>3. a \in Course /\ proj[a] # NoProjection
        BY <2>1 DEF RatedAs, IdentityOf
    <2>4. proj[a].round \in RoundId
        <3>1. proj[a] = ProjectionOf(snap.entries[a], proj[a].round)
            BY <2>3 DEF IInv, RatingsOK
        <3>2. proj[a].round # NoRound
            BY <2>3, <3>1 DEF ProjectionOf
        <3>3. proj[a] \in Projection
            BY <2>3, IInvFacts
        <3>. QED  BY <3>2, <3>3 DEF Projection
    <2>. QED  BY <1>0, <2>1, <2>2, <2>4, TouchedAges
<1>2. ASSUME NEW x \in Course, NEW k \in RatingTier, NEW m \in Refinements,
             CreateRating(x, k, m)
      PROVE  AgesApart(rounds')
    <2>1. PICK r \in FreshRounds : rounds' \in Touched(rounds, r, canon[x])
        BY <1>2 DEF CreateRating, StageAndCommit
    <2>. DEFINE c == canon[x]
    <2>2. r \in RoundId /\ c \in Course /\ rounds' \in Touched(rounds, r, c)
        BY <1>0, <2>1 DEF FreshRounds
    <2>. HIDE DEF c
    <2>. QED  BY <1>0, <2>2, TouchedAges
<1>3. ASSUME NEW r \in RoundId, PatchRatingRound(r)
      PROVE  AgesApart(rounds')
    <2>. DEFINE c == rounds[r].course
    <2>1. c \in Course /\ rounds' \in Touched(rounds, r, c)
        BY <1>0, <1>3 DEF PatchRatingRound, RoundRow
    <2>. HIDE DEF c
    <2>. QED  BY <1>0, <2>1, TouchedAges
<1>4. ASSUME NEW q \in Request, DeleteRoundCommit(q)
      PROVE  AgesApart(rounds')
    <2>. DEFINE r == deleting[q].round
    <2>1. r \in RoundId /\ rounds' = Removed(rounds, r)
        BY <1>4 DEF DeleteRoundCommit, StageAndCommit, IInv, RequestsOK
    <2>. HIDE DEF r
    <2>. QED  BY <1>0, <2>1, RemovedAges
<1>5. CASE rounds' = rounds
    BY <1>5
<1>. QED
    BY <1>1, <1>2, <1>3, <1>4, <1>5
       DEF Next, vars, rowVars, GetRankingBegin, GetRankingCommit, SaveBegin, SaveCommit,
           SeedIfNeeded, Seed, PlaceInTiers, PlaceTwoInTiers, CompareCourses, DeleteRoundBegin, DeleteRoundAbort, ConfirmMapping, StageAndCommit

\* The newest rating round of a course is round r of it, or one of a later place.
LEMMA NewestOrLater ==
    ASSUME NEW rs \in [RoundId -> RoundRow], AgesApart(rs), NEW c \in Course,
           NEW r \in RatingRoundsOf(rs, c), NEW z, z = NewestRatingRound(rs, c)
    PROVE  z \in RatingRoundsOf(rs, c) /\ (z # r => rs[z].age < rs[r].age)
<1>. DEFINE mine == RatingRoundsOf(rs, c)
            ages == {rs[s].age : s \in mine}
<1>1. mine \subseteq RoundId /\ mine # {} /\ \A s \in mine : rs[s].age \in Nat /\ s \in Kept(rs)
    BY RankingAssumption DEF RatingRoundsOf, RoundRow, Kept
<1>2. z = CHOOSE y \in mine : \A s \in mine : rs[y].age <= rs[s].age
    BY <1>1 DEF NewestRatingRound
<1>. HIDE DEF mine
<1>3. ages \in SUBSET Nat /\ ages # {}
    BY <1>1
<1>4. PICK m \in ages : \A y \in ages : m <= y
    <2>. HIDE DEF ages
    <2>. QED  BY <1>3, LeastNatural
<1>5. \E y \in mine : \A s \in mine : rs[y].age <= rs[s].age
    BY <1>4
<1>6. z \in mine /\ \A s \in mine : rs[z].age <= rs[s].age
    BY <1>2, <1>5
<1>7. r \in mine
    BY DEF mine
<1>8. z # r => rs[z].age # rs[r].age
    BY <1>1, <1>6, <1>7 DEF AgesApart
<1>9. rs[z].age \in Nat /\ rs[r].age \in Nat /\ rs[z].age <= rs[r].age
    BY <1>1, <1>6, <1>7
<1>. QED  BY <1>6, <1>8, <1>9 DEF mine

\* What a rating leaves behind when the course had no current rating.
LEMMA RatedRoundStep ==
    ASSUME IInv, AgesApart(rounds), NEW c \in Course, NEW k \in RatingTier, NEW m \in Refinements,
           RefinementAccepted(c, k, m), NEW r \in RoundId,
           NEW pj \in [Course -> Projection], pj[c].round = NoRound, NEW rs \in Touched(rounds, r, c),
           StageAndCommit(RatedRows(c, k, m), RatedComparisons(c, m), rs, pj)
    PROVE  /\ OwnedBy(r, c)
           /\ table'[c].tier \in RankedTiers /\ ~table'[c].incomplete
           /\ \A a \in IdentityOf(c) \ {c} :
                   proj'[a] = NoProjection /\ a \notin Assigned(table')
<1>. DEFINE t == RatedRows(c, k, m)
            cs == RatedComparisons(c, m)
<1>1. WellFormed(t) /\ IsFiniteSet(cs)
    BY RatedRowsLemma
<1>2. /\ t[c].tier = k /\ ~t[c].incomplete
      /\ \A a \in IdentityOf(c) \ {c} : t[a].tier = "none"
    BY RatedRowOfCourse
<1>3. PICK z : z = NewestRatingRound(rs, c)
    OBVIOUS
<1>14. rs \in [RoundId -> RoundRow] /\ r \in RatingRoundsOf(rs, c) /\ AgesApart(rs)
    BY IInvFacts, TouchedLemma, TouchedAges DEF RatingRoundsOf
<1>15. z \in RatingRoundsOf(rs, c) /\ (z # r => rs[z].age < rs[r].age)
    BY <1>3, <1>14, NewestOrLater
<1>4. /\ table' = Normalized(t)
      /\ snap' = SnapshotOf(Normalized(t), cs)
      /\ proj' = ProjectionsOf(snap', rs, pj)
      /\ rounds' = rs
    BY DEF StageAndCommit
<1>. HIDE DEF t, cs
<1>5. WellFormed(table')
    BY <1>1, <1>4, NormalizedWellFormed
<1>6. \A a \in Course : table'[a].tier = t[a].tier /\ table'[a].incomplete = t[a].incomplete
    BY <1>1, <1>4, NormalizedRow
<1>7. IdentityOf(c) \subseteq Course /\ k \in RankedTiers
    BY DEF IdentityOf, RatingTier
<1>8. table'[c].tier \in RankedTiers /\ ~table'[c].incomplete
    BY <1>2, <1>6, <1>7
<1>9. \A a \in IdentityOf(c) \ {c} : a \in Course /\ table'[a].tier = "none"
    BY <1>2, <1>6, <1>7
<1>10. \A a \in Course : snap'.entries[a] = NoEntry <=> table'[a].tier \notin RankedTiers
    <2>1. \A a \in Course : snap'.entries[a] = NoEntry <=> a \notin RankedCourses(table')
        BY <1>1, <1>4, <1>5, SnapshotOfType
    <2>. QED  BY <2>1 DEF RankedCourses
<1>11. proj'[c] = ProjectionOf(snap'.entries[c], z)
    BY <1>3, <1>4 DEF ProjectionsOf
<1>16. proj'[c].round = z
    <2>1. z # NoRound
        BY <1>15, RankingAssumption DEF RatingRoundsOf
    <2>. QED  BY <1>8, <1>10, <1>11, <2>1 DEF ProjectionOf
<1>12. OwnedBy(r, c)
    BY <1>4, <1>15, <1>16 DEF OwnedBy
<1>13. ASSUME NEW a \in IdentityOf(c) \ {c}
       PROVE  proj'[a] = NoProjection /\ a \notin Assigned(table')
    <2>1. a \in Course /\ table'[a].tier = "none"
        BY <1>9
    <2>2. snap'.entries[a] = NoEntry
        BY <1>10, <2>1 DEF RankedTiers
    <2>3. proj'[a] = ProjectionOf(snap'.entries[a], IF pj[a].round # NoRound THEN pj[a].round
                                                    ELSE NewestRatingRound(rs, a))
        BY <1>4, <2>1 DEF ProjectionsOf
    <2>. QED  BY <2>1, <2>2, <2>3 DEF ProjectionOf, Assigned
<1>. QED  BY <1>8, <1>12, <1>13

LEMMA RatedRoundNext ==
    ASSUME IInv, AgesApart(rounds), [Next]_vars, NEW r \in RoundId,
           rounds'[r].course \notin {NoCourse, rounds[r].course}
    PROVE  LET c == rounds'[r].course
           IN  /\ OwnedBy(r, c)
               /\ table'[c].tier \in RankedTiers /\ ~table'[c].incomplete
               /\ \A a \in IdentityOf(c) \ {c} :
                       proj'[a] = NoProjection /\ a \notin Assigned(table')
<1>0. /\ rounds \in [RoundId -> RoundRow] /\ canon \in [Course -> Course]
      /\ proj \in [Course -> Projection]
      /\ NoProjection.round = NoRound
    BY IInvFacts DEF NoProjection
<1>1. ASSUME NEW x \in Course, NEW k \in RatingTier, NEW m \in Refinements,
             ReviseRating(x, k, m)
      PROVE  LET c == rounds'[r].course
             IN  /\ OwnedBy(r, c)
                 /\ table'[c].tier \in RankedTiers /\ ~table'[c].incomplete
                 /\ \A a \in IdentityOf(c) \ {c} :
                         proj'[a] = NoProjection /\ a \notin Assigned(table')
    <2>1. PICK c \in Course : c = canon[x]
        BY <1>0
    <2>2. PICK a \in RatedAs(c) :
            \E rs \in Touched(rounds, proj[a].round, c) :
                StageAndCommit(RatedRows(c, k, m), RatedComparisons(c, m), rs,
                               IF a = c THEN proj ELSE [proj EXCEPT ![a] = NoProjection])
        BY <1>1, <2>1 DEF ReviseRating
    <2>3. a \in Course /\ proj[a] # NoProjection
        BY DEF RatedAs, IdentityOf
    <2>4. proj[a].round \in RoundId /\ rounds[proj[a].round].course = a
        <3>1. proj[a] = ProjectionOf(snap.entries[a], proj[a].round)
            BY <2>3 DEF IInv, RatingsOK
        <3>2. proj[a].round # NoRound
            BY <2>3, <3>1 DEF ProjectionOf
        <3>3. proj[a] \in Projection
            BY <2>3, IInvFacts
        <3>. QED  BY <2>3, <3>2, <3>3, IInvFacts DEF OwnsRounds, Projection
    <2>5. PICK rs \in Touched(rounds, proj[a].round, c) :
            StageAndCommit(RatedRows(c, k, m), RatedComparisons(c, m), rs,
                           IF a = c THEN proj ELSE [proj EXCEPT ![a] = NoProjection])
        BY <2>2
    <2>6. rounds' = rs
        BY <2>5 DEF StageAndCommit
    <2>7. r = proj[a].round /\ rounds'[r].course = c
        <3>1. PICK s \in RoundId : s = proj[a].round
            BY <2>4
        <3>2. rounds'[s].course = c /\ \A z \in RoundId \ {s} : rounds'[z].course = rounds[z].course
            BY <1>0, <2>5, <2>6, <3>1, TouchedLemma
        <3>. QED  BY <3>1, <3>2
    <2>8. a # c
        BY <2>4, <2>7
    <2>9. proj[c] = NoProjection
        BY <2>8 DEF RatedAs, IdentityOf
    <2>. DEFINE pj == [proj EXCEPT ![a] = NoProjection]
    <2>10. StageAndCommit(RatedRows(c, k, m), RatedComparisons(c, m), rs, pj)
        BY <2>5, <2>8
    <2>15. rs \in Touched(rounds, r, c)
        BY <2>5, <2>7
    <2>11. pj \in [Course -> Projection] /\ pj[c].round = NoRound
        <3>1. NoProjection \in Projection
            BY DEF NoProjection, Projection
        <3>. QED  BY <1>0, <2>8, <2>9, <3>1
    <2>12. RefinementAccepted(c, k, m)
        BY <1>1, <2>1 DEF ReviseRating
    <2>. HIDE DEF pj
    <2>13. r \in RoundId
        BY <2>4, <2>7
    <2>14. /\ OwnedBy(r, c)
           /\ table'[c].tier \in RankedTiers /\ ~table'[c].incomplete
           /\ \A d \in IdentityOf(c) \ {c} :
                   proj'[d] = NoProjection /\ d \notin Assigned(table')
        BY <2>10, <2>11, <2>12, <2>13, <2>15, RatedRoundStep
    <2>. QED  BY <2>7, <2>14
<1>2. ASSUME NEW x \in Course, NEW k \in RatingTier, NEW m \in Refinements,
             CreateRating(x, k, m)
      PROVE  LET c == rounds'[r].course
             IN  /\ OwnedBy(r, c)
                 /\ table'[c].tier \in RankedTiers /\ ~table'[c].incomplete
                 /\ \A a \in IdentityOf(c) \ {c} :
                         proj'[a] = NoProjection /\ a \notin Assigned(table')
    <2>1. PICK c \in Course : c = canon[x]
        BY <1>0
    <2>8. PICK s \in FreshRounds : \E rs \in Touched(rounds, s, c) :
            StageAndCommit(RatedRows(c, k, m), RatedComparisons(c, m), rs, proj)
        BY <1>2, <2>1 DEF CreateRating
    <2>2. PICK rs \in Touched(rounds, s, c) :
            StageAndCommit(RatedRows(c, k, m), RatedComparisons(c, m), rs, proj)
        BY <2>8
    <2>3. s \in RoundId /\ rounds' = rs
        BY <2>2, <2>8 DEF FreshRounds, StageAndCommit
    <2>4. r = s /\ rounds'[r].course = c
        BY <1>0, <2>2, <2>3, TouchedLemma
    <2>5. proj[c] = NoProjection
        BY <1>2, <2>1 DEF CreateRating, RatedAs, IdentityOf
    <2>6. RefinementAccepted(c, k, m)
        BY <1>2, <2>1 DEF CreateRating
    <2>. QED  BY <1>0, <2>2, <2>4, <2>5, <2>6, RatedRoundStep
<1>3. ASSUME NEW s \in RoundId, PatchRatingRound(s)
      PROVE  FALSE
    <2>. DEFINE c == rounds[s].course
    <2>1. c \in Course /\ rounds' \in Touched(rounds, s, c)
        BY <1>0, <1>3 DEF PatchRatingRound, RoundRow
    <2>. HIDE DEF c
    <2>2. rounds'[s].course = c /\ (r # s => rounds'[r].course = rounds[r].course)
        BY <1>0, <2>1, TouchedLemma
    <2>. QED  BY <2>2 DEF c
<1>4. ASSUME NEW q \in Request, DeleteRoundCommit(q)
      PROVE  FALSE
    <2>. DEFINE s == deleting[q].round
    <2>1. s \in RoundId /\ rounds' = Removed(rounds, s)
        BY <1>4 DEF DeleteRoundCommit, StageAndCommit, IInv, RequestsOK
    <2>. HIDE DEF s
    <2>2. r # s => rounds'[r].course = rounds[r].course
        BY <1>0, <2>1, RemovedLemma
    <2>3. rounds'[s] = FreeRound
        BY <2>1 DEF Removed
    <2>. QED  BY <2>2, <2>3 DEF FreeRound
<1>5. rounds' # rounds
    OBVIOUS
<1>. QED
    BY <1>1, <1>2, <1>3, <1>4, <1>5
       DEF Next, vars, rowVars, GetRankingBegin, GetRankingCommit, SaveBegin, SaveCommit,
           SeedIfNeeded, Seed, PlaceInTiers, PlaceTwoInTiers, CompareCourses, DeleteRoundBegin, DeleteRoundAbort, ConfirmMapping, StageAndCommit

\* When a rating creates a round, or moves one to the canonical course, the course is finished and
\* rated when the request commits (put_course_rating and _stage_snapshot) and nothing of its
\* identity is left elsewhere.  That round owns the rating; the projection loop prefers another
\* one only if it is a kept round of the course with a later updated_at.
THEOREM RatedRoundAlwaysOwnsRating == Spec => RatedRoundOwnsRating
<1>1. Init => AgesApart(rounds)
    BY DEF Init, AgesApart, Kept, FreeRound
<1>2. IInv /\ AgesApart(rounds) /\ [Next]_vars =>
        \A r \in RoundId :
            LET c == rounds'[r].course IN
            c \notin {NoCourse, rounds[r].course} =>
                /\ OwnedBy(r, c)
                /\ table'[c].tier \in RankedTiers /\ ~table'[c].incomplete
                /\ \A a \in IdentityOf(c) \ {c} :
                        proj'[a] = NoProjection /\ a \notin Assigned(table')
    BY RatedRoundNext
<1>. QED
    BY <1>1, <1>2, NextAges, Invariant, PTL DEF Spec, RatedRoundOwnsRating

-----------------------------------------------------------------------------
(***************************************************************************)
(* The rating scale.  Only these lemmas multiply.                          *)
(***************************************************************************)
LEMMA QuotientLemma ==
    ASSUME NEW num \in Int, NEW den \in Nat \ {0}
    PROVE  \E q \in Int, rest \in 0 .. den - 1 :
              q = num \div den /\ rest = num % den /\ num = den * q + rest
<1>1. num \div den \in Int /\ num % den \in 0 .. den - 1
    OBVIOUS
<1>2. num % den = num - den * (num \div den)
    OBVIOUS
<1>3. PICK q \in Int, rest \in 0 .. den - 1 : q = num \div den /\ rest = num % den
    BY <1>1
<1>4. PICK p \in Int : p = den * q
    OBVIOUS
<1>5. rest = num - p
    BY <1>2, <1>3, <1>4
<1>6. num = p + rest
    BY <1>5
<1>. QED  BY <1>3, <1>4, <1>6

LEMMA TimesGrows ==
    ASSUME NEW den \in Nat \ {0}, NEW x \in Int, NEW y \in Int
    PROVE  /\ den * x \in Int
           /\ x < y => den * x + den <= den * y
<1>1. den * x \in Int
    OBVIOUS
<1>2. ASSUME x < y PROVE den * x + den <= den * y
    <2>1. x + 1 <= y
        BY <1>2
    <2>2. den * (x + 1) <= den * y
        BY <2>1
    <2>3. den * (x + 1) = den * x + den
        OBVIOUS
    <2>4. den * (x + 1) \in Int /\ den * x \in Int /\ den * y \in Int
        OBVIOUS
    <2>. QED  BY <2>2, <2>3, <2>4
<1>. QED  BY <1>1, <1>2

\* Rounding is off by half at most.
LEMMA RoundHalfEvenNear ==
    ASSUME NEW num \in Int, NEW den \in Nat \ {0}
    PROVE  LET r == RoundHalfEven(num, den)
           IN  /\ r \in Int
               /\ 2 * num - den <= 2 * (den * r) /\ 2 * (den * r) <= 2 * num + den
<1>1. PICK q \in Int, rest \in 0 .. den - 1 :
        q = num \div den /\ rest = num % den /\ num = den * q + rest
    BY QuotientLemma
<1>2. RoundHalfEven(num, den) = IF 2 * rest < den \/ (2 * rest = den /\ q % 2 = 0) THEN q ELSE q + 1
    BY <1>1 DEF RoundHalfEven
<1>3. den * (q + 1) = den * q + den /\ den * q \in Int
    BY <1>1
<1>4. CASE 2 * rest < den \/ (2 * rest = den /\ q % 2 = 0)
    BY <1>1, <1>2, <1>3, <1>4
<1>5. CASE ~(2 * rest < den \/ (2 * rest = den /\ q % 2 = 0))
    <2>1. 2 * rest >= den
        <3>1. 2 * rest < den \/ 2 * rest >= den
            BY <1>1
        <3>. QED  BY <1>5, <3>1
    <2>2. RoundHalfEven(num, den) = q + 1
        BY <1>2, <1>5
    <2>. QED  BY <1>1, <1>3, <2>1, <2>2
<1>. QED  BY <1>4, <1>5

\* A whole number stays, and rounding keeps the order.
LEMMA RoundHalfEvenExact ==
    ASSUME NEW x \in Int, NEW den \in Nat \ {0}
    PROVE  RoundHalfEven(den * x, den) = x
<1>. DEFINE num == den * x
            r == RoundHalfEven(num, den)
<1>1. num \in Int
    OBVIOUS
<1>2. r \in Int /\ 2 * num - den <= 2 * (den * r) /\ 2 * (den * r) <= 2 * num + den
    BY <1>1, RoundHalfEvenNear
<1>. HIDE DEF r
<1>3. CASE r < x
    <2>1. den * r + den <= den * x /\ den * r \in Int
        BY <1>2, <1>3, TimesGrows
    <2>. QED  BY <1>1, <1>2, <2>1
<1>4. CASE r > x
    <2>1. den * x + den <= den * r /\ den * r \in Int
        BY <1>2, <1>4, TimesGrows
    <2>. QED  BY <1>1, <1>2, <2>1
<1>. QED  BY <1>2, <1>3, <1>4 DEF r

LEMMA RoundHalfEvenMonotone ==
    ASSUME NEW m \in Int, NEW n \in Int, NEW den \in Nat \ {0}, m <= n
    PROVE  RoundHalfEven(m, den) <= RoundHalfEven(n, den)
<1>0. PICK q \in Int, rest \in 0 .. den - 1 :
        q = m \div den /\ rest = m % den /\ m = den * q + rest
    BY QuotientLemma
<1>1. PICK p \in Int, left \in 0 .. den - 1 :
        p = n \div den /\ left = n % den /\ n = den * p + left
    BY QuotientLemma
<1>2. /\ RoundHalfEven(m, den) = IF 2 * rest < den \/ (2 * rest = den /\ q % 2 = 0) THEN q ELSE q + 1
      /\ RoundHalfEven(n, den) = IF 2 * left < den \/ (2 * left = den /\ p % 2 = 0) THEN p ELSE p + 1
    BY <1>0, <1>1 DEF RoundHalfEven
<1>3. q <= p
    <2>1. SUFFICES ASSUME p < q PROVE FALSE
        BY <1>1
    <2>2. den * p + den <= den * q /\ den * p \in Int /\ den * q \in Int
        BY <1>0, <1>1, <2>1, TimesGrows
    <2>. QED  BY <1>0, <1>1, <2>2
<1>4. CASE q = p
    <2>1. rest <= left
        <3>1. den * p \in Int
            BY <1>1
        <3>. QED  BY <1>0, <1>1, <1>4, <3>1
    <2>. QED  BY <1>1, <1>2, <1>4, <2>1
<1>5. CASE q # p
    BY <1>0, <1>1, <1>2, <1>3, <1>5
<1>. QED  BY <1>4, <1>5

\* From one course of a tier to the next the exact value falls by the width of its band divided
\* by one less than the number of courses.
LEMMA RatingForm ==
    ASSUME NEW tier \in RankedTiers, NEW count \in Nat \ {0, 1}, NEW index \in 0 .. count - 1
    PROVE  \E low, high \in Nat :
              /\ low = TierBand[tier].low /\ high = TierBand[tier].high /\ low < high
              /\ Rating(tier, index, count) =
                    RoundHalfEven(high * (count - 1) - (high - low) * index, count - 1)
<1>1. /\ TierBand[tier].low \in Nat /\ TierBand[tier].high \in Nat
      /\ TierBand[tier].low < TierBand[tier].high
    BY DEF TierBand, RankedTiers
<1>2. Rating(tier, index, count) =
        RoundHalfEven(TierBand[tier].high * (count - 1)
                        - (TierBand[tier].high - TierBand[tier].low) * index, count - 1)
    BY DEF Rating
<1>. QED  BY <1>1, <1>2

\* The first course has the upper end of the band, the last one the lower.
LEMMA RatingEnds ==
    ASSUME NEW tier \in RankedTiers, NEW count \in Nat \ {0, 1}
    PROVE  /\ Rating(tier, 0, count) = TierBand[tier].high
           /\ Rating(tier, count - 1, count) = TierBand[tier].low
<1>. DEFINE n == count - 1
<1>1. n \in Nat \ {0} /\ 0 \in 0 .. n /\ n \in 0 .. n
    OBVIOUS
<1>2. PICK low \in Nat, high \in Nat :
        /\ low = TierBand[tier].low /\ high = TierBand[tier].high
        /\ Rating(tier, 0, count) = RoundHalfEven(high * n - (high - low) * 0, n)
    BY <1>1, RatingForm
<1>3. Rating(tier, n, count) = RoundHalfEven(high * n - (high - low) * n, n)
    BY <1>1, <1>2, RatingForm
<1>. HIDE DEF n
<1>4. high * n - (high - low) * 0 = n * high /\ high * n - (high - low) * n = n * low
    BY <1>1
<1>5. RoundHalfEven(n * high, n) = high /\ RoundHalfEven(n * low, n) = low
    BY <1>1, RoundHalfEvenExact
<1>. QED  BY <1>2, <1>3, <1>4, <1>5 DEF n

\* Down a tier ratings never rise.
LEMMA RatingFalls ==
    ASSUME NEW tier \in RankedTiers, NEW count \in Nat \ {0},
           NEW i \in 0 .. count - 1, NEW j \in 0 .. count - 1, i <= j
    PROVE  Rating(tier, i, count) >= Rating(tier, j, count)
<1>1. CASE count = 1
    <2>1. i = j
        BY <1>1
    <2>2. Rating(tier, i, count) \in Int
        BY RatingType
    <2>. QED  BY <2>1, <2>2
<1>2. CASE count # 1
    <2>. DEFINE n == count - 1
    <2>1. n \in Nat \ {0} /\ i \in Nat /\ j \in Nat
        BY <1>2
    <2>2. PICK low \in Nat, high \in Nat :
            /\ low = TierBand[tier].low /\ high = TierBand[tier].high /\ low < high
            /\ Rating(tier, i, count) = RoundHalfEven(high * n - (high - low) * i, n)
        BY <1>2, RatingForm
    <2>3. Rating(tier, j, count) = RoundHalfEven(high * n - (high - low) * j, n)
        BY <1>2, <2>2, RatingForm
    <2>. DEFINE wide == high - low
    <2>4. wide \in Nat
        BY <2>2
    <2>. HIDE DEF n, wide
    <2>5. wide * i <= wide * j /\ wide * i \in Int /\ wide * j \in Int /\ high * n \in Int
        BY <2>1, <2>4
    <2>6. high * n - wide * j <= high * n - wide * i
        BY <2>5
    <2>7. RoundHalfEven(high * n - wide * j, n) <= RoundHalfEven(high * n - wide * i, n)
        BY <2>1, <2>5, <2>6, RoundHalfEvenMonotone
    <2>8. RoundHalfEven(high * n - wide * j, n) \in Int /\ RoundHalfEven(high * n - wide * i, n) \in Int
        BY <2>1, <2>5, RoundHalfEvenType
    <2>. QED  BY <2>2, <2>3, <2>7, <2>8 DEF wide
<1>. QED  BY <1>1, <1>2

\* Every rating lies in the band of its tier.
LEMMA RatingInBand ==
    ASSUME NEW tier \in RankedTiers, NEW count \in Nat \ {0}, NEW i \in 0 .. count - 1
    PROVE  Rating(tier, i, count) \in TierBand[tier].low .. TierBand[tier].high
<1>1. CASE count = 1
    <2>1. Rating(tier, i, count) = RoundHalfEven(TierBand[tier].low + TierBand[tier].high, 2)
        BY <1>1 DEF Rating
    <2>. QED  BY <2>1 DEF RoundHalfEven, TierBand, RankedTiers
<1>2. CASE count # 1
    <2>1. count \in Nat \ {0, 1} /\ 0 \in 0 .. count - 1 /\ count - 1 \in 0 .. count - 1
          /\ 0 <= i /\ i <= count - 1
        BY <1>2
    <2>2. Rating(tier, 0, count) >= Rating(tier, i, count)
        BY <2>1, RatingFalls
    <2>3. Rating(tier, i, count) >= Rating(tier, count - 1, count)
        BY <2>1, RatingFalls
    <2>4. Rating(tier, 0, count) = TierBand[tier].high /\ Rating(tier, count - 1, count) = TierBand[tier].low
        BY <2>1, RatingEnds
    <2>5. Rating(tier, i, count) \in Int
        BY <2>1, RatingType
    <2>6. TierBand[tier].high \in Int /\ TierBand[tier].low \in Int
        BY DEF TierBand, RankedTiers
    <2>. QED  BY <2>2, <2>3, <2>4, <2>5, <2>6
<1>. QED  BY <1>1, <1>2

\* As long as the band has a tenth for each course, no two courses share one.
LEMMA RatingSeparates ==
    ASSUME NEW tier \in RankedTiers, NEW count \in Nat \ {0}, NEW i \in Nat, i + 1 < count,
           count <= TierBand[tier].high - TierBand[tier].low + 1
    PROVE  Rating(tier, i, count) > Rating(tier, i + 1, count)
<1>. DEFINE n == count - 1
            j == i + 1
<1>1. /\ n \in Nat \ {0} /\ count \in Nat \ {0, 1}
      /\ i \in 0 .. count - 1 /\ j \in 0 .. count - 1 /\ j \in Nat
    OBVIOUS
<1>2. PICK low \in Nat, high \in Nat :
        /\ low = TierBand[tier].low /\ high = TierBand[tier].high /\ low < high
        /\ Rating(tier, i, count) = RoundHalfEven(high * n - (high - low) * i, n)
    BY <1>1, RatingForm
<1>3. Rating(tier, j, count) = RoundHalfEven(high * n - (high - low) * j, n)
    BY <1>1, <1>2, RatingForm
<1>. DEFINE wide == high - low
            x == high * n - wide * i
            y == high * n - wide * j
<1>4. wide \in Nat \ {0} /\ n <= wide
    BY <1>2
<1>. HIDE DEF n, wide
<1>5. wide * j = wide * i + wide /\ wide * i \in Int /\ high * n \in Int
    BY <1>1, <1>4
<1>6. x \in Int /\ y \in Int /\ y = x - wide
    <2>1. PICK a \in Int, b \in Int : a = wide * i /\ b = high * n
        BY <1>5
    <2>2. wide * j = a + wide
        BY <1>5, <2>1
    <2>. QED  BY <1>4, <2>1, <2>2
<1>7. CASE n = wide
    <2>1. x = n * (high - i) /\ y = n * (high - j) /\ high - i \in Int /\ high - j \in Int
        BY <1>1, <1>5, <1>7
    <2>2. RoundHalfEven(x, n) = high - i /\ RoundHalfEven(y, n) = high - j
        BY <1>1, <2>1, RoundHalfEvenExact
    <2>3. high - i > high - j
        OBVIOUS
    <2>. QED  BY <1>2, <1>3, <2>2, <2>3 DEF wide
<1>8. CASE n < wide
    <2>. DEFINE r == RoundHalfEven(x, n)
                s == RoundHalfEven(y, n)
    <2>1. /\ r \in Int /\ 2 * x - n <= 2 * (n * r)
          /\ s \in Int /\ 2 * (n * s) <= 2 * y + n
        BY <1>1, <1>6, RoundHalfEvenNear
    <2>. HIDE DEF r, s, x, y
    <2>2. SUFFICES ASSUME r <= s PROVE FALSE
        BY <1>2, <1>3, <2>1 DEF r, s, x, y, wide
    <2>3. n * r <= n * s /\ n * r \in Int /\ n * s \in Int
        <3>1. CASE r = s
            BY <1>1, <2>1, <3>1
        <3>2. CASE r < s
            <4>1. n * r + n <= n * s /\ n * r \in Int /\ n * s \in Int
                BY <1>1, <2>1, <3>2, TimesGrows
            <4>. QED  BY <1>1, <4>1
        <3>. QED  BY <2>1, <2>2, <3>1, <3>2
    <2>4. PICK a \in Int, b \in Int : a = n * r /\ b = n * s
        BY <2>3
    <2>5. 2 * x - n <= 2 * a /\ 2 * b <= 2 * y + n /\ a <= b
        BY <2>1, <2>3, <2>4
    <2>6. n \in Int /\ wide \in Int
        BY <1>1, <1>4
    <2>. QED  BY <1>6, <1>8, <2>5, <2>6
<1>. QED  BY <1>1, <1>4, <1>7, <1>8

-----------------------------------------------------------------------------
(***************************************************************************)
(* The rating of a course among those it is rated with.                    *)
(***************************************************************************)

\* Finished courses and placeholders of one tier form a group of their own, and
\* no two rows of it have the same slot.
LEMMA GroupLemma ==
    ASSUME NEW t, WellFormed(t), NEW c \in RankedCourses(t)
    PROVE  LET G == RatingGroup(t, c)
           IN  /\ G \in SUBSET Course /\ c \in G
               /\ Cardinality(G) \in Nat \ {0}
               /\ \A d \in G : Slot(t, G, d) \in 1 .. Cardinality(G)
               /\ \A d, e \in G : Before(t, d, e) => Slot(t, G, d) < Slot(t, G, e)
<1>. DEFINE G == RatingGroup(t, c)
<1>1. G \in SUBSET Course /\ c \in G /\ \A d \in G : t[d].tier # "none"
    BY DEF RatingGroup, InTier, RankedCourses, RankedTiers
<1>. HIDE DEF G
<1>2. DistinctAges(t, G)
    BY <1>1 DEF DistinctAges, WellFormed, Assigned
<1>3. /\ \A d \in G : Slot(t, G, d) \in 1 .. Cardinality(G)
      /\ \A d, e \in G : Before(t, d, e) => Slot(t, G, d) < Slot(t, G, e)
    BY <1>1, <1>2, SlotLemma DEF WellFormed
<1>4. Cardinality(G) \in Nat
    BY <1>1, CountIsNat
<1>5. Cardinality(G) \in Nat \ {0}
    BY <1>1, <1>3, <1>4
<1>. QED  BY <1>1, <1>3, <1>5 DEF G

LEMMA PersonalRatingInBand ==
    ASSUME NEW t, WellFormed(t), NEW c \in RankedCourses(t)
    PROVE  PersonalRating(t, c) \in TierBand[t[c].tier].low .. TierBand[t[c].tier].high
<1>. DEFINE G == RatingGroup(t, c)
            n == Cardinality(G)
            i == Slot(t, G, c) - 1
<1>1. n \in Nat \ {0} /\ Slot(t, G, c) \in 1 .. n
    BY GroupLemma
<1>2. t[c].tier \in RankedTiers
    BY DEF RankedCourses
<1>3. PersonalRating(t, c) = Rating(t[c].tier, i, n)
    BY DEF PersonalRating
<1>. HIDE DEF n, G
<1>4. i \in 0 .. n - 1
    BY <1>1
<1>. QED  BY <1>1, <1>2, <1>3, <1>4, RatingInBand

\* The overall rank goes through the tiers and then through the rows of a tier.
LEMMA OverallRankLemma ==
    ASSUME NEW t, WellFormed(t), NEW c \in RankedCourses(t), NEW d \in RankedCourses(t),
           OverallRank(t, c) < OverallRank(t, d)
    PROVE  \/ TierIndex[t[c].tier] < TierIndex[t[d].tier]
           \/ t[c].tier = t[d].tier /\ Before(t, c, d)
<1>. DEFINE ahead(x) == {y \in RankedCourses(t) :
                            \/ TierIndex[t[y].tier] < TierIndex[t[x].tier]
                            \/ t[y].tier = t[x].tier /\ (y = x \/ Before(t, y, x))}
<1>1. \A x \in RankedCourses(t) : /\ x \in Course /\ t[x].tier \in RankedTiers
                                  /\ t[x].pos \in Nat /\ t[x].age \in Nat
    BY DEF RankedCourses, WellFormed, Table, Row
<1>2. \A x \in RankedCourses(t) : TierIndex[t[x].tier] \in Nat
    BY <1>1 DEF TierIndex, RankedTiers
<1>3. \A x, y \in RankedCourses(t) : TierIndex[t[x].tier] = TierIndex[t[y].tier] => t[x].tier = t[y].tier
    BY <1>1 DEF TierIndex, RankedTiers
<1>4. SUFFICES ASSUME ~(\/ TierIndex[t[c].tier] < TierIndex[t[d].tier]
                        \/ t[c].tier = t[d].tier /\ Before(t, c, d))
               PROVE  ahead(d) \subseteq ahead(c)
    <2>1. OverallRank(t, c) = Cardinality(ahead(c)) /\ OverallRank(t, d) = Cardinality(ahead(d))
        BY DEF OverallRank
    <2>2. ahead(c) \in SUBSET Course /\ ahead(d) \in SUBSET Course
        BY <1>1
    <2>. HIDE DEF ahead
    <2>3. /\ IsFiniteSet(ahead(c)) /\ Cardinality(ahead(c)) \in Nat
          /\ Cardinality(ahead(d)) \in Nat
        BY <2>2, CountIsNat
    <2>4. ahead(d) \subseteq ahead(c) => Cardinality(ahead(d)) <= Cardinality(ahead(c))
        BY <2>3, FS_Subset
    <2>. QED  BY <1>4, <2>1, <2>3, <2>4
<1>5. CASE TierIndex[t[d].tier] < TierIndex[t[c].tier]
    BY <1>2, <1>5
<1>6. CASE TierIndex[t[d].tier] = TierIndex[t[c].tier]
    <2>1. t[c].tier = t[d].tier /\ ~Before(t, c, d)
        BY <1>3, <1>4, <1>6
    <2>2. c # d => Before(t, d, c)
        <3>1. c # d => t[c].age # t[d].age
            BY <1>1 DEF WellFormed, Assigned, RankedTiers
        <3>. QED  BY <1>1, <2>1, <3>1 DEF Before
    <2>3. \A y \in RankedCourses(t) : Before(t, y, d) /\ c # d => Before(t, y, c)
        BY <1>1, <2>2 DEF Before
    <2>. QED  BY <2>1, <2>2, <2>3
<1>. QED  BY <1>2, <1>4, <1>5, <1>6

\* Along the list of finished courses ratings never go up.
LEMMA PersonalRatingFalls ==
    ASSUME NEW t, WellFormed(t), NEW c \in RankedCourses(t), NEW d \in RankedCourses(t),
           ~t[c].incomplete, ~t[d].incomplete, OverallRank(t, c) < OverallRank(t, d)
    PROVE  PersonalRating(t, c) >= PersonalRating(t, d)
<1>1. t[c].tier \in RankedTiers /\ t[d].tier \in RankedTiers
    BY DEF RankedCourses
<1>2. CASE TierIndex[t[c].tier] < TierIndex[t[d].tier]
    <2>1. PICK x \in Int : x = PersonalRating(t, c) /\ x >= TierBand[t[c].tier].low
        BY PersonalRatingInBand, PersonalRatingType
    <2>2. PICK y \in Int : y = PersonalRating(t, d) /\ y <= TierBand[t[d].tier].high
        BY PersonalRatingInBand, PersonalRatingType
    <2>3. TierBand[t[c].tier].low > TierBand[t[d].tier].high
        BY <1>1, <1>2 DEF TierBand, TierIndex, RankedTiers
    <2>4. TierBand[t[c].tier].low \in Int /\ TierBand[t[d].tier].high \in Int
        BY <1>1 DEF TierBand, RankedTiers
    <2>. QED  BY <2>1, <2>2, <2>3, <2>4
<1>3. CASE t[c].tier = t[d].tier /\ Before(t, c, d)
    <2>. DEFINE G == RatingGroup(t, c)
                n == Cardinality(G)
                i == Slot(t, G, c) - 1
                j == Slot(t, G, d) - 1
    <2>1. RatingGroup(t, d) = G /\ d \in G /\ c \in G
        <3>1. t[c].incomplete = t[d].incomplete
            <4>1. t[c].incomplete \in BOOLEAN /\ t[d].incomplete \in BOOLEAN
                BY DEF RankedCourses, WellFormed, Table, Row
            <4>. QED  BY <4>1
        <3>. QED  BY <1>3, <3>1 DEF RatingGroup, InTier, RankedCourses
    <2>2. PersonalRating(t, c) = Rating(t[c].tier, i, n) /\ PersonalRating(t, d) = Rating(t[c].tier, j, n)
        BY <1>3, <2>1 DEF PersonalRating
    <2>3. /\ n \in Nat \ {0} /\ Slot(t, G, c) \in 1 .. n /\ Slot(t, G, d) \in 1 .. n
          /\ Slot(t, G, c) < Slot(t, G, d)
        BY <1>3, <2>1, GroupLemma
    <2>. HIDE DEF G, n
    <2>4. i \in 0 .. n - 1 /\ j \in 0 .. n - 1 /\ i <= j
        BY <2>3
    <2>. QED  BY <1>1, <2>2, <2>3, <2>4, RatingFalls
<1>. QED  BY <1>2, <1>3, OverallRankLemma

\* A finished course is rated the same when the placeholders are taken out.
LEMMA PersonalRatingOfFinished ==
    ASSUME NEW t, WellFormed(t), NEW f,
           f = [c \in Course |-> IF t[c].incomplete THEN NoRow ELSE t[c]],
           NEW c \in RankedCourses(f)
    PROVE  c \in RankedCourses(t) /\ PersonalRating(t, c) = PersonalRating(f, c)
<1>1. \A d \in Course : f[d] = IF t[d].incomplete THEN NoRow ELSE t[d]
    OBVIOUS
<1>2. NoRow.tier = "none"
    BY DEF NoRow
<1>3. c \in Course /\ ~t[c].incomplete /\ f[c] = t[c] /\ t[c].tier \in RankedTiers
    BY <1>1, <1>2 DEF RankedCourses, RankedTiers
<1>. DEFINE G == RatingGroup(t, c)
<1>4. \A d \in Course : t[d].incomplete \in BOOLEAN
    BY DEF WellFormed, Table, Row
<1>5. \A d \in G : d \in Course /\ f[d] = t[d]
    BY <1>1, <1>3, <1>4 DEF RatingGroup, InTier
<1>6. RatingGroup(f, c) = G
    <2>1. ASSUME NEW d \in Course PROVE d \in RatingGroup(f, c) <=> d \in G
        <3>1. CASE t[d].incomplete
            <4>1. f[d] = NoRow /\ f[d].tier # f[c].tier
                BY <1>1, <1>2, <1>3, <3>1 DEF RankedTiers
            <4>. QED  BY <1>3, <1>4, <3>1, <4>1 DEF RatingGroup, InTier
        <3>2. CASE ~t[d].incomplete
            BY <1>1, <1>3, <3>2 DEF RatingGroup, InTier
        <3>. QED  BY <3>1, <3>2
    <2>. QED  BY <2>1 DEF RatingGroup, InTier
<1>7. c \in G
    BY <1>3 DEF RatingGroup, InTier
<1>. HIDE DEF G
<1>8. Slot(f, G, c) = Slot(t, G, c)
    <2>1. \A d \in G : Before(f, d, c) <=> Before(t, d, c)
        BY <1>3, <1>5 DEF Before
    <2>2. {d \in G : d = c \/ Before(f, d, c)} = {d \in G : d = c \/ Before(t, d, c)}
        BY <2>1
    <2>. QED  BY <2>2 DEF Slot
<1>9. PersonalRating(t, c) = PersonalRating(f, c)
    BY <1>3, <1>6, <1>8 DEF PersonalRating, G
<1>. QED  BY <1>3, <1>9 DEF RankedCourses

\* A rating says where the user has put the course and nothing else moves it: it lies in the band
\* of its tier, it never rises down the list of finished courses (_rating, _stage_snapshot), and
\* it is what it would be without the placeholders of the onboarding.
THEOREM RatingsAlwaysEarned == Spec => []RatingsAreEarned
<1>1. ASSUME IInv PROVE RatingsAreEarned
    <2>1. WellFormed(table) /\ snap = SnapshotOf(table, comparisons)
        BY <1>1 DEF IInv, RowsOK, RatingsOK
    <2>2. ASSUME NEW c \in RankedCourses(table)
          PROVE  LET e == snap.entries[c]
                 IN  /\ e.rank = OverallRank(table, c) /\ e.tier = table[c].tier
                     /\ e.rating = PersonalRating(table, c) /\ e.incomplete = table[c].incomplete
        BY <2>1 DEF SnapshotOf, RankedCourses
    <2>3. RatingsFollowRank
        <3>1. \A c \in RankedCourses(table) :
                PersonalRating(table, c) \in TierBand[table[c].tier].low .. TierBand[table[c].tier].high
            BY <2>1, PersonalRatingInBand
        <3>2. \A c, d \in RankedCourses(table) :
                ~table[c].incomplete /\ ~table[d].incomplete /\ OverallRank(table, c) < OverallRank(table, d)
                    => PersonalRating(table, c) >= PersonalRating(table, d)
            BY <2>1, PersonalRatingFalls
        <3>. QED  BY <2>2, <3>1, <3>2 DEF RatingsFollowRank
    <2>4. PlaceholdersDoNotShift
        <3>1. PICK f : f = [c \in Course |-> IF table[c].incomplete THEN NoRow ELSE table[c]]
            OBVIOUS
        <3>2. \A c \in RankedCourses(f) : snap.entries[c].rating = PersonalRating(f, c)
            BY <2>1, <2>2, <3>1, PersonalRatingOfFinished
        <3>. QED  BY <3>1, <3>2 DEF PlaceholdersDoNotShift
    <2>. QED  BY <2>3, <2>4 DEF RatingsAreEarned
<1>. QED  BY <1>1, Invariant, PTL

-----------------------------------------------------------------------------
(***************************************************************************)
(* The order of the rows.                                                  *)
(***************************************************************************)

\* Renumbering keeps the order of the rows of a tier, and leaves no ties.
LEMMA NormalizedOrder ==
    ASSUME NEW t, WellFormed(t), NEW c \in Assigned(t), NEW d \in Assigned(t),
           t[c].tier = t[d].tier
    PROVE  /\ Before(t, c, d) => Normalized(t)[c].pos < Normalized(t)[d].pos
           /\ Before(Normalized(t), c, d) <=> Before(t, c, d)
<1>. DEFINE T == InTier(t, t[c].tier)
            u == Normalized(t)
<1>1. /\ T \in SUBSET Course /\ c \in T /\ d \in T /\ \A e \in T : t[e].tier # "none"
      /\ t \in Table /\ t[c].tier # "none" /\ c \in Course /\ d \in Course
    BY DEF InTier, Assigned, WellFormed
<1>2. DistinctAges(t, T)
    BY <1>1 DEF DistinctAges, WellFormed, Assigned
<1>3. u[c].pos = Slot(t, T, c) /\ u[d].pos = Slot(t, T, d)
    BY <1>1, NormalizedRow
<1>. HIDE DEF T, u
<1>4. /\ Before(t, c, d) => Slot(t, T, c) < Slot(t, T, d)
      /\ Before(t, d, c) => Slot(t, T, d) < Slot(t, T, c)
      /\ c # d => Slot(t, T, c) # Slot(t, T, d)
    BY <1>1, <1>2, SlotLemma
<1>5. Slot(t, T, c) \in Nat /\ Slot(t, T, d) \in Nat
    BY <1>1, SlotIsNat
<1>6. /\ t[c].pos \in Nat /\ t[d].pos \in Nat /\ t[c].age \in Nat /\ t[d].age \in Nat
    BY <1>1 DEF Table, Row
<1>7. c # d => Before(t, c, d) \/ Before(t, d, c)
    BY <1>1, <1>2, <1>6 DEF Before, DistinctAges
<1>8. ~Before(t, c, c) /\ ~(u[c].pos < u[c].pos)
    BY <1>3, <1>5, <1>6 DEF Before
<1>9. Before(t, c, d) <=> u[c].pos < u[d].pos
    <2>1. CASE c = d
        BY <1>8, <2>1
    <2>2. CASE c # d
        BY <1>3, <1>4, <1>5, <1>7, <2>2
    <2>. QED  BY <2>1, <2>2
<1>10. Before(u, c, d) <=> u[c].pos < u[d].pos
    <2>1. c # d => u[c].pos # u[d].pos
        BY <1>3, <1>4
    <2>2. c = d => ~Before(u, c, d)
        <3>1. u[c].age = t[c].age
            BY <1>1, NormalizedRow DEF u
        <3>. QED  BY <1>3, <1>5, <1>6, <3>1 DEF Before
    <2>. QED  BY <1>8, <2>1, <2>2 DEF Before
<1>. QED  BY <1>9, <1>10 DEF u

\* Rows that are not seeded keep everything but their keys, and those their order.
LEMMA SeedRowsOrder ==
    ASSUME NEW t, WellFormed(t), NEW S \in SUBSET Course, NEW place \in [S -> Nat]
    PROVE  LET u == SeedRows(t, S, place)
           IN  /\ \A c \in S : u[c].tier = "fairway" /\ u[c].incomplete
               /\ \A c, d \in S : place[c] < place[d] => Before(u, c, d)
               /\ \A c \in Course \ S : u[c].tier = t[c].tier /\ u[c].incomplete = t[c].incomplete
               /\ \A c, d \in Assigned(t) \ S : Before(u, c, d) <=> Before(t, c, d)
<1>. DEFINE new == S \ Assigned(t)
            n == Cardinality(new)
            start == Cardinality(InTier(t, "fairway") \ S)
            age(c) == IF c \in new THEN Cardinality({d \in new : place[d] >= place[c]})
                      ELSE t[c].age + n
            u == SeedRows(t, S, place)
<1>1. u = [c \in Course |->
            IF c \in S
            THEN [tier |-> "fairway", pos |-> start + place[c],
                  age |-> age(c), incomplete |-> TRUE]
            ELSE IF t[c].tier = "none" THEN t[c]
            ELSE [t[c] EXCEPT !.age = age(c)]]
    BY DEF SeedRows
<1>2. n \in Nat /\ start \in Nat
    BY CountIsNat DEF InTier
<1>3. \A c \in Assigned(t) \ S : age(c) = t[c].age + n
    OBVIOUS
<1>4. \A c \in Course : t[c] \in Row
    BY DEF WellFormed, Table
<1>. HIDE DEF u, n, start, age
<1>5. \A c \in S : u[c] = [tier |-> "fairway", pos |-> start + place[c], age |-> age(c),
                           incomplete |-> TRUE]
    BY <1>1
<1>6. ASSUME NEW c \in S
      PROVE  u[c].tier = "fairway" /\ u[c].incomplete /\ u[c].pos = start + place[c]
    <2>1. u[c] = [tier |-> "fairway", pos |-> start + place[c], age |-> age(c), incomplete |-> TRUE]
        BY <1>5
    <2>. QED  BY <2>1
<1>7. \A c, d \in S : place[c] < place[d] => Before(u, c, d)
    <2>1. \A c \in S : place[c] \in Nat
        OBVIOUS
    <2>. QED  BY <1>2, <1>6, <2>1 DEF Before
<1>8. ASSUME NEW c \in Course \ S
      PROVE  u[c].tier = t[c].tier /\ u[c].incomplete = t[c].incomplete /\ u[c].pos = t[c].pos
    <2>1. u[c] = t[c] \/ u[c] = [t[c] EXCEPT !.age = age(c)]
        BY <1>1
    <2>. QED  BY <1>4, <2>1 DEF Row
<1>9. ASSUME NEW c \in Assigned(t) \ S
      PROVE  u[c].age = t[c].age + n /\ u[c].pos = t[c].pos /\ t[c].age \in Nat
    <2>1. c \in Course \ S /\ t[c].tier # "none"
        BY DEF Assigned
    <2>2. u[c] = [t[c] EXCEPT !.age = age(c)]
        BY <1>1, <2>1
    <2>. QED  BY <1>3, <1>4, <1>8, <2>1, <2>2 DEF Row
<1>10. \A c, d \in Assigned(t) \ S : Before(u, c, d) <=> Before(t, c, d)
    <2>1. ASSUME NEW c \in Assigned(t) \ S, NEW d \in Assigned(t) \ S
          PROVE  Before(u, c, d) <=> Before(t, c, d)
        <3>1. u[c].age > u[d].age <=> t[c].age > t[d].age
            BY <1>2, <1>9
        <3>. QED  BY <1>9, <3>1 DEF Before
    <2>. QED  BY <2>1
<1>. QED  BY <1>6, <1>7, <1>8, <1>10 DEF u

-----------------------------------------------------------------------------
(***************************************************************************)
(* Seeding is harmless.                                                    *)
(***************************************************************************)

\* What a seeding looks at after it is what it looked at before.
LEMMA SeedTermsKept ==
    ASSUME NEW o,
           \A c \in SeedCourses(o) : table'[c].incomplete,
           \A c \in Course \ SeedCourses(o) :
               table'[c].tier = table[c].tier /\ table'[c].incomplete = table[c].incomplete,
           CoursesOf(o) \subseteq Course
    PROVE  SeedCourses(o)' = SeedCourses(o) /\ SeedPlace(o)' = SeedPlace(o)
<1>1. SeedCourses(o)' = SeedCourses(o)
    BY DEF SeedCourses, Assigned
<1>2. SeedPlace(o)' = SeedPlace(o)
    BY <1>1 DEF SeedPlace
<1>. QED  BY <1>1, <1>2

\* A seeding leaves the finished courses as they are, and is over after it.
LEMMA SeedStep ==
    ASSUME IInv, NEW o, PairsOK(o), Seed(o)
    PROVE  /\ \A c \in {e \in Assigned(table) : ~table[e].incomplete} :
                /\ table'[c].tier = table[c].tier /\ ~table'[c].incomplete
                /\ \A d \in {e \in Assigned(table) : ~table[e].incomplete} :
                      table[c].tier = table[d].tier /\ table[c].pos < table[d].pos
                        => table'[c].pos < table'[d].pos
                /\ snap'.entries[c].rating = snap.entries[c].rating
                /\ proj'[c].round = proj[c].round
           /\ ~SeedNeeded(o)'
<1>. DEFINE S == SeedCourses(o)
            place == SeedPlace(o)
            t == SeedRows(table, S, place)
            finished == {e \in Assigned(table) : ~table[e].incomplete}
<1>0. /\ WellFormed(table) /\ IsFiniteSet(comparisons)
      /\ snap = SnapshotOf(table, comparisons)
      /\ \A c \in Course : proj[c] = ProjectionOf(snap.entries[c], proj[c].round)
      /\ RatedCoursesAreProjected
      /\ IsFiniteSet(SeedComparisons(o))
    BY IInvFacts, SeedComparisonsLemma DEF IInv, RowsOK, RatingsOK
<1>1. /\ S \in SUBSET Course /\ place \in [S -> Nat]
      /\ \A c, d \in S : c # d => place[c] # place[d]
    BY <1>0, SeedPlaceLemma
<1>2. \A c \in S : c \in Assigned(table) => table[c].incomplete
    BY DEF SeedCourses
<1>3. /\ table' = Normalized(t)
      /\ snap' = SnapshotOf(table', comparisons')
      /\ comparisons' = SeedComparisons(o)
      /\ proj' = ProjectionsOf(snap', rounds, proj)
    BY DEF Seed, StageAndCommit
<1>4. CoursesOf(o) \subseteq Course
    BY DEF CoursesOf, PairsOK, SeedPair
<1>. HIDE DEF S, place
<1>5. WellFormed(t)
    BY <1>0, <1>1, SeedRowsLemma
<1>6. /\ \A c \in S : t[c].tier = "fairway" /\ t[c].incomplete
      /\ \A c, d \in S : place[c] < place[d] => Before(t, c, d)
      /\ \A c \in Course \ S : t[c].tier = table[c].tier /\ t[c].incomplete = table[c].incomplete
      /\ \A c, d \in Assigned(table) \ S : Before(t, c, d) <=> Before(table, c, d)
    BY <1>0, <1>1, SeedRowsOrder
<1>. HIDE DEF t
<1>7. WellFormed(table')
    BY <1>3, <1>5, NormalizedWellFormed
<1>8. \A c \in Course : table'[c].tier = t[c].tier /\ table'[c].incomplete = t[c].incomplete
    BY <1>3, <1>5, NormalizedRow
<1>9. \A c, d \in Assigned(t) : t[c].tier = t[d].tier =>
        /\ Before(t, c, d) => table'[c].pos < table'[d].pos
        /\ Before(table', c, d) <=> Before(t, c, d)
    BY <1>3, <1>5, NormalizedOrder
<1>10. finished \subseteq Assigned(table) \ S
    BY <1>2
<1>11. \A c \in finished : /\ c \in Course \ S /\ c \in Assigned(t)
                           /\ t[c].tier = table[c].tier /\ ~t[c].incomplete /\ ~table[c].incomplete
                           /\ table'[c].tier = table[c].tier /\ ~table'[c].incomplete
    <2>1. \A c \in finished : c \in Course \ S /\ table[c].tier # "none" /\ ~table[c].incomplete
        BY <1>10 DEF Assigned
    <2>2. \A c \in finished : t[c].tier = table[c].tier /\ t[c].incomplete = table[c].incomplete
        BY <1>6, <2>1
    <2>. HIDE DEF finished
    <2>. QED  BY <1>8, <2>1, <2>2 DEF Assigned
<1>12. ASSUME NEW c \in finished, NEW d \in finished, table[c].tier = table[d].tier
       PROVE  /\ table[c].pos < table[d].pos => table'[c].pos < table'[d].pos
              /\ Before(table', c, d) <=> Before(table, c, d)
    <2>1. c \in Assigned(table) \ S /\ d \in Assigned(table) \ S
        BY <1>10
    <2>2. Before(t, c, d) <=> Before(table, c, d)
        BY <1>6, <2>1
    <2>3. /\ c \in Assigned(t) /\ d \in Assigned(t) /\ t[c].tier = t[d].tier
        BY <1>11, <1>12
    <2>4. table[c].pos < table[d].pos => Before(table, c, d)
        BY DEF Before
    <2>. QED  BY <1>9, <2>2, <2>3, <2>4
<1>13. ASSUME NEW c \in finished
       PROVE  snap'.entries[c].rating = snap.entries[c].rating
    <2>1. c \in Course /\ table'[c].tier = table[c].tier /\ ~table'[c].incomplete /\ ~table[c].incomplete
        BY <1>11
    <2>2. CASE table[c].tier \notin RankedTiers
        <3>1. snap'.entries[c] = NoEntry /\ snap.entries[c] = NoEntry
            BY <1>0, <1>3, <2>1, <2>2 DEF SnapshotOf, RankedCourses
        <3>. QED  BY <3>1
    <2>3. CASE table[c].tier \in RankedTiers
        <3>. DEFINE G == RatingGroup(table, c)
        <3>1. snap'.entries[c].rating = PersonalRating(table', c)
              /\ snap.entries[c].rating = PersonalRating(table, c)
            BY <1>0, <1>3, <2>1, <2>3 DEF SnapshotOf, RankedCourses
        <3>2. c \in G /\ \A d \in G : d \in finished /\ table[d].tier = table[c].tier
            <4>1. table[c].tier # "none"
                BY <2>3 DEF RankedTiers
            <4>2. \A d \in Course : table[d].incomplete \in BOOLEAN
                BY <1>0 DEF WellFormed, Table, Row
            <4>. QED  BY <2>1, <4>1, <4>2 DEF RatingGroup, InTier, Assigned
        <3>3. RatingGroup(table', c) = G
            <4>1. ASSUME NEW d \in Course PROVE d \in RatingGroup(table', c) <=> d \in G
                <5>1. table'[d].incomplete \in BOOLEAN /\ table[d].incomplete \in BOOLEAN
                      /\ table'[c].incomplete \in BOOLEAN /\ table[c].incomplete \in BOOLEAN
                    BY <1>0, <1>7, <2>1 DEF WellFormed, Table, Row
                <5>2. CASE d \in S
                    <6>1. table'[d].incomplete
                        BY <1>6, <1>8, <5>2
                    <6>2. d \notin finished
                        BY <1>10, <5>2
                    <6>3. d \notin G
                        BY <3>2, <6>2
                    <6>. QED  BY <2>1, <5>1, <6>1, <6>3 DEF RatingGroup
                <5>3. CASE d \notin S
                    <6>1. table'[d].tier = table[d].tier /\ table'[d].incomplete = table[d].incomplete
                        BY <1>6, <1>8, <5>3
                    <6>. QED  BY <2>1, <5>1, <6>1 DEF RatingGroup, InTier
                <5>. QED  BY <5>2, <5>3
            <4>. QED  BY <4>1 DEF RatingGroup, InTier
        <3>. HIDE DEF G, finished
        <3>4. Slot(table', G, c) = Slot(table, G, c)
            <4>1. \A d \in G : Before(table', d, c) <=> Before(table, d, c)
                BY <1>12, <3>2
            <4>2. {d \in G : d = c \/ Before(table', d, c)} = {d \in G : d = c \/ Before(table, d, c)}
                BY <4>1
            <4>. QED  BY <4>2 DEF Slot
        <3>. QED  BY <2>1, <3>1, <3>3, <3>4 DEF PersonalRating, G
    <2>. QED  BY <2>2, <2>3
<1>14. ASSUME NEW c \in finished
       PROVE  proj'[c].round = proj[c].round
    <2>1. c \in Course /\ table'[c].tier = table[c].tier
        BY <1>11
    <2>2. snap'.entries[c] = NoEntry <=> snap.entries[c] = NoEntry
        <3>1. \A x \in Course : snap'.entries[x] = NoEntry <=> x \notin RankedCourses(table')
            <4>1. IsFiniteSet(comparisons')
                BY <1>0, <1>3
            <4>. QED  BY <1>3, <1>7, <4>1, SnapshotOfType
        <3>2. \A x \in Course : snap.entries[x] = NoEntry <=> x \notin RankedCourses(table)
            BY <1>0, SnapshotOfType
        <3>. QED  BY <2>1, <3>1, <3>2 DEF RankedCourses
    <2>3. snap.entries[c] # NoEntry => c \in RankedCourses(table)
        BY <1>0, <2>1, SnapshotOfType
    <2>4. proj[c] = ProjectionOf(snap.entries[c], proj[c].round)
        BY <1>0, <2>1
    <2>5. proj'[c] = ProjectionOf(snap'.entries[c], IF proj[c].round # NoRound THEN proj[c].round
                                                    ELSE NewestRatingRound(rounds, c))
        BY <1>3, <2>1 DEF ProjectionsOf
    <2>6. NoProjection.round = NoRound
        BY DEF NoProjection
    <2>7. CASE snap.entries[c] = NoEntry
        BY <2>2, <2>4, <2>5, <2>6, <2>7 DEF ProjectionOf
    <2>8. CASE snap.entries[c] # NoEntry /\ proj[c].round # NoRound
        BY <2>2, <2>5, <2>8 DEF ProjectionOf
    <2>9. CASE snap.entries[c] # NoEntry /\ proj[c].round = NoRound
        <3>1. proj[c] = NoProjection
            BY <2>4, <2>9 DEF ProjectionOf
        <3>2. RatingRoundsOf(rounds, c) = {}
            BY <1>0, <2>3, <2>9, <3>1 DEF RatedCoursesAreProjected
        <3>3. NewestRatingRound(rounds, c) = NoRound
            BY <3>2 DEF NewestRatingRound
        <3>. QED  BY <2>5, <2>6, <2>9, <3>3 DEF ProjectionOf
    <2>. QED  BY <2>7, <2>8, <2>9
<1>15. ~SeedNeeded(o)'
    <2>1. SeedCourses(o)' = S /\ SeedPlace(o)' = place
        <3>1. \A c \in SeedCourses(o) : table'[c].incomplete
            BY <1>1, <1>6, <1>8 DEF S
        <3>2. \A c \in Course \ SeedCourses(o) :
                table'[c].tier = table[c].tier /\ table'[c].incomplete = table[c].incomplete
            BY <1>6, <1>8 DEF S
        <3>. QED  BY <1>4, <3>1, <3>2, SeedTermsKept DEF S, place
    <2>2. \A c \in S : c \in Assigned(t) /\ c \in Assigned(table')
        BY <1>1, <1>6, <1>8 DEF Assigned
    <2>3. \A c, d \in S : place[c] < place[d] => table'[c].pos < table'[d].pos
        BY <1>6, <1>9, <2>2
    <2>4. S \subseteq Assigned(table)'
        BY <2>2 DEF Assigned
    <2>. QED  BY <2>1, <2>3, <2>4 DEF SeedNeeded
<1>16. \A c \in finished :
          /\ table'[c].tier = table[c].tier /\ ~table'[c].incomplete
          /\ \A d \in finished :
                table[c].tier = table[d].tier /\ table[c].pos < table[d].pos
                  => table'[c].pos < table'[d].pos
          /\ snap'.entries[c].rating = snap.entries[c].rating
          /\ proj'[c].round = proj[c].round
    BY <1>11, <1>12, <1>13, <1>14
<1>. QED  BY <1>15, <1>16

\* Nothing to seed, and nothing else done, leaves nothing to seed.
LEMMA NotSeededStep ==
    ASSUME NEW o, ~SeedNeeded(o), table' = table
    PROVE  ~SeedNeeded(o)'
<1>1. SeedCourses(o)' = SeedCourses(o)
    BY DEF SeedCourses, Assigned
<1>2. SeedPlace(o)' = SeedPlace(o)
    BY <1>1 DEF SeedPlace
<1>. QED  BY <1>1, <1>2 DEF SeedNeeded, Assigned

\* Only the two commits seed, each from the pairs its own request has read.
LEMMA SeedsOnly ==
    ASSUME IInv, [Next]_vars, NEW ps, SeedsFrom(ps)
    PROVE  PairsOK(ps) /\ SeedIfNeeded(ps)
<1>. DEFINE Seeded == PairsOK(ps) /\ SeedIfNeeded(ps)
<1>0. reading \in [Request -> SUBSET SeedPair]
    BY DEF IInv, RequestsOK
<1>1. ASSUME UNCHANGED <<reading, saving>> PROVE Seeded
    BY <1>1 DEF SeedsFrom
<1>2. ASSUME NEW q \in Request, GetRankingBegin(q) PROVE Seeded
    <2>1. reading'[q] # {} /\ saving' = saving /\ \A r \in Request \ {q} : reading'[r] = reading[r]
        BY <1>0, <1>2 DEF GetRankingBegin
    <2>. QED  BY <2>1 DEF SeedsFrom
<1>3. ASSUME NEW q \in Request, GetRankingCommit(q) PROVE Seeded
    <2>1. saving' = saving /\ \A r \in Request \ {q} : reading'[r] = reading[r]
        BY <1>0, <1>3 DEF GetRankingCommit
    <2>2. ps = reading[q]
        BY <2>1 DEF SeedsFrom
    <2>. QED  BY <1>3, <2>2, IInvFacts DEF GetRankingCommit
<1>4. ASSUME NEW o \in Answers, SaveBegin(o) PROVE Seeded
    <2>1. saving'.busy /\ reading' = reading
        BY <1>4 DEF SaveBegin
    <2>. QED  BY <2>1 DEF SeedsFrom
<1>5. ASSUME SaveCommit PROVE Seeded
    <2>1. reading' = reading
        BY <1>5 DEF SaveCommit
    <2>2. ps = saving.pairs
        BY <2>1 DEF SeedsFrom
    <2>. QED  BY <1>5, <2>2, IInvFacts DEF SaveCommit
<1>. HIDE DEF Seeded
<1>6. Seeded
    BY <1>1, <1>2, <1>3, <1>4, <1>5
       DEF Next, vars, requestVars, PlaceInTiers, PlaceTwoInTiers, CompareCourses, ReviseRating,
           CreateRating, PatchRatingRound, DeleteRoundBegin, DeleteRoundCommit, DeleteRoundAbort,
           ConfirmMapping
<1>. QED  BY <1>6 DEF Seeded

\* A read or a save of answers (seed_onboarding_rankings, called by both) adds placeholders once,
\* however old the answers are that it has read: the finished courses keep their tier, order, rating
\* and the round that owns it, and whoever has read the same answers has nothing left to seed.
THEOREM SeedingAlwaysHarmless == Spec => SeedingIsHarmless
<1>. DEFINE finished == {e \in Assigned(table) : ~table[e].incomplete}
            Keeps ==
                \A c \in finished :
                      /\ table'[c].tier = table[c].tier /\ ~table'[c].incomplete
                      /\ \A d \in finished :
                            table[c].tier = table[d].tier /\ table[c].pos < table[d].pos
                              => table'[c].pos < table'[d].pos
                      /\ snap'.entries[c].rating = snap.entries[c].rating
                      /\ proj'[c].round = proj[c].round
<1>1. ASSUME IInv, [Next]_vars, NEW ps, SeedsFrom(ps) PROVE Keeps /\ ~SeedNeeded(ps)'
    <2>0. PairsOK(ps) /\ SeedIfNeeded(ps)
        BY <1>1, SeedsOnly
    <2>1. CASE Seed(ps)
        BY <1>1, <2>0, <2>1, SeedStep
    <2>2. CASE ~SeedNeeded(ps) /\ UNCHANGED rowVars
        <3>1. UNCHANGED <<table, proj, snap>>
            BY <2>2 DEF rowVars
        <3>2. ~SeedNeeded(ps)'
            BY <2>2, <3>1, NotSeededStep
        <3>. QED  BY <3>1, <3>2
    <2>. HIDE DEF Keeps
    <2>. QED  BY <2>0, <2>1, <2>2 DEF SeedIfNeeded
<1>2. IInv /\ [Next]_vars =>
        (SeedingStep =>
            LET f == {c \in Assigned(table) : ~table[c].incomplete}
            IN  /\ SameOrder(f)
                /\ \A c \in f : /\ ~table'[c].incomplete
                                /\ snap'.entries[c].rating = snap.entries[c].rating
                                /\ proj'[c].round = proj[c].round)
    <2>1. SUFFICES ASSUME IInv, [Next]_vars, SeedingStep PROVE Keeps
        BY DEF SameOrder
    <2>2. PICK ps : SeedsFrom(ps)
        BY <2>1 DEF SeedingStep
    <2>. QED  BY <1>1, <2>1, <2>2
<1>3. IInv /\ [Next]_vars => \A ps \in PairsRead : SeedsFrom(ps) => ~SeedNeeded(ps)'
    BY <1>1
<1>4. Spec => SeedingKeepsFinished
    BY <1>2, Invariant, PTL DEF Spec, SeedingKeepsFinished
<1>5. Spec => SeedingSettles
    BY <1>3, Invariant, PTL DEF Spec, SeedingSettles
<1>. QED  BY <1>4, <1>5 DEF SeedingIsHarmless

-----------------------------------------------------------------------------
(***************************************************************************)
(* Comparisons are obeyed.                                                 *)
(***************************************************************************)
NoTies(t, k) == \A c, d \in InTier(t, k) : c # d => t[c].pos # t[d].pos

\* No row of the tier has a position beyond the number of its rows.
Counted(t, k) == \A d \in InTier(t, k) : t[d].pos <= Cardinality(InTier(t, k))

LEMMA DenseTier ==
    ASSUME NEW t, Dense(t), NEW k, k # "none"
    PROVE  NoTies(t, k) /\ Counted(t, k)
<1>1. \A d \in InTier(t, k) : d \in Assigned(t) /\ t[d].tier = k
    BY DEF InTier, Assigned
<1>2. PICK n \in Nat : n = Cardinality(InTier(t, k))
    BY CountIsNat DEF InTier
<1>3. \A d \in InTier(t, k) : t[d].pos \in 1 .. n
    BY <1>1, <1>2 DEF Dense
<1>4. NoTies(t, k)
    BY <1>1 DEF NoTies, Dense
<1>. QED  BY <1>2, <1>3, <1>4 DEF Counted

\* The winner of a comparison moves above the loser, and no other row moves past another.
LEMMA PreferOrder ==
    ASSUME NEW t, WellFormed(t), NEW w \in Assigned(t), NEW l \in Assigned(t), w # l,
           t[w].tier = t[l].tier, NoTies(t, t[w].tier)
    PROVE  LET u == Normalized(Prefer(t, w, l))
           IN  /\ u[w].pos < u[l].pos
               /\ \A c, d \in Assigned(t) \ {w} :
                     t[c].tier = t[d].tier /\ t[c].pos < t[d].pos => u[c].pos < u[d].pos
<1>. DEFINE k == t[w].tier
            v == Prefer(t, w, l)
            peers == InTier(t, k) \ {w}
            target == Slot(t, peers, l)
<1>1. /\ WellFormed(v) /\ \A d \in Course : v[d].tier = t[d].tier
    BY PreferWellFormed DEF Assigned
<1>2. Assigned(v) = Assigned(t)
    BY <1>1 DEF Assigned
<1>3. /\ t \in Table /\ w \in Course /\ l \in Course /\ k # "none"
      /\ \A d \in Course : t[d] \in Row /\ t[d].pos \in Nat /\ t[d].age \in Nat
    BY DEF WellFormed, Table, Row, Assigned
<1>4. peers \in SUBSET Course /\ l \in peers /\ \A d \in peers : t[d].tier # "none"
    BY <1>3 DEF InTier
<1>5. /\ \A d \in peers : Slot(t, peers, d) \in Nat
      /\ \A c, d \in peers : Before(t, c, d) => Slot(t, peers, c) < Slot(t, peers, d)
    <2>1. DistinctAges(t, peers)
        BY <1>4 DEF DistinctAges, WellFormed, Assigned
    <2>. HIDE DEF peers
    <2>. QED  BY <1>3, <1>4, <2>1, SlotLemma, SlotIsNat
<1>6. SUFFICES /\ Before(v, w, l)
               /\ \A c, d \in Assigned(t) \ {w} :
                     t[c].tier = t[d].tier /\ t[c].pos < t[d].pos => Before(v, c, d)
    <2>. HIDE DEF v
    <2>1. \A c, d \in Assigned(v) : v[c].tier = v[d].tier /\ Before(v, c, d)
                                        => Normalized(v)[c].pos < Normalized(v)[d].pos
        BY <1>1, NormalizedOrder
    <2>2. \A c \in Assigned(t) : c \in Course
        BY DEF Assigned
    <2>3. \A c, d \in Assigned(t) : t[c].tier = t[d].tier => v[c].tier = v[d].tier
        BY <1>1, <2>2
    <2>4. Normalized(v)[w].pos < Normalized(v)[l].pos
        BY <1>2, <1>6, <2>1, <2>3
    <2>5. \A c, d \in Assigned(t) \ {w} :
             t[c].tier = t[d].tier /\ t[c].pos < t[d].pos => Normalized(v)[c].pos < Normalized(v)[d].pos
        BY <1>2, <1>6, <2>1, <2>3
    <2>. QED  BY <2>4, <2>5 DEF v
<1>7. CASE t[w].pos > t[l].pos
    <2>1. v = InsertInTier(t, w, k, target)
        BY <1>7 DEF Prefer
    <2>. DEFINE shifted(d) == IF Slot(t, peers, d) < target THEN Slot(t, peers, d)
                              ELSE Slot(t, peers, d) + 1
    <2>2. v = [d \in Course |->
                IF d = w THEN [t[w] EXCEPT !.tier = k, !.pos = target]
                ELSE IF d \in peers THEN [t[d] EXCEPT !.pos = shifted(d)]
                ELSE t[d]]
        BY <2>1 DEF InsertInTier
    <2>3. target \in Nat
        BY <1>4, <1>5
    <2>. HIDE DEF v, peers, target, shifted
    <2>4. v[w].pos = target
        <3>1. v[w] = [t[w] EXCEPT !.tier = k, !.pos = target]
            BY <1>3, <2>2
        <3>. QED  BY <1>3, <3>1 DEF Row
    <2>5. ASSUME NEW d \in peers
          PROVE  v[d].pos = shifted(d)
        <3>1. d # w /\ d \in Course
            BY <1>4 DEF peers
        <3>2. v[d] = [t[d] EXCEPT !.pos = shifted(d)]
            BY <2>2, <3>1
        <3>. QED  BY <1>3, <3>1, <3>2 DEF Row
    <2>6. shifted(l) = target + 1
        BY <2>3 DEF shifted, target
    <2>7. Before(v, w, l)
        BY <1>4, <2>3, <2>4, <2>5, <2>6 DEF Before
    <2>8. ASSUME NEW c \in Assigned(t) \ {w}, NEW d \in Assigned(t) \ {w},
                 t[c].tier = t[d].tier, t[c].pos < t[d].pos
          PROVE  Before(v, c, d)
        <3>1. c \in Course /\ d \in Course /\ Before(t, c, d)
            BY <2>8 DEF Assigned, Before
        <3>2. CASE c \in peers
            <4>1. d \in peers
                BY <2>8, <3>1, <3>2 DEF peers, InTier
            <4>2. Slot(t, peers, c) < Slot(t, peers, d) /\ Slot(t, peers, c) \in Nat
                  /\ Slot(t, peers, d) \in Nat
                BY <1>5, <3>1, <3>2, <4>1
            <4>3. shifted(c) < shifted(d)
                BY <2>3, <4>2 DEF shifted
            <4>. QED  BY <2>5, <3>2, <4>1, <4>3 DEF Before
        <3>3. CASE c \notin peers
            <4>1. d \notin peers
                BY <2>8, <3>1, <3>3 DEF peers, InTier
            <4>2. v[c] = t[c] /\ v[d] = t[d]
                BY <2>2, <3>1, <3>3, <4>1
            <4>. QED  BY <3>1, <4>2 DEF Before
        <3>. QED  BY <3>2, <3>3
    <2>. QED  BY <2>7, <2>8
<1>8. CASE ~(t[w].pos > t[l].pos)
    <2>1. v = t
        BY <1>8 DEF Prefer
    <2>2. t[w].pos # t[l].pos
        BY <1>3 DEF NoTies, InTier
    <2>3. t[w].pos < t[l].pos
        BY <1>3, <1>8, <2>2
    <2>. QED  BY <2>1, <2>3 DEF Before
<1>. QED  BY <1>7, <1>8

\* What a comparison of two rows of one tier does to the table.
LEMMA RefinedOrder ==
    ASSUME NEW t, WellFormed(t), NEW a \in Assigned(t), NEW b \in Assigned(t), a # b,
           t[a].tier = t[b].tier, NoTies(t, t[a].tier), NEW result
    PROVE  LET u == Normalized(Refined(t, a, b, result))
               w == Preferred(a, b, result)
           IN  /\ w # NoCourse => \A l \in {a, b} \ {w} : u[w].pos < u[l].pos
               /\ \A c, d \in Assigned(t) \ {w} :
                     t[c].tier = t[d].tier /\ t[c].pos < t[d].pos => u[c].pos < u[d].pos
<1>1. CASE result = "course_a"
    <2>1. Refined(t, a, b, result) = Prefer(t, a, b) /\ Preferred(a, b, result) = a
        BY <1>1 DEF Refined, Preferred
    <2>. QED  BY <2>1, PreferOrder
<1>2. CASE result = "course_b"
    <2>1. Refined(t, a, b, result) = Prefer(t, b, a) /\ Preferred(a, b, result) = b
        BY <1>2 DEF Refined, Preferred
    <2>2. NoTies(t, t[b].tier)
        OBVIOUS
    <2>. QED  BY <2>1, <2>2, PreferOrder
<1>3. CASE result \notin {"course_a", "course_b"}
    <2>1. Refined(t, a, b, result) = t /\ Preferred(a, b, result) = NoCourse
        BY <1>3 DEF Refined, Preferred
    <2>2. \A c, d \in Assigned(t) : t[c].tier = t[d].tier /\ t[c].pos < t[d].pos
                                        => Normalized(t)[c].pos < Normalized(t)[d].pos
        <3>1. \A c, d \in Assigned(t) : t[c].pos < t[d].pos => Before(t, c, d)
            BY DEF Before
        <3>. QED  BY <3>1, NormalizedOrder
    <2>. QED  BY <2>1, <2>2
<1>. QED  BY <1>1, <1>2, <1>3

\* A course that enters a tier is numbered after the rows it finds there.
LEMMA AppendToNoTies ==
    ASSUME NEW t, WellFormed(t), NEW c \in Course, NEW k \in Tiers, NoTies(t, k),
           t[c].tier = k \/ Counted(t, k)
    PROVE  NoTies(AppendTo(t, c, k), k)
<1>0. k # "none" /\ t \in Table
    BY DEF Tiers, RankedTiers, WellFormed
<1>1. \A d, e \in InTier(t, k) : d # e => t[d].pos # t[e].pos
    BY DEF NoTies
<1>2. CASE t[c].tier = k
    <2>. DEFINE v == [t EXCEPT ![c].incomplete = FALSE]
    <2>1. AppendTo(t, c, k) = v
        BY <1>2 DEF AppendTo
    <2>2. \A d \in Course : v[d].pos = t[d].pos /\ v[d].tier = t[d].tier
        BY <1>0 DEF Table, Row
    <2>3. InTier(v, k) = InTier(t, k)
        BY <2>2 DEF InTier
    <2>. QED  BY <1>1, <2>1, <2>2, <2>3 DEF NoTies, InTier
<1>3. CASE t[c].tier # k
    <2>. DEFINE u == EnsureRow(t, c)
                last == Cardinality(InTier(u, k) \ {c}) + 1
                v == [u EXCEPT ![c] = [@ EXCEPT !.tier = k, !.pos = last, !.incomplete = FALSE]]
    <2>1. AppendTo(t, c, k) = v
        BY <1>3 DEF AppendTo
    <2>2. u \in Table /\ \A d \in Course : u[d].tier = t[d].tier
        BY EnsureRowLemma
    <2>3. \A d \in Course \ {c} : u[d].pos = t[d].pos
        BY <1>0 DEF EnsureRow, Table, Row
    <2>4. InTier(u, k) \ {c} = InTier(t, k) /\ c \notin InTier(t, k)
        BY <1>3, <2>2 DEF InTier
    <2>5. last = Cardinality(InTier(t, k)) + 1
        BY <2>4
    <2>. HIDE DEF u, last
    <2>6. v[c].pos = last /\ \A d \in Course \ {c} : v[d] = u[d]
        BY <2>2 DEF Table, Row
    <2>7. \A d \in Course \ {c} : v[d].pos = t[d].pos /\ v[d].tier = t[d].tier
        BY <2>2, <2>3, <2>6
    <2>. HIDE DEF v
    <2>8. \A d \in InTier(v, k) : d = c \/ d \in InTier(t, k)
        BY <2>7 DEF InTier
    <2>9. \A d \in InTier(t, k) : d # c /\ d \in Course /\ v[d].pos = t[d].pos
        BY <2>4, <2>7 DEF InTier
    <2>10. Cardinality(InTier(t, k)) \in Nat
        BY CountIsNat DEF InTier
    <2>11. \A d \in InTier(t, k) : v[d].pos # v[c].pos
        <3>1. PICK n \in Nat : n = Cardinality(InTier(t, k))
            BY <2>10
        <3>2. \A d \in InTier(t, k) : v[d].pos <= n
            BY <1>3, <2>9, <3>1 DEF Counted
        <3>3. v[c].pos = n + 1
            BY <2>5, <2>6, <3>1
        <3>. QED  BY <3>2, <3>3
    <2>. QED  BY <1>1, <2>1, <2>8, <2>9, <2>11 DEF NoTies
<1>. QED  BY <1>2, <1>3

\* Where at most one course of an identity was listed, the merge leaves every tier without ties,
\* and every other tier counted.
LEMMA MergedNoTies ==
    ASSUME NEW t, WellFormed(t), Dense(t), NEW ids \in SUBSET Course, NEW c \in ids,
           ~(Cardinality(ids \cap Assigned(t)) > 1), NEW k, k # "none"
    PROVE  LET u == MergeIdentity(t, c, ids)
           IN  NoTies(u, k) /\ (u[c].tier = k \/ Counted(u, k))
<1>. DEFINE rows == ids \cap Assigned(t)
            kept == IF c \in rows THEN c
                    ELSE CHOOSE a \in rows : \A b \in rows : t[b].age <= t[a].age
<1>1. NoTies(t, k) /\ Counted(t, k)
    BY DenseTier
<1>2. CASE rows \subseteq {c}
    <2>1. MergeIdentity(t, c, ids) = t
        BY <1>2 DEF MergeIdentity
    <2>. QED  BY <1>1, <2>1
<1>3. CASE ~(rows \subseteq {c})
    <2>1. PICK a \in rows : a # c
        BY <1>3
    <2>2. rows = {a}
        <3>1. IsFiniteSet(rows) /\ Cardinality(rows) \in Nat
            BY CountIsNat
        <3>2. Cardinality(rows) # 0
            BY <2>1, <3>1, FS_EmptySet
        <3>3. Cardinality(rows) = 1
            BY <3>1, <3>2
        <3>4. PICK x : rows = {x}
            BY <3>1, <3>3, FS_Singleton
        <3>. QED  BY <2>1, <3>4
    <2>3. kept = a /\ rows \ {kept} = {}
        BY <2>1, <2>2
    <2>4. MergeIdentity(t, c, ids) = [DropRows(t, {}) EXCEPT ![a] = NoRow, ![c] = DropRows(t, {})[a]]
        BY <1>3, <2>3 DEF MergeIdentity
    <2>. HIDE DEF rowVars
    <2>5. PICK r : r = DropRows(t, {})
        OBVIOUS
    <2>6. PICK w : w = MergeIdentity(t, c, ids)
        OBVIOUS
    <2>7. /\ WellFormed(r) /\ Assigned(r) = Assigned(t)
          /\ \A d \in Assigned(t) : r[d].tier = t[d].tier /\ r[d].pos = t[d].pos
        <3>1. PICK D : D = {}
            OBVIOUS
        <3>2. /\ WellFormed(DropRows(t, D)) /\ Assigned(DropRows(t, D)) = Assigned(t) \ D
              /\ \A d \in Assigned(t) \ D : /\ DropRows(t, D)[d].tier = t[d].tier
                                           /\ DropRows(t, D)[d].incomplete = t[d].incomplete
                                           /\ DropRows(t, D)[d].pos = t[d].pos
            BY DropRowsLemma
        <3>. QED  BY <2>5, <3>1, <3>2
    <2>8. a \in Course /\ c \in Course /\ a \in Assigned(t) /\ c \notin Assigned(t)
        BY <2>1, <2>2 DEF rowVars
    <2>9. w[a] = NoRow /\ w[c] = r[a] /\ \A d \in Course \ {a, c} : w[d] = r[d]
        BY <2>1, <2>4, <2>5, <2>6, <2>7, <2>8 DEF WellFormed, Table
    <2>10. NoRow.tier = "none"
        BY DEF NoRow
    <2>11. CASE w[c].tier = k
        <3>1. t[a].tier = k /\ w[c].pos = t[a].pos
            BY <2>7, <2>8, <2>9, <2>11
        <3>2. \A d \in InTier(w, k) \ {c} : d \in InTier(t, k) \ {a} /\ w[d].pos = t[d].pos
            BY <2>7, <2>8, <2>9, <2>10 DEF InTier, Assigned
        <3>3. a \in InTier(t, k)
            BY <2>8, <3>1 DEF InTier
        <3>4. NoTies(w, k)
            BY <1>1, <3>1, <3>2, <3>3 DEF NoTies
        <3>. QED  BY <2>6, <2>11, <3>4
    <2>12. CASE w[c].tier # k
        <3>1. InTier(w, k) = InTier(t, k) /\ a \notin InTier(t, k) /\ c \notin InTier(t, k)
            BY <2>7, <2>8, <2>9, <2>10, <2>12 DEF InTier, Assigned
        <3>2. \A d \in InTier(t, k) : w[d].pos = t[d].pos
            BY <2>7, <2>9, <3>1 DEF InTier, Assigned
        <3>3. NoTies(w, k) /\ Counted(w, k)
            BY <1>1, <3>1, <3>2 DEF NoTies, Counted
        <3>. QED  BY <2>6, <3>3
    <2>. QED  BY <2>11, <2>12
<1>. QED  BY <1>2, <1>3

\* The comparison a request records is the one it was asked for.
LEMMA AddedComparison ==
    ASSUME NEW cs, NEW p, NEW w, NEW x \in AddComparison(cs, p, w) \ cs
    PROVE  x.pair = p /\ x.preferred = w
BY DEF AddComparison

\* What a new comparison may do to the table of the user.
Obeyed ==
    \A x \in comparisons' \ comparisons :
        /\ x.preferred # NoCourse /\ (\A c \in x.pair : ~Doubled(c)) => EndsAbove(x)
        /\ (\A c \in Course : table'[c].tier = table[c].tier) => SameOrder(Assigned(table) \ {x.preferred})

LEMMA CompareObeyed ==
    ASSUME IInv, NEW x \in Course, NEW y \in Course, NEW result \in Outcome,
           CompareCourses(x, y, result)
    PROVE  Obeyed
<1>0. WellFormed(table) /\ Dense(table) /\ canon \in [Course -> Course]
    BY IInvFacts DEF IInv, RowsOK
<1>1. PICK a \in Course, b \in Course : a = canon[x] /\ b = canon[y]
    BY <1>0
<1>2. /\ a # b /\ table[a].tier = table[b].tier /\ table[a].tier \in RankedTiers
      /\ table' = Normalized(Refined(table, a, b, result))
      /\ comparisons' = AddComparison(comparisons, {a, b}, Preferred(a, b, result))
    BY <1>1 DEF CompareCourses, StageAndCommit
<1>3. a \in Assigned(table) /\ b \in Assigned(table)
    BY <1>2 DEF Assigned, RankedTiers
<1>4. NoTies(table, table[a].tier)
    BY <1>0, <1>3, DenseTier DEF Assigned
<1>5. PICK w : w = Preferred(a, b, result)
    OBVIOUS
<1>6. /\ w # NoCourse => \A l \in {a, b} \ {w} : table'[w].pos < table'[l].pos
      /\ \A c, d \in Assigned(table) \ {w} :
            table[c].tier = table[d].tier /\ table[c].pos < table[d].pos => table'[c].pos < table'[d].pos
    BY <1>0, <1>2, <1>3, <1>4, <1>5, RefinedOrder
<1>7. \A z \in comparisons' \ comparisons : z.pair = {a, b} /\ z.preferred = w
    BY <1>2, <1>5, AddedComparison
<1>8. \A c \in Assigned(table) : c \in Course
    BY DEF Assigned
<1>. QED  BY <1>6, <1>7, <1>8 DEF Obeyed, EndsAbove, SameOrder

\* Where the identity was not ranked under several courses, the rows among which a rating puts its
\* course share no number.
LEMMA PlacedNoTies ==
    ASSUME IInv, NEW c \in Course, NEW k \in RatingTier,
           ~Doubled(c) \/ IdentityOf(c) \cap Assigned(table) \subseteq {c}
    PROVE  NoTies(PlacedRows(c, k), k)
<1>0. WellFormed(table) /\ Dense(table)
    BY IInvFacts DEF IInv, RowsOK
<1>1. k \in Tiers /\ k # "none"
    BY DEF RatingTier, Tiers, RankedTiers
<1>2. PICK ids \in SUBSET Course : ids = IdentityOf(c)
    BY DEF IdentityOf
<1>3. c \in ids
    BY <1>2 DEF IdentityOf
<1>4. PICK u : u = MergeIdentity(table, c, ids)
    OBVIOUS
<1>5. WellFormed(u)
    BY <1>0, <1>3, <1>4, MergeIdentityLemma
<1>6. NoTies(u, k) /\ (u[c].tier = k \/ Counted(u, k))
    <2>1. CASE ids \cap Assigned(table) \subseteq {c}
        <3>1. u = table
            BY <1>4, <2>1 DEF MergeIdentity
        <3>. QED  BY <1>0, <1>1, <3>1, DenseTier
    <2>2. CASE ~Doubled(c)
        <3>1. ~(Cardinality(ids \cap Assigned(table)) > 1)
            BY <1>2, <2>2 DEF Doubled
        <3>. QED  BY <1>0, <1>1, <1>3, <1>4, <3>1, MergedNoTies
    <2>. QED  BY <1>2, <2>1, <2>2
<1>7. PlacedRows(c, k) = AppendTo(u, c, k)
    BY <1>2, <1>4 DEF PlacedRows
<1>. QED  BY <1>1, <1>5, <1>6, <1>7, AppendToNoTies

\* When a rating changes no tier, its course was in that tier before, and no other course of its
\* identity was anywhere.
LEMMA RatedWithoutMoving ==
    ASSUME IInv, NEW c \in Course, NEW k \in RatingTier, NEW m \in Refinements,
           RefinementAccepted(c, k, m), table' = Normalized(RatedRows(c, k, m)),
           \A d \in Course : table'[d].tier = table[d].tier
    PROVE  /\ table[c].tier = k
           /\ IdentityOf(c) \cap Assigned(table) \subseteq {c}
<1>1. PICK v : v = RatedRows(c, k, m)
    OBVIOUS
<1>2. /\ WellFormed(v) /\ v[c].tier = k
      /\ \A a \in IdentityOf(c) \ {c} : v[a].tier = "none"
    BY <1>1, RatedRowOfCourse, RatedRowsLemma
<1>3. \A d \in Course : table[d].tier = v[d].tier
    BY <1>1, <1>2, NormalizedRow
<1>. QED  BY <1>2, <1>3 DEF IdentityOf, Assigned

LEMMA RatedObeyed ==
    ASSUME IInv, NEW c \in Course, NEW k \in RatingTier, NEW m \in Refinements,
           RefinementAccepted(c, k, m),
           comparisons' = RatedComparisons(c, m), table' = Normalized(RatedRows(c, k, m))
    PROVE  Obeyed
<1>1. CASE m.with = NoCourse
    <2>1. comparisons' = comparisons
        BY <1>1 DEF RatedComparisons
    <2>. QED  BY <2>1 DEF Obeyed
<1>2. CASE m.with # NoCourse
    <2>0. WellFormed(table) /\ canon \in [Course -> Course]
        BY IInvFacts DEF IInv, RowsOK
    <2>1. PICK b \in Course : b = canon[m.with]
        BY <1>2, <2>0 DEF Refinements
    <2>2. PICK t : t = PlacedRows(c, k)
        OBVIOUS
    <2>3. b # c /\ t[b].tier = k
        BY <1>2, <2>1, <2>2 DEF RefinementAccepted
    <2>4. k # "none"
        BY DEF RatingTier, RankedTiers
    <2>5. WellFormed(t) /\ t[c].tier = k
        BY <2>2, PlacedRowsLemma
    <2>6. c \in Assigned(t) /\ b \in Assigned(t)
        BY <2>3, <2>4, <2>5 DEF Assigned
    <2>7. PICK w : w = Preferred(c, b, m.result)
        OBVIOUS
    <2>8. /\ table' = Normalized(Refined(t, c, b, m.result))
          /\ comparisons' = AddComparison(comparisons, {c, b}, w)
        BY <1>2, <2>1, <2>2, <2>7 DEF RatedRows, RatedComparisons
    <2>9. \A z \in comparisons' \ comparisons : z.pair = {c, b} /\ z.preferred = w
        BY <2>8, AddedComparison
    <2>10. ASSUME NoTies(t, k)
           PROVE  /\ w # NoCourse => \A l \in {c, b} \ {w} : table'[w].pos < table'[l].pos
                  /\ \A d, e \in Assigned(t) \ {w} :
                        t[d].tier = t[e].tier /\ t[d].pos < t[e].pos => table'[d].pos < table'[e].pos
        BY <2>3, <2>5, <2>6, <2>7, <2>8, <2>10, RefinedOrder
    <2>11. ASSUME w # NoCourse, ~Doubled(c)
           PROVE  \A l \in {c, b} \ {w} : table'[w].pos < table'[l].pos
        BY <2>2, <2>10, <2>11, PlacedNoTies
    <2>12. ASSUME \A d \in Course : table'[d].tier = table[d].tier
           PROVE  SameOrder(Assigned(table) \ {w})
        <3>1. table[c].tier = k /\ IdentityOf(c) \cap Assigned(table) \subseteq {c}
            BY <2>12, RatedWithoutMoving
        <3>2. t = AppendTo(table, c, k)
            <4>1. MergeIdentity(table, c, IdentityOf(c)) = table
                BY <3>1 DEF MergeIdentity
            <4>. QED  BY <2>2, <4>1 DEF PlacedRows
        <3>3. t = [table EXCEPT ![c].incomplete = FALSE]
            BY <3>1, <3>2 DEF AppendTo
        <3>4. \A d \in Course : t[d].pos = table[d].pos /\ t[d].tier = table[d].tier
            BY <2>0, <3>3 DEF WellFormed, Table, Row
        <3>5. Assigned(t) = Assigned(table) /\ Assigned(table) \subseteq Course
            BY <3>4 DEF Assigned
        <3>6. NoTies(t, k)
            BY <2>2, <3>1, PlacedNoTies
        <3>. QED  BY <2>10, <2>12, <3>4, <3>5, <3>6 DEF SameOrder
    <2>13. ASSUME NEW z \in comparisons' \ comparisons
           PROVE  z.preferred # NoCourse /\ (\A d \in z.pair : ~Doubled(d)) => EndsAbove(z)
        BY <2>9, <2>11 DEF EndsAbove
    <2>. QED  BY <2>9, <2>12, <2>13 DEF Obeyed
<1>. QED  BY <1>1, <1>2

LEMMA ObeyedStep == ASSUME IInv, [Next]_vars, ~SeedingStep PROVE Obeyed
<1>0. canon \in [Course -> Course]
    BY IInvFacts
<1>1. ASSUME NEW x \in Course, NEW y \in Course, NEW result \in Outcome,
             CompareCourses(x, y, result)
      PROVE  Obeyed
    BY <1>1, CompareObeyed
<1>2. ASSUME NEW x \in Course, NEW k \in RatingTier, NEW m \in Refinements,
             ReviseRating(x, k, m) \/ CreateRating(x, k, m)
      PROVE  Obeyed
    <2>1. PICK c \in Course : c = canon[x]
        BY <1>0
    <2>2. /\ RefinementAccepted(c, k, m)
          /\ comparisons' = RatedComparisons(c, m) /\ table' = Normalized(RatedRows(c, k, m))
        BY <1>2, <2>1 DEF ReviseRating, CreateRating, StageAndCommit
    <2>. QED  BY <2>2, RatedObeyed
<1>3. ASSUME comparisons' \subseteq comparisons PROVE Obeyed
    BY <1>3 DEF Obeyed
<1>4. ASSUME NEW q \in Request, GetRankingCommit(q) PROVE FALSE
    <2>1. reading[q] # {} /\ reading'[q] = {}
        BY <1>4 DEF GetRankingCommit, IInv, RequestsOK
    <2>2. SeedsFrom(reading[q]) /\ reading[q] \in PairsRead
        BY <2>1 DEF SeedsFrom, PairsRead
    <2>. QED  BY <2>2 DEF SeedingStep
<1>5. ASSUME SaveCommit PROVE FALSE
    <2>1. saving.busy /\ ~saving'.busy
        BY <1>5 DEF SaveCommit, NoSave
    <2>2. SeedsFrom(saving.pairs) /\ saving.pairs \in PairsRead
        BY <2>1 DEF SeedsFrom, PairsRead
    <2>. QED  BY <2>2 DEF SeedingStep
<1>. HIDE DEF Obeyed
<1>. QED
    BY <1>1, <1>2, <1>3, <1>4, <1>5
       DEF Next, vars, rowVars, GetRankingBegin, SaveBegin, PlaceInTiers, PlaceTwoInTiers, PatchRatingRound,
           DeleteRoundBegin, DeleteRoundCommit, DeleteRoundAbort, ConfirmMapping, StageAndCommit

\* Whoever compares two courses, on the ranking screen or with a rating, gets what was asked for: the
\* preferred course ends up above the other (compare_courses, _stage_comparison) unless one of the
\* two was ranked under several courses before, and when no tier changes nothing else moves, ever.
THEOREM ComparisonsAlwaysObeyed == Spec => ComparisonsObeyed
<1>1. IInv /\ [Next]_vars =>
        (~SeedingStep => \A x \in comparisons' \ comparisons :
            x.preferred # NoCourse /\ (\A c \in x.pair : ~Doubled(c)) => EndsAbove(x))
    BY ObeyedStep DEF Obeyed
<1>2. IInv /\ [Next]_vars =>
        (~SeedingStep /\ (\A c \in Course : table'[c].tier = table[c].tier) =>
            \A x \in comparisons' \ comparisons : SameOrder(Assigned(table) \ {x.preferred}))
    BY ObeyedStep DEF Obeyed
<1>3. Spec => PreferredEndsAboveUnlessDoubled
    BY <1>1, Invariant, PTL DEF Spec, PreferredEndsAboveUnlessDoubled
<1>4. Spec => ComparisonMovesOnlyPreferred
    BY <1>2, Invariant, PTL DEF Spec, ComparisonMovesOnlyPreferred
<1>. QED  BY <1>3, <1>4 DEF ComparisonsObeyed

-----------------------------------------------------------------------------
(***************************************************************************)
(* The rating scale as courses are finished.                               *)
(***************************************************************************)
ScaleTyped == scaleTier \in RankedTiers /\ scaleSize \in Nat \ {0}

LEMMA ScaleInBand == ScaleTyped => RatingsInBand
<1>. SUFFICES ASSUME ScaleTyped PROVE RatingsInBand
    OBVIOUS
<1>1. scaleTier \in RankedTiers /\ scaleSize \in Nat \ {0}
    BY DEF ScaleTyped
<1>2. DOMAIN scale = 0 .. scaleSize - 1
    BY DEF scale
<1>3. \A i \in DOMAIN scale : scale[i] = Rating(scaleTier, i, scaleSize)
    BY DEF scale
<1>4. ASSUME NEW i \in DOMAIN scale
      PROVE  scale[i] \in TierBand[scaleTier].low .. TierBand[scaleTier].high
    <2>1. i \in 0 .. scaleSize - 1
        BY <1>2
    <2>2. Rating(scaleTier, i, scaleSize) \in TierBand[scaleTier].low .. TierBand[scaleTier].high
        BY <1>1, <2>1, RatingInBand
    <2>. QED  BY <1>3, <2>2
<1>5. ASSUME scaleSize > 1
      PROVE  /\ scale[0] = TierBand[scaleTier].high
             /\ scale[scaleSize - 1] = TierBand[scaleTier].low
    <2>1. scaleSize \in Nat \ {0, 1} /\ 0 \in DOMAIN scale /\ scaleSize - 1 \in DOMAIN scale
        BY <1>1, <1>2, <1>5
    <2>2. /\ Rating(scaleTier, 0, scaleSize) = TierBand[scaleTier].high
          /\ Rating(scaleTier, scaleSize - 1, scaleSize) = TierBand[scaleTier].low
        BY <1>1, <2>1, RatingEnds
    <2>. QED  BY <1>3, <2>1, <2>2
<1>. QED  BY <1>4, <1>5 DEF RatingsInBand

LEMMA ScaleSeparates == ScaleTyped => RatingsSeparateCourses
<1>. SUFFICES ASSUME ScaleTyped, NEW i \in DOMAIN scale, i + 1 \in DOMAIN scale
              PROVE  /\ scale[i] >= scale[i + 1]
                     /\ scaleSize <= TierBand[scaleTier].high - TierBand[scaleTier].low + 1 =>
                            scale[i] > scale[i + 1]
    BY Zenon DEF RatingsSeparateCourses
<1>1. scaleTier \in RankedTiers /\ scaleSize \in Nat \ {0}
    BY DEF ScaleTyped
<1>2. i \in 0 .. scaleSize - 1 /\ i + 1 \in 0 .. scaleSize - 1
    BY DEF scale
<1>3. i \in Nat /\ i + 1 < scaleSize /\ i <= i + 1
    BY <1>1, <1>2
<1>4. scale[i] = Rating(scaleTier, i, scaleSize) /\ scale[i + 1] = Rating(scaleTier, i + 1, scaleSize)
    BY <1>2 DEF scale
<1>5. Rating(scaleTier, i, scaleSize) >= Rating(scaleTier, i + 1, scaleSize)
    BY <1>1, <1>2, <1>3, RatingFalls
<1>6. ASSUME scaleSize <= TierBand[scaleTier].high - TierBand[scaleTier].low + 1
      PROVE  Rating(scaleTier, i, scaleSize) > Rating(scaleTier, i + 1, scaleSize)
    BY <1>1, <1>3, <1>6, RatingSeparates
<1>. QED  BY <1>4, <1>5, <1>6

\* However many courses a user finishes in a tier, their ratings stay in its band, reach its ends,
\* never rise down the tier, and separate the courses as long as the band has tenths (_rating).
THEOREM ScaleAlwaysHolds == ScaleSpec => []ScaleHolds
<1>1. ScaleInit => ScaleTyped
    BY DEF ScaleInit, ScaleTyped
<1>2. ScaleTyped /\ [AddCourse]_scaleVars => ScaleTyped'
    BY DEF ScaleTyped, AddCourse, scaleVars
<1>3. ScaleTyped => ScaleHolds
    BY ScaleInBand, ScaleSeparates DEF ScaleHolds
<1>. QED  BY <1>1, <1>2, <1>3, PTL DEF ScaleSpec

-----------------------------------------------------------------------------
(***************************************************************************)
(* The rows as lists: what each operation on a table does to them.         *)
(***************************************************************************)

\* One row is above another one in the same list.
Above(t, c, d) == t[c].tier # "none" /\ t[c].tier = t[d].tier /\ Before(t, c, d)

\* The rows that onboarding has seeded and nobody has finished.
Placeholders(t) == {c \in Course : t[c].incomplete}

LEMMA ListsFacts ==
    ASSUME NEW t
    PROVE  LET L == ListsOf(t)
           IN  /\ L.tier = [c \in Course |-> t[c].tier]
               /\ L.above \in SUBSET (Course \X Course)
               /\ \A c, d \in Course : <<c, d>> \in L.above <=> Above(t, c, d)
               /\ L.seeded = Placeholders(t)
               /\ L = [tier |-> L.tier, above |-> L.above, seeded |-> L.seeded]
               /\ \A k : Lists!In(L, k) = InTier(t, k)
               /\ Lists!Listed(L) = Assigned(t)
BY DEF ListsOf, Above, Lists!In, Lists!Listed, Placeholders, InTier, Assigned

LEMMA ListsAre ==
    ASSUME NEW t, NEW T, NEW P \in SUBSET (Course \X Course),
           T = [c \in Course |-> t[c].tier],
           \A c, d \in Course : <<c, d>> \in P <=> Above(t, c, d)
    PROVE  ListsOf(t) = [tier |-> T, above |-> P, seeded |-> Placeholders(t)]
<1>1. {p \in Course \X Course : /\ t[p[1]].tier # "none" /\ t[p[1]].tier = t[p[2]].tier
                                /\ Before(t, p[1], p[2])} = P
    BY DEF Above
<1>. QED  BY <1>1 DEF ListsOf, Placeholders

\* Tables whose rows agree, but for the numbers, have the same lists.
LEMMA SameLists ==
    ASSUME NEW t, NEW u,
           \A c \in Course : u[c].tier = t[c].tier, Placeholders(u) = Placeholders(t),
           \A c, d \in Course : Above(u, c, d) <=> Above(t, c, d)
    PROVE  ListsOf(u) = ListsOf(t)
<1>1. [c \in Course |-> u[c].tier] = [c \in Course |-> t[c].tier]
    OBVIOUS
<1>2. {p \in Course \X Course : Above(u, p[1], p[2])} = {p \in Course \X Course : Above(t, p[1], p[2])}
    OBVIOUS
<1>. QED  BY <1>1, <1>2 DEF ListsOf, Placeholders, Above

\* The rows of a tier are in one order.
LEMMA BeforeOrders ==
    ASSUME NEW t \in Table, NEW c \in Course, NEW d \in Course
    PROVE  /\ ~(Before(t, c, d) /\ Before(t, d, c)) /\ ~Before(t, c, c)
           /\ t[c].age # t[d].age => Before(t, c, d) \/ Before(t, d, c)
           /\ \A e \in Course : Before(t, c, d) /\ Before(t, d, e) => Before(t, c, e)
<1>1. \A e \in Course : t[e].pos \in Nat /\ t[e].age \in Nat
    BY DEF Table, Row
<1>. QED  BY <1>1 DEF Before

\* RankedLists counts as the tables do.
LEMMA ListsCount == ASSUME NEW S PROVE Lists!Cardinality(S) = Cardinality(S)
BY Zenon DEF Lists!Cardinality, Cardinality

\* _normalize_positions renumbers; the lists stay.
LEMMA NormalizedLists ==
    ASSUME NEW t, WellFormed(t)
    PROVE  ListsOf(Normalized(t)) = ListsOf(t)
<1>. DEFINE u == Normalized(t)
<1>1. \A c \in Course : u[c].tier = t[c].tier /\ u[c].incomplete = t[c].incomplete
    BY NormalizedRow
<1>2. \A c, d \in Assigned(t) : t[c].tier = t[d].tier => (Before(u, c, d) <=> Before(t, c, d))
    BY NormalizedOrder
<1>. HIDE DEF u
<1>3. \A c, d \in Course : Above(u, c, d) <=> Above(t, c, d)
    BY <1>1, <1>2 DEF Above, Assigned
<1>4. Placeholders(u) = Placeholders(t)
    BY <1>1 DEF Placeholders
<1>5. ListsOf(u) = ListsOf(t)
    BY <1>1, <1>3, <1>4, SameLists
<1>. QED  BY <1>5 DEF u

\* A new row is in no list yet.
LEMMA EnsureRowLists ==
    ASSUME NEW t, WellFormed(t), NEW c \in Course
    PROVE  ListsOf(EnsureRow(t, c)) = ListsOf(t)
<1>. DEFINE u == EnsureRow(t, c)
<1>1. \A d \in Course : t[d] \in Row /\ (t[d].tier = "none" <=> t[d] = NoRow)
    BY DEF WellFormed, Table
<1>2. CASE t[c].tier # "none"
    BY <1>2 DEF EnsureRow
<1>3. CASE t[c].tier = "none"
    <2>1. u = [d \in Course |->
                IF d = c THEN [NoRow EXCEPT !.age = 1]
                ELSE IF t[d].tier = "none" THEN t[d]
                ELSE [t[d] EXCEPT !.age = @ + 1]]
        BY <1>3 DEF EnsureRow
    <2>. HIDE DEF u
    <2>2. u[c].tier = "none" /\ u[c].incomplete = FALSE /\ t[c].incomplete = FALSE
        BY <1>1, <1>3, <2>1 DEF NoRow
    <2>3. \A d \in Course \ {c} : u[d].tier = t[d].tier /\ u[d].incomplete = t[d].incomplete
                                  /\ u[d].pos = t[d].pos /\ (t[d].tier # "none" => u[d].age = t[d].age + 1)
        <3>1. SUFFICES ASSUME NEW d \in Course \ {c}, t[d].tier # "none"
                       PROVE  u[d].tier = t[d].tier /\ u[d].incomplete = t[d].incomplete
                                /\ u[d].pos = t[d].pos /\ u[d].age = t[d].age + 1
            BY <2>1
        <3>2. u[d] = [t[d] EXCEPT !.age = @ + 1]
            BY <2>1, <3>1
        <3>. QED  BY <1>1, <3>2 DEF Row
    <2>4. \A d \in Course : t[d].pos \in Nat /\ t[d].age \in Nat
        BY <1>1 DEF Row
    <2>5. \A d, e \in Course : Above(u, d, e) <=> Above(t, d, e)
        <3>1. SUFFICES ASSUME NEW d \in Course, NEW e \in Course PROVE Above(u, d, e) <=> Above(t, d, e)
            OBVIOUS
        <3>2. CASE d = c \/ e = c \/ t[d].tier = "none" \/ t[e].tier = "none"
            BY <1>3, <2>2, <2>3, <3>2 DEF Above
        <3>3. CASE d # c /\ e # c /\ t[d].tier # "none" /\ t[e].tier # "none"
            BY <2>3, <2>4, <3>3 DEF Above, Before
        <3>. QED  BY <3>2, <3>3
    <2>6. Placeholders(u) = Placeholders(t)
        BY <2>2, <2>3 DEF Placeholders
    <2>7. \A d \in Course : u[d].tier = t[d].tier
        BY <1>3, <2>2, <2>3
    <2>8. ListsOf(u) = ListsOf(t)
        BY <2>5, <2>6, <2>7, SameLists
    <2>. QED  BY <2>8 DEF u
<1>. QED  BY <1>2, <1>3

\* A table after a course has got into list k below some of its rows and above the others, with
\* the other rows in their order, is what PutIn says of its lists.
LEMMA PutInLists ==
    ASSUME NEW t, NEW u, NEW c \in Course, NEW k, k # "none", NEW top \in SUBSET (InTier(t, k) \ {c}),
           u[c].tier = k, ~Before(u, c, c), Placeholders(u) = Placeholders(t),
           \A d \in Course \ {c} : u[d].tier = t[d].tier,
           \A d, e \in Course \ {c} : Above(u, d, e) <=> Above(t, d, e),
           \A d \in InTier(t, k) \ {c} : /\ Before(u, d, c) <=> d \in top
                                         /\ Before(u, c, d) <=> d \notin top
    PROVE  ListsOf(u) = Lists!PutIn(ListsOf(t), c, k, top)
<1>. DEFINE L == ListsOf(t)
            P == Lists!Apart(L.above, {c}) \cup (top \X {c})
                    \cup ({c} \X (Lists!In(L, k) \ (top \cup {c})))
            T == [L.tier EXCEPT ![c] = k]
<1>1. /\ L.tier = [d \in Course |-> t[d].tier]
      /\ L.above \in SUBSET (Course \X Course)
      /\ \A d, e \in Course : <<d, e>> \in L.above <=> Above(t, d, e)
      /\ L.seeded = Placeholders(u)
      /\ Lists!In(L, k) = InTier(t, k)
    BY ListsFacts
<1>2. Lists!PutIn(L, c, k, top) = [tier |-> T, above |-> P, seeded |-> L.seeded]
    BY DEF Lists!PutIn
<1>. HIDE DEF L
<1>3. T = [d \in Course |-> u[d].tier]
    BY <1>1
<1>4. P \in SUBSET (Course \X Course)
    BY <1>1 DEF Lists!Apart, InTier
<1>5. \A d, e \in Course : <<d, e>> \in P <=>
        \/ d # c /\ e # c /\ Above(t, d, e)
        \/ d \in top /\ e = c
        \/ d = c /\ e \in InTier(t, k) \ (top \cup {c})
    BY <1>1 DEF Lists!Apart
<1>6. \A d, e \in Course : <<d, e>> \in P <=> Above(u, d, e)
    <2>. HIDE DEF P
    <2>1. SUFFICES ASSUME NEW d \in Course, NEW e \in Course PROVE <<d, e>> \in P <=> Above(u, d, e)
        OBVIOUS
    <2>2. CASE d # c /\ e # c
        BY <1>5, <2>2
    <2>3. CASE d # c /\ e = c
        BY <1>5, <2>3 DEF Above, InTier
    <2>4. CASE d = c /\ e # c
        BY <1>5, <2>4 DEF Above, InTier
    <2>5. CASE d = c /\ e = c
        BY <1>5, <2>5 DEF Above
    <2>. QED  BY <2>2, <2>3, <2>4, <2>5
<1>. HIDE DEF P, T
<1>7. ListsOf(u) = [tier |-> T, above |-> P, seeded |-> Placeholders(u)]
    BY <1>3, <1>4, <1>6, ListsAre
<1>. QED  BY <1>1, <1>2, <1>7 DEF L

\* peers.insert(target - 1, row) and the renumbering that follows it.
LEMMA InsertLists ==
    ASSUME NEW t \in Table, NEW c \in Course, NEW k \in Tiers, NEW n \in Nat,
           DistinctAges(t, InTier(t, k) \ {c})
    PROVE  LET peers == InTier(t, k) \ {c}
           IN  ListsOf(InsertInTier(t, c, k, n))
                = Lists!PutIn(ListsOf(t), c, k, {d \in peers : Slot(t, peers, d) < n})
<1>. DEFINE u == InsertInTier(t, c, k, n)
            peers == InTier(t, k) \ {c}
            top == {d \in peers : Slot(t, peers, d) < n}
            shifted(d) == IF Slot(t, peers, d) < n THEN Slot(t, peers, d)
                          ELSE Slot(t, peers, d) + 1
<1>1. peers \in SUBSET Course /\ \A d \in peers : t[d].tier = k
    BY DEF InTier
<1>2. \A d \in Course : t[d] \in Row /\ t[d].pos \in Nat /\ t[d].age \in Nat
    BY DEF Table, Row
<1>3. /\ \A d \in peers : Slot(t, peers, d) \in Nat
      /\ \A d, e \in peers : Before(t, d, e) => Slot(t, peers, d) < Slot(t, peers, e)
    BY <1>1, SlotIsNat, SlotLemma
<1>4. u = [d \in Course |->
            IF d = c THEN [t[c] EXCEPT !.tier = k, !.pos = n]
            ELSE IF d \in peers THEN [t[d] EXCEPT !.pos = shifted(d)]
            ELSE t[d]]
    BY DEF InsertInTier
<1>. HIDE DEF u, peers
<1>5. u[c].tier = k /\ u[c].pos = n /\ u[c].age = t[c].age /\ u[c].incomplete = t[c].incomplete
    <2>1. u[c] = [t[c] EXCEPT !.tier = k, !.pos = n]
        BY <1>4
    <2>. QED  BY <1>2, <2>1 DEF Row
<1>6. \A d \in peers : /\ u[d].tier = t[d].tier /\ u[d].incomplete = t[d].incomplete
                       /\ u[d].pos = shifted(d) /\ u[d].age = t[d].age
    <2>1. SUFFICES ASSUME NEW d \in peers
                   PROVE  /\ u[d].tier = t[d].tier /\ u[d].incomplete = t[d].incomplete
                          /\ u[d].pos = shifted(d) /\ u[d].age = t[d].age
        OBVIOUS
    <2>2. d # c /\ d \in Course
        BY <1>1 DEF peers
    <2>3. u[d] = [t[d] EXCEPT !.pos = shifted(d)]
        BY <1>4, <2>2
    <2>. QED  BY <1>2, <2>2, <2>3 DEF Row
<1>7. \A d \in Course \ {c} : d \notin peers => u[d] = t[d]
    BY <1>4
<1>8. \A d, e \in peers : Before(u, d, e) <=> Before(t, d, e)
    <2>1. SUFFICES ASSUME NEW d \in peers, NEW e \in peers
                   PROVE  Before(u, d, e) <=> Before(t, d, e)
        OBVIOUS
    <2>2. PICK x \in Nat, y \in Nat : x = Slot(t, peers, d) /\ y = Slot(t, peers, e)
        BY <1>3
    <2>3. u[d].pos = (IF x < n THEN x ELSE x + 1) /\ u[e].pos = (IF y < n THEN y ELSE y + 1)
        BY <1>6, <2>2
    <2>4. CASE d = e
        BY <1>1, <1>2, <1>6, <2>3, <2>4 DEF Before
    <2>5. CASE Before(t, d, e)
        BY <1>3, <2>2, <2>3, <2>5 DEF Before
    <2>6. CASE Before(t, e, d)
        <3>1. y < x /\ ~Before(t, d, e)
            BY <1>1, <1>2, <1>3, <2>2, <2>6, BeforeOrders
        <3>. QED  BY <2>3, <3>1 DEF Before
    <2>7. d = e \/ Before(t, d, e) \/ Before(t, e, d)
        BY <1>1, BeforeOrders DEF DistinctAges, peers
    <2>. QED  BY <2>4, <2>5, <2>6, <2>7
<1>9. \A d, e \in Course \ {c} : Above(u, d, e) <=> Above(t, d, e)
    <2>1. SUFFICES ASSUME NEW d \in Course \ {c}, NEW e \in Course \ {c}
                   PROVE  Above(u, d, e) <=> Above(t, d, e)
        OBVIOUS
    <2>2. \A f \in Course \ {c} : u[f].tier = t[f].tier /\ (f \in peers <=> t[f].tier = k)
        BY <1>6, <1>7 DEF peers, InTier
    <2>3. CASE d \in peers /\ e \in peers
        BY <1>8, <2>2, <2>3 DEF Above
    <2>4. CASE d \notin peers /\ e \notin peers
        BY <1>7, <2>4 DEF Above, Before
    <2>5. CASE (d \in peers) # (e \in peers)
        BY <2>2, <2>5 DEF Above
    <2>. QED  BY <2>3, <2>4, <2>5
<1>10. \A d \in peers : (Before(u, d, c) <=> d \in top) /\ (Before(u, c, d) <=> d \notin top)
    <2>1. SUFFICES ASSUME NEW d \in peers
                   PROVE  (Before(u, d, c) <=> d \in top) /\ (Before(u, c, d) <=> d \notin top)
        OBVIOUS
    <2>2. PICK x \in Nat : x = Slot(t, peers, d)
        BY <1>3
    <2>3. u[d].pos = (IF x < n THEN x ELSE x + 1) /\ (d \in top <=> x < n)
        BY <1>6, <2>2
    <2>. QED  BY <1>5, <2>3 DEF Before
<1>11. ~Before(u, c, c)
    BY <1>2, <1>5 DEF Before
<1>12. k # "none"
    BY DEF Tiers, RankedTiers
<1>13. top \in SUBSET (InTier(t, k) \ {c})
    BY DEF peers
<1>14. \A d \in Course \ {c} : u[d].tier = t[d].tier
    BY <1>6, <1>7
<1>17. Placeholders(u) = Placeholders(t)
    BY <1>5, <1>6, <1>7 DEF Placeholders
<1>15. \A d \in InTier(t, k) \ {c} : (Before(u, d, c) <=> d \in top) /\ (Before(u, c, d) <=> d \notin top)
    BY <1>10 DEF peers
<1>. HIDE DEF top
<1>16. ListsOf(u) = Lists!PutIn(ListsOf(t), c, k, top)
    BY <1>5, <1>9, <1>11, <1>12, <1>13, <1>14, <1>15, <1>17, PutInLists
<1>. QED  BY <1>16 DEF u, top, peers

\* A row that becomes finished is no placeholder any more.
LEMMA FinishedLists ==
    ASSUME NEW t, NEW u, NEW c,
           \A d \in Course : u[d].tier = t[d].tier, Placeholders(u) = Placeholders(t) \ {c},
           \A d, e \in Course : Above(u, d, e) <=> Above(t, d, e)
    PROVE  ListsOf(u) = Lists!Finished(ListsOf(t), c)
<1>. DEFINE L == ListsOf(t)
<1>1. /\ L.tier = [d \in Course |-> t[d].tier]
      /\ L.above \in SUBSET (Course \X Course)
      /\ \A d, e \in Course : <<d, e>> \in L.above <=> Above(t, d, e)
      /\ L.seeded = Placeholders(t)
      /\ L = [tier |-> L.tier, above |-> L.above, seeded |-> L.seeded]
    BY ListsFacts
<1>2. Lists!Finished(L, c) = [tier |-> L.tier, above |-> L.above, seeded |-> L.seeded \ {c}]
    BY DEF Lists!Finished
<1>. HIDE DEF L
<1>3. L.tier = [d \in Course |-> u[d].tier]
    BY <1>1
<1>4. \A d, e \in Course : <<d, e>> \in L.above <=> Above(u, d, e)
    BY <1>1
<1>5. PICK T : T = L.tier
    OBVIOUS
<1>7. PICK P \in SUBSET (Course \X Course) : P = L.above
    BY <1>1
<1>6. ListsOf(u) = [tier |-> T, above |-> P, seeded |-> Placeholders(u)]
    BY <1>3, <1>4, <1>5, <1>7, ListsAre
<1>. QED  BY <1>1, <1>2, <1>5, <1>6, <1>7 DEF L

\* The slot of a row among its peers is its place in the list.
LEMMA PlaceIsSlot ==
    ASSUME NEW t, NEW k, k # "none", NEW S \in SUBSET InTier(t, k), NEW d \in S
    PROVE  Lists!PlaceIn(ListsOf(t), S, d) = Slot(t, S, d)
<1>1. \A e \in S : <<e, d>> \in ListsOf(t).above <=> Before(t, e, d)
    BY ListsFacts DEF Above, InTier
<1>2. {e \in S : e = d \/ <<e, d>> \in ListsOf(t).above} = {e \in S : e = d \/ Before(t, e, d)}
    BY <1>1
<1>. QED  BY <1>2, ListsCount DEF Slot, Lists!PlaceIn

\* place_in_tiers: a placement puts the course where it was asked to put it.
LEMMA PlaceAtLists ==
    ASSUME NEW t, WellFormed(t), NEW c \in Course, NEW k \in Tiers, NEW p \in Nat
    PROVE  ListsOf(PlaceAt(t, c, k, p)) = Lists!Placed(ListsOf(t), c, k, p)
<1>. DEFINE u == EnsureRow(t, c)
            L == ListsOf(u)
            peers == InTier(u, k) \ {c}
            last == Cardinality(peers) + 1
            target == IF p = 0 \/ p > last THEN last ELSE p
            v == InsertInTier(u, c, k, target)
            w == [v EXCEPT ![c].incomplete = FALSE]
            top == {d \in peers : Slot(u, peers, d) < target}
            place(d) == Lists!PlaceIn(L, peers, d)
<1>1. u \in Table /\ (\A d \in Course : u[d].tier = t[d].tier) /\ DistinctAges(u, Assigned(t) \cup {c})
    BY EnsureRowLemma
<1>2. k # "none" /\ peers \in SUBSET Course /\ peers \in SUBSET InTier(u, k)
    BY DEF Tiers, RankedTiers, InTier
<1>3. Cardinality(peers) \in Nat
    BY <1>2, CountIsNat
<1>4. target \in Nat
    BY <1>3
<1>5. DistinctAges(u, peers)
    BY <1>1, <1>2 DEF DistinctAges, Assigned, InTier
<1>6. PlaceAt(t, c, k, p) = w
    BY DEF PlaceAt
<1>7. L = ListsOf(t)
    BY EnsureRowLists
<1>. HIDE DEF u, target
<1>8. ListsOf(v) = Lists!PutIn(L, c, k, top)
    BY <1>1, <1>4, <1>5, InsertLists
<1>9. v \in Table
    BY <1>1, <1>4, InsertInTierLemma
<1>. HIDE DEF v
<1>10. /\ w[c] = [v[c] EXCEPT !.incomplete = FALSE] /\ v[c] \in Row
       /\ \A d \in Course \ {c} : w[d] = v[d]
    BY <1>9 DEF Table
<1>. HIDE DEF w
<1>11. w[c].tier = v[c].tier /\ w[c].pos = v[c].pos /\ w[c].age = v[c].age /\ w[c].incomplete = FALSE
    BY <1>10 DEF Row
<1>12. \A d, e \in Course : Above(w, d, e) <=> Above(v, d, e)
    BY <1>10, <1>11 DEF Above, Before
<1>13. Placeholders(w) = Placeholders(v) \ {c}
    BY <1>10, <1>11 DEF Placeholders
<1>14. \A d \in Course : w[d].tier = v[d].tier
    BY <1>10, <1>11
<1>15. ListsOf(w) = Lists!Finished(ListsOf(v), c)
    BY <1>12, <1>13, <1>14, FinishedLists
<1>16. PICK ps : ps = Lists!In(L, k) \ {c}
    OBVIOUS
<1>17. ps = peers
    BY <1>16, ListsFacts
<1>22. Lists!Placed(L, c, k, p) = Lists!Finished(Lists!PutIn(L, c, k, {d \in ps : p = 0 \/ Lists!PlaceIn(L, ps, d) < p}), c)
    BY <1>16 DEF Lists!Placed
<1>18. \A d \in peers : place(d) = Slot(u, peers, d)
    BY <1>2, PlaceIsSlot
<1>19. \A d \in peers : Slot(u, peers, d) \in 1 .. Cardinality(peers)
    BY <1>1, <1>2, <1>5, SlotLemma
<1>20. \A d \in peers : (p = 0 \/ place(d) < p) <=> Slot(u, peers, d) < target
    <2>. HIDE DEF peers, place
    <2>1. SUFFICES ASSUME NEW d \in peers
                   PROVE  (p = 0 \/ place(d) < p) <=> Slot(u, peers, d) < target
        OBVIOUS
    <2>2. PICK s \in Nat : s = Slot(u, peers, d) /\ s = place(d) /\ s <= Cardinality(peers)
        BY <1>3, <1>18, <1>19
    <2>. QED  BY <1>3, <2>2 DEF target
<1>21. {d \in ps : p = 0 \/ Lists!PlaceIn(L, ps, d) < p} = top
    BY <1>17, <1>20
<1>. QED  BY <1>6, <1>7, <1>8, <1>15, <1>21, <1>22

\* A decisive comparison moves the winner right above the loser; of rows that share a position
\* it moves none.
LEMMA PreferLists ==
    ASSUME NEW t, WellFormed(t), NEW w \in Assigned(t), NEW l \in Assigned(t), w # l,
           t[w].tier = t[l].tier
    PROVE  /\ ListsOf(Prefer(t, w, l)) \in {ListsOf(t), Lists!Preferred(ListsOf(t), w, l)}
           /\ t[w].pos # t[l].pos => ListsOf(Prefer(t, w, l)) = Lists!Preferred(ListsOf(t), w, l)
<1>1. CASE t[w].pos > t[l].pos
    <2>. DEFINE L == ListsOf(t)
                k == t[w].tier
                peers == InTier(t, k) \ {w}
                target == Slot(t, peers, l)
                top == {d \in peers : Slot(t, peers, d) < target}
                higher == {d \in Course \ {w} : <<d, l>> \in L.above}
    <2>1. w \in Course /\ l \in Course /\ k # "none" /\ t \in Table
        BY DEF Assigned, WellFormed
    <2>2. k \in Tiers
        BY <2>1 DEF Table, Row
    <2>3. target \in Nat
        BY SlotIsNat DEF InTier
    <2>4. l \in peers /\ peers \in SUBSET Course
        BY <2>1 DEF InTier
    <2>5. DistinctAges(t, peers)
        BY <2>1 DEF DistinctAges, WellFormed, Assigned, InTier
    <2>6. ListsOf(InsertInTier(t, w, k, target)) = Lists!PutIn(L, w, k, top)
        <3>1. PICK n \in Nat : n = target
            BY <2>3
        <3>2. ListsOf(InsertInTier(t, w, k, n)) = Lists!PutIn(L, w, k, {d \in peers : Slot(t, peers, d) < n})
            BY <2>1, <2>2, <2>5, InsertLists
        <3>. QED  BY <3>1, <3>2
    <2>7. /\ \A d, e \in Course : <<d, e>> \in L.above <=> Above(t, d, e)
          /\ L.tier = [d \in Course |-> t[d].tier]
        BY ListsFacts
    <2>8. <<w, l>> \notin L.above
        BY <1>1, <2>1, <2>7 DEF Above, Before, Table, Row
    <2>9. L.tier[l] = k
        BY <2>1, <2>7
    <2>10. top = higher
        <3>1. ASSUME NEW d \in peers
              PROVE  Slot(t, peers, d) < target <=> <<d, l>> \in L.above
            <4>1. PICK x \in Nat, y \in Nat : x = Slot(t, peers, d) /\ y = target
                BY <2>3, <2>4, SlotIsNat
            <4>2. /\ Before(t, d, l) => x < y
                  /\ Before(t, l, d) => y < x
                BY <2>1, <2>4, <2>5, <4>1, SlotLemma
            <4>3. d = l \/ Before(t, d, l) \/ Before(t, l, d)
                BY <2>1, <2>4, <2>5, BeforeOrders DEF DistinctAges
            <4>4. <<d, l>> \in L.above <=> Before(t, d, l)
                BY <2>1, <2>4, <2>7 DEF Above, InTier
            <4>5. d = l => x = y
                BY <4>1
            <4>. QED  BY <4>1, <4>2, <4>3, <4>4, <4>5
        <3>2. \A d \in Course \ {w} : <<d, l>> \in L.above => d \in peers
            BY <2>1, <2>7 DEF Above, InTier
        <3>. QED  BY <2>4, <3>1, <3>2
    <2>11. Lists!Preferred(L, w, l) = Lists!PutIn(L, w, k, higher)
        BY <2>8, <2>9 DEF Lists!Preferred
    <2>12. Prefer(t, w, l) = InsertInTier(t, w, k, target)
        BY <1>1 DEF Prefer
    <2>. QED  BY <2>6, <2>10, <2>11, <2>12
<1>2. CASE ~(t[w].pos > t[l].pos)
    <2>1. Prefer(t, w, l) = t
        BY <1>2 DEF Prefer
    <2>2. ASSUME t[w].pos # t[l].pos PROVE Lists!Preferred(ListsOf(t), w, l) = ListsOf(t)
        <3>1. w \in Course /\ l \in Course /\ t[w].tier # "none" /\ t[w].pos \in Nat /\ t[l].pos \in Nat
            BY DEF Assigned, WellFormed, Table, Row
        <3>2. Above(t, w, l)
            BY <1>2, <2>2, <3>1 DEF Above, Before
        <3>3. <<w, l>> \in ListsOf(t).above
            BY <3>1, <3>2, ListsFacts
        <3>. QED  BY <3>3 DEF Lists!Preferred
    <2>. QED  BY <2>1, <2>2
<1>. QED  BY <1>1, <1>2

\* _place_assignment: a course that enters a tier gets below an upper end of it; below all of
\* it, where the tier is numbered without gaps.
LEMMA AppendToLists ==
    ASSUME NEW t, WellFormed(t), NEW c \in Course, NEW k \in Tiers, t[c].tier # k
    PROVE  \E top \in Lists!Tops(ListsOf(t), k) :
              /\ ListsOf(AppendTo(t, c, k)) = Lists!Finished(Lists!PutIn(ListsOf(t), c, k, top), c)
              /\ Counted(t, k) => top = Lists!In(ListsOf(t), k)
<1>. DEFINE u == EnsureRow(t, c)
            L == ListsOf(u)
            peers == InTier(u, k) \ {c}
            last == Cardinality(peers) + 1
            v == [u EXCEPT ![c] = [@ EXCEPT !.tier = k, !.pos = last]]
            w == [u EXCEPT ![c] = [@ EXCEPT !.tier = k, !.pos = last, !.incomplete = FALSE]]
            top == {d \in peers : Before(v, d, c)}
<1>1. u \in Table /\ (\A d \in Course : u[d].tier = t[d].tier) /\ DistinctAges(u, Assigned(t) \cup {c})
    BY EnsureRowLemma
<1>2. k # "none" /\ peers \in SUBSET Course /\ peers \in SUBSET InTier(u, k)
    BY DEF Tiers, RankedTiers, InTier
<1>3. peers = InTier(u, k) /\ InTier(u, k) = InTier(t, k)
    BY <1>1 DEF InTier
<1>4. PICK n \in Nat : n = last
    BY <1>2, CountIsNat
<1>5. AppendTo(t, c, k) = w
    BY DEF AppendTo
<1>6. L = ListsOf(t)
    BY EnsureRowLists
<1>7. c \in Course /\ u[c] \in Row /\ \A d \in Course : u[d].pos \in Nat /\ u[d].age \in Nat
    BY <1>1 DEF Table, Row
<1>. HIDE DEF u
<1>8. /\ v[c] = [u[c] EXCEPT !.tier = k, !.pos = n]
      /\ w[c] = [u[c] EXCEPT !.tier = k, !.pos = n, !.incomplete = FALSE]
      /\ \A d \in Course \ {c} : v[d] = u[d] /\ w[d] = u[d]
    BY <1>1, <1>4 DEF Table
<1>. HIDE DEF last, v, w
<1>9. v[c].tier = k /\ v[c].pos = n /\ v[c].age = u[c].age /\ v[c].incomplete = u[c].incomplete
    BY <1>7, <1>8 DEF Row
<1>10. w[c].tier = k /\ w[c].pos = n /\ w[c].age = u[c].age /\ w[c].incomplete = FALSE
    BY <1>7, <1>8 DEF Row
<1>11. \A d \in peers : d # c /\ u[d].age # u[c].age /\ d \in Course
    BY <1>1, <1>2 DEF DistinctAges, Assigned, InTier
<1>12. \A d \in peers : Before(v, c, d) <=> ~Before(v, d, c)
    <2>1. SUFFICES ASSUME NEW d \in peers PROVE Before(v, c, d) <=> ~Before(v, d, c)
        OBVIOUS
    <2>2. v[d].pos = u[d].pos /\ v[d].age = u[d].age
        BY <1>8, <1>11
    <2>. QED  BY <1>4, <1>7, <1>9, <1>11, <2>2 DEF Before
<1>13. ListsOf(v) = Lists!PutIn(L, c, k, top)
    <2>1. ~Before(v, c, c)
        BY <1>7, <1>9 DEF Before
    <2>2. Placeholders(v) = Placeholders(u)
        BY <1>8, <1>9 DEF Placeholders
    <2>3. \A d \in Course \ {c} : v[d].tier = u[d].tier
        BY <1>8
    <2>4. \A d, e \in Course \ {c} : Above(v, d, e) <=> Above(u, d, e)
        BY <1>8 DEF Above, Before
    <2>5. \A d \in InTier(u, k) \ {c} : (Before(v, d, c) <=> d \in top) /\ (Before(v, c, d) <=> d \notin top)
        BY <1>12
    <2>6. top \in SUBSET (InTier(u, k) \ {c})
        OBVIOUS
    <2>. HIDE DEF top, peers
    <2>. QED  BY <1>2, <1>9, <2>1, <2>2, <2>3, <2>4, <2>5, <2>6, PutInLists
<1>14. ListsOf(w) = Lists!Finished(ListsOf(v), c)
    <2>1. \A d \in Course : w[d].tier = v[d].tier
        BY <1>8, <1>9, <1>10
    <2>2. Placeholders(w) = Placeholders(v) \ {c}
        <3>1. w[c].incomplete = FALSE /\ \A d \in Course \ {c} : w[d] = v[d]
            BY <1>8, <1>10
        <3>. QED  BY <3>1 DEF Placeholders
    <2>3. \A d, e \in Course : Above(w, d, e) <=> Above(v, d, e)
        <3>1. \A d \in Course : w[d].pos = v[d].pos /\ w[d].age = v[d].age
            BY <1>8, <1>9, <1>10
        <3>. QED  BY <2>1, <3>1 DEF Above, Before
    <2>. QED  BY <2>1, <2>2, <2>3, FinishedLists
<1>15. /\ Lists!In(L, k) = InTier(u, k)
       /\ \A d, e \in Course : <<d, e>> \in L.above <=> Above(u, d, e)
    BY ListsFacts
<1>16. top \in Lists!Tops(L, k)
    <2>1. ASSUME NEW d \in top, NEW e \in InTier(u, k), Before(u, e, d)
          PROVE  e \in top
        <3>1. d \in peers /\ e \in peers /\ d \in Course /\ e \in Course
            BY <1>2, <1>3
        <3>2. v[d].pos = u[d].pos /\ v[d].age = u[d].age /\ v[e].pos = u[e].pos /\ v[e].age = u[e].age
            BY <1>8, <1>11, <3>1
        <3>3. Before(v, d, c)
            OBVIOUS
        <3>4. Before(v, e, c)
            BY <1>4, <1>7, <1>9, <2>1, <3>1, <3>2, <3>3 DEF Before
        <3>. QED  BY <3>1, <3>4
    <2>2. \A d \in top, e \in InTier(u, k) : <<e, d>> \in L.above => e \in top
        BY <1>2, <1>15, <2>1 DEF Above, InTier
    <2>3. top \in SUBSET InTier(u, k)
        BY <1>2
    <2>. HIDE DEF top, L
    <2>. QED  BY <1>15, <2>2, <2>3 DEF Lists!Tops
<1>17. ASSUME Counted(t, k) PROVE top = Lists!In(L, k)
    <2>1. \A d \in peers : t[d].pos <= Cardinality(peers)
        BY <1>3, <1>17 DEF Counted
    <2>2. \A d \in peers : v[d].pos = t[d].pos
        <3>1. \A d \in peers : u[d].pos = t[d].pos
            BY <1>3 DEF u, EnsureRow, InTier, Table, Row, WellFormed
        <3>. QED  BY <1>8, <1>11, <3>1
    <2>3. \A d \in peers : v[d].pos < n
        <3>1. PICK m \in Nat : m = Cardinality(peers)
            BY <1>2, CountIsNat
        <3>2. n = m + 1
            BY <1>4, <3>1 DEF last
        <3>3. \A d \in peers : v[d].pos \in Nat /\ v[d].pos <= m
            BY <1>7, <1>8, <1>11, <2>1, <2>2, <3>1
        <3>. QED  BY <3>2, <3>3
    <2>4. \A d \in peers : Before(v, d, c)
        BY <1>9, <2>3 DEF Before
    <2>. QED  BY <1>3, <1>15, <2>4
<1>. HIDE DEF top
<1>. QED  BY <1>5, <1>6, <1>13, <1>14, <1>16, <1>17

\* Deleted rows are gone from the lists, and nothing else changes in these.
LEMMA DropRowsLists ==
    ASSUME NEW t, WellFormed(t), NEW D
    PROVE  ListsOf(DropRows(t, D)) = Lists!Without(ListsOf(t), D)
<1>. DEFINE L == ListsOf(t)
            u == DropRows(t, D)
            T == [c \in Course |-> IF c \in D THEN "none" ELSE L.tier[c]]
            P == Lists!Apart(L.above, D)
<1>1. /\ WellFormed(u) /\ Assigned(u) = Assigned(t) \ D
      /\ \A c \in Assigned(t) \ D : u[c].tier = t[c].tier /\ u[c].incomplete = t[c].incomplete
      /\ \A c, d \in Assigned(t) \ D : Before(u, c, d) <=> Before(t, c, d)
    BY DropRowsLemma
<1>2. /\ L.tier = [c \in Course |-> t[c].tier]
      /\ L.above \in SUBSET (Course \X Course)
      /\ \A d, e \in Course : <<d, e>> \in L.above <=> Above(t, d, e)
      /\ L.seeded = Placeholders(t)
    BY ListsFacts
<1>3. Lists!Without(L, D) = [tier |-> T, above |-> P, seeded |-> L.seeded \ D]
    BY DEF Lists!Without
<1>. HIDE DEF L, u
<1>4. \A c \in Course : c \notin Assigned(t) \ D => u[c] = NoRow /\ u[c].tier = "none" /\ u[c].incomplete = FALSE
    BY <1>1 DEF WellFormed, Assigned, NoRow
<1>5. T = [c \in Course |-> u[c].tier]
    BY <1>1, <1>2, <1>4 DEF Assigned
<1>6. P \in SUBSET (Course \X Course)
    BY <1>2 DEF Lists!Apart
<1>7. \A c, d \in Course : <<c, d>> \in P <=> Above(u, c, d)
    <2>1. SUFFICES ASSUME NEW c \in Course, NEW d \in Course PROVE <<c, d>> \in P <=> Above(u, c, d)
        OBVIOUS
    <2>2. <<c, d>> \in P <=> Above(t, c, d) /\ c \notin D /\ d \notin D
        BY <1>2 DEF Lists!Apart
    <2>3. CASE c \in Assigned(t) \ D /\ d \in Assigned(t) \ D
        BY <1>1, <2>2, <2>3 DEF Above
    <2>4. CASE c \notin Assigned(t) \ D \/ d \notin Assigned(t) \ D
        BY <1>1, <1>4, <2>2, <2>4 DEF Above, Assigned
    <2>. QED  BY <2>3, <2>4
<1>8. L.seeded \ D = Placeholders(u)
    <2>1. \A c \in Course : t[c].tier = "none" => t[c].incomplete = FALSE
        BY DEF WellFormed, NoRow
    <2>. QED  BY <1>1, <1>2, <1>4, <2>1 DEF Placeholders, Assigned
<1>. HIDE DEF T, P
<1>9. ListsOf(u) = [tier |-> T, above |-> P, seeded |-> Placeholders(u)]
    BY <1>5, <1>6, <1>7, ListsAre
<1>. QED  BY <1>3, <1>8, <1>9 DEF L, u

\* Taking out what is in no list changes nothing.
LEMMA WithoutUnlisted ==
    ASSUME NEW t, WellFormed(t), NEW D, NEW E, D \cap Assigned(t) = E \cap Assigned(t)
    PROVE  /\ Lists!Without(ListsOf(t), D) = Lists!Without(ListsOf(t), E)
           /\ D \cap Assigned(t) = {} => Lists!Without(ListsOf(t), D) = ListsOf(t)
<1>1. Assigned(t) \ D = Assigned(t) \ E
    OBVIOUS
<1>2. DropRows(t, D) = DropRows(t, E)
    BY <1>1 DEF DropRows
<1>3. ASSUME D \cap Assigned(t) = {} PROVE ListsOf(DropRows(t, D)) = ListsOf(t)
    <2>. DEFINE u == DropRows(t, D)
    <2>1. /\ WellFormed(u) /\ Assigned(u) = Assigned(t)
          /\ \A c \in Assigned(t) : u[c].tier = t[c].tier /\ u[c].incomplete = t[c].incomplete
          /\ \A c, d \in Assigned(t) : Before(u, c, d) <=> Before(t, c, d)
        <3>1. Assigned(t) \ D = Assigned(t)
            BY <1>3
        <3>. QED  BY <3>1, DropRowsLemma
    <2>. HIDE DEF u
    <2>2. \A c \in Course : c \notin Assigned(t) => u[c] = t[c]
        BY <2>1 DEF WellFormed, Assigned
    <2>3. \A c, d \in Course : Above(u, c, d) <=> Above(t, c, d)
        BY <2>1, <2>2 DEF Above, Assigned
    <2>4. Placeholders(u) = Placeholders(t)
        BY <2>1, <2>2 DEF Placeholders
    <2>5. \A c \in Course : u[c].tier = t[c].tier
        BY <2>1, <2>2
    <2>6. ListsOf(u) = ListsOf(t)
        BY <2>3, <2>4, <2>5, SameLists
    <2>. QED  BY <2>6 DEF u
<1>. QED  BY <1>2, <1>3, DropRowsLists

\* A row that is kept under another course: that course is listed in its place.
LEMMA RenamedLists ==
    ASSUME NEW t, WellFormed(t), NEW a \in Course, NEW c \in Course, a # c, c \notin Assigned(t)
    PROVE  ListsOf([t EXCEPT ![a] = NoRow, ![c] = t[a]]) = Lists!Renamed(ListsOf(t), a, c)
<1>. DEFINE L == ListsOf(t)
            v == [t EXCEPT ![a] = NoRow, ![c] = t[a]]
            was(d) == IF d = c THEN a ELSE d
            T == [d \in Course |-> IF d = a THEN "none" ELSE L.tier[was(d)]]
            P == {p \in (Course \ {a}) \X (Course \ {a}) : <<was(p[1]), was(p[2])>> \in L.above}
            S == {d \in Course \ {a} : was(d) \in L.seeded}
<1>1. /\ L.tier = [d \in Course |-> t[d].tier]
      /\ L.above \in SUBSET (Course \X Course)
      /\ \A d, e \in Course : <<d, e>> \in L.above <=> Above(t, d, e)
      /\ L.seeded = Placeholders(t)
    BY ListsFacts
<1>2. Lists!Renamed(L, a, c) = [tier |-> T, above |-> P, seeded |-> S]
    BY DEF Lists!Renamed
<1>3. /\ v[c] = t[a] /\ v[a] = NoRow
      /\ \A d \in Course \ {a, c} : v[d] = t[d]
    BY DEF WellFormed, Table
<1>. HIDE DEF L, v
<1>4. \A d \in Course : was(d) \in Course /\ (d # a => v[d] = t[was(d)])
    BY <1>3
<1>5. NoRow.tier = "none" /\ NoRow.incomplete = FALSE
    BY DEF NoRow
<1>. HIDE DEF was
<1>6. T = [d \in Course |-> v[d].tier]
    BY <1>1, <1>3, <1>4, <1>5
<1>7. \A d, e \in Course : <<d, e>> \in P <=> Above(v, d, e)
    <2>1. SUFFICES ASSUME NEW d \in Course, NEW e \in Course PROVE <<d, e>> \in P <=> Above(v, d, e)
        OBVIOUS
    <2>2. CASE d = a \/ e = a
        BY <1>3, <1>5, <2>2 DEF Above
    <2>3. CASE d # a /\ e # a
        <3>1. <<d, e>> \in P <=> Above(t, was(d), was(e))
            BY <1>1, <1>4, <2>3
        <3>2. Above(v, d, e) <=> Above(t, was(d), was(e))
            BY <1>4, <2>3 DEF Above, Before
        <3>. QED  BY <3>1, <3>2
    <2>. QED  BY <2>2, <2>3
<1>8. P \in SUBSET (Course \X Course)
    OBVIOUS
<1>9. S = Placeholders(v)
    BY <1>1, <1>3, <1>4, <1>5 DEF Placeholders
<1>. HIDE DEF T, P, S
<1>10. ListsOf(v) = [tier |-> T, above |-> P, seeded |-> Placeholders(v)]
    BY <1>6, <1>7, <1>8, ListsAre
<1>. QED  BY <1>2, <1>9, <1>10 DEF L, v

\* The identity block of put_course_rating: one course of the identity is kept.
LEMMA MergeIdentityLists ==
    ASSUME NEW t, WellFormed(t), NEW ids \in SUBSET Course, NEW c \in ids
    PROVE  ListsOf(MergeIdentity(t, c, ids)) \in Lists!Merged(ListsOf(t), c, ids)
<1>. DEFINE L == ListsOf(t)
            rows == ids \cap Assigned(t)
            kept == IF c \in rows THEN c
                    ELSE CHOOSE a \in rows : \A b \in rows : t[b].age <= t[a].age
            u == DropRows(t, rows \ {kept})
            v == [u EXCEPT ![kept] = NoRow, ![c] = u[kept]]
<1>1. Lists!Listed(L) = Assigned(t)
    BY ListsFacts
<1>2. CASE rows \subseteq {c}
    <2>1. MergeIdentity(t, c, ids) = t
        BY <1>2 DEF MergeIdentity
    <2>2. c \in Assigned(t) \/ ids \cap Assigned(t) = {}
        BY <1>2
    <2>3. Lists!Merged(L, c, ids) = {Lists!Without(L, ids \ {c})}
        BY <1>1, <2>2 DEF Lists!Merged
    <2>4. Lists!Without(L, ids \ {c}) = L
        BY <1>2, WithoutUnlisted
    <2>. QED  BY <2>1, <2>3, <2>4
<1>3. CASE ~(rows \subseteq {c})
    <2>1. MergeIdentity(t, c, ids) = v
        BY <1>3 DEF MergeIdentity
    <2>2. kept \in rows
        <3>1. rows # {} /\ rows \in SUBSET Assigned(t)
            BY <1>3
        <3>. HIDE DEF rowVars
        <3>. QED  BY <3>1, OldestLemma
    <2>3. c \notin rows => kept # c
        BY <2>2
    <2>4. c \in rows => kept = c
        OBVIOUS
    <2>. HIDE DEF kept
    <2>5. /\ WellFormed(u) /\ Assigned(u) = Assigned(t) \ (rows \ {kept})
          /\ ListsOf(u) = Lists!Without(L, rows \ {kept})
        BY DropRowsLemma, DropRowsLists
    <2>6. Lists!Without(L, rows \ {kept}) = Lists!Without(L, ids \ {kept})
        <3>1. (rows \ {kept}) \cap Assigned(t) = (ids \ {kept}) \cap Assigned(t)
            OBVIOUS
        <3>. QED  BY <3>1, WithoutUnlisted
    <2>7. CASE c \in rows
        <3>1. v = u
            <4>. HIDE DEF u
            <4>. QED  BY <2>4, <2>5, <2>7 DEF WellFormed, Table
        <3>2. Lists!Merged(L, c, ids) = {Lists!Without(L, ids \ {c})}
            BY <1>1, <2>7 DEF Lists!Merged
        <3>. QED  BY <2>1, <2>4, <2>5, <2>6, <2>7, <3>1, <3>2
    <2>8. CASE c \notin rows
        <3>1. kept # c /\ kept \in Course /\ c \in Course /\ c \notin Assigned(u)
            BY <2>2, <2>3, <2>5, <2>8 DEF Assigned
        <3>2. ListsOf(v) = Lists!Renamed(ListsOf(u), kept, c)
            <4>. HIDE DEF u
            <4>. QED  BY <2>5, <3>1, RenamedLists
        <3>3. c \notin Lists!Listed(L) /\ ids \cap Lists!Listed(L) = rows /\ rows # {}
            BY <1>1, <2>2, <2>8
        <3>4. Lists!Merged(L, c, ids) = {Lists!Renamed(Lists!Without(L, ids \ {a}), a, c) : a \in rows}
            <4>. HIDE DEF rowVars
            <4>. QED  BY <3>3 DEF Lists!Merged
        <3>. HIDE DEF rowVars, u, v
        <3>. QED  BY <2>1, <2>2, <2>5, <2>6, <3>2, <3>4
    <2>. QED  BY <2>7, <2>8
<1>. QED  BY <1>2, <1>3

\* _place_assignment for the rating of a course.
LEMMA RatedLists ==
    ASSUME NEW t, WellFormed(t), NEW c \in Course, NEW k \in Tiers, NEW several,
           several \/ t[c].tier = k \/ Counted(t, k)
    PROVE  ListsOf(AppendTo(t, c, k)) \in Lists!Rated(ListsOf(t), c, k, several)
<1>1. ListsOf(t).tier = [d \in Course |-> t[d].tier]
    BY ListsFacts
<1>2. CASE t[c].tier = k
    <2>. DEFINE w == [t EXCEPT ![c].incomplete = FALSE]
    <2>1. AppendTo(t, c, k) = w
        BY <1>2 DEF AppendTo
    <2>2. t \in Table /\ t[c] \in Row
        BY DEF WellFormed, Table
    <2>3. w[c] = [t[c] EXCEPT !.incomplete = FALSE] /\ \A d \in Course \ {c} : w[d] = t[d]
        BY <2>2 DEF Table
    <2>. HIDE DEF w
    <2>4. w[c].tier = t[c].tier /\ w[c].pos = t[c].pos /\ w[c].age = t[c].age /\ w[c].incomplete = FALSE
        BY <2>2, <2>3 DEF Row
    <2>5. \A d \in Course : w[d].tier = t[d].tier /\ w[d].pos = t[d].pos /\ w[d].age = t[d].age
        BY <2>3, <2>4
    <2>6. Placeholders(w) = Placeholders(t) \ {c}
        BY <2>3, <2>4 DEF Placeholders
    <2>7. \A d, e \in Course : Above(w, d, e) <=> Above(t, d, e)
        BY <2>5 DEF Above, Before
    <2>8. ListsOf(w) = Lists!Finished(ListsOf(t), c)
        BY <2>5, <2>6, <2>7, FinishedLists
    <2>9. Lists!Rated(ListsOf(t), c, k, several) = {Lists!Finished(ListsOf(t), c)}
        BY <1>1, <1>2 DEF Lists!Rated
    <2>. QED  BY <2>1, <2>8, <2>9
<1>3. CASE t[c].tier # k
    <2>1. PICK top \in Lists!Tops(ListsOf(t), k) :
            /\ ListsOf(AppendTo(t, c, k)) = Lists!Finished(Lists!PutIn(ListsOf(t), c, k, top), c)
            /\ Counted(t, k) => top = Lists!In(ListsOf(t), k)
        BY <1>3, AppendToLists
    <2>2. ListsOf(t).tier[c] # k
        BY <1>1, <1>3
    <2>3. top \in IF several THEN Lists!Tops(ListsOf(t), k) ELSE {Lists!In(ListsOf(t), k)}
        BY <1>3, <2>1
    <2>4. Lists!Finished(Lists!PutIn(ListsOf(t), c, k, top), c) \in Lists!Rated(ListsOf(t), c, k, several)
        BY <2>2, <2>3, Zenon DEF Lists!Rated
    <2>. QED  BY <2>1, <2>4
<1>. QED  BY <1>2, <1>3

-----------------------------------------------------------------------------
(***************************************************************************)
(* Every comparison that is recorded is a new row.                         *)
(***************************************************************************)
SameAnswer(cs, x) == {y \in cs : y.pair = x.pair /\ y.preferred = x.preferred}

Numbered(cs) == \A x \in cs : x.n <= Cardinality(SameAnswer(cs, x))

LEMMA MoreNumbered ==
    ASSUME NEW cs \in SUBSET Comparison, NEW ds \in SUBSET Comparison, cs \subseteq ds, IsFiniteSet(ds),
           Numbered(cs), NEW x \in cs
    PROVE  x.n <= Cardinality(SameAnswer(ds, x))
<1>1. SameAnswer(cs, x) \in SUBSET SameAnswer(ds, x) /\ SameAnswer(ds, x) \in SUBSET ds
    BY DEF SameAnswer
<1>2. IsFiniteSet(SameAnswer(ds, x)) /\ IsFiniteSet(SameAnswer(cs, x))
    BY <1>1, FS_Subset
<1>3. Cardinality(SameAnswer(cs, x)) <= Cardinality(SameAnswer(ds, x))
    BY <1>1, <1>2, FS_Subset
<1>4. PICK i \in Nat, j \in Nat : i = Cardinality(SameAnswer(cs, x)) /\ j = Cardinality(SameAnswer(ds, x))
    BY <1>2, FS_CardinalityType
<1>5. x.n \in Nat /\ x.n <= i
    BY <1>4 DEF Comparison, Numbered
<1>. QED  BY <1>3, <1>4, <1>5

NewComparison(cs, p, w) ==
    [pair |-> p, preferred |-> w, n |-> 1 + Cardinality({x \in cs : x.pair = p /\ x.preferred = w})]

LEMMA NewComparisonIs ==
    ASSUME NEW cs, NEW p, NEW w
    PROVE  LET x == NewComparison(cs, p, w)
           IN  /\ AddComparison(cs, p, w) = cs \cup {x}
               /\ x.pair = p /\ x.preferred = w
<1>1. PICK x : x = NewComparison(cs, p, w)
    OBVIOUS
<1>2. AddComparison(cs, p, w) = cs \cup {x}
    BY <1>1, Zenon DEF AddComparison, NewComparison
<1>3. x.pair = p /\ x.preferred = w
    BY <1>1 DEF NewComparison
<1>. QED  BY <1>1, <1>2, <1>3, Zenon

\* _stage_comparison adds a row.
LEMMA AddedIsNew ==
    ASSUME NEW cs \in SUBSET Comparison, IsFiniteSet(cs), Numbered(cs),
           NEW a \in Course, NEW b \in Course, a # b, NEW w \in Course \cup {NoCourse}
    PROVE  LET x == NewComparison(cs, {a, b}, w) IN x \notin cs /\ Numbered(cs \cup {x})
<1>. DEFINE same == {x \in cs : x.pair = {a, b} /\ x.preferred = w}
            x0 == NewComparison(cs, {a, b}, w)
<1>1. IsFiniteSet(same)
    BY FS_Subset
<1>2. PICK m \in Nat : m = Cardinality(same)
    BY <1>1, FS_CardinalityType
<1>3. PICK x : x = x0
    OBVIOUS
<1>4. x.pair = {a, b} /\ x.preferred = w /\ x.n = m + 1
    BY <1>2, <1>3 DEF NewComparison
<1>5. AddComparison(cs, {a, b}, w) = cs \cup {x}
    BY <1>3 DEF AddComparison, NewComparison
<1>6. SameAnswer(cs, x) = same
    BY <1>4 DEF SameAnswer
<1>. HIDE DEF same
<1>7. x \notin cs
    BY <1>2, <1>4, <1>6 DEF Numbered
<1>8. cs \cup {x} \in SUBSET Comparison /\ IsFiniteSet(cs \cup {x})
    BY <1>5, AddComparisonLemma
<1>9. x.n <= Cardinality(SameAnswer(cs \cup {x}, x))
    <2>1. SameAnswer(cs \cup {x}, x) = same \cup {x}
        BY <1>6 DEF SameAnswer
    <2>2. x \notin same
        BY <1>6, <1>7 DEF SameAnswer
    <2>3. Cardinality(same \cup {x}) = Cardinality(same) + 1
        BY <1>1, <2>2, FS_AddElement
    <2>. QED  BY <1>2, <1>4, <2>1, <2>3
<1>10. \A y \in cs : y.n <= Cardinality(SameAnswer(cs \cup {x}, y))
    <2>1. PICK ds \in SUBSET Comparison : ds = cs \cup {x}
        BY <1>8
    <2>2. \A y \in cs : y.n <= Cardinality(SameAnswer(ds, y))
        BY <1>8, <2>1, MoreNumbered
    <2>. QED  BY <2>1, <2>2
<1>11. Numbered(cs \cup {x})
    BY <1>9, <1>10 DEF Numbered
<1>. QED  BY <1>3, <1>7, <1>11

\* The comparisons of a course go together.
LEMMA RestNumbered ==
    ASSUME NEW cs, Numbered(cs), NEW c
    PROVE  Numbered({x \in cs : c \notin x.pair})
<1>. DEFINE ds == {x \in cs : c \notin x.pair}
<1>1. \A x \in ds : SameAnswer(ds, x) = SameAnswer(cs, x)
    BY DEF SameAnswer
<1>. QED  BY <1>1 DEF Numbered

\* A favourite is recorded for a pair that has no decisive comparison.
LEMMA SeededNumbered ==
    ASSUME IInv, Numbered(comparisons), NEW o, PairsOK(o)
    PROVE  Numbered(SeedComparisons(o))
<1>1. PICK cs \in SUBSET Comparison : cs = comparisons
    BY IInvFacts
<1>2. PICK ds \in SUBSET Comparison : ds = SeedComparisons(o)
    BY IInvFacts, SeedComparisonsLemma
<1>3. IsFiniteSet(ds) /\ cs \subseteq ds
    <2>1. IsFiniteSet(SeedComparisons(o))
        BY IInvFacts, SeedComparisonsLemma
    <2>2. comparisons \subseteq SeedComparisons(o)
        BY DEF SeedComparisons
    <2>. QED  BY <1>1, <1>2, <2>1, <2>2
<1>4. \A x \in ds \ cs : x.n = 1
    BY <1>1, <1>2 DEF SeedComparisons
<1>5. \A x \in cs : x.n <= Cardinality(SameAnswer(ds, x))
    BY <1>1, <1>3, MoreNumbered
<1>6. ASSUME NEW x \in ds \ cs PROVE x.n <= Cardinality(SameAnswer(ds, x))
    <2>1. x \in SameAnswer(ds, x) /\ SameAnswer(ds, x) \in SUBSET ds
        BY DEF SameAnswer
    <2>2. IsFiniteSet(SameAnswer(ds, x))
        BY <1>3, <2>1, FS_Subset
    <2>3. PICK i \in Nat : i = Cardinality(SameAnswer(ds, x))
        BY <2>2, FS_CardinalityType
    <2>4. i # 0
        BY <2>1, <2>2, <2>3, FS_EmptySet
    <2>. QED  BY <1>4, <2>3, <2>4
<1>. QED  BY <1>2, <1>5, <1>6 DEF Numbered

\* The comparison of a rating, if it has one, is a new row.
LEMMA RatedIsNew ==
    ASSUME IInv, Numbered(comparisons), NEW c \in Course, NEW m \in Refinements,
           m.with # NoCourse, NEW b \in Course, b = canon[m.with], b # c,
           NEW x, x = NewComparison(comparisons, {c, b}, Preferred(c, b, m.result))
    PROVE  /\ x \notin comparisons /\ RatedComparisons(c, m) = comparisons \cup {x}
           /\ x.pair = {c, b} /\ x.preferred = Preferred(c, b, m.result)
           /\ Numbered(comparisons \cup {x})
<1>1. PICK cs \in SUBSET Comparison : cs = comparisons
    BY IInvFacts
<1>2. IsFiniteSet(cs) /\ Numbered(cs) /\ c # b
    BY <1>1, IInvFacts
<1>3. PICK w \in Course \cup {NoCourse} : w = Preferred(c, b, m.result)
    BY PreferredType
<1>4. x = NewComparison(cs, {c, b}, w)
    BY <1>1, <1>3
<1>6. x \notin cs /\ Numbered(cs \cup {x})
    BY <1>2, <1>4, AddedIsNew
<1>7. /\ AddComparison(cs, {c, b}, w) = cs \cup {x}
      /\ x.pair = {c, b} /\ x.preferred = w
    <2>1. PICK p : p = {c, b}
        OBVIOUS
    <2>. QED  BY <1>4, <2>1, NewComparisonIs
<1>5. RatedComparisons(c, m) = AddComparison(cs, {c, b}, w)
    BY <1>1, <1>3 DEF RatedComparisons
<1>. QED  BY <1>1, <1>3, <1>4, <1>5, <1>6, <1>7

LEMMA NextNumbered ==
    ASSUME IInv, Numbered(comparisons), [Next]_vars
    PROVE  Numbered(comparisons)'
<1>1. ASSUME NEW cs, Numbered(cs), comparisons' = cs PROVE Numbered(comparisons)'
    BY <1>1 DEF Numbered, SameAnswer
<1>2. ASSUME UNCHANGED comparisons PROVE Numbered(comparisons)'
    BY <1>1, <1>2
<1>18. ASSUME NEW o, PairsOK(o), SeedIfNeeded(o) PROVE Numbered(comparisons)'
    <2>1. CASE Seed(o)
        BY <1>1, <1>18, <2>1, SeededNumbered DEF Seed, StageAndCommit
    <2>. QED  BY <1>2, <1>18, <2>1 DEF SeedIfNeeded, rowVars
<1>3. CASE \E q \in Request : GetRankingBegin(q)
    BY <1>2, <1>3 DEF GetRankingBegin, rowVars
<1>4. CASE \E q \in Request : GetRankingCommit(q)
    BY <1>18, <1>4, IInvFacts DEF GetRankingCommit
<1>19. CASE \E o \in Answers : SaveBegin(o)
    BY <1>2, <1>19 DEF SaveBegin, rowVars
<1>5. CASE SaveCommit
    BY <1>18, <1>5, IInvFacts DEF SaveCommit
<1>6. CASE \E p \in Placement : PlaceInTiers(p)
    BY <1>2, <1>6 DEF PlaceInTiers, StageAndCommit
<1>7. CASE \E p, q \in Placement : PlaceTwoInTiers(p, q)
    BY <1>2, <1>7 DEF PlaceTwoInTiers, StageAndCommit
<1>8. CASE \E x, y \in Course, result \in Outcome : CompareCourses(x, y, result)
    <2>1. PICK x \in Course, y \in Course, result \in Outcome : CompareCourses(x, y, result)
        BY <1>8
    <2>2. PICK a \in Course, b \in Course : a = canon[x] /\ b = canon[y]
        BY IInvFacts
    <2>3. PICK w \in Course \cup {NoCourse} : w = Preferred(a, b, result)
        BY PreferredType
    <2>4. PICK cs \in SUBSET Comparison : cs = comparisons
        BY IInvFacts
    <2>5. IsFiniteSet(cs) /\ Numbered(cs) /\ a # b
        BY <2>1, <2>2, <2>4, IInvFacts DEF CompareCourses
    <2>6. PICK x0 : x0 = NewComparison(cs, {a, b}, w)
        OBVIOUS
    <2>8. Numbered(cs \cup {x0})
        BY <2>5, <2>6, AddedIsNew
    <2>9. AddComparison(cs, {a, b}, w) = cs \cup {x0}
        <3>1. PICK p : p = {a, b}
            OBVIOUS
        <3>. QED  BY <2>6, <3>1, NewComparisonIs
    <2>7. comparisons' = AddComparison(cs, {a, b}, w)
        BY <2>1, <2>2, <2>3, <2>4 DEF CompareCourses, StageAndCommit
    <2>. QED  BY <1>1, <2>7, <2>8, <2>9
<1>9. ASSUME NEW x \in Course, NEW k \in RatingTier, NEW m \in Refinements,
             ReviseRating(x, k, m) \/ CreateRating(x, k, m)
      PROVE  Numbered(comparisons)'
    <2>1. PICK c \in Course : c = canon[x]
        BY IInvFacts
    <2>2. RefinementAccepted(c, k, m) /\ comparisons' = RatedComparisons(c, m)
        BY <1>9, <2>1 DEF ReviseRating, CreateRating, StageAndCommit
    <2>3. CASE m.with = NoCourse
        BY <1>2, <2>2, <2>3 DEF RatedComparisons
    <2>4. CASE m.with # NoCourse
        <3>1. PICK b \in Course : b = canon[m.with]
            BY <2>4, IInvFacts DEF Refinements
        <3>2. b # c
            BY <2>2, <2>4, <3>1 DEF RefinementAccepted
        <3>3. PICK x0 : x0 = NewComparison(comparisons, {c, b}, Preferred(c, b, m.result))
            OBVIOUS
        <3>4. PICK cs : cs = RatedComparisons(c, m)
            OBVIOUS
        <3>5. Numbered(comparisons \cup {x0})
            BY <2>4, <3>1, <3>2, <3>3, RatedIsNew
        <3>6. cs = comparisons \cup {x0}
            BY <2>4, <3>1, <3>2, <3>3, <3>4, RatedIsNew
        <3>. QED  BY <1>1, <2>2, <3>4, <3>5, <3>6
    <2>. QED  BY <2>3, <2>4
<1>10. CASE \E x \in Course, k \in RatingTier, m \in Refinements : ReviseRating(x, k, m)
    BY <1>9, <1>10
<1>11. CASE \E x \in Course, k \in RatingTier, m \in Refinements : CreateRating(x, k, m)
    BY <1>9, <1>11
<1>12. CASE \E r \in RoundId : PatchRatingRound(r)
    BY <1>2, <1>12 DEF PatchRatingRound
<1>13. CASE \E q \in Request, r \in RoundId : DeleteRoundBegin(q, r)
    BY <1>2, <1>13 DEF DeleteRoundBegin, rowVars
<1>14. CASE \E q \in Request : DeleteRoundCommit(q)
    <2>1. PICK q \in Request : DeleteRoundCommit(q)
        BY <1>14
    <2>2. PICK c : c = deleting[q].course
        OBVIOUS
    <2>3. comparisons' = {x \in comparisons : c \notin x.pair}
        BY <2>1, <2>2 DEF DeleteRoundCommit, StageAndCommit
    <2>. QED  BY <1>1, <2>3, RestNumbered
<1>15. CASE \E q \in Request : DeleteRoundAbort(q)
    BY <1>2, <1>15 DEF DeleteRoundAbort, rowVars
<1>16. CASE \E a, b \in Course : ConfirmMapping(a, b)
    BY <1>2, <1>16 DEF ConfirmMapping, rowVars
<1>17. CASE UNCHANGED vars
    BY <1>2, <1>17 DEF vars, rowVars
<1>. QED
    BY <1>3, <1>4, <1>5, <1>6, <1>7, <1>8, <1>10, <1>11, <1>12, <1>13, <1>14, <1>15, <1>16, <1>17,
       <1>19
       DEF Next

\* The comparison that is recorded is the one that the lists follow: but of two rows that share a
\* position neither moves.
LEMMA RefinedFollows ==
    ASSUME NEW t, WellFormed(t), NEW a \in Assigned(t), NEW b \in Assigned(t), a # b,
           t[a].tier = t[b].tier, NEW result, NEW x, x.pair = {a, b}, x.preferred = Preferred(a, b, result)
    PROVE  \/ Lists!Follows(ListsOf(Refined(t, a, b, result)), ListsOf(t), x)
           \/ t[a].pos = t[b].pos /\ ListsOf(Refined(t, a, b, result)) = ListsOf(t)
<1>. DEFINE L == ListsOf(t)
<1>1. PICK N : N = ListsOf(Refined(t, a, b, result))
    OBVIOUS
<1>2. a \in Course /\ b \in Course
    BY DEF Assigned
<1>3. CASE result = "course_a"
    <2>1. N = ListsOf(Prefer(t, a, b))
        BY <1>1, <1>3 DEF Refined
    <2>2. N \in {L, Lists!Preferred(L, a, b)} /\ (t[a].pos # t[b].pos => N = Lists!Preferred(L, a, b))
        BY <2>1, PreferLists
    <2>. HIDE DEF L
    <2>3. x.preferred = a /\ b \in x.pair \ {x.preferred}
        BY <1>3 DEF Preferred
    <2>4. ASSUME N = Lists!Preferred(L, a, b) PROVE Lists!Follows(N, L, x)
        BY <2>3, <2>4 DEF Lists!Follows
    <2>. QED  BY <1>1, <2>2, <2>4 DEF L
<1>4. CASE result = "course_b"
    <2>1. N = ListsOf(Prefer(t, b, a))
        BY <1>1, <1>4 DEF Refined
    <2>2. N \in {L, Lists!Preferred(L, b, a)} /\ (t[a].pos # t[b].pos => N = Lists!Preferred(L, b, a))
        BY <2>1, PreferLists
    <2>. HIDE DEF L
    <2>3. x.preferred = b /\ a \in x.pair \ {x.preferred}
        BY <1>4 DEF Preferred
    <2>4. ASSUME N = Lists!Preferred(L, b, a) PROVE Lists!Follows(N, L, x)
        BY <2>3, <2>4 DEF Lists!Follows
    <2>. QED  BY <1>1, <2>2, <2>4 DEF L
<1>5. CASE result # "course_a" /\ result # "course_b"
    <2>1. N = L
        BY <1>1, <1>5 DEF Refined
    <2>2. x.preferred \notin x.pair
        <3>1. x.preferred = NoCourse
            BY <1>5 DEF Preferred
        <3>. QED  BY <1>2, <3>1, RankingAssumption
    <2>. HIDE DEF L
    <2>3. Lists!Follows(N, L, x)
        BY <2>1, <2>2 DEF Lists!Follows
    <2>. QED  BY <1>1, <2>3 DEF L
<1>. QED  BY <1>3, <1>4, <1>5

\* The identity block, the placement and the comparison of put_course_rating.
LEMMA RatedRowsLists ==
    ASSUME IInv, Numbered(comparisons), NEW c \in Course, NEW k \in RatingTier, NEW m \in Refinements,
           RefinementAccepted(c, k, m), comparisons' = RatedComparisons(c, m)
    PROVE  Lists!Rate(ListsOf(table), ListsOf(RatedRows(c, k, m)))
<1>. DEFINE ids == IdentityOf(c)
            L == ListsOf(table)
            several == Lists!Cardinality(ids \cap Lists!Listed(L)) > 1
<1>1. ids \in SUBSET Course /\ c \in ids /\ Lists!Identity(c) = ids
    BY DEF IdentityOf, Lists!Identity
<1>2. WellFormed(table) /\ Dense(table)
    BY DEF IInv, RowsOK
<1>3. k \in Tiers /\ k \in RankedTiers /\ k # "none"
    BY DEF RatingTier, Tiers, RankedTiers
<1>. HIDE DEF ids
<1>4. PICK u : u = MergeIdentity(table, c, ids)
    OBVIOUS
<1>5. PICK v : v = AppendTo(u, c, k)
    OBVIOUS
<1>6. PICK w : w = RatedRows(c, k, m)
    OBVIOUS
<1>7. PlacedRows(c, k) = v
    BY <1>4, <1>5 DEF PlacedRows, ids
<1>8. /\ WellFormed(u) /\ ListsOf(u) \in Lists!Merged(L, c, ids)
      /\ \A d \in Course \ ids : u[d].tier = table[d].tier
    <2>1. /\ WellFormed(MergeIdentity(table, c, ids))
          /\ \A d \in Course \ ids : MergeIdentity(table, c, ids)[d].tier = table[d].tier
        BY <1>1, <1>2, MergeIdentityLemma
    <2>2. ListsOf(MergeIdentity(table, c, ids)) \in Lists!Merged(ListsOf(table), c, ids)
        BY <1>1, <1>2, MergeIdentityLists
    <2>. QED  BY <1>4, <2>1, <2>2
<1>9. /\ WellFormed(v) /\ v[c].tier = k
      /\ \A d \in Course \ {c} : v[d].tier = u[d].tier
    BY <1>3, <1>5, <1>8, AppendToWellFormed
<1>10. several \/ (NoTies(u, k) /\ (u[c].tier = k \/ Counted(u, k)))
    <2>1. Lists!Listed(L) = Assigned(table)
        BY ListsFacts
    <2>2. ASSUME ~(Cardinality(ids \cap Assigned(table)) > 1)
          PROVE  NoTies(u, k) /\ (u[c].tier = k \/ Counted(u, k))
        BY <1>1, <1>2, <1>3, <1>4, <2>2, MergedNoTies
    <2>3. Lists!Cardinality(ids \cap Assigned(table)) = Cardinality(ids \cap Assigned(table))
        BY ListsCount
    <2>. QED  BY <2>1, <2>2, <2>3
<1>11. ListsOf(v) \in Lists!Rated(ListsOf(u), c, k, several)
    <2>. HIDE DEF several
    <2>. QED  BY <1>3, <1>5, <1>8, <1>10, RatedLists
<1>12. w[c].tier = k /\ w[c].incomplete = FALSE
    BY <1>6, IInvFacts, RatedRowOfCourse
<1>13. several \/ NoTies(v, k)
    <2>. HIDE DEF several
    <2>1. CASE several
        BY <2>1
    <2>2. CASE ~several
        BY <1>3, <1>5, <1>8, <1>10, <2>2, AppendToNoTies
    <2>. QED  BY <2>1, <2>2
<1>14. PICK N : N = ListsOf(w)
    OBVIOUS
<1>15. N.tier = [d \in Course |-> w[d].tier] /\ N.seeded = Placeholders(w) /\ L.tier = [d \in Course |-> table[d].tier]
    BY <1>14, ListsFacts
<1>16. N.tier[c] = k /\ c \notin N.seeded
    BY <1>12, <1>15 DEF Placeholders
<1>17. PICK R : R = ListsOf(v)
    OBVIOUS
<1>18. /\ \A d \in Course : w[d].tier = v[d].tier
       /\ \/ N = R /\ UNCHANGED comparisons
          \/ \E x \in comparisons' \ comparisons :
                /\ Lists!Records(x)
                /\ c \in x.pair /\ x.pair \subseteq Lists!In(R, k)
                /\ Lists!Follows(N, R, x) \/ (several /\ N = R)
    <2>. HIDE DEF several, L
    <2>1. CASE m.with = NoCourse
        BY <1>6, <1>7, <1>14, <1>17, <2>1 DEF RatedRows, RatedComparisons
    <2>2. CASE m.with # NoCourse
        <3>1. m.with \in Course
            BY <2>2 DEF Refinements
        <3>2. PICK b \in Course : b = canon[m.with]
            BY <3>1, IInvFacts
        <3>3. b # c /\ v[b].tier = k
            BY <1>7, <2>2, <3>2 DEF RefinementAccepted
        <3>4. w = Refined(v, c, b, m.result)
            BY <1>6, <1>7, <2>2, <3>2 DEF RatedRows
        <3>5. c \in Assigned(v) /\ b \in Assigned(v) /\ v[c].tier = v[b].tier
            BY <1>3, <1>9, <3>2, <3>3 DEF Assigned
        <3>6. \A d \in Course : w[d].tier = v[d].tier
            <4>1. w \in {v, Prefer(v, c, b), Prefer(v, b, c)}
                BY <3>4 DEF Refined
            <4>2. \A d \in Course : Prefer(v, c, b)[d].tier = v[d].tier /\ Prefer(v, b, c)[d].tier = v[d].tier
                BY <1>9, <3>3, <3>5, PreferWellFormed
            <4>. QED  BY <4>1, <4>2
        <3>7. PICK x : x = NewComparison(comparisons, {c, b}, Preferred(c, b, m.result))
            OBVIOUS
        <3>8. x.pair = {c, b} /\ x.preferred = Preferred(c, b, m.result)
            BY <3>7 DEF NewComparison
        <3>14. x \notin comparisons
            BY <2>2, <3>2, <3>3, <3>7, RatedIsNew
        <3>9. comparisons' = comparisons \cup {x}
            BY <2>2, <3>2, <3>3, <3>7, RatedIsNew
        <3>10. Lists!Follows(N, R, x) \/ (v[c].pos = v[b].pos /\ N = R)
            BY <1>9, <1>14, <1>17, <3>3, <3>4, <3>5, <3>8, RefinedFollows
        <3>11. NoTies(v, k) => v[c].pos # v[b].pos
            BY <3>2, <3>3, <1>9 DEF NoTies, InTier
        <3>12. c \in x.pair /\ x.pair \subseteq Lists!In(R, k)
            <4>1. Lists!In(R, k) = InTier(v, k)
                BY <1>17, ListsFacts
            <4>. QED  BY <1>9, <3>2, <3>3, <3>8, <4>1 DEF InTier
        <3>13. Lists!Records(x) /\ x \in comparisons' \ comparisons
            BY <3>9, <3>14 DEF Lists!Records
        <3>. QED  BY <1>13, <3>6, <3>10, <3>11, <3>12, <3>13
    <2>. QED  BY <2>1, <2>2
<1>19. \A d \in Course \ ids : N.tier[d] = L.tier[d]
    <2>1. \A d \in Course \ ids : w[d].tier = table[d].tier
        BY <1>1, <1>8, <1>9, <1>18
    <2>. QED  BY <1>15, <2>1
<1>. HIDE DEF L
<1>20. \E M \in Lists!Merged(L, c, ids) : \E S \in Lists!Rated(M, c, N.tier[c], several) :
          \/ N = S /\ UNCHANGED comparisons
          \/ \E x \in comparisons' \ comparisons :
                /\ Lists!Records(x)
                /\ c \in x.pair /\ x.pair \subseteq Lists!In(S, N.tier[c])
                /\ Lists!Follows(N, S, x) \/ (several /\ N = S)
    <2>. HIDE DEF several
    <2>1. R \in Lists!Rated(ListsOf(u), c, N.tier[c], several)
        BY <1>11, <1>16, <1>17
    <2>. QED  BY <1>8, <1>16, <1>18, <2>1, Zenon
<1>21. Lists!Rate(L, N)
    BY <1>1, <1>3, <1>16, <1>19, <1>20, Zenon DEF Lists!Rate
<1>. QED  BY <1>6, <1>14, <1>21 DEF L

\* Rows are lists: each tier is in one order.
LEMMA ListsAreLists == ASSUME NEW t, WellFormed(t) PROVE Lists!IsList(ListsOf(t))
<1>. DEFINE L == ListsOf(t)
<1>1. /\ L.tier = [c \in Course |-> t[c].tier]
      /\ L.above \in SUBSET (Course \X Course)
      /\ \A c, d \in Course : <<c, d>> \in L.above <=> Above(t, c, d)
      /\ Lists!Listed(L) = Assigned(t)
    BY ListsFacts
<1>2. t \in Table
    BY DEF WellFormed
<1>. HIDE DEF L
<1>3. L.above \subseteq {p \in Course \X Course : p[1] # p[2] /\ L.tier[p[1]] = L.tier[p[2]]}
    <2>1. SUFFICES ASSUME NEW p \in L.above PROVE p[1] # p[2] /\ L.tier[p[1]] = L.tier[p[2]]
        BY <1>1
    <2>2. PICK c \in Course, d \in Course : p = <<c, d>>
        BY <1>1
    <2>3. Above(t, c, d)
        BY <1>1, <2>2
    <2>4. c # d
        BY <1>2, <2>3, BeforeOrders DEF Above
    <2>. QED  BY <1>1, <2>2, <2>3, <2>4 DEF Above
<1>4. ASSUME NEW c \in Assigned(t), NEW d \in Assigned(t), c # d, L.tier[c] = L.tier[d]
      PROVE  <<c, d>> \in L.above <=> <<d, c>> \notin L.above
    <2>1. c \in Course /\ d \in Course /\ t[c].age # t[d].age /\ t[c].tier # "none" /\ t[c].tier = t[d].tier
        BY <1>1, <1>4 DEF Assigned, WellFormed
    <2>2. Before(t, c, d) <=> ~Before(t, d, c)
        BY <1>2, <2>1, BeforeOrders
    <2>. QED  BY <1>1, <2>1, <2>2 DEF Above
<1>5. ASSUME NEW c \in Assigned(t), NEW d \in Assigned(t), NEW e \in Assigned(t),
             <<c, d>> \in L.above, <<d, e>> \in L.above
      PROVE  <<c, e>> \in L.above
    <2>1. c \in Course /\ d \in Course /\ e \in Course
        BY DEF Assigned
    <2>2. Above(t, c, d) /\ Above(t, d, e)
        BY <1>1, <1>5, <2>1
    <2>3. Before(t, c, e)
        BY <1>2, <2>1, <2>2, BeforeOrders DEF Above
    <2>. QED  BY <1>1, <2>1, <2>2, <2>3 DEF Above
<1>6. Lists!IsList(L)
    <2>1. \A c, d \in Lists!Listed(L) :
            c # d /\ L.tier[c] = L.tier[d] => (<<c, d>> \in L.above <=> <<d, c>> \notin L.above)
        BY <1>1, <1>4
    <2>2. \A c, d, e \in Lists!Listed(L) :
            <<c, d>> \in L.above /\ <<d, e>> \in L.above => <<c, e>> \in L.above
        BY <1>1, <1>5
    <2>. QED  BY <1>3, <2>1, <2>2, Zenon DEF Lists!IsList
<1>. QED  BY <1>6 DEF L

\* seed_onboarding_rankings
LEMMA SeedLists ==
    ASSUME IInv, NEW o, PairsOK(o), comparisons' = SeedComparisons(o)
    PROVE  Lists!Seed(ListsOf(table), ListsOf(SeedRows(table, SeedCourses(o), SeedPlace(o))))
<1>. DEFINE L == ListsOf(table)
<1>1. PICK S \in SUBSET Course : S = SeedCourses(o)
    BY IInvFacts, SeedPlaceLemma
<1>2. PICK place \in [S -> Nat] : place = SeedPlace(o)
    BY <1>1, IInvFacts, SeedPlaceLemma
<1>3. \A c, d \in S : c # d => place[c] # place[d]
    BY <1>1, <1>2, IInvFacts, SeedPlaceLemma
<1>4. WellFormed(table) /\ \A c \in S : c \in Assigned(table) => table[c].incomplete
    BY <1>1, IInvFacts DEF SeedCourses
<1>. DEFINE t == SeedRows(table, S, place)
<1>6. WellFormed(t)
    BY <1>3, <1>4, SeedRowsLemma
<1>7. /\ \A c \in S : t[c].tier = "fairway" /\ t[c].incomplete
      /\ \A c \in Course \ S : t[c].tier = table[c].tier /\ t[c].incomplete = table[c].incomplete
      /\ \A c, d \in Assigned(table) \ S : Before(t, c, d) <=> Before(table, c, d)
    BY <1>4, SeedRowsOrder
<1>. HIDE DEF t
<1>8. PICK N : N = ListsOf(t)
    OBVIOUS
<1>9. /\ N.tier = [c \in Course |-> t[c].tier] /\ L.tier = [c \in Course |-> table[c].tier]
      /\ N.above \in SUBSET (Course \X Course) /\ L.above \in SUBSET (Course \X Course)
      /\ \A c, d \in Course : <<c, d>> \in N.above <=> Above(t, c, d)
      /\ \A c, d \in Course : <<c, d>> \in L.above <=> Above(table, c, d)
      /\ N.seeded = Placeholders(t) /\ L.seeded = Placeholders(table)
      /\ Lists!Listed(L) = Assigned(table)
    BY <1>8, ListsFacts
<1>. HIDE DEF L
<1>10. S \cap Lists!Listed(L) \subseteq L.seeded
    BY <1>4, <1>9 DEF Placeholders
<1>11. N.tier = [c \in Course |-> IF c \in S THEN "fairway" ELSE L.tier[c]]
    BY <1>7, <1>9
<1>12. Lists!Apart(N.above, S) = Lists!Apart(L.above, S)
    <2>1. ASSUME NEW c \in Course \ S, NEW d \in Course \ S
          PROVE  <<c, d>> \in N.above <=> <<c, d>> \in L.above
        <3>1. t[c].tier = table[c].tier /\ t[d].tier = table[d].tier
            BY <1>7
        <3>2. CASE c \in Assigned(table) /\ d \in Assigned(table)
            BY <1>7, <1>9, <3>1, <3>2 DEF Above
        <3>3. CASE c \notin Assigned(table) \/ d \notin Assigned(table)
            BY <1>9, <3>1, <3>3 DEF Above, Assigned
        <3>. QED  BY <3>2, <3>3
    <2>2. \A p \in Course \X Course : p[1] \notin S /\ p[2] \notin S => (p \in N.above <=> p \in L.above)
        BY <2>1
    <2>. QED  BY <1>9, <2>2 DEF Lists!Apart
<1>13. N.seeded = L.seeded \cup S
    BY <1>7, <1>9 DEF Placeholders
<1>14. Lists!IsList(N)
    BY <1>6, <1>8, ListsAreLists
<1>15. comparisons \subseteq comparisons' /\ \A x \in comparisons' \ comparisons : x.pair \subseteq S
    <2>1. comparisons \subseteq SeedComparisons(o)
        BY DEF SeedComparisons
    <2>2. \A x \in SeedComparisons(o) \ comparisons : x.pair \subseteq S
        BY <1>1 DEF SeedComparisons
    <2>. QED  BY <2>1, <2>2
<1>16. Lists!Seed(L, N)
    BY <1>10, <1>11, <1>12, <1>13, <1>14, <1>15, Zenon DEF Lists!Seed
<1>. QED  BY <1>1, <1>2, <1>8, <1>16 DEF L, t

-----------------------------------------------------------------------------
(***************************************************************************)
(* What a user sees of a request is its effect on lists.                   *)
(***************************************************************************)

\* A commit stores the rows that the handler has left, renumbered: the lists are those rows'.
LEMMA StagedLists ==
    ASSUME NEW t, WellFormed(t), NEW cs, NEW rs, NEW pj, StageAndCommit(t, cs, rs, pj)
    PROVE  ListsOf(table)' = ListsOf(t)
<1>1. table' = Normalized(t)
    BY DEF StageAndCommit
<1>2. PICK u : u = Normalized(t)
    OBVIOUS
<1>3. ListsOf(u) = ListsOf(t)
    BY <1>2, NormalizedLists
<1>4. ListsOf(table)' = ListsOf(u)
    BY <1>1, <1>2 DEF ListsOf, Before
<1>. QED  BY <1>3, <1>4

LEMMA PlacedTiers ==
    ASSUME NEW t, NEW c \in Course, NEW k, NEW n
    PROVE  Lists!Placed(ListsOf(t), c, k, n).tier = [d \in Course |-> IF d = c THEN k ELSE t[d].tier]
<1>. DEFINE L == ListsOf(t)
            peers == Lists!In(L, k) \ {c}
            top == {d \in peers : n = 0 \/ Lists!PlaceIn(L, peers, d) < n}
<1>1. L.tier = [d \in Course |-> t[d].tier]
    BY ListsFacts
<1>2. Lists!Placed(L, c, k, n) = Lists!Finished(Lists!PutIn(L, c, k, top), c)
    BY DEF Lists!Placed
<1>. HIDE DEF L, top
<1>3. Lists!PutIn(L, c, k, top).tier = [L.tier EXCEPT ![c] = k]
    BY DEF Lists!PutIn
<1>4. Lists!Finished(Lists!PutIn(L, c, k, top), c).tier = Lists!PutIn(L, c, k, top).tier
    BY DEF Lists!Finished
<1>5. Lists!Placed(L, c, k, n).tier = [d \in Course |-> IF d = c THEN k ELSE t[d].tier]
    BY <1>1, <1>2, <1>3, <1>4
<1>. QED  BY <1>5 DEF L

\* One placement of a request.
LEMMA PlaceCourseLists ==
    ASSUME IInv, NEW t, WellFormed(t), NEW p \in Placement
    PROVE  LET c == canon[p.course]
           IN  /\ c \in Course /\ p.tier \in Tiers
               /\ p.pos \in 0 .. Lists!Cardinality(Course)
               /\ ListsOf(PlaceCourse(t, p)) = Lists!Placed(ListsOf(t), c, p.tier, p.pos)
               /\ \A d \in Course : PlaceCourse(t, p)[d].tier = IF d = c THEN p.tier ELSE t[d].tier
<1>1. PICK c \in Course : c = canon[p.course]
    BY IInvFacts DEF Placement
<1>2. PICK k \in Tiers : k = p.tier
    BY RankingAssumption DEF Placement
<1>3. p.pos \in 0 .. Lists!Cardinality(Course)
    BY ListsCount DEF Placement
<1>4. PICK n \in Nat : n = p.pos
    <2>1. Cardinality(Course) \in Nat
        BY CountIsNat
    <2>2. p.pos \in 0 .. Cardinality(Course)
        BY DEF Placement
    <2>. QED  BY <2>1, <2>2
<1>5. PlaceCourse(t, p) = PlaceAt(t, c, k, n)
    BY <1>1, <1>2, <1>4 DEF PlaceCourse
<1>6. ListsOf(PlaceAt(t, c, k, n)) = Lists!Placed(ListsOf(t), c, k, n)
    BY PlaceAtLists
<1>7. ListsOf(PlaceAt(t, c, k, n)).tier = [d \in Course |-> PlaceAt(t, c, k, n)[d].tier]
    BY ListsFacts
<1>8. ListsOf(PlaceAt(t, c, k, n)).tier = [d \in Course |-> IF d = c THEN k ELSE t[d].tier]
    BY <1>6, PlacedTiers
<1>9. \A d \in Course : PlaceAt(t, c, k, n)[d].tier = IF d = c THEN k ELSE t[d].tier
    <2>1. PICK f : f = ListsOf(PlaceAt(t, c, k, n)).tier
        OBVIOUS
    <2>2. \A d \in Course : f[d] = PlaceAt(t, c, k, n)[d].tier
        BY <1>7, <2>1
    <2>3. \A d \in Course : f[d] = IF d = c THEN k ELSE t[d].tier
        BY <1>8, <2>1
    <2>. QED  BY <2>2, <2>3
<1>. QED  BY <1>1, <1>2, <1>3, <1>4, <1>5, <1>6, <1>9

\* PUT /rankings/tiers
LEMMA PlaceListsStep ==
    ASSUME IInv, NEW p \in Placement, PlaceInTiers(p)
    PROVE  Lists!Place(ListsOf(table), ListsOf(table)')
<1>1. WellFormed(table)
    BY IInvFacts
<1>2. PICK t : t = PlaceCourse(table, p)
    OBVIOUS
<1>3. WellFormed(t)
    BY <1>1, <1>2, PlaceCourseWellFormed
<1>4. ListsOf(table)' = ListsOf(t)
    BY <1>2, <1>3, StagedLists DEF PlaceInTiers
<1>5. PICK c \in Course :
        /\ c = canon[p.course] /\ p.tier \in Tiers
        /\ p.pos \in 0 .. Lists!Cardinality(Course)
        /\ ListsOf(t) = Lists!Placed(ListsOf(table), c, p.tier, p.pos)
        /\ t[c].tier = p.tier
    BY <1>1, <1>2, PlaceCourseLists
<1>6. ListsOf(t).tier[c] = p.tier /\ c \in Lists!Listed(ListsOf(t))
    <2>1. ListsOf(t).tier = [e \in Course |-> t[e].tier] /\ Lists!Listed(ListsOf(t)) = Assigned(t)
        BY ListsFacts
    <2>2. p.tier # "none"
        BY <1>5 DEF Tiers, RankedTiers
    <2>. QED  BY <1>5, <2>1, <2>2 DEF Assigned
<1>7. UNCHANGED comparisons
    BY DEF PlaceInTiers, StageAndCommit
<1>8. Lists!Place(ListsOf(table), ListsOf(t))
    BY <1>5, <1>6, <1>7 DEF Lists!Place
<1>. QED  BY <1>4, <1>8

LEMMA PlaceTwoListsStep ==
    ASSUME IInv, NEW p \in Placement, NEW q \in Placement, PlaceTwoInTiers(p, q)
    PROVE  Lists!Place(ListsOf(table), ListsOf(table)')
<1>1. WellFormed(table)
    BY IInvFacts
<1>2. PICK s : s = PlaceCourse(table, p)
    OBVIOUS
<1>3. PICK t : t = PlaceCourse(s, q)
    OBVIOUS
<1>4. WellFormed(s) /\ WellFormed(t)
    BY <1>1, <1>2, <1>3, PlaceCourseWellFormed
<1>5. ListsOf(table)' = ListsOf(t)
    BY <1>2, <1>3, <1>4, StagedLists DEF PlaceTwoInTiers
<1>6. PICK c \in Course :
        /\ c = canon[p.course] /\ p.tier \in Tiers
        /\ p.pos \in 0 .. Lists!Cardinality(Course)
        /\ ListsOf(s) = Lists!Placed(ListsOf(table), c, p.tier, p.pos)
        /\ s[c].tier = p.tier
    BY <1>1, <1>2, PlaceCourseLists
<1>7. PICK d \in Course :
        /\ d = canon[q.course] /\ q.tier \in Tiers
        /\ q.pos \in 0 .. Lists!Cardinality(Course)
        /\ ListsOf(t) = Lists!Placed(ListsOf(s), d, q.tier, q.pos)
        /\ t[d].tier = q.tier
        /\ \A e \in Course : t[e].tier = IF e = d THEN q.tier ELSE s[e].tier
    BY <1>3, <1>4, PlaceCourseLists
<1>8. c # d /\ t[c].tier = p.tier
    BY <1>6, <1>7 DEF PlaceTwoInTiers
<1>9. /\ ListsOf(t).tier[c] = p.tier /\ c \in Lists!Listed(ListsOf(t))
      /\ ListsOf(t).tier[d] = q.tier /\ d \in Lists!Listed(ListsOf(t))
    <2>1. ListsOf(t).tier = [e \in Course |-> t[e].tier] /\ Lists!Listed(ListsOf(t)) = Assigned(t)
        BY ListsFacts
    <2>2. p.tier # "none" /\ q.tier # "none"
        BY <1>6, <1>7 DEF Tiers, RankedTiers
    <2>. QED  BY <1>6, <1>7, <1>8, <2>1, <2>2 DEF Assigned
<1>10. UNCHANGED comparisons
    BY DEF PlaceTwoInTiers, StageAndCommit
<1>11. Lists!Place(ListsOf(table), ListsOf(t))
    BY <1>6, <1>7, <1>9, <1>10 DEF Lists!Place
<1>. QED  BY <1>5, <1>11

\* POST /rankings/comparisons
LEMMA CompareListsStep ==
    ASSUME IInv, Numbered(comparisons), NEW x \in Course, NEW y \in Course, NEW result,
           CompareCourses(x, y, result)
    PROVE  Lists!Compare(ListsOf(table), ListsOf(table)')
<1>. DEFINE L == ListsOf(table)
<1>1. PICK a \in Course : a = canon[x]
    BY IInvFacts
<1>2. PICK b \in Course : b = canon[y]
    BY IInvFacts
<1>3. a # b /\ table[a].tier = table[b].tier /\ table[a].tier \in RankedTiers
    BY <1>1, <1>2 DEF CompareCourses
<1>4. WellFormed(table) /\ Dense(table) /\ a \in Assigned(table) /\ b \in Assigned(table)
    BY <1>3, IInvFacts DEF Assigned, RankedTiers, IInv, RowsOK
<1>5. PICK t : t = Refined(table, a, b, result)
    OBVIOUS
<1>6. WellFormed(t)
    BY <1>4, <1>5, RefinedWellFormed
<1>7. ListsOf(table)' = ListsOf(t)
    BY <1>1, <1>2, <1>5, <1>6, StagedLists DEF CompareCourses
<1>8. table[a].pos # table[b].pos
    <2>1. PICK k : k = table[a].tier
        OBVIOUS
    <2>2. NoTies(table, k)
        BY <1>3, <1>4, <2>1, DenseTier DEF RankedTiers
    <2>. QED  BY <1>3, <2>1, <2>2 DEF NoTies, InTier
<1>9. PICK v \in Course \cup {NoCourse} : v = Preferred(a, b, result)
    BY PreferredType
<1>10. PICK cs \in SUBSET Comparison : cs = comparisons
    BY IInvFacts
<1>11. IsFiniteSet(cs) /\ Numbered(cs)
    BY <1>10, IInvFacts
<1>12. PICK x0 : x0 = NewComparison(cs, {a, b}, v)
    OBVIOUS
<1>13. x0.pair = {a, b} /\ x0.preferred = Preferred(a, b, result)
    BY <1>9, <1>12 DEF NewComparison
<1>14. x0 \notin cs
    BY <1>3, <1>11, <1>12, AddedIsNew
<1>15. comparisons' = comparisons \cup {x0}
    <2>1. comparisons' = AddComparison(cs, {a, b}, v)
        BY <1>1, <1>2, <1>9, <1>10 DEF CompareCourses, StageAndCommit
    <2>2. PICK p : p = {a, b}
        OBVIOUS
    <2>3. PICK ds : ds = AddComparison(cs, {a, b}, v)
        OBVIOUS
    <2>4. ds = cs \cup {x0}
        BY <1>12, <2>2, <2>3, NewComparisonIs
    <2>. QED  BY <1>10, <2>1, <2>3, <2>4
<1>16. Lists!Follows(ListsOf(t), L, x0)
    BY <1>3, <1>4, <1>5, <1>8, <1>13, RefinedFollows
<1>17. \E k \in RankedTiers : x0.pair \subseteq Lists!In(L, k)
    <2>1. PICK k \in RankedTiers : k = table[a].tier
        BY <1>3
    <2>2. Lists!In(L, k) = InTier(table, k)
        BY ListsFacts
    <2>3. x0.pair \subseteq Lists!In(L, k)
        BY <1>3, <1>13, <2>1, <2>2 DEF InTier
    <2>. QED  BY <2>3
<1>. HIDE DEF L
<1>18. Lists!Records(x0) /\ x0 \in comparisons' \ comparisons
    BY <1>10, <1>14, <1>15 DEF Lists!Records
<1>19. Lists!Compare(L, ListsOf(t))
    BY <1>16, <1>17, <1>18 DEF Lists!Compare
<1>. QED  BY <1>7, <1>19 DEF L

\* PUT /course-ratings/{course}
LEMMA ReviseListsStep ==
    ASSUME IInv, Numbered(comparisons), NEW x \in Course, NEW k \in RatingTier, NEW m \in Refinements,
           ReviseRating(x, k, m) \/ CreateRating(x, k, m)
    PROVE  Lists!Rate(ListsOf(table), ListsOf(table)')
<1>1. PICK c \in Course : c = canon[x]
    BY IInvFacts
<1>2. RefinementAccepted(c, k, m)
    BY <1>1 DEF ReviseRating, CreateRating
<1>3. PICK t : t = RatedRows(c, k, m)
    OBVIOUS
<1>4. \E rs, pj : StageAndCommit(t, RatedComparisons(c, m), rs, pj)
    BY <1>1, <1>3 DEF ReviseRating, CreateRating
<1>5. WellFormed(t)
    BY <1>2, <1>3, RatedRowsLemma
<1>6. ListsOf(table)' = ListsOf(t)
    BY <1>4, <1>5, StagedLists
<1>7. comparisons' = RatedComparisons(c, m)
    BY <1>1 DEF ReviseRating, CreateRating, StageAndCommit
<1>. QED  BY <1>2, <1>3, <1>6, <1>7, RatedRowsLists

\* DELETE of a rating-owned round
LEMMA DeleteListsStep ==
    ASSUME IInv, NEW q \in Request, DeleteRoundCommit(q)
    PROVE  Lists!ListStep(ListsOf(table), ListsOf(table)')
<1>. DEFINE L == ListsOf(table)
<1>1. PICK c : c = deleting[q].course
    OBVIOUS
<1>2. PICK t : t = DropRows(table, {c})
    OBVIOUS
<1>3. WellFormed(table) /\ WellFormed(t) /\ Assigned(t) = Assigned(table) \ {c}
    BY <1>2, IInvFacts, DropRowsLemma
<1>4. ListsOf(table)' = ListsOf(t)
    BY <1>1, <1>2, <1>3, StagedLists DEF DeleteRoundCommit
<1>5. ListsOf(t) = Lists!Without(L, {c})
    BY <1>2, <1>3, DropRowsLists
<1>6. comparisons' = {x \in comparisons : c \notin x.pair}
    BY <1>1 DEF DeleteRoundCommit, StageAndCommit
<1>7. CASE c \in Course
    <2>1. Lists!Remove(L, ListsOf(t))
        BY <1>5, <1>6, <1>7 DEF Lists!Remove
    <2>. QED  BY <1>4, <2>1 DEF Lists!ListStep
<1>8. CASE c \notin Course
    <2>1. {c} \cap Assigned(table) = {}
        BY <1>8 DEF Assigned
    <2>2. Lists!Without(L, {c}) = L
        BY <1>3, <2>1, WithoutUnlisted
    <2>3. \A x \in comparisons : x.pair \subseteq Course
        BY IInvFacts DEF Comparison, Pairs
    <2>4. UNCHANGED comparisons
        BY <1>6, <1>8, <2>3
    <2>. QED  BY <1>4, <1>5, <2>2, <2>4 DEF Lists!ListStep
<1>. QED  BY <1>7, <1>8

\* GET /rankings, PUT /me/onboarding-preferences
LEMMA SeedListsStep ==
    ASSUME IInv, NEW o, PairsOK(o), Seed(o)
    PROVE  Lists!Seed(ListsOf(table), ListsOf(table)')
<1>1. PICK t : t = SeedRows(table, SeedCourses(o), SeedPlace(o))
    OBVIOUS
<1>2. WellFormed(t)
    BY <1>1, IInvFacts, SeedPlaceLemma, SeedRowsLemma
<1>3. ListsOf(table)' = ListsOf(t)
    BY <1>1, <1>2, StagedLists DEF Seed
<1>4. comparisons' = SeedComparisons(o)
    BY DEF Seed, StageAndCommit
<1>. QED  BY <1>1, <1>3, <1>4, SeedLists

LEMMA ListsUnchanged ==
    ASSUME UNCHANGED table
    PROVE  ListsOf(table)' = ListsOf(table)
BY DEF ListsOf, Before

\* Every step of the rankings is a step of the lists, or none.
StepOfLists == [Lists!ListNext]_<<ListsOf(table), comparisons, canon>>

LEMMA NextLists == ASSUME IInv, Numbered(comparisons), [Next]_vars PROVE StepOfLists
<1>1. ASSUME Lists!ListStep(ListsOf(table), ListsOf(table)'), UNCHANGED canon PROVE StepOfLists
    BY <1>1 DEF StepOfLists, Lists!ListNext
<1>2. ASSUME UNCHANGED <<table, comparisons, canon>> PROVE StepOfLists
    BY <1>2, ListsUnchanged DEF StepOfLists
<1>3. ASSUME NEW o, PairsOK(o), SeedIfNeeded(o), UNCHANGED canon PROVE StepOfLists
    <2>1. CASE Seed(o)
        BY <1>1, <1>3, <2>1, SeedListsStep DEF Lists!ListStep
    <2>2. CASE UNCHANGED rowVars
        BY <1>2, <1>3, <2>2 DEF rowVars
    <2>. QED  BY <1>3, <2>1, <2>2 DEF SeedIfNeeded
<1>4. CASE \E q \in Request : GetRankingBegin(q)
    BY <1>2, <1>4 DEF GetRankingBegin, rowVars
<1>5. CASE \E q \in Request : GetRankingCommit(q)
    BY <1>3, <1>5, IInvFacts DEF GetRankingCommit
<1>24. CASE \E o \in Answers : SaveBegin(o)
    BY <1>2, <1>24 DEF SaveBegin, rowVars
<1>6. ASSUME NEW p \in Placement, PlaceInTiers(p) PROVE StepOfLists
    <2>1. Lists!Place(ListsOf(table), ListsOf(table)') /\ UNCHANGED canon
        BY <1>6, PlaceListsStep DEF PlaceInTiers
    <2>. QED  BY <1>1, <2>1 DEF Lists!ListStep
<1>7. ASSUME NEW p \in Placement, NEW q \in Placement, PlaceTwoInTiers(p, q) PROVE StepOfLists
    <2>1. Lists!Place(ListsOf(table), ListsOf(table)') /\ UNCHANGED canon
        BY <1>7, PlaceTwoListsStep DEF PlaceTwoInTiers
    <2>. QED  BY <1>1, <2>1 DEF Lists!ListStep
<1>8. ASSUME NEW x \in Course, NEW y \in Course, NEW result \in Outcome, CompareCourses(x, y, result)
      PROVE  StepOfLists
    <2>1. Lists!Compare(ListsOf(table), ListsOf(table)') /\ UNCHANGED canon
        BY <1>8, CompareListsStep DEF CompareCourses
    <2>. QED  BY <1>1, <2>1 DEF Lists!ListStep
<1>9. ASSUME NEW x \in Course, NEW k \in RatingTier, NEW m \in Refinements,
             ReviseRating(x, k, m) \/ CreateRating(x, k, m)
      PROVE  StepOfLists
    <2>1. Lists!Rate(ListsOf(table), ListsOf(table)') /\ UNCHANGED canon
        BY <1>9, ReviseListsStep DEF ReviseRating, CreateRating
    <2>. QED  BY <1>1, <2>1 DEF Lists!ListStep
<1>10. ASSUME NEW q \in Request, DeleteRoundCommit(q) PROVE StepOfLists
    <2>1. Lists!ListStep(ListsOf(table), ListsOf(table)') /\ UNCHANGED canon
        BY <1>10, DeleteListsStep DEF DeleteRoundCommit
    <2>. QED  BY <1>1, <2>1
<1>11. ASSUME NEW a \in Course, NEW b \in Course, ConfirmMapping(a, b) PROVE StepOfLists
    <2>1. Lists!Map /\ UNCHANGED <<table, comparisons>>
        BY <1>11 DEF ConfirmMapping, Lists!Map, rowVars
    <2>. QED  BY <2>1, ListsUnchanged DEF StepOfLists, Lists!ListNext
<1>12. CASE SaveCommit
    BY <1>3, <1>12, IInvFacts DEF SaveCommit
<1>13. CASE \E p \in Placement : PlaceInTiers(p)
    BY <1>6, <1>13
<1>14. CASE \E p, q \in Placement : PlaceTwoInTiers(p, q)
    BY <1>7, <1>14
<1>15. CASE \E x, y \in Course, result \in Outcome : CompareCourses(x, y, result)
    BY <1>8, <1>15
<1>16. CASE \E x \in Course, k \in RatingTier, m \in Refinements : ReviseRating(x, k, m)
    BY <1>9, <1>16
<1>17. CASE \E x \in Course, k \in RatingTier, m \in Refinements : CreateRating(x, k, m)
    BY <1>9, <1>17
<1>18. CASE \E r \in RoundId : PatchRatingRound(r)
    BY <1>2, <1>18 DEF PatchRatingRound
<1>19. CASE \E q \in Request, r \in RoundId : DeleteRoundBegin(q, r)
    BY <1>2, <1>19 DEF DeleteRoundBegin, rowVars
<1>20. CASE \E q \in Request : DeleteRoundCommit(q)
    BY <1>10, <1>20
<1>21. CASE \E q \in Request : DeleteRoundAbort(q)
    BY <1>2, <1>21 DEF DeleteRoundAbort, rowVars
<1>22. CASE \E a, b \in Course : ConfirmMapping(a, b)
    BY <1>11, <1>22
<1>23. CASE UNCHANGED vars
    BY <1>2, <1>23 DEF vars, rowVars
<1>. QED
    BY <1>4, <1>5, <1>24, <1>12, <1>13, <1>14, <1>15, <1>16, <1>17, <1>18, <1>19, <1>20, <1>21, <1>22, <1>23
       DEF Next

\* However the rows are numbered, renumbered, merged and renamed, each request does to the lists
\* of the user what RankedLists says, whatever was mapped before.
THEOREM ListsAlwaysKeepPromise == Spec => ListsKeepPromise
<1>1. Init => Lists!ListInit
    <2>. SUFFICES ASSUME Init PROVE Lists!ListInit
        OBVIOUS
    <2>1. PICK t : t = EmptyTable
        OBVIOUS
    <2>2. \A c \in Course : t[c] = NoRow
        BY <2>1 DEF EmptyTable
    <2>3. NoRow.tier = "none" /\ NoRow.incomplete = FALSE
        BY DEF NoRow
    <2>4. PICK T : T = [c \in Course |-> "none"]
        OBVIOUS
    <2>5. T = [c \in Course |-> t[c].tier]
        BY <2>2, <2>3, <2>4
    <2>6. Placeholders(t) = {} /\ \A c, d \in Course : ~Above(t, c, d)
        BY <2>2, <2>3 DEF Placeholders, Above
    <2>7. PICK P \in SUBSET (Course \X Course) : P = {}
        OBVIOUS
    <2>8. ListsOf(t) = [tier |-> T, above |-> P, seeded |-> Placeholders(t)]
        BY <2>5, <2>6, <2>7, ListsAre
    <2>9. table = t /\ comparisons = {} /\ canon = [c \in Course |-> c]
        BY <2>1 DEF Init
    <2>. QED  BY <2>4, <2>6, <2>7, <2>8, <2>9 DEF Lists!ListInit
<1>2. IInv /\ Numbered(comparisons) /\ [Next]_vars => [Lists!ListNext]_<<ListsOf(table), comparisons, canon>>
    BY NextLists DEF StepOfLists
<1>3. Init => Numbered(comparisons)
    BY DEF Init, Numbered
<1>4. IInv /\ Numbered(comparisons) /\ [Next]_vars => Numbered(comparisons)'
    BY NextNumbered
<1>. QED  BY <1>1, <1>2, <1>3, <1>4, Invariant, PTL DEF Spec, ListsKeepPromise, Lists!ListSpec
=============================================================================
