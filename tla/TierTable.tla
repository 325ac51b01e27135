------------------------------ MODULE TierTable ------------------------------
(***************************************************************************)
(* The tier_assignments rows of one user and the pure functions of         *)
(* app/ranking.py and app/course_ratings.py that reorder them.             *)
(*                                                                         *)
(* A table maps every course to its row.  A row carries the tier, the      *)
(* ordinal position, the onboarding-placeholder flag and an "age": the     *)
(* rows' primary keys only ever break ties between equal positions, so the *)
(* model keeps their order and not their values.  The youngest row has age *)
(* 1 and a row with a larger age has a smaller primary key.                *)
(***************************************************************************)
EXTENDS Integers, FiniteSets

CONSTANT Course

ASSUME CourseFinite == IsFiniteSet(Course)

RankedTiers == {"green", "fairway", "rough", "bunker"}
Tiers == RankedTiers \cup {"not_sure"}

\* The order of TIER_ORDER; not_sure comes last and is never ranked.
TierIndex == [green |-> 1, fairway |-> 2, rough |-> 3, bunker |-> 4, not_sure |-> 5]

\* TIER_BANDS in tenths of a point.
TierBand == [green   |-> [low |-> 85, high |-> 100],
             fairway |-> [low |-> 70, high |-> 84],
             rough   |-> [low |-> 50, high |-> 69],
             bunker  |-> [low |-> 10, high |-> 49]]

Row == [tier : Tiers \cup {"none"}, pos : Nat, age : Nat, incomplete : BOOLEAN]
NoRow == [tier |-> "none", pos |-> 0, age |-> 0, incomplete |-> FALSE]
Table == [Course -> Row]
EmptyTable == [c \in Course |-> NoRow]

Assigned(t) == {c \in Course : t[c].tier # "none"}
InTier(t, k) == {c \in Course : t[c].tier = k}
RankedCourses(t) == {c \in Course : t[c].tier \in RankedTiers}

\* A row per assigned course and none for the others, with distinct keys.
WellFormed(t) ==
    /\ t \in Table
    /\ \A c \in Course : t[c].tier = "none" <=> t[c] = NoRow
    /\ \A c \in Assigned(t) : t[c].age > 0
    /\ \A c, d \in Assigned(t) : c # d => t[c].age # t[d].age

\* ORDER BY ordinal_position, id
Before(t, c, d) ==
    \/ t[c].pos < t[d].pos
    \/ t[c].pos = t[d].pos /\ t[c].age > t[d].age

\* The 1-based place of c among the rows of S in that order.
Slot(t, S, c) == Cardinality({d \in S : d = c \/ Before(t, d, c)})

\* _normalize_positions: every tier is renumbered 1, 2, ... in its order.
Normalized(t) ==
    [c \in Course |->
        IF t[c].tier = "none" THEN NoRow
        ELSE [t[c] EXCEPT !.pos = Slot(t, InTier(t, t[c].tier), c)]]

\* Deviation: a new row does not become younger than the others.
EnsureRowSameAge(t, c) ==
    IF t[c].tier # "none" THEN t ELSE [t EXCEPT ![c] = [NoRow EXCEPT !.age = 1]]

\* session.add(TierAssignment(...)): a missing row becomes the youngest one.
\* Its tier is left to the caller.
EnsureRow(t, c) ==
    IF t[c].tier # "none" THEN t
    ELSE [d \in Course |->
            IF d = c THEN [NoRow EXCEPT !.age = 1]
            ELSE IF t[d].tier = "none" THEN t[d]
            ELSE [t[d] EXCEPT !.age = @ + 1]]

\* Deleted rows leave no trace but the gaps in the positions.
DropRows(t, D) ==
    LET left == Assigned(t) \ D
    IN  [c \in Course |->
            IF c \in left
            THEN [t[c] EXCEPT !.age = Cardinality({d \in left : t[d].age <= t[c].age})]
            ELSE NoRow]

\* peers.insert(target - 1, row) followed by the renumbering of the tier.
InsertInTier(t, c, k, target) ==
    LET peers == InTier(t, k) \ {c}
        shifted(d) == LET s == Slot(t, peers, d) IN IF s < target THEN s ELSE s + 1
    IN  [d \in Course |->
            IF d = c THEN [t[c] EXCEPT !.tier = k, !.pos = target]
            ELSE IF d \in peers THEN [t[d] EXCEPT !.pos = shifted(d)]
            ELSE t[d]]

\* One placement of place_in_tiers; p = 0 stands for an absent position.
PlaceAt(t, c, k, p) ==
    LET u == EnsureRow(t, c)
        last == Cardinality(InTier(u, k) \ {c}) + 1
        target == IF p = 0 \/ p > last THEN last ELSE p
    IN  [InsertInTier(u, c, k, target) EXCEPT ![c].incomplete = FALSE]

\* _place_assignment: a course that stays in its tier keeps its place, one
\* that enters a tier is numbered after the rows it finds there.
AppendTo(t, c, k) ==
    LET u == EnsureRow(t, c)
        last == Cardinality(InTier(u, k) \ {c}) + 1
    IN  IF t[c].tier = k THEN [t EXCEPT ![c].incomplete = FALSE]
        ELSE [u EXCEPT ![c] = [@ EXCEPT !.tier = k, !.pos = last, !.incomplete = FALSE]]

\* Deviation: winner and loser swap their places.
PreferSwap(t, w, l) ==
    IF t[w].pos > t[l].pos
    THEN [t EXCEPT ![w].pos = t[l].pos, ![l].pos = t[w].pos]
    ELSE t

\* A decisive comparison: a winner placed below the loser moves just above it.
Prefer(t, w, l) ==
    IF t[w].pos > t[l].pos
    THEN InsertInTier(t, w, t[w].tier, Slot(t, InTier(t, t[w].tier) \ {w}, l))
    ELSE t

\* Deviation: the rows of the other courses of the identity are deleted, none is kept under the
\* canonical one.
MergeIdentityDropping(t, c, ids) == DropRows(t, ids \ {c})

\* The identity block of put_course_rating: of the rows of one identity, the
\* canonical course's own row, else the oldest, is kept under the canonical
\* course, and the others are deleted.
MergeIdentity(t, c, ids) ==
    LET rows == ids \cap Assigned(t)
        kept == IF c \in rows THEN c
                ELSE CHOOSE a \in rows : \A b \in rows : t[b].age <= t[a].age
        u == DropRows(t, rows \ {kept})
    IN  IF rows \subseteq {c} THEN t
        ELSE [u EXCEPT ![kept] = NoRow, ![c] = u[kept]]

\* The placement loop of seed_onboarding_rankings for the courses S, where
\* place[c] is the place of c in the seeded order.
SeedRows(t, S, place) ==
    LET new == S \ Assigned(t)
        start == Cardinality(InTier(t, "fairway") \ S)
        age(c) == IF c \in new
                  THEN Cardinality({d \in new : place[d] >= place[c]})
                  ELSE t[c].age + Cardinality(new)
    IN  [c \in Course |->
            IF c \in S
            THEN [tier |-> "fairway", pos |-> start + place[c],
                  age |-> age(c), incomplete |-> TRUE]
            ELSE IF t[c].tier = "none" THEN t[c]
            ELSE [t[c] EXCEPT !.age = age(c)]]
-----------------------------------------------------------------------------
(***************************************************************************)
(* What a snapshot derives from the rows.                                  *)
(***************************************************************************)

\* round(num / den, to the nearest tenth), half to even.  The code rounds the binary floating-point
\* quotient, which at some ties is the other neighbour, a tenth away: with five courses in the
\* fairway, index 1 is 8.1 there and 8.0 here.  No property depends on which it is.
RoundHalfEven(num, den) ==
    LET q == num \div den
        twice == 2 * (num % den)
    IN  IF twice < den \/ (twice = den /\ q % 2 = 0) THEN q ELSE q + 1

\* Deviation: one course fewer is counted, so the last index falls off the scale.
RatingShortCount(tier, index, count) ==
    IF count <= 2 THEN RoundHalfEven(TierBand[tier].low + TierBand[tier].high, 2)
    ELSE RoundHalfEven(TierBand[tier].high * (count - 2)
                        - (TierBand[tier].high - TierBand[tier].low) * index, count - 2)

\* _rating in tenths of a point: index is 0-based.
Rating(tier, index, count) ==
    LET low == TierBand[tier].low
        high == TierBand[tier].high
    IN  IF count = 1 THEN RoundHalfEven(low + high, 2)
        ELSE RoundHalfEven(high * (count - 1) - (high - low) * index, count - 1)

\* Deviation: placeholders and finished courses share one count and one index.
WholeTier(t, c) == InTier(t, t[c].tier)

\* Placeholders and finished courses of a tier are counted and indexed apart.
RatingGroup(t, c) ==
    {d \in InTier(t, t[c].tier) : t[d].incomplete = t[c].incomplete}

PersonalRating(t, c) ==
    Rating(t[c].tier, Slot(t, RatingGroup(t, c), c) - 1, Cardinality(RatingGroup(t, c)))

\* The overall rank: tiers in TIER_ORDER, then positions.
OverallRank(t, c) ==
    Cardinality({d \in RankedCourses(t) :
                    \/ TierIndex[t[d].tier] < TierIndex[t[c].tier]
                    \/ t[d].tier = t[c].tier /\ (d = c \/ Before(t, d, c))})
=============================================================================
