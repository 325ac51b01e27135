----------------------------- MODULE RankedLists -----------------------------
(***************************************************************************)
(* What a user's rankings promise: every tier is a list of courses.  A     *)
(* request puts courses where it was asked to put them, does what the      *)
(* comparison says that it records, takes out what it deletes, and every   *)
(* other course stays where it is among the others.  There are no          *)
(* positions, primary keys, ratings or snapshots.                          *)
(***************************************************************************)
EXTENDS Integers, FiniteSets

CONSTANTS
    Course,
    Tiers, RankedTiers,  \* the lists, and those that are ranked
    SeedTier,            \* the one that onboarding seeds
    NoTier               \* of a course in no list

VARIABLES
    lists,       \* tier: the list of each course, above: its pairs, seeded: the placeholders
    comparisons, \* those recorded: a pair of courses, and the preferred one, if any
    canonical    \* the course that each course is taken for

In(L, k) == {c \in Course : L.tier[c] = k}
Listed(L) == {c \in Course : L.tier[c] # NoTier}

\* The pairs that the courses of M have no part in.
Apart(pairs, M) == {p \in pairs : p[1] \notin M /\ p[2] \notin M}

\* Of two courses of a list one is above the other, and never in a circle.
IsList(L) ==
    /\ L.above \subseteq {p \in Course \X Course : p[1] # p[2] /\ L.tier[p[1]] = L.tier[p[2]]}
    /\ \A c, d \in Listed(L) :
        c # d /\ L.tier[c] = L.tier[d] => (<<c, d>> \in L.above <=> <<d, c>> \notin L.above)
    /\ \A c, d, e \in Listed(L) :
        <<c, d>> \in L.above /\ <<d, e>> \in L.above => <<c, e>> \in L.above

\* The upper ends of list k.
Tops(L, k) == {U \in SUBSET In(L, k) :
                \A d \in U, c \in In(L, k) : <<c, d>> \in L.above => c \in U}

Without(L, M) ==
    [tier |-> [c \in Course |-> IF c \in M THEN NoTier ELSE L.tier[c]],
     above |-> Apart(L.above, M), seeded |-> L.seeded \ M]

\* c, wherever it was, goes into list k right below the courses of top.
PutIn(L, c, k, top) ==
    [tier |-> [L.tier EXCEPT ![c] = k],
     above |-> Apart(L.above, {c}) \cup (top \X {c}) \cup ({c} \X (In(L, k) \ (top \cup {c}))),
     seeded |-> L.seeded]

Finished(L, c) == [tier |-> L.tier, above |-> L.above, seeded |-> L.seeded \ {c}]

\* How many courses of S, which d is one of, are not below d.
PlaceIn(L, S, d) == Cardinality({e \in S : e = d \/ <<e, d>> \in L.above})

\* c becomes the n-th of list k, and its last when there is no n-th or none is asked for.
Placed(L, c, k, n) ==
    LET peers == In(L, k) \ {c}
    IN  Finished(PutIn(L, c, k, {d \in peers : n = 0 \/ PlaceIn(L, peers, d) < n}), c)

\* The winner goes right above the loser, unless it is above it already.
Preferred(L, winner, loser) ==
    IF <<winner, loser>> \in L.above THEN L
    ELSE PutIn(L, winner, L.tier[loser], {d \in Course \ {winner} : <<d, loser>> \in L.above})

\* What comparison x makes of the lists L.
Follows(N, L, x) ==
    IF x.preferred \in x.pair
    THEN \E loser \in x.pair \ {x.preferred} : N = Preferred(L, x.preferred, loser)
    ELSE N = L

\* c in the place of a.
Renamed(L, a, c) ==
    LET was(d) == IF d = c THEN a ELSE d
    IN  [tier |-> [d \in Course |-> IF d = a THEN NoTier ELSE L.tier[was(d)]],
         above |-> {p \in (Course \ {a}) \X (Course \ {a}) : <<was(p[1]), was(p[2])>> \in L.above},
         seeded |-> {d \in Course \ {a} : was(d) \in L.seeded}]

\* One course of M is kept, under the name c: c itself if it is in a list.
Merged(L, c, M) ==
    IF c \in Listed(L) \/ M \cap Listed(L) = {} THEN {Without(L, M \ {c})}
    ELSE {Renamed(Without(L, M \ {a}), a, c) : a \in M \cap Listed(L)}

\* c is finished in list k: it stays there, or goes to its end, or anywhere.
Rated(L, c, k, anywhere) ==
    IF L.tier[c] = k THEN {Finished(L, c)}
    ELSE {Finished(PutIn(L, c, k, top), c) :
            top \in IF anywhere THEN Tops(L, k) ELSE {In(L, k)}}

-----------------------------------------------------------------------------
ListInit ==
    /\ lists = [tier |-> [c \in Course |-> NoTier], above |-> {}, seeded |-> {}]
    /\ comparisons = {}
    /\ canonical = [c \in Course |-> c]

Identity(c) == {c} \cup {a \in Course : canonical[a] = c}

\* One placement, or two in one request.  (A course that was placed is where N has it.)
Place(L, N) ==
    LET Puts(M) == {Placed(M, c, N.tier[c], n) : c \in Listed(N), n \in 0 .. Cardinality(Course)}
    IN  /\ N \in Puts(L) \/ \E M \in Puts(L) : N \in Puts(M)
        /\ UNCHANGED comparisons

Records(x) == comparisons' = comparisons \cup {x}

\* One new comparison of two courses of a ranked list.
Compare(L, N) ==
    \E x \in comparisons' \ comparisons :
        /\ Records(x)
        /\ \E k \in RankedTiers : x.pair \subseteq In(L, k)
        /\ Follows(N, L, x)

\* A rating puts one course into a list and may compare it there.  Only where several courses
\* of one identity were listed it is open where the course enters, and the comparison may fail.
Rate(L, N) ==
    \E c \in Course :
        /\ N.tier[c] \in RankedTiers /\ c \notin N.seeded
        /\ \A d \in Course \ Identity(c) : N.tier[d] = L.tier[d]
        /\ LET several == Cardinality(Identity(c) \cap Listed(L)) > 1
           IN  \E M \in Merged(L, c, Identity(c)) : \E R \in Rated(M, c, N.tier[c], several) :
                  \/ N = R /\ UNCHANGED comparisons
                  \/ \E x \in comparisons' \ comparisons :
                        /\ Records(x)
                        /\ c \in x.pair /\ x.pair \subseteq In(R, N.tier[c])
                        /\ Follows(N, R, x) \/ (several /\ N = R)

\* What says something of a removed course goes with it, if it was in a list or not.
Remove(L, N) ==
    \E c \in Course :
        /\ N = Without(L, {c})
        /\ comparisons' = {x \in comparisons : c \notin x.pair}

\* Courses that nobody has finished become placeholders; the others stay as they are.
Seed(L, N) ==
    \E S \in SUBSET Course :
        /\ S \cap Listed(L) \subseteq L.seeded
        /\ N.tier = [c \in Course |-> IF c \in S THEN SeedTier ELSE L.tier[c]]
        /\ Apart(N.above, S) = Apart(L.above, S)
        /\ N.seeded = L.seeded \cup S
        /\ IsList(N)
        /\ comparisons \subseteq comparisons'
        /\ \A x \in comparisons' \ comparisons : x.pair \subseteq S

\* Many requests find everything in its place: the same rating again, a placement where it was.
ListStep(L, N) ==
    \/ N = L /\ UNCHANGED comparisons
    \/ Compare(L, N) \/ Remove(L, N) \/ Seed(L, N) \/ Rate(L, N) \/ Place(L, N)

Map ==
    \E a, b \in Course : canonical[a] = a /\ canonical' = [canonical EXCEPT ![a] = b]

ListNext ==
    \/ ListStep(lists, lists') /\ UNCHANGED canonical
    \/ Map /\ UNCHANGED <<lists, comparisons>>

ListSpec == ListInit /\ [][ListNext]_<<lists, comparisons, canonical>>
=============================================================================
