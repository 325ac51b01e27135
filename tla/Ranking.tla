------------------------------- MODULE Ranking -------------------------------
(***************************************************************************)
(* One user's rankings: tier placements, head-to-head comparisons, ratings *)
(* with the rounds they own, onboarding placeholders and the snapshot that *)
(* every change stages (app/ranking.py, app/course_ratings.py and the      *)
(* rating-round part of app/rounds.py).                                    *)
(*                                                                         *)
(* A handler that changes placements, comparisons or ratings first takes   *)
(* FOR UPDATE on the user's row and holds it until it commits: from the    *)
(* lock on it is one action here.  delete_round reads the round, and a     *)
(* request that seeds reads the onboarding answers, BEFORE it locks: these *)
(* are two actions each, and other requests run between them.              *)
(***************************************************************************)
EXTENDS TierTable, Sequences, FiniteSetsExt

CONSTANTS
    RoundId,         \* primary keys of rating-owned rounds
    Request,         \* requests to delete a round, or to read, that may be in flight
    NoCourse, NoRound,
    PlacementTiers,  \* the tiers a placement may name (PlacementTier)
    Answers,         \* onboarding head-to-head answers a client may save
    MaxBatch,        \* most placements of one PUT /rankings/tiers
    MaxComparisons,  \* bound on the comparisons recorded by the user
    Mappable         \* source courses an administrator may map to another

\* A head-to-head question of the onboarding and the answer given to it.
HeadToHead == [left : Course, right : Course, winner : Course \cup {NoCourse}]

ASSUME RankingAssumption ==
    /\ NoCourse \notin Course
    /\ NoRound \notin RoundId
    /\ PlacementTiers \subseteq Tiers
    /\ \A o \in Answers : o \in Seq(HeadToHead)
    /\ MaxBatch \in {1, 2}
    /\ MaxComparisons \in Nat
    /\ Mappable \subseteq Course

VARIABLES
    table,     \* tier_assignments
    comparisons, \* the user's comparisons
    rounds,    \* the user's rounds with is_rating_round
    proj,      \* user_course_ratings
    snap,      \* the latest ranking_snapshots row
    canon,     \* confirmed course_reconciliations: the canonical course
    onb,       \* onboarding_data: pairs asked and the favourite of each
    deleting,  \* requests inside delete_round, with what they have read
    reading,   \* GET /rankings: the answers to seed that a request has read
    saving     \* the save of answers under way: one at a time

rowVars == <<table, comparisons, rounds, proj, snap>>
requestVars == <<deleting, reading, saving>>
vars == <<rowVars, canon, onb, requestVars>>

-----------------------------------------------------------------------------
(***************************************************************************)
(* Rows and their types.                                                   *)
(***************************************************************************)
Pairs == {p \in SUBSET Course : Cardinality(p) = 2}

\* A comparison: its two courses, the preferred one (none when too close) and
\* a number that keeps equal rows apart.
Comparison == [pair : Pairs, preferred : Course \cup {NoCourse}, n : Nat \ {0}]
RatingTier == PlacementTiers \cap RankedTiers
Outcome == {"course_a", "course_b", "too_close"}

\* A rating-owned round: the course it is for and, as an age, its place in
\* the order of updated_at (1 is the latest).
RoundRow == [course : Course \cup {NoCourse}, age : Nat]
FreeRound == [course |-> NoCourse, age |-> 0]

Projection == [round : RoundId \cup {NoRound}, tier : Tiers \cup {"none"},
               rating : Int, confidence : Nat \X Nat]
NoProjection == [round |-> NoRound, tier |-> "none", rating |-> 0, confidence |-> <<0, 0>>]

Entry == [rank : Nat, tier : Tiers \cup {"none"}, tier_position : Nat, rating : Int,
          confidence : Nat \X Nat, incomplete : BOOLEAN]
NoEntry == [rank |-> 0, tier |-> "none", tier_position |-> 0, rating |-> 0,
            confidence |-> <<0, 0>>, incomplete |-> FALSE]

Idle == [round |-> NoRound, course |-> NoCourse]

\* An answer to a question of the onboarding, on the courses it is taken for.
SeedPair == [n : Nat, left : Course, right : Course, winner : Course]

NoSave == [busy |-> FALSE, answers |-> <<>>, pairs |-> {}]

-----------------------------------------------------------------------------
(***************************************************************************)
(* Helpers of the handlers.                                                *)
(***************************************************************************)

\* course_identity_ids: a course and every course mapped to it.
IdentityOf(c) == {c} \cup {a \in Course : canon[a] = c}

\* _comparison_counts, decisive and uncertain: _confidence is a function of them.
ComparisonCounts(cs, c) ==
    <<Cardinality({x \in cs : c \in x.pair /\ x.preferred # NoCourse}),
      Cardinality({x \in cs : c \in x.pair /\ x.preferred = NoCourse})>>

AddComparison(cs, p, w) ==
    cs \cup {[pair |-> p, preferred |-> w,
              n |-> 1 + Cardinality({x \in cs : x.pair = p /\ x.preferred = w})]}

Preferred(a, b, result) ==
    CASE result = "course_a" -> a [] result = "course_b" -> b [] OTHER -> NoCourse

\* The entries that _stage_snapshot builds from the normalized rows.
SnapshotOf(t, cs) ==
    [entries |-> [c \in Course |->
        IF c \in RankedCourses(t)
        THEN [rank |-> OverallRank(t, c), tier |-> t[c].tier,
              tier_position |-> t[c].pos, rating |-> PersonalRating(t, c),
              confidence |-> ComparisonCounts(cs, c), incomplete |-> t[c].incomplete]
        ELSE NoEntry],
     unranked |-> InTier(t, "not_sure")]

RatingRounds(rs) == {r \in RoundId : rs[r].course # NoCourse}
RatingRoundsOf(rs, c) == {r \in RoundId : rs[r].course = c}

\* Deviation: ORDER BY updated_at without DESC.
OldestRatingRound(rs, c) ==
    LET mine == RatingRoundsOf(rs, c)
    IN  IF mine = {} THEN NoRound
        ELSE CHOOSE r \in mine : \A s \in mine : rs[s].age <= rs[r].age

\* ORDER BY updated_at DESC LIMIT 1
NewestRatingRound(rs, c) ==
    LET mine == RatingRoundsOf(rs, c)
    IN  IF mine = {} THEN NoRound
        ELSE CHOOSE r \in mine : \A s \in mine : rs[r].age <= rs[s].age

\* The current rating that an entry and its owning round give.
ProjectionOf(e, owner) ==
    IF e = NoEntry \/ owner = NoRound THEN NoProjection
    ELSE [round |-> owner, tier |-> e.tier, rating |-> e.rating, confidence |-> e.confidence]

\* The projection loops of _stage_snapshot: a projection without an entry goes,
\* an entry without one gets one from the newest kept rating round.
ProjectionsOf(s, rs, pj) ==
    [c \in Course |-> ProjectionOf(s.entries[c], IF pj[c].round # NoRound THEN pj[c].round
                                                 ELSE NewestRatingRound(rs, c))]

\* _stage_snapshot and the commit that follows it: rows t, comparisons cs,
\* rounds rs and projections pj as the handler has left them.
StageAndCommit(t, cs, rs, pj) ==
    /\ table' = Normalized(t)
    /\ comparisons' = cs
    /\ rounds' = rs
    /\ snap' = SnapshotOf(table', comparisons')
    /\ proj' = ProjectionsOf(snap', rounds', pj)

Removed(rs, r) ==
    [s \in RoundId |->
        IF s = r THEN FreeRound
        ELSE IF rs[r].course # NoCourse /\ rs[s].age > rs[r].age
             THEN [rs[s] EXCEPT !.age = @ - 1] ELSE rs[s]]

\* A write to a round row gives it the n-th place in updated_at.  The column gets now(), when the
\* transaction BEGAN: before it waited for the user's lock, which a PATCH does not even take.
TouchedAt(rs, r, c, n) ==
    LET others == Removed(rs, r)
    IN  [s \in RoundId |->
            IF s = r THEN [course |-> c, age |-> n]
            ELSE IF others[s].age >= n THEN [others[s] EXCEPT !.age = @ + 1] ELSE others[s]]

\* Any place: the latest, or right after another round.
Touched(rs, r, c) ==
    {TouchedAt(rs, r, c, n) : n \in {1} \cup {Removed(rs, r)[s].age + 1 : s \in RatingRounds(rs) \ {r}}}

\* A key is new: it belongs to no round and to no request still at work.
FreshRounds == {r \in RoundId : rounds[r] = FreeRound /\ \A q \in Request : deleting[q].round # r}
-----------------------------------------------------------------------------
(***************************************************************************)
(* Onboarding seeds.                                                       *)
(***************************************************************************)

\* The head-to-head questions that were answered, on canonical courses.
Resolved(o) ==
    LET answered == {i \in DOMAIN o : /\ o[i].winner \in {o[i].left, o[i].right}
                                      /\ canon[o[i].left] # canon[o[i].right]}
    IN  {[n |-> i, left |-> canon[o[i].left], right |-> canon[o[i].right],
          winner |-> canon[o[i].winner]] : i \in answered}

Asked(o) == UNION {{a.left, a.right} : a \in {o[i] : i \in DOMAIN o}}

\* Every asked course has a finished row: seeding is over for this user.
Settled(o) == Asked(o) \subseteq {c \in Assigned(table) : ~table[c].incomplete}

\* What seed_onboarding_rankings goes on with, from the answers o: none on its early returns.
PairsToSeed(o) == IF Settled(o) THEN {} ELSE Resolved(o)

\* From here on, under the lock: ps are the pairs that were resolved before it.
CoursesOf(ps) == UNION {{q.left, q.right} : q \in ps}

\* Deviation: finished courses are seeded again.
SeedAllCourses(ps) == CoursesOf(ps)

\* Courses never placed, or placed only by an earlier seeding.
SeedCourses(ps) == {c \in CoursesOf(ps) : c \in Assigned(table) => table[c].incomplete}

\* The seeded order: most wins first, then the order of the questions.
SeedPlace(ps) ==
    LET wins(c) == Cardinality({q \in ps : q.winner = c})
        first(c) == Min({2 * q.n - 1 : q \in {x \in ps : x.left = c}} \cup
                        {2 * q.n : q \in {x \in ps : x.right = c}})
        better(c, d) == wins(c) > wins(d) \/ (wins(c) = wins(d) /\ first(c) < first(d))
    IN  [c \in SeedCourses(ps) |->
            Cardinality({d \in SeedCourses(ps) : d = c \/ better(d, c)})]

\* Something would change: a course is missing, or the favourites say another order.
SeedNeeded(ps) ==
    LET S == SeedCourses(ps)
        place == SeedPlace(ps)
    IN  /\ S # {}
        /\ ~ /\ S \subseteq Assigned(table)
             /\ \A c, d \in S : place[c] < place[d] => table[c].pos < table[d].pos

\* A favourite is recorded as a comparison, unless the pair has a decisive one.
SeedComparisons(ps) ==
    LET new == {q \in ps :
                    /\ {q.left, q.right} \subseteq SeedCourses(ps)
                    /\ \A x \in comparisons : x.pair = {q.left, q.right} => x.preferred = NoCourse
                    /\ \A e \in ps : {e.left, e.right} = {q.left, q.right} => q.n <= e.n}
    IN  comparisons \cup
            {[pair |-> {q.left, q.right}, preferred |-> q.winner, n |-> 1] : q \in new}

Seed(ps) ==
    StageAndCommit(SeedRows(table, SeedCourses(ps), SeedPlace(ps)), SeedComparisons(ps), rounds, proj)

SeedIfNeeded(ps) ==
    \/ SeedNeeded(ps) /\ Seed(ps)
    \/ ~SeedNeeded(ps) /\ UNCHANGED rowVars

-----------------------------------------------------------------------------
Init ==
    /\ table = EmptyTable
    /\ comparisons = {}
    /\ rounds = [r \in RoundId |-> FreeRound]
    /\ proj = [c \in Course |-> NoProjection]
    /\ snap = SnapshotOf(EmptyTable, {})
    /\ canon = [c \in Course |-> c]
    /\ onb = <<>>
    /\ deleting = [q \in Request |-> Idle]
    /\ reading = [q \in Request |-> {}]
    /\ saving = NoSave

\* GET /rankings up to the lock, when there is something to seed: the answers and the settled
\* courses are read and the pairs resolved.  (A request that is given up before it commits, here
\* or in a save, leaves no more than one that never came.)
GetRankingBegin(q) ==
    /\ reading[q] = {}
    /\ PairsToSeed(onb) # {}
    /\ reading' = [reading EXCEPT ![q] = PairsToSeed(onb)]
    /\ UNCHANGED <<rowVars, canon, onb, deleting, saving>>

\* The rest of it, under the lock: it seeds what it has read, whatever the answers are by now.
GetRankingCommit(q) ==
    /\ reading[q] # {}
    /\ SeedIfNeeded(reading[q])
    /\ reading' = [reading EXCEPT ![q] = {}]
    /\ UNCHANGED <<canon, onb, deleting, saving>>

\* PUT /me/onboarding-preferences up to the user's lock.  From its first statement it holds the
\* identity's lock (stored_user with create), which placing and rating need too.
SaveBegin(o) ==
    /\ ~saving.busy
    /\ saving' = [busy |-> TRUE, answers |-> o, pairs |-> PairsToSeed(o)]
    /\ UNCHANGED <<rowVars, canon, onb, deleting, reading>>

\* The answers and what is seeded from them are committed together.
SaveCommit ==
    /\ saving.busy
    /\ onb' = saving.answers
    /\ SeedIfNeeded(saving.pairs)
    /\ saving' = NoSave
    /\ UNCHANGED <<canon, deleting, reading>>

\* A batch names each canonical course at most once; p.pos = 0 is "no position".
Placement == [course : Course, tier : PlacementTiers, pos : 0 .. Cardinality(Course)]

PlaceCourse(t, p) == PlaceAt(t, canon[p.course], p.tier, p.pos)

\* PUT /rankings/tiers with one placement.
PlaceInTiers(p) ==
    /\ ~saving.busy
    /\ StageAndCommit(PlaceCourse(table, p), comparisons, rounds, proj)
    /\ UNCHANGED <<canon, onb, requestVars>>

\* PUT /rankings/tiers with two placements, applied in their order.
PlaceTwoInTiers(p, q) ==
    /\ ~saving.busy
    /\ canon[p.course] # canon[q.course]
    /\ StageAndCommit(PlaceCourse(PlaceCourse(table, p), q), comparisons, rounds, proj)
    /\ UNCHANGED <<canon, onb, requestVars>>

\* A decisive comparison moves the preferred course of {a, b} above the other.
Refined(t, a, b, result) ==
    CASE result = "course_a" -> Prefer(t, a, b)
      [] result = "course_b" -> Prefer(t, b, a)
      [] OTHER -> t

\* POST /rankings/comparisons
CompareCourses(x, y, result) ==
    LET a == canon[x]
        b == canon[y]
    IN  /\ a # b
        /\ table[a].tier = table[b].tier
        /\ table[a].tier \in RankedTiers
        /\ Cardinality(comparisons) < MaxComparisons
        /\ StageAndCommit(Refined(table, a, b, result),
                          AddComparison(comparisons, {a, b}, Preferred(a, b, result)),
                          rounds, proj)
        /\ UNCHANGED <<canon, onb, requestVars>>

\* The comparison a rating request may carry: with a course, or none.
Refinements == {[with |-> NoCourse, result |-> "none"]} \cup [with : Course, result : Outcome]

\* Rows and comparisons after PUT /course-ratings/{c} has placed c in tier k,
\* and then applied the comparison m.
PlacedRows(c, k) == AppendTo(MergeIdentity(table, c, IdentityOf(c)), c, k)

RatedRows(c, k, m) ==
    IF m.with = NoCourse THEN PlacedRows(c, k)
    ELSE Refined(PlacedRows(c, k), c, canon[m.with], m.result)

RatedComparisons(c, m) ==
    IF m.with = NoCourse THEN comparisons
    ELSE AddComparison(comparisons, {c, canon[m.with]}, Preferred(c, canon[m.with], m.result))

\* The comparison is accepted only between two rows of the chosen tier.
RefinementAccepted(c, k, m) ==
    m.with # NoCourse => /\ canon[m.with] # c
                         /\ Cardinality(comparisons) < MaxComparisons
                         /\ PlacedRows(c, k)[canon[m.with]].tier = k

\* Where the current rating of the identity is kept: on the canonical course
\* if it has one there, else on any course mapped to it.
RatedAs(c) ==
    LET rated == {a \in IdentityOf(c) : proj[a] # NoProjection}
    IN  IF c \in rated THEN {c} ELSE rated

\* PUT /course-ratings/{x} revising a rating: its round is reused, moved to the
\* canonical course if need be.  (Untouched, when nothing about it changes, is its own place.)
ReviseRating(x, k, m) ==
    LET c == canon[x]
    IN  /\ ~saving.busy
        /\ RefinementAccepted(c, k, m)
        /\ \E a \in RatedAs(c) :
            \E rs \in Touched(rounds, proj[a].round, c) :
                StageAndCommit(RatedRows(c, k, m), RatedComparisons(c, m), rs,
                               IF a = c THEN proj ELSE [proj EXCEPT ![a] = NoProjection])
        /\ UNCHANGED <<canon, onb, requestVars>>

\* PUT /course-ratings/{x} with no current rating: a new private round.
CreateRating(x, k, m) ==
    LET c == canon[x]
    IN  /\ ~saving.busy
        /\ RefinementAccepted(c, k, m)
        /\ RatedAs(c) = {}
        /\ \E r \in FreshRounds : \E rs \in Touched(rounds, r, c) :
                StageAndCommit(RatedRows(c, k, m), RatedComparisons(c, m), rs, proj)
        /\ UNCHANGED <<canon, onb, requestVars>>

\* PATCH of a rating-owned round (round history or rating details), with no lock of the user:
\* nothing of the ranking changes but the place of the round in updated_at.
PatchRatingRound(r) ==
    /\ rounds[r].course # NoCourse
    /\ rounds' \in Touched(rounds, r, rounds[r].course)
    /\ UNCHANGED <<table, comparisons, proj, snap, canon, onb, requestVars>>

\* delete_round up to the lock: the round's course is read here.
DeleteRoundBegin(q, r) ==
    /\ deleting[q] = Idle
    /\ rounds[r].course # NoCourse
    /\ deleting' = [deleting EXCEPT ![q] = [round |-> r, course |-> rounds[r].course]]
    /\ UNCHANGED <<rowVars, canon, onb, reading, saving>>

\* Deviation: the evidence is deleted without a new snapshot.
DeleteRoundUnstaged(q) ==
    LET r == deleting[q].round
        c == deleting[q].course
    IN  /\ deleting[q] # Idle
        /\ deleting' = [deleting EXCEPT ![q] = Idle]
        /\ table' = Normalized(DropRows(table, {c}))
        /\ comparisons' = {x \in comparisons : c \notin x.pair}
        /\ rounds' = Removed(rounds, r)
        /\ proj' = [d \in Course |-> IF proj[d].round = r THEN NoProjection ELSE proj[d]]
        /\ UNCHANGED <<snap, canon, onb, reading, saving>>

\* The rest of it, under the lock, with the course as it was read: the ranking
\* evidence of that course goes, and the round with the projection it owns.
DeleteRoundCommit(q) ==
    LET r == deleting[q].round
        c == deleting[q].course
    IN  /\ deleting[q] # Idle
        /\ deleting' = [deleting EXCEPT ![q] = Idle]
        /\ StageAndCommit(DropRows(table, {c}),
                {x \in comparisons : c \notin x.pair},
                Removed(rounds, r),
                [d \in Course |-> IF proj[d].round = r THEN NoProjection ELSE proj[d]])
        /\ UNCHANGED <<canon, onb, reading, saving>>

\* The connection is lost before the commit: the transaction rolls back.
DeleteRoundAbort(q) ==
    /\ deleting[q] # Idle
    /\ deleting' = [deleting EXCEPT ![q] = Idle]
    /\ UNCHANGED <<rowVars, canon, onb, reading, saving>>

\* confirm_mapping (an administrator's script): a source course is mapped once.
ConfirmMapping(a, b) ==
    /\ a \in Mappable /\ a # b
    /\ canon[a] = a
    /\ canon' = [canon EXCEPT ![a] = b]
    /\ UNCHANGED <<rowVars, onb, requestVars>>

Next ==
    \/ \E q \in Request : GetRankingBegin(q)
    \/ \E q \in Request : GetRankingCommit(q)
    \/ \E o \in Answers : SaveBegin(o)
    \/ SaveCommit
    \/ \E p \in Placement : PlaceInTiers(p)
    \/ MaxBatch = 2 /\ \E p, q \in Placement : PlaceTwoInTiers(p, q)
    \/ \E x, y \in Course, result \in Outcome : CompareCourses(x, y, result)
    \/ \E x \in Course, k \in RatingTier, m \in Refinements : ReviseRating(x, k, m)
    \/ \E x \in Course, k \in RatingTier, m \in Refinements : CreateRating(x, k, m)
    \/ \E r \in RoundId : PatchRatingRound(r)
    \/ \E q \in Request, r \in RoundId : DeleteRoundBegin(q, r)
    \/ \E q \in Request : DeleteRoundCommit(q)
    \/ \E q \in Request : DeleteRoundAbort(q)
    \/ \E a, b \in Course : ConfirmMapping(a, b)

Spec == Init /\ [][Next]_vars
-----------------------------------------------------------------------------
(***************************************************************************)
(* Properties.                                                             *)
(***************************************************************************)

\* Every variable holds the rows its table can hold, and the primary keys
\* that break ties are distinct.
TypeOK ==
    /\ WellFormed(table)
    /\ comparisons \subseteq Comparison
    /\ rounds \in [RoundId -> RoundRow]
    /\ proj \in [Course -> Projection]
    /\ snap.entries \in [Course -> Entry]
    /\ snap.unranked \subseteq Course
    /\ canon \in [Course -> Course]
    /\ onb \in Seq(HeadToHead)
    /\ deleting \in [Request -> [round : RoundId \cup {NoRound}, course : Course \cup {NoCourse}]]
    /\ reading \in [Request -> SUBSET SeedPair]
    /\ saving \in [busy : BOOLEAN, answers : Seq(HeadToHead), pairs : SUBSET SeedPair]

\* Every commit leaves each tier numbered without ties or gaps, whatever
\* mixture of moves, merges, deletions and seedings came before.
DensePositions ==
    \A c \in Assigned(table) :
        /\ table[c].pos \in 1 .. Cardinality(InTier(table, table[c].tier))
        /\ \A d \in InTier(table, table[c].tier) : d # c => table[d].pos # table[c].pos

\* The latest snapshot is what the placements and the comparisons say now: no
\* handler changes either and commits without staging a new snapshot.
SnapshotCurrent == snap = SnapshotOf(table, comparisons)

\* A current rating is the rating of an entry of the latest snapshot, and the
\* rating-owned round it points to exists and is for that same course, through
\* not_sure moves, identity merges and deletions that had read an older state.
ProjectionsFollowSnapshot ==
    \A c \in Course : proj[c] # NoProjection =>
        /\ snap.entries[c] # NoEntry
        /\ proj[c].tier = snap.entries[c].tier
        /\ proj[c].rating = snap.entries[c].rating
        /\ proj[c].confidence = snap.entries[c].confidence
        /\ proj[c].round \in RatingRoundsOf(rounds, c)

\* No round owns the current rating of two courses (uq_user_course_ratings_round).
OneRatingPerRound ==
    \A c, d \in Course : c # d /\ proj[c].round = proj[d].round => proj[c].round = NoRound

\* A ranked course for which a rating-owned round is kept has a current rating.
RatedCoursesAreProjected ==
    \A c \in RankedCourses(table) : RatingRoundsOf(rounds, c) # {} => proj[c] # NoProjection

\* What is derived from placements, comparisons and rounds agrees with them and with itself
\* after every commit: the positions, the snapshot, the current ratings, and the rounds that own
\* them.
DerivedRowsAgree ==
    /\ DensePositions /\ SnapshotCurrent
    /\ ProjectionsFollowSnapshot /\ OneRatingPerRound /\ RatedCoursesAreProjected

\* Along the list of finished courses ratings never go up, and each one lies in
\* the band of its tier.
RatingsFollowRank ==
    \A c \in RankedCourses(table) :
        LET e == snap.entries[c] IN
        /\ e.rating \in TierBand[e.tier].low .. TierBand[e.tier].high
        /\ \A d \in RankedCourses(table) :
            LET f == snap.entries[d] IN
            ~e.incomplete /\ ~f.incomplete /\ e.rank < f.rank => e.rating >= f.rating

\* Onboarding placeholders never shift the rating of a finished course: it is
\* what it would be if the placeholders were not there.
PlaceholdersDoNotShift ==
    LET finished == [c \in Course |-> IF table[c].incomplete THEN NoRow ELSE table[c]]
    IN  \A c \in RankedCourses(finished) : snap.entries[c].rating = PersonalRating(finished, c)

\* A rating says where the user has put the course, and nothing else moves it.
RatingsAreEarned == RatingsFollowRank /\ PlaceholdersDoNotShift

\* Two rows that no request has moved keep their order.
SameOrder(S) ==
    \A c, d \in S :
        /\ table'[c].tier = table[c].tier
        /\ table[c].tier = table[d].tier /\ table[c].pos < table[d].pos
            => table'[c].pos < table'[d].pos

\* The commit of a request that seeds from the pairs ps, if it needs to.
SeedsFrom(ps) ==
    \/ \E q \in Request : reading[q] # {} /\ reading'[q] = {} /\ ps = reading[q]
    \/ saving.busy /\ ~saving'.busy /\ ps = saving.pairs

PairsRead == {reading[q] : q \in Request} \cup {saving.pairs}

SeedingStep == \E ps \in PairsRead : SeedsFrom(ps)

\* A seeding never reshapes what the user finished ranking: tier, relative
\* order, rating and current rating of every finished course stay.
SeedingKeepsFinished ==
    [][SeedingStep =>
        LET finished == {c \in Assigned(table) : ~table[c].incomplete}
        IN  /\ SameOrder(finished)
            /\ \A c \in finished : /\ ~table'[c].incomplete
                                   /\ snap'.entries[c].rating = snap.entries[c].rating
                                   /\ proj'[c].round = proj[c].round]_vars

\* Seeding settles: after one, whoever has read the same pairs has nothing to seed from them.
SeedingSettles == [][\A ps \in PairsRead : SeedsFrom(ps) => ~SeedNeeded(ps)']_vars

\* A seeding adds placeholders, once for the same answers, and leaves everything else alone,
\* whatever was placed, rated, deleted or answered since they were read.
SeedingIsHarmless == SeedingKeepsFinished /\ SeedingSettles

\* The preferred course of a comparison is above the other one when the request commits.
EndsAbove(x) == \A l \in x.pair \ {x.preferred} : table'[x.preferred].pos < table'[l].pos

\* Whoever records a decisive comparison, on the ranking screen or with a rating, the preferred
\* course ends up above the other one.  (Seeds go by their wins: a favourite may lose others.)
PreferredEndsAbove ==
    [][~SeedingStep => \A x \in comparisons' \ comparisons : x.preferred # NoCourse => EndsAbove(x)]_vars

\* Several courses of one identity are ranked: its next rating merges their rows, and the numbers
\* that are left may be ambiguous.
Doubled(c) == Cardinality(IdentityOf(c) \cap Assigned(table)) > 1

\* The same, unless a course that is compared was ranked more than once.
PreferredEndsAboveUnlessDoubled ==
    [][~SeedingStep => \A x \in comparisons' \ comparisons :
        x.preferred # NoCourse /\ (\A c \in x.pair : ~Doubled(c)) => EndsAbove(x)]_vars

\* A comparison that changes no tier moves the preferred course and no other.
ComparisonMovesOnlyPreferred ==
    [][~SeedingStep /\ (\A c \in Course : table'[c].tier = table[c].tier) =>
        \A x \in comparisons' \ comparisons : SameOrder(Assigned(table) \ {x.preferred})]_vars

\* A comparison does what the user has asked, and nothing else.
ComparisonsObeyed == PreferredEndsAboveUnlessDoubled /\ ComparisonMovesOnlyPreferred

\* The current rating of course c is owned by round r, or by one of its rounds that says it was
\* written later.
OwnedBy(r, c) ==
    LET owner == proj'[c].round
    IN  \/ owner = r
        \/ owner \in RatingRoundsOf(rounds', c) /\ rounds'[owner].age < rounds'[r].age

\* When a rating creates a round, or moves one to the canonical course, the course is finished and
\* has a current rating when the request commits, and nothing of its identity is left elsewhere.
\* That round owns it; only another round that was kept of the course may be preferred to it, one
\* whose writer began later.
RatedRoundOwnsRating ==
    [][\A r \in RoundId :
        LET c == rounds'[r].course IN
        c \notin {NoCourse, rounds[r].course} =>
            /\ OwnedBy(r, c)
            /\ table'[c].tier \in RankedTiers /\ ~table'[c].incomplete
            /\ \A a \in IdentityOf(c) \ {c} :
                    proj'[a] = NoProjection /\ a \notin Assigned(table')]_vars

\* The rows of a table as lists: which course is above which, however far and by whatever numbers.
ListsOf(t) ==
    [tier |-> [c \in Course |-> t[c].tier],
     above |-> {p \in Course \X Course : /\ t[p[1]].tier # "none" /\ t[p[1]].tier = t[p[2]].tier
                                         /\ Before(t, p[1], p[2])},
     seeded |-> {c \in Course : t[c].incomplete}]

Lists == INSTANCE RankedLists WITH lists <- ListsOf(table), canonical <- canon,
                                   SeedTier <- "fairway", NoTier <- "none"

\* However the rows are numbered, renumbered, merged and renamed, what a user sees of a request
\* is its effect on lists, and the comparison it records is the one it follows: RankedLists.
ListsKeepPromise == Lists!ListSpec

\* Reading the ranking does not undo the order the user has given: courses
\* that had a place keep their order.
ReadKeepsOrder == [][reading' # reading => SameOrder(Assigned(table))]_vars
=============================================================================
