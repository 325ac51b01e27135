--------------------------- MODULE MCRankingStories ---------------------------
(***************************************************************************)
(* What a user does with rankings, as stories over the same tables: each   *)
(* takes the requests, tiers and answers that its question needs, so that  *)
(* several fit into one run.                                               *)
(***************************************************************************)
EXTENDS MCRanking, RatingScale

CONSTANT Stories  \* the stories of the run

VARIABLE story    \* the one a behaviour tells

storyVars == <<vars, story, scaleVars>>

\* How many requests are between what they have read and their commit.
UnderWay == Cardinality({q \in Request : deleting'[q] # Idle})
              + Cardinality({q \in Request : reading'[q] # {}}) + (IF saving'.busy THEN 1 ELSE 0)

\* Two placements in one request, around two questions that share a course.
Batches == INSTANCE Ranking WITH PlacementTiers <- {"fairway", "rough"}, Answers <- Overlapping,
                                 MaxBatch <- 2, MaxComparisons <- 0
\* At the front, in the middle, or without a position.
PlacesTwo == \E p, q \in {r \in Batches!Placement : r.pos <= 2} : Batches!PlaceTwoInTiers(p, q)
Places ==
    \/ PlacesTwo
    \/ \E p \in Batches!Placement : Batches!PlaceInTiers(p)
    \/ \E o \in Overlapping : Batches!SaveBegin(o)
    \/ Batches!SaveCommit
    \/ \E q \in Request : Batches!GetRankingBegin(q) \/ Batches!GetRankingCommit(q)

\* Placing, comparing and rating, with one deletion under way.
Rates ==
    \/ \E p \in {q \in Placement : q.pos <= (IF q.tier = "not_sure" THEN 0 ELSE 2)} : PlaceInTiers(p)
    \/ \E x, y \in Course, result \in Outcome : CompareCourses(x, y, result)
    \/ \E x \in Course, k \in RatingTier, m \in Refinements :
            ReviseRating(x, k, m) \/ CreateRating(x, k, m)
    \/ \E r \in RoundId : PatchRatingRound(r)
    \/ /\ \A q \in Request : deleting[q] = Idle
       /\ \E q \in Request, r \in RoundId : DeleteRoundBegin(q, r)
    \/ \E q \in Request : DeleteRoundCommit(q) \/ DeleteRoundAbort(q)
NoComparison == [with |-> NoCourse, result |-> "none"]
\* One course becomes another one while both are placed and rated and two deletions are under way.
Merges ==
    /\ \/ \E p \in {q \in Placement : q.tier # "not_sure" /\ q.pos <= 1} : PlaceInTiers(p)
       \/ \E x \in Course, k \in RatingTier :
            ReviseRating(x, k, NoComparison) \/ CreateRating(x, k, NoComparison)
       \/ \E r \in RoundId : PatchRatingRound(r) \/ \E q \in Request : DeleteRoundBegin(q, r)
       \/ \E q \in Request : DeleteRoundCommit(q) \/ DeleteRoundAbort(q)
       \/ \E a, b \in Course : ConfirmMapping(a, b)
    /\ Cardinality({c \in Course : canon'[c] # c}) <= 1
\* A favourite that is saved, seeded, corrected and seeded again, also during a deletion.
\* Only the two courses it is about are compared, and two of these requests are under way at most.
Seeds ==
    /\ \/ (\A q \in Request : deleting[q] = Idle) /\ Next
       \/ \E q \in Request : GetRankingBegin(q) \/ GetRankingCommit(q)
       \/ SaveCommit \/ \E o \in Answers : SaveBegin(o)
       \/ \E q \in Request : DeleteRoundCommit(q) \/ DeleteRoundAbort(q)
    /\ UnderWay <= 2 /\ \A x \in comparisons' : x.pair = {A, B}

StoryInit ==
    /\ Init
    /\ story \in Stories
    /\ IF story = "scale" THEN ScaleInit ELSE scaleTier = "fairway" /\ scaleSize = 1

RankingStory ==
    /\ \/ story = "rates" /\ Rates
       \/ story = "merges" /\ Merges
       \/ story = "seeds" /\ Seeds
       \/ story = "batches" /\ Places /\ UnderWay <= 1
    /\ UNCHANGED scaleVars

StoryNext ==
    /\ UNCHANGED story
    /\ \/ RankingStory
       \/ story = "scale" /\ AddCourse /\ UNCHANGED vars

StorySpec == StoryInit /\ [][StoryNext]_storyVars

=============================================================================
