----------------------------- MODULE RatingScale -----------------------------
(***************************************************************************)
(* The rating scale of TierTable against what the ten-point scale promises, *)
(* for every tier and every number of courses up to MaxCount.               *)
(***************************************************************************)
EXTENDS TierTable

CONSTANT MaxCount

ASSUME MaxCountIsNat == MaxCount \in Nat

VARIABLES
    scaleTier,  \* the tier
    scaleSize   \* the number of its finished courses

scaleVars == <<scaleTier, scaleSize>>

ScaleInit == scaleTier \in RankedTiers /\ scaleSize = 1

\* One more finished course in the tier.
AddCourse == scaleSize < MaxCount /\ scaleSize' = scaleSize + 1 /\ UNCHANGED scaleTier

ScaleSpec == ScaleInit /\ [][AddCourse]_scaleVars

scale == [i \in 0 .. scaleSize - 1 |-> Rating(scaleTier, i, scaleSize)]

\* Every derived rating lies in the band of its tier (_rating), and the first
\* and the last of several courses get its two ends.
RatingsInBand ==
    /\ \A i \in DOMAIN scale : scale[i] \in TierBand[scaleTier].low .. TierBand[scaleTier].high
    /\ scaleSize > 1 => /\ scale[0] = TierBand[scaleTier].high
                        /\ scale[scaleSize - 1] = TierBand[scaleTier].low

\* Down a tier ratings never rise, and as long as the band has a tenth for each
\* course no two courses share one.
RatingsSeparateCourses ==
    \A i \in DOMAIN scale : i + 1 \in DOMAIN scale =>
        /\ scale[i] >= scale[i + 1]
        /\ scaleSize <= TierBand[scaleTier].high - TierBand[scaleTier].low + 1 => scale[i] > scale[i + 1]

\* The ten-point scale of _rating, for every number of courses up to MaxCount: ratings stay in
\* the band of the tier, reach its ends, and separate the courses as long as it has tenths.
ScaleHolds == RatingsInBand /\ RatingsSeparateCourses
=============================================================================
