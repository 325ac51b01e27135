CONSTANTS
    A = A
    B = B
    C = C
    Course <- Courses
    NoCourse = NoCourse
    NoRound = NoRound
    Answers <- NoAnswers
    Mappable = {A}
    PlacementTiers = {"fairway", "green"}
    RoundId = {r1}
    Request = {d1}
    MaxComparisons = 1
    MaxBatch = 1
SYMMETRY TargetKeys
SPECIFICATION Spec
PROPERTIES
    PreferredEndsAbove
