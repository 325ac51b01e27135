CONSTANTS
    A = A
    B = B
    C = C
    Course <- Courses
    NoCourse = NoCourse
    NoRound = NoRound
    Answers <- Corrected
    Mappable = {}
    PlacementTiers = {"fairway", "not_sure"}
    RoundId = {r1}
    Request = {d1}
    MaxComparisons = 1
    MaxBatch = 1
    Stories = {"seeds", "batches", "scale"}
    MaxCount = 60
SPECIFICATION StorySpec
CHECK_DEADLOCK FALSE
INVARIANTS
    RatingsAreEarned
    ScaleHolds
PROPERTIES
    SeedingIsHarmless
