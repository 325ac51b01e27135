CONSTANTS
    A = A
    B = B
    C = C
    Course <- Courses
    NoCourse = NoCourse
    NoRound = NoRound
    Answers <- OneAnswer
    Mappable = {}
    PlacementTiers = {"fairway", "green"}
    RoundId = {r1}
    Request = {d1}
    MaxComparisons = 2
    MaxBatch = 1
SYMMETRY RoundKeys
SPECIFICATION Spec
PROPERTIES
    ReadKeepsOrder
