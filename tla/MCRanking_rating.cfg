CONSTANTS
    A = A
    B = B
    C = C
    Course <- Courses
    NoCourse = NoCourse
    NoRound = NoRound
    Answers <- NoAnswers
    Mappable <- Courses
    PlacementTiers = {"fairway", "green", "not_sure"}
    RoundId = {r1, r2}
    Request = {d1, d2}
    MaxComparisons = 1
    MaxBatch = 1
    Stories = {"rates", "merges"}
    MaxCount = 60
SYMMETRY AllKeys
SPECIFICATION StorySpec
INVARIANTS
    TypeOK
    DerivedRowsAgree
PROPERTIES
    ListsKeepPromise
    ComparisonsObeyed
    RatedRoundOwnsRating
