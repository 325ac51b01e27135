CONSTANTS
    Photo = {p1, p2}
    Uploaded = {}
    Admin = {a1, a2}
    Scorer = {s1}
    NoOne = NoOne
    MaxAttempts = 1
SPECIFICATION QuietSpec
CHECK_DEADLOCK FALSE
SYMMETRY Symmetry
INVARIANTS
    OneHero
    StatusIsExplained
PROPERTIES
    HumanDecisionStands
