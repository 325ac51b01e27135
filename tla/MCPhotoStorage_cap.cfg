CONSTANTS
    p1 = p1
    p2 = p2
    p3 = p3
    d1 = d1
    Photo = {p1, p2, p3}
    Round = {d1}
    Attached <- OneLoose
    NoRound = NoRound
    Request = {r1, r2, r3}
    NoRequest = NoRequest
    MaxPhotos = 1
    MaxTries = 3
    MaxConfirms = 1
    Faults = {}
SPECIFICATION Spec
CHECK_DEADLOCK FALSE
SYMMETRY Requests
INVARIANTS
    RoundCap
