CONSTANTS
    Photo = {p1, p2}
    Uploaded = {p1}
    Admin = {a1, a2}
    Scorer = {s1}
    NoOne = NoOne
    MaxAttempts = 1
SPECIFICATION Spec
CHECK_DEADLOCK FALSE
INVARIANTS
    OneHero
