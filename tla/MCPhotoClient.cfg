CONSTANTS
    p1 = p1
    p2 = p2
    p3 = p3
    d1 = d1
    Photo = {p1, p2}
    Round = {d1}
    Attached <- OneRound
    NoRound = NoRound
    Request = {r1, r2}
    NoRequest = NoRequest
    MaxPhotos = 1
    MaxTries = 3
    MaxConfirms = 2
    Faults = {"delete", "copy", "commit", "crash"}
    Tiers = {green, rough}
    NoTier = NoTier
    Outings = {o1, o2}
    Details = {shared, private}
    Offered = shared
    Private = private
    Photos = {f1, f2}
    MAX_PHOTOS_PER_ROUND = 2
SPECIFICATION ClientSpec
CHECK_DEADLOCK FALSE
SYMMETRY Alike
INVARIANTS
    TypesOK
    RoundCap
    RowHasObject
    NoOrphan
    NothingIsLostSilently
