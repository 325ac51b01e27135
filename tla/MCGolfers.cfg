CONSTANTS
  ann = ann
  bob = bob
  round = round
  phone = phone
  None = None
  Users = {ann, bob}
  Rounds = {round}
  Devices = {phone}
  Owner <- MCOwner
  Requests = 3
  Slots = 1
  LogRequests = 4
  Onboarded = FALSE
  Courses = {1, 2}
  Canonical <- MCCanonical
  OldLists = 2
  Saving = 3
  Suggesters = {ann, bob, cid}
  cid = cid
  Fees = {40, 50, 60}
  Submissions = 4
SPECIFICATION MCSpec
CHECK_DEADLOCK FALSE
INVARIANTS TypesOK MutualIsAnnounced RequestsGetThrough OnePush
  ActivityFollowsRounds CountHeals DefaultIsKept ActivityFollowsLists FeesSettle
PROPERTY DeletedLeavesNothing
