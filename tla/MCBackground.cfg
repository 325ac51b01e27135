CONSTANTS
  Accounts = {a, b}
  Nobody = Nobody
  Calls = 2
  Photo = {p1}
  Uploaded = {}
  Admin = {a1}
  Scorer = {s1, s2}
  NoOne = NoOne
  MaxAttempts = 2
SPECIFICATION BackgroundSpec
CHECK_DEADLOCK FALSE
INVARIANTS TypesOK NoStrayToken AnsweredMeansStored
PROPERTIES SignOutEnds NoPhotoIsStranded SupersededAttemptWritesNothing
