CONSTANTS
  FeaturedUsers = {a}
  Workers = {w1}
  Deployments = {{w1}}
  Catalogue = {"c", "d"}
  Local = {"c"}
  InState = {"c", "d"}
  LastSequence = 3
  SpendLimit = 1
  FeaturedRequests = 3
  MaxClears = 0
SPECIFICATION FeaturedSpec
CHECK_DEADLOCK FALSE
INVARIANTS NeverWaitsForItself
