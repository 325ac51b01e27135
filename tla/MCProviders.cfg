CONSTANTS
  Payloads = {{1}, {1, 2}, {3}}
  PlanRequests = 4
  CostLimit = 1
  FeaturedUsers = {a}
  a = a
  Workers = {w1, w2}
  w1 = w1
  w2 = w2
  Deployments = {{w1}, {w1, w2}}
  Catalogue = {"c", "d"}
  Local = {"c"}
  InState = {"c", "d"}
  LastSequence = 3
  SpendLimit = 1
  FeaturedRequests = 4
  MaxClears = 1
  Subjects = {u1}
  u1 = u1
  Capacity = 3
  Refill = 2
  Cost = 3
  MinTtl = 1
  DailyQuota = 1
  DayLength = 2
  RateRequests = 2
  MaxTick = 3
  MaxSetBack = 1
  caller = caller
  other = other
  here = here
  there = there
  Callers = {caller, other}
  Processes = {here, there}
  ProcessOf <- ProcessOfEach
  Threshold = 1
  HeroWrites = 2
  Moves = 1
SPECIFICATION MCSpec
CHECK_DEADLOCK FALSE
INVARIANTS TypesOK ItineraryFitsPlan PlanSpendHolds FeaturedWeekHolds FeaturedSpendHolds
  MetersHold HeroesSettle
PROPERTY LockKeepsPromise
