SPECIFICATION LiveSpec
CONSTANTS
  w1 = w1
  w2 = w2
  none = none
  Workers = {w1, w2}
  MinCalls = 2
  Percent = 50
  MaxTrips = 2
  MaxWindow = 2
INVARIANTS TypeOK ProbesAreFresh NeverTripsOnThrottling
PROPERTIES Heals
