\* Two processes, one consent, two access tokens, a window of one refresh, one RedisError.
CONSTANTS
  Workers = {w1, w2}
  MaxTokens = 2
  MaxCreds = 1
  MaxErrors = 1
  Limit = 1
  nobody = nobody
SYMMETRY AnyWorker
CHECK_DEADLOCK FALSE
SPECIFICATION Spec
INVARIANTS TypeOK SingleFlight NoSecondRefresh
PROPERTIES GoodTokenStays
