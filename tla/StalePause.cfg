CONSTANTS
  Workers = {w1, w2}
  MaxTokens = 3
  MaxCreds = 2
  MaxErrors = 0
  Limit = 2
  nobody = nobody
SYMMETRY AnyWorker
SPECIFICATION Spec
INVARIANTS PausedMeansRevoked
