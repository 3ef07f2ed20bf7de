\* What is done is done: a lane, a planner without slots to serve and an
\* e-mail come to rest.
SPECIFICATION WorkersSpec
CHECK_DEADLOCK FALSE
CONSTANTS
  \* two executions of one lane, in two modes, over three pages
  Runs = {w1, w2}
  Modes = {full, configured}
  LastPage = 3
  nobody = nobody
  \* two slots, intervals or requests of three lanes, of which the planner starts
  \* one at a time
  MaxRuns = 1
  MaxQueue = 2
  MaxMarks = 2
  \* an e-mail and two deliveries of its message
  Deliveries = {d1, d2}
  MaxAttempts = 2
  MaxRetries = 3
  MaxDeaths = 1
INVARIANTS WorkersTypeOK ScanIsWhole ZombieStopsAtPage SentAgainOnlyUnanswered
PROPERTIES LaneIsALog LaneIsFreed EveryLaneIsServed EveryMailSettles
