\* Two quota days (Daily 3: soft 0.4, essential 0.7, hard 0.8): an interactive
\* call and two change feeds run across midnight, two faults.
CONSTANTS
  user = user  push = push  feed1 = feed1  feed2 = feed2
  Calls = {user, feed1, feed2}
  Rank <- RankOf
  Daily = 3  Hard = 2  Essential = 2  Soft = 1  ReserveCalls = 1
  ConcLimit = 2  Burst = 1  RateReserve <- NoReserve
  Carry = 0  MaxDay = 1  MaxFaults = 2
SYMMETRY FeedSymmetry
SPECIFICATION Spec
INVARIANTS TypeOK CountersExact LeakBounded WireBound PacingOvershootBounded
CHECK_DEADLOCK FALSE
