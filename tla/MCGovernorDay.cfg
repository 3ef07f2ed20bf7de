\* One quota day (Daily 3: soft 0.4, essential 0.7, hard 0.8, one call of
\* reserve) and four calls of three classes that together want more than it
\* holds; one fault.
CONSTANTS
  user = user  push = push  feed1 = feed1  feed2 = feed2
  Calls = {user, push, feed1, feed2}
  Rank <- RankOf
  Daily = 3  Hard = 2  Essential = 2  Soft = 1  ReserveCalls = 1
  ConcLimit = 2  Burst = 1  RateReserve <- NoReserve
  Carry = 1  MaxDay = 0  MaxFaults = 1
SYMMETRY FeedSymmetry
SPECIFICATION Spec
INVARIANTS CeilingHolds
PROPERTIES LedgerSpec
CHECK_DEADLOCK FALSE
