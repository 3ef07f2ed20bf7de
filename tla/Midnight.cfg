\* One call in flight across midnight.
CONSTANTS
  user = user  push = push  feed1 = feed1  feed2 = feed2
  Calls = {user}
  Rank <- RankOf
  Daily = 3  Hard = 2  Essential = 2  Soft = 1  ReserveCalls = 1
  ConcLimit = 2  Burst = 1  RateReserve <- NoReserve
  Carry = 0  MaxDay = 1  MaxFaults = 0
SPECIFICATION Spec
INVARIANTS StopsOnlyTheRefusedDay
CHECK_DEADLOCK FALSE
