SPECIFICATION Spec
CONSTANTS
  Lanes = {l1, l2}
  MaxTime = 2
  MaxEntities = 2
INVARIANT
  OneRowPerRecord
CHECK_DEADLOCK FALSE
