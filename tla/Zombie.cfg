\* A worker stalls between its lease and its claim of the cursor.
CONSTANTS
  Runs = {w1, w2}
  Modes = {full}
  LastPage = 2
  nobody = nobody
SPECIFICATION FairSpec
PROPERTY ProgressNeverGoesBack
CHECK_DEADLOCK FALSE
