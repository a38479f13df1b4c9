SPECIFICATION FairSpec
CONSTANTS
  Keys = {k1}
  Procs = {p1}
  MaxAttempts = 2
  Window = 2
  CountCap = 4
  NoKey = NoKey
PROPERTIES LockoutEnds
CHECK_DEADLOCK FALSE
