SPECIFICATION IntakeFairSpec
CONSTANTS
  Keys = {k1}
  Procs = {p1, p2}
  Callers = {p1, p2}
  MaxAttempts = 2
  Window = 3
  CountCap = 4
  NoKey = NoKey
  Limit = 2
  Width = 2
  MaxAge = 1
  HitCap = 4
  BodyLimit = 1
  MaxDecompressed = 2
  MaxSize = 3
  EnableGzip = TRUE
INVARIANTS IntakeInv AttemptsBounded WithinBucketLimit WholeBodyWithinLimit
PROPERTIES TimedLockoutEnds RateLimitEnds
CHECK_DEADLOCK FALSE
