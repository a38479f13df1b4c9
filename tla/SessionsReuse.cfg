SPECIFICATION CSpec
CONSTANTS
  Users = {u1}
  Families = {f1}
  Jtis = {j1, j2, j3}
  Procs = {p1}
  RefreshTTL = 2
  MarkTTL = 2
  JwtTTL = 2
  Operations <- RouteOperations
  None = None
SYMMETRY Symmetry
INVARIANTS ReuseKillsFamily
CHECK_DEADLOCK FALSE
