SPECIFICATION CSpec
CONSTANTS
  Users = {u1}
  Families = {f1}
  Jtis = {j1, j2, j3}
  Procs = {p1, p2}
  RefreshTTL = 2
  MarkTTL = 2
  JwtTTL = 2
  Operations <- RouteOperations
  None = None
SYMMETRY Symmetry
PROPERTIES LogoutKillsFamilies
CHECK_DEADLOCK FALSE
