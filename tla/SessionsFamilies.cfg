SPECIFICATION HSpec
CONSTANTS
  Users = {u1}
  Families = {f1, f2}
  Jtis = {j1, j2}
  Procs = {p1, p2}
  RefreshTTL = 2
  MarkTTL = 2
  JwtTTL = 2
  Operations <- AllOperations
  None = None
SYMMETRY Symmetry
INVARIANT HInv
PROPERTIES LogoutKillsUnraced
CHECK_DEADLOCK FALSE
