SPECIFICATION Spec
CONSTANTS
  Users = {u1, u2}
  Procs = {p1, p2}
  Perms <- DelegatePerms
  Mixes <- AllMixes
  Nobody = Nobody
SYMMETRY Symmetry
INVARIANTS TypeOK IInv DeletedIffInactive
PROPERTIES DeletedUntilRestored LastAdminLostByRace
CHECK_DEADLOCK FALSE
