SPECIFICATION Spec
CONSTANTS
  Users = {u1, u2}
  Procs = {p1, p2}
  Perms <- DisablePerms
  Mixes <- DisableOnly
  Nobody = Nobody
SYMMETRY Symmetry
INVARIANT AnAdminRemains
CHECK_DEADLOCK FALSE
