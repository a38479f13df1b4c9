SPECIFICATION Spec
CONSTANTS
  Ids = {1, 2, 3}
  Emails = {"admin", "other"}
  AdminEmail = "admin"
  Passwords = {"a", "b"}
  Procs = {p1, p2}
  NoId = 0
INVARIANTS CredentialsInv SeededAdmin
PROPERTIES ReplacedKnowingly
CHECK_DEADLOCK FALSE
