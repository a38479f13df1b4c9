SPECIFICATION ServiceFairSpec
CONSTANTS
  Procs = {p1, p2}
  Recovery = 2
  Sub = 2
  Manual = FALSE
  Routes = {"login", "signup", "refresh", "logout", "me", "list", "account", "reset", "health"}
INVARIANTS ServiceInv BlocksOnlyAfterFailure OnlyOutagesEngage
PROPERTIES WindowNotExtended TrafficResumes OutageNotBlamedOnClient
