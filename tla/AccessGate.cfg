SPECIFICATION Spec
CONSTANTS
  Tokens = {t1}
  Procs = {p1, p2}
  Life = 2
  Sub = 2
  MaxTime = 6
  NoToken = NoToken
INVARIANT GateInv
PROPERTIES LoggedOutRefused InactiveOnlyByRecovery
CHECK_DEADLOCK FALSE
