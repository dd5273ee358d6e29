SPECIFICATION Spec
CONSTANTS
  r1 = r1
  r2 = r2
  r3 = r3
  Requests = {r1, r2}
  NoReq = noreq
  Configs <- MCConfigs
  Connections = {1, 2}
  Answers <- MCAnswers
  MaxFaults = 3
  MaxTicks = 1
SYMMETRY Perms
INVARIANTS ConnectionsOwned OwnAnswers IdleAreValid NoServerTwice
PROPERTIES NoRetryAfterHeader
CHECK_DEADLOCK FALSE
