SPECIFICATION Spec
CONSTANTS
  w1 = w1
  w2 = w2
  a = a
  b = b
  Workers = {w1, w2}
  r1 = r1
  r2 = r2
  r3 = r3
  Requests = {r1, r2, r3}
  NoReq = noreq
  NoWorker = noworker
  Keys = {a, b}
  KeyLen <- MCKeyLen
  NoKey = nokey
  ReqZones = {"addr", "server"}
  Rate <- MCRate
  ConnZones = {"caddr", "cserver"}
  Visits <- MCVisits
  MaxBurst <- MCMaxBurst
  MaxConn <- MCMaxConn
  Shared = {"addr"}
  NodesPerZone = 2
  Start = 100000
  ClockSteps = {60000}
  MaxTicks = 1
  MaxFaults = 1
SYMMETRY Perms
INVARIANTS PinsExact BurstBounded ChargedOnce ConnExact
CHECK_DEADLOCK FALSE
