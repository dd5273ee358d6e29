\* An upgrade, the old workers sent away, brought back with SIGHUP, then a shutdown.
SPECIFICATION Spec
CONSTANTS
  MaxProcs = 3
  WorkerProcesses = 1
  Helpers = {}
  Operator = {"HUP", "QUIT", "WINCH", "USR2"}
  MaxSignals = 4
  MaxCrashes = 0
  MaxSpawnFails = 0
  MaxRefused = 0
  DelayCap = 1600
INVARIANTS NoOrphans
CHECK_DEADLOCK FALSE
