\* Every signal but SIGTERM and the upgrade; a crash, a failed fork, a refused configuration,
\* a table too small for two sets of processes.
SPECIFICATION Spec
CONSTANTS
  MaxProcs = 5
  WorkerProcesses = 1
  Helpers = {"manager", "loader"}
  Operator = {"HUP", "QUIT", "WINCH", "USR1"}
  MaxSignals = 2
  MaxCrashes = 1
  MaxSpawnFails = 1
  MaxRefused = 1
  DelayCap = 1600
INVARIANTS NoOrphans ShutdownReachesAll OldWorkersRetired NeverOutOfService NothingForgotten
CHECK_DEADLOCK FALSE
