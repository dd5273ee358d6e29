\* Reload, the upgrade of the executable and its rollback, quick and graceful shutdown.
SPECIFICATION FairSpec
CONSTANTS
  MaxProcs = 3
  WorkerProcesses = 1
  Helpers = {}
  Operator = {"HUP", "TERM", "QUIT", "WINCH", "USR2"}
  MaxSignals = 2
  MaxCrashes = 1
  MaxSpawnFails = 0
  MaxRefused = 1
  DelayCap = 1600
PROPERTIES CrashedReplaced TerminateEnds QuitEnds 
CHECK_DEADLOCK FALSE
