SPECIFICATION FairSpec
CONSTANTS
  w1 = w1
  w2 = w2
  w3 = w3
  Procs = {w1, w2, w3}
  Master = master
  NoPid = nopid
  SpinRounds = 1
  CrashPoints <- QuietPoints
  MaxOps = 2
  MaxCrashes = 1
  MaxSemErrors = 1
INVARIANTS LockInv SleepersCounted NoLostWakeup
PROPERTIES ImplementsMutex LockReturns
CHECK_DEADLOCK FALSE
