SPECIFICATION FairSpec
CONSTANTS
  r1 = r1
  r2 = r2
  k1 = k1
  k2 = k2
  k3 = k3
  Requests = {r1, r2}
  Manager = manager
  Loader = loader
  Keys = {k1, k2}
  NoKey = nokey
  MaxNodes = 2
  MaxSize = 2
  MinUses = 1
  UseLock = TRUE
  UseStale = FALSE
  CacheErrors = FALSE
  InitialFiles <- OneFile
  CrashPoints <- Busy
  MaxStarts = 2
  MaxCrashes = 1
  MaxTicks = 1
PROPERTIES InactiveExpires
CHECK_DEADLOCK FALSE
