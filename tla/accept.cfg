SPECIFICATION FairSpec
CONSTANTS
  w1 = w1
  w2 = w2
  w3 = w3
  Workers = {w1, w2}
  NoPid = nopid
  NListeners = 2
  ConnectionN = 16
  InitFree = 2
  MultiAccept = TRUE
  Quitters = {w1}
  MaxArrivals = 2
  MaxCrashes = 1
  MaxErrors = 1
INVARIANTS OwnerInv HeldMeansListening BackOffIsNotDeaf
PROPERTIES EveryConnectionTaken
CHECK_DEADLOCK FALSE
