SPECIFICATION FairSpec
CONSTANTS
  MaxRequests = 6
  Sites <- MCSites
  MaxSubrequests = 3
  MaxFaults = 1
INVARIANTS InOrder NothingLost CountExact
PROPERTIES EveryRequestEnds
CHECK_DEADLOCK FALSE
