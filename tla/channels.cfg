SPECIFICATION FairSpec
CONSTANTS
  NWorkers = 3
  MaxCrashes = 3
  MaxFails = 1
INVARIANTS ChannelsOwned TablesAgree
PROPERTIES QuitEnds
CHECK_DEADLOCK FALSE
