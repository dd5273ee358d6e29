SPECIFICATION ConnSpec
CONSTANTS
  c1 = c1
  c2 = c2
  c3 = c3
  Conns = {c1, c2, c3}
  Listen = listen
  None = none
  Configs <- MCConfigs
  MaxBacklog = 2
  MaxDrain = 2
  MaxTries = 2
SYMMETRY Perms
INVARIANTS ListsExact OwnEvents DrainedBeforeRefused
