CONSTANTS
  MaxWrites = 3
  MaxRewrites = 2
  MaxSwitches = 1
  MaxFaults = 2
  OffRewrites = FALSE
  DirSyncFails = FALSE
SPECIFICATION FairSpec
INVARIANTS TypeOK Loadable RollsBack
PROPERTIES RestartKeeps TurnsOn
CHECK_DEADLOCK FALSE
