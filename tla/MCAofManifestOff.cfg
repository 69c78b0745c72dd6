CONSTANTS
  MaxWrites = 3
  MaxRewrites = 2
  MaxSwitches = 1
  MaxFaults = 2
  OffRewrites = TRUE
  DirSyncFails = FALSE
SPECIFICATION Spec
INVARIANT WritesToListedFile
CHECK_DEADLOCK FALSE
