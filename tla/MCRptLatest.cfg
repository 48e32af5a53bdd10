SPECIFICATION Spec
CONSTANTS
  BACKUP_COUNT = 2
  BootMod = 16
  BootTime = 1
  Faults <- NoFaults
  Tears = TRUE
  MaxCrashes = 2
  MaxTime = 8
CHECK_DEADLOCK FALSE
INVARIANT LatestDataLoaded
