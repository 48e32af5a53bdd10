SPECIFICATION Spec
CONSTANTS
  BACKUP_COUNT = 2
  BootMod = 16
  BootTime = 1
  Faults <- AllFaults
  Tears = TRUE
  MaxCrashes = 3
  MaxTime = 6
CHECK_DEADLOCK FALSE
INVARIANT OpsSound
PROPERTIES FileMovesForward TimeNeverGoesBack
