SPECIFICATION Spec
CONSTANTS
  REPEAT_COUNT = 3
  INITIAL_WAIT_SEC = 4
  BURN_DURATION_SEC = 2
  POST_WAIT_SEC = 2
  SAVE_INTERVAL_SEC = 2
  TimeMod = 16
  MaxDelay = 2
  Jumps <- NoJumps
  Faults <- AllFaults
  MaxCrashes = 2
  MaxRequests = 0
  MaxJumps = 0
  MaxFaults = 3
CHECK_DEADLOCK FALSE
INVARIANT LeopSound
PROPERTIES BurnLastsItsTime ProgressIsKept
