SPECIFICATION FairSpec
CONSTANTS
  REPEAT_COUNT = 2
  INITIAL_WAIT_SEC = 3
  BURN_DURATION_SEC = 2
  POST_WAIT_SEC = 2
  SAVE_INTERVAL_SEC = 2
  TimeMod = 16
  MaxDelay = 2
  Jumps <- JumpsBothWays
  Faults <- NoFaults
  MaxCrashes = 2
  MaxRequests = 2
  MaxJumps = 1
  MaxFaults = 0
CHECK_DEADLOCK FALSE
INVARIANTS
  BurnsExact RejectedOnlyInRace RequestStopsBurning OutputsLeftSafe
PROPERTIES CompletionIsFinal EventuallyComplete
