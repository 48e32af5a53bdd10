SPECIFICATION FairSpec
CONSTANTS
  MAX_COMMAND_ENTRIES = 2
  MAX_COMMAND_SIZE = 8
  EntryIds = {0, 1}
  GroupIds = {0, 1}
  Requests <- MC_Counted
  Chunks <- MC_OneChunk
  TimeMod = 3
  CounterMod = 2
  JumpTargets = {}
PROPERTIES CycleAccounting FailedCommandChangesNothing PendingHandled
