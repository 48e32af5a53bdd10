SPECIFICATION Spec
CONSTANTS
  MAX_COMMAND_ENTRIES = 2
  MAX_COMMAND_SIZE = 8
  EntryIds = {0, 1, 2}
  GroupIds = {0, 1}
  Requests <- MC_Requests
  Chunks <- MC_Chunks
  TimeMod = 4
  CounterMod = 1
  JumpTargets = {0, 2}
INVARIANT TimelineSound
PROPERTIES CycleDrains EarliestFirst ReservedProtected AcceptedInTime
