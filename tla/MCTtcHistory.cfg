SPECIFICATION HSpec
CONSTANTS
  MAX_COMMAND_ENTRIES = 3
  MAX_COMMAND_SIZE = 8
  EntryIds = {0, 1}
  GroupIds = {0, 1}
  Requests <- MC_Requests
  Chunks <- MC_Chunks
  TimeMod = 3
  CounterMod = 1
  JumpTargets = {0}
INVARIANT IndexInv
PROPERTIES GroupCmdSound QueueRefined
