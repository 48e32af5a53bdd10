SPECIFICATION FairSpec
CONSTANTS
  MAX_COMMAND_ENTRIES = 6
  TimeTags = {0, 1, 2, 3}
INVARIANT SearchCorrect
PROPERTY SearchEnds
CHECK_DEADLOCK FALSE
