SPECIFICATION FairSpec
CONSTANTS
  HANDLER_MAX = 2
  MessageIds = {0, 1}
  BuiltinIds = {1}
  MaxCallbacks = 3
INVARIANTS
  DeviceSound
  HandlersSound
PROPERTIES
  BrokenOnlyInRace
  ShutdownEnds
\* The application may end, and with it the receive task.
CHECK_DEADLOCK FALSE
