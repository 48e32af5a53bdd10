SPECIFICATION Spec
CONSTANTS
  UPLINK_MAX_LEN = 1
  UPLINK_PART_REQ_LEN = 1
  UPLINK_MAX_PART_RETRY = 0
  Byte = {0}
  MessageIds = {1}
  Headers <- MC_OneHeader
  Spans <- MC_Spans
  NoMessage = NoMessage
  DOWN_LEN = 1
  Seconds = {1}
  SessionFrames <- MC_SessionFrames
  REQ_Q_DEPTH = 1
  MaxRetry = 1
INVARIANTS SessionSound BuffersSound SilenceEnds
PROPERTY InFlightUntilConfirmed
