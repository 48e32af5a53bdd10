SPECIFICATION UpFairSpec
CONSTANTS
  UPLINK_MAX_LEN = 3
  UPLINK_PART_REQ_LEN = 2
  UPLINK_MAX_PART_RETRY = 1
  Byte = {0, 1}
  MessageIds = {0, 1}
  Headers <- MC_Headers
  Spans <- MC_Spans
  NoMessage = NoMessage
INVARIANT ReceiveSound
PROPERTIES NoFalseReject RequestsMissingBytes DeliveryRefined UplinkEnds
