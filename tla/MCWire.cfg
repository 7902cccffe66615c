SPECIFICATION Spec
CONSTANTS
  PacketIdBytes = 2
  Messages <- AllMessages
  Later <- LaterMessages
  MaxSent = 2
  Chunks = {1, 1000}
  MaxLosses = 1
  LossMidFrame = FALSE
INVARIANTS
  TypeOK
  DeliveredAsSent
  LengthsAgree
  TopicsAreText
PROPERTIES
  AllDelivered
CHECK_DEADLOCK FALSE
