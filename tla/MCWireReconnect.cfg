SPECIFICATION Spec
CONSTANTS
  PacketIdBytes = 2
  Messages <- FewMessages
  Later <- LaterMessages
  MaxSent = 2
  Chunks = {1, 1000}
  MaxLosses = 1
  LossMidFrame = TRUE
INVARIANTS
  DeliveredAsSent
CHECK_DEADLOCK FALSE
