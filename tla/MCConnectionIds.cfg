SPECIFICATION Spec
CONSTANTS
  MaxPacketId = 2
  ReceiveMaximumMax = 65535
  MaxAlias = 1
  Topics = {"t1"}
  Payloads = {"x"}
  Observed = {}
  Setups <- IdsSetups
  UsedOptions = {"offline_publish", "auto_pub_response"}
  UsedQos = {1, 2}
  UsedAliases = {0}
  UsedIdPackets = {"subscribe"}
  Connects <- IdsConnects
  Connacks <- IdsConnacks
  PeerIds = {1}
  Restorable <- IdsRestorable
  PingreqIntervals = {}
  PingrespTimeouts = {}
  Careless = {}
INVARIANTS TypeOK IdsAccounted StoredIsInFlight CountIsInFlight
PROPERTIES StoreKeepsUnanswered
