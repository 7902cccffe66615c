SPECIFICATION Spec
CONSTANTS
  MaxPacketId = 2
  ReceiveMaximumMax = 65535
  MaxAlias = 1
  Topics = {"t1"}
  Payloads = {"x"}
  Observed = {}
  Setups <- AllSetups
  UsedOptions = {"offline_publish", "auto_pub_response"}
  UsedQos = {1, 2}
  UsedAliases = {0}
  UsedIdPackets = {"subscribe"}
  Connects <- IdsConnects
  Connacks <- IdsConnacks
  PeerIds = {1, 2}
  Restorable <- IdsRestorable
  PingreqIntervals = {}
  PingrespTimeouts = {}
  Careless = {"send_error"}
INVARIANT HeldIsInUse
