SPECIFICATION FairSpec
CONSTANTS
  MaxPacketId = 1
  ReceiveMaximumMax = 65535
  MaxAlias = 1
  Topics = {"t1"}
  Payloads = {"x"}
  Observed = {}
  Setups <- AllSetups
  UsedOptions = {"auto_ping_response"}
  UsedQos = {}
  UsedAliases = {0}
  UsedIdPackets = {}
  Connects <- TimedConnects
  Connacks <- TimedConnacks
  PeerIds = {}
  Restorable = {}
  PingreqIntervals = {0, 2, 4}
  PingrespTimeouts = {2, 3, 6}
  Careless = {}
INVARIANTS TimersFollowStatus
PROPERTIES ArmedKeepAliveEnforced LostServerNoticed
