SPECIFICATION Spec
CONSTANTS
  MaxPacketId = 1
  ReceiveMaximumMax = 1
  MaxAlias = 2
  Topics = {"t1", "t2"}
  Payloads = {"x"}
  Observed = {}
  Setups <- V5Setups
  UsedOptions = {"auto_map_topic_alias_send", "auto_replace_topic_alias_send"}
  UsedQos = {0, 1}
  UsedAliases = {0, 1, 2}
  UsedIdPackets = {"unsubscribe"}
  Connects <- LimitsConnects
  Connacks <- LimitsConnacks
  PeerIds = {}
  Restorable = {}
  PingreqIntervals = {}
  PingrespTimeouts = {}
  Careless = {"not_allocated", "alias_refused", "receive_maximum_exceeded", "not_connected", "send_error"}
INVARIANTS AliasTableSound StoredHasTopic
