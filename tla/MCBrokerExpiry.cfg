SPECIFICATION Spec
CONSTANTS
  Conns = {1, 2, 3, 4}
  Clients = {"A", "B", "generated"}
  Pids = {1, 2}
  Topics <- MCTopics
  Filters <- MCFilters
  Setups <- ExpirySetups
INVARIANT OnlineHasSession
CHECK_DEADLOCK FALSE
