SPECIFICATION Spec
CONSTANTS
  Conns = {1, 2, 3, 4}
  Clients = {"A", "B", "generated"}
  Pids = {1, 2}
  Topics <- MCTopics
  Filters <- MCFilters
  Setups <- MCSetups
INVARIANTS TypeOK OnlineHasSession SubscriptionsRouted SubscriptionsAlive RetainedFound
INVARIANTS MessagesKept RoutedOnce WillsOnce SharedInTurn
PROPERTIES ConnectAnswered
CHECK_DEADLOCK FALSE
