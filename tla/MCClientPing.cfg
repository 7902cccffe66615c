SPECIFICATION FairSpec
CONSTANT Setups <- PingSetups
INVARIANT PingrespCancelsTimer
CHECK_DEADLOCK FALSE
