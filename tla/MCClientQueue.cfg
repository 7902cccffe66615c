SPECIFICATION FairSpec
CONSTANT Setups <- QueueSetups
PROPERTY QueuedAreSent
CHECK_DEADLOCK FALSE
