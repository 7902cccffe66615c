SPECIFICATION FairSpec
CONSTANT Setups <- MCSetups
INVARIANT TypeOK
INVARIANT WritesInOrder
INVARIANT BuffersOwned
INVARIANT SuccessWasSent
INVARIANT AnswersFindRequests
INVARIANT StoredAreSent
INVARIANT NoLostWakeup
 
INVARIANT WithinReceiveMaximum
INVARIANT PublishedInOrder
PROPERTY CallsEnd
CHECK_DEADLOCK FALSE
