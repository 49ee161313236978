SPECIFICATION FairSpec
CONSTANT MaxGeneration = 7
INVARIANTS TypeOK SuccessIsOwnAnswer CancelReachesService
PROPERTIES ImplementsAsyncRequest RequestEnds
\* After ~BtJsonRequest() and the last callback nothing is left to happen.
CHECK_DEADLOCK FALSE
