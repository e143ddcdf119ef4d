\* Expected to be violated: a claim of the spec the code does not keep.
CONSTANTS
    Heights <- MC_Heights
    StartBlock <- MC_StartBlock
    Estimates <- MC_Estimates
    NoBlock = NoBlock
    MaxNonce = 1
    MaxEvents = 3
    MaxQueue = 2
    PriceUpdatesPerMinute = 1
SPECIFICATION FairSpec
PROPERTIES
    ClocksStopAfterExit
CHECK_DEADLOCK FALSE
