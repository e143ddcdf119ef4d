\* Liveness under FairSpec; a smaller instance than the safety run.
\* Deadlock is not checked: once the bounded observer events are used up
\* and no clock runs, the process waits on its channels, as the code does.
CONSTANTS
    Heights <- MC_Heights
    StartBlock <- MC_StartBlock
    Estimates <- MC_Estimates
    NoBlock = NoBlock
    MaxNonce = 1
    MaxEvents = 3
    MaxQueue = 2
    PriceUpdatesPerMinute = 1
SPECIFICATION FairSpec
PROPERTIES
    SupersededClocksExit
    TenureServed
CHECK_DEADLOCK FALSE
