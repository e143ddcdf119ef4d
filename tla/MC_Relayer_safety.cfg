\* The process waits forever on the observer channel once the bounded
\* events are consumed and no clock runs: a real stop, not a deadlock.
CONSTANTS
    Heights <- MC_Heights
    StartBlock <- MC_StartBlock
    Estimates <- MC_Estimates
    NoBlock = NoBlock
    MaxNonce = 2
    MaxEvents = 4
    MaxQueue = 2
    PriceUpdatesPerMinute = 1
SPECIFICATION Spec
INVARIANTS
    TypeOK
    DebounceExact
CHECK_DEADLOCK FALSE
