\* The liveness instance with price_updates_per_minute = 0, a value
\* from_config_file accepts: does a tenure still get its update?
CONSTANTS
    Heights <- MC_Heights
    StartBlock <- MC_StartBlock
    Estimates <- MC_Estimates
    NoBlock = NoBlock
    MaxNonce = 1
    MaxEvents = 3
    MaxQueue = 2
    PriceUpdatesPerMinute = 0
SPECIFICATION FairSpec
\* The process waits on its channels once the observer events are used up.
CHECK_DEADLOCK FALSE
PROPERTIES
    TenureServed
