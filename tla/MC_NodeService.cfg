\* The legacy service under FairSpec: five observer events (up to five
\* clocks and a Stop), a channel of two commands.  Deadlock is not checked:
\* the process may exit, and the bounded observer may be used up.
CONSTANTS
    Heights <- MC_Heights
    StartBlock <- MC_StartBlock
    NoBlock = NoBlock
    MaxEvents = 5
    MaxQueue = 2
    PriceUpdatesPerMinute = 1
SPECIFICATION FairSpec
INVARIANTS
    TypeOK
PROPERTIES
    SupersededClocksExit
CHECK_DEADLOCK FALSE
