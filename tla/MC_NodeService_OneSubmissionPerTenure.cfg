\* The legacy runloop has no debounce: a second tick of one tenure builds a
\* second transaction.
CONSTANTS
    Heights <- MC_Heights
    StartBlock <- MC_StartBlock
    NoBlock = NoBlock
    MaxEvents = 2
    MaxQueue = 2
    PriceUpdatesPerMinute = 1
SPECIFICATION Spec
INVARIANTS
    OneSubmissionPerTenure
CHECK_DEADLOCK FALSE
