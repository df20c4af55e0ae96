CONSTANTS
    NClients = 2
    NIds = 2
    Cycles = {0, 500}
    ClockSteps = {500}
    MaxClock = 1500
SPECIFICATION FairSpec
INVARIANTS NoStaleIterator
PROPERTIES PassIsExact PassEnds
CHECK_DEADLOCK FALSE
