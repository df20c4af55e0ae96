CONSTANTS
    W = 5
    MaxJobs = 5
    MaxReserves = 2
    MaxActs = 6
SPECIFICATION MCSpec
INVARIANTS TableIsExact KeysStayMeant DoomedGetNothing LateAreServedOnce
PROPERTIES AllAreServed
