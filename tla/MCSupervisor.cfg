CONSTANTS
    NChildren = 2
    Pids = {101, 102}
    Fds = {3, 4, 5, 6}
    ForkAtExit = TRUE
    ForkLate = TRUE
    ForkMayFail = FALSE
    MaxForks = 3
SPECIFICATION FairSpec
INVARIANTS TableIsExact EveryReapIsReported
PROPERTIES EveryoneLeaves
CHECK_DEADLOCK FALSE
