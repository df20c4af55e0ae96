CONSTANTS
    NChildren = 2
    Pids = {101, 102}
    Fds = {3, 4, 5, 6}
    ForkAtExit = FALSE
    ForkLate = FALSE
    ForkMayFail = FALSE
    MaxForks = 2
SPECIFICATION FairSpec
PROPERTIES DeadAreReaped
CHECK_DEADLOCK FALSE
