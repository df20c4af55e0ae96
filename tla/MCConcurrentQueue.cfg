CONSTANTS
    Threads = {t1, t2, t3}
    Item = {x, y}
    Limits = {0, 1}
    Timed = TRUE
    MaxOps = 4
    Nobody = Nobody
SPECIFICATION FairSpec
INVARIANTS NoLostWakeup
PROPERTIES ActsAtomically
CHECK_DEADLOCK FALSE
