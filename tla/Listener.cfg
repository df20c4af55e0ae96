CONSTANTS
    Conn = {c1, c2}
    NumChildren = 2
    PairRoom = 1
    MaxForks = 3
SPECIFICATION Spec
INVARIANTS OneHolder NumbersMeant
PROPERTIES Settles
CHECK_DEADLOCK FALSE
