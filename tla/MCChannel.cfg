CONSTANTS
    Kinds <- MCKinds
    MaxOut = 2
    MaxRoom = 2
    Immediate = TRUE
SPECIFICATION FairSpec
INVARIANT IsArmed
PROPERTIES ExpiredIsFlushed GoingGoes
CHECK_DEADLOCK FALSE
