CONSTANTS
    MaxWire = 3
    MaxBody = 2
    MaxHeader = 2
    Immediate = TRUE
    Sync = FALSE
SPECIFICATION FairSpec
INVARIANTS NeverStranded ConnectedIsReal StaysInStep
PROPERTIES ComesBack
