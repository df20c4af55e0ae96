CONSTANTS
    Kinds <- AllKinds
    Fds = {0, 1}
    Masks <- AllMasks
    Clients = {a, b}
    Nobody = Nobody
    AddMayFail = TRUE
SPECIFICATION FairSpec
INVARIANTS KernelKnowsOwner SelectCovers
PROPERTIES CallsOwner ReadyIsServed
