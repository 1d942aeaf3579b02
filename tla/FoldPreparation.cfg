SPECIFICATION FairSpec
CONSTANTS
    Nonces = {n1, n2, n3}
    None = None
    MaxBlocks = 1
    MaxCrashes = 1
    MaxEvictions = 1
INVARIANTS
    ReadyIsSettled
PROPERTIES
    PreparationSettles
    BlockedStays
CHECK_DEADLOCK FALSE
