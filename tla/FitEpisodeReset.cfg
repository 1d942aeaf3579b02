SPECIFICATION Spec
CONSTANTS
    Nonces = {n1, n2, n3}
    None = None
    MaxBlocks = 2
    MaxCrashes = 2
INVARIANTS
    RuntimeArchived
CHECK_DEADLOCK FALSE
