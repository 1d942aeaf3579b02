SPECIFICATION FairSpec
CONSTANTS
    Nonces = {n1, n2, n3}
    None = None
    MaxBlocks = 2
    MaxCrashes = 1
INVARIANTS
    ReceiptStands
    TimeoutExcludesResult
PROPERTIES
    AttemptSettles
    AllowanceKept
    OutcomePromised
CHECK_DEADLOCK FALSE
