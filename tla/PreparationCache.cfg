SPECIFICATION FairSpec
CONSTANTS
    Worker = {w1, w2}
    small = small
    large = large
    Key = {small, large}
    None = None
    Size <- MCSize
    Estimate = 1
    HitEstimate = 1
    Limit = 2
    Soft = 2
    Target = 1
    MaxCrashes = 1
    MaxDamage = 1
INVARIANTS
    TypeOK
    OneBuilder
    LimitKept
PROPERTIES
    PinnedStays
    PrepareEnds
