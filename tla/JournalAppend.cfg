SPECIFICATION FairSpec
CONSTANTS
    Writers = {w1, w2}
    Readers = {r1}
    None = None
    MaxBatch = 3
    MaxFaults = 2
    MaxDeaths = 1
    MaxSteals = 1
INVARIANTS
    TypeOK
    ReplayStands
    AppendsWhole
PROPERTIES
    AppendsEnd
CHECK_DEADLOCK FALSE
