SPECIFICATION FairSpec
CONSTANTS
    Programs = {p1, p2}
    Recipes = {r1, r2}
    Values = {v1}
    None = None
    Failure = Failure
    Budget = 1
    MaxAsks = 1
    MaxCrashes = 1
    MaxBlocks = 1
PROPERTIES
    AllocationsAreTold
