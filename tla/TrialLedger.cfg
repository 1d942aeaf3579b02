SPECIFICATION Spec
CONSTANTS
    Programs = {p1, p2}
    Recipes = {r1, r2}
    Values = {v1, v2}
    None = None
    Failure = Failure
    Budget = 1
    MaxAsks = 2
    MaxCrashes = 2
    MaxBlocks = 2
SYMMETRY Symmetry
INVARIANTS
    BudgetHeld
    OutcomesAgree
    AcceptedResultKept
PROPERTIES
    OutcomesAreFinal
