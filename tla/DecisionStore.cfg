SPECIFICATION Spec
CONSTANTS
    MaxDecisions = 3
    None = None
    s = s
    Signatures <- MCSignatures
    Answers <- MCAnswers
    MaxFaults = 2
    MaxCrashes = 1
INVARIANTS
    AppliedIsWhole
    SpentWithinGrants
PROPERTIES
    RetiredStops
CHECK_DEADLOCK FALSE
