SPECIFICATION FairDeliverySpec
CONSTANTS
    MaxDecisions = 2
    None = None
    MaxFaults = 1
    MaxCrashes = 1
    Limit = 1
    MaxOutages = 2
INVARIANTS
    ChargeAccounted
    OneTraceEach
PROPERTIES
    SavedIsTraced
    TraceIsDelivered
CHECK_DEADLOCK FALSE
