SPECIFICATION ExplorationFairSpec
CONSTANTS
    Procs = {service, cli}
    Service = service
    Nobody = Nobody
    d1 = d1
    d2 = d2
    Definitions = {d1, d2}
    Proposals <- MCProposals
    StartLimitBurst = 2
    LowWatermark = 1
    RefillSize = 1
    BundleEvery = 2
    BundleSize = 4
    MaxFaults = 2
INVARIANTS
    ExplorationTypeOK
    NothingTwice
PROPERTIES
    SettledStays
    EntriesSettle
