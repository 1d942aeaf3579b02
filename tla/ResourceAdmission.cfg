SPECIFICATION AdmissionFairSpec
CONSTANTS
    MaxProgram = 3
    NoArtifact = NoArtifact
    LaneOf <- MCLaneOf
    Expensive <- MCExpensive
    ArtifactOf <- MCArtifactOf
    Typical <- MCTypical
    Suggested <- MCSuggested
    Jobs = 2
    Ram = 4
    Emergency = 1
    Host = 4
    MaxForeign = 1
    MaxResident = 1
    MaxPeak = 3
INVARIANTS
    AdmissionTypeOK
    EstimatesFit
    SampleSpentOnce
PROPERTIES
    DispatchGoesOn
