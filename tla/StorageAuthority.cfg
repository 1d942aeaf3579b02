SPECIFICATION FairSpec
CONSTANTS
  Pid = {1, 2}
  Token = {t1, t2}
  Capacity <- MCCapacity
  Headroom <- MCHeadroom
  Demand <- MCDemand
  Grain = 1
  MaxWrite = 2
  MaxStarts = 2
  MaxForeign <- MCMaxForeign
INVARIANTS
  LeaseCoversWriter
  HeadroomKept
PROPERTIES
  AbandonedLeasesReclaimed
