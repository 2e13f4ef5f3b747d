SPECIFICATION FairSpec
CONSTANTS
  Address = {1, 2, 3, 4, 5}
  Malloc <- MCMalloc
  MemorySize = 2
  Bootstrap = 2
  ErrorWindow = 1
  CentroidWindow = 1
  MaxInstances = 2
  LatencyMap <- MCLatencyMap
  Profiles <- MCProfiles
  Grain = 2
  Pings = 2
INVARIANTS TypeOK SamplesCounted ProtectionReady LatenciesAgree AbortsHaveCause
PROPERTIES RoundEnds
