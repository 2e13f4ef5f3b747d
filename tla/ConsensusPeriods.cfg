CONSTANTS
  r1 = r1
  r2 = r2
  a1 = a1
  None = None
  Relay = {r1, r2}
  Adversary = {a1}
  Archive <- MCArchive
  Consensus <- MCConsensus
  Files <- MCFiles
  Hour = 4
  Minute = 2
  router_max_age = 7
  adv_time = 9

SPECIFICATION Spec
INVARIANTS
  LatestDescriptorFound
  StatusesTellHistory
  PeriodsTypeOK
  RegularFilesPass
  DescriptorsKnown
  StatusesCurrent
