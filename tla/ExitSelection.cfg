CONSTANTS
  a = a
  b = b
  e1 = e1
  e2 = e2
  e3 = e3
  e4 = e4
  e5 = e5
  Address = {a, b}
  Relay = {e1, e2, e3, e4, e5}
  Consensus <- MCConsensus
  Weight <- MCWeight
  Port = {22, 80}
  LongLived = {22}
  SeedPort = 80
  MaxTotal = 7
  None = None

SPECIFICATION FairSpec
INVARIANTS
  ListsCurrent
  SearchFinds
  ExitsFit
PROPERTIES
  DrawsEnd
