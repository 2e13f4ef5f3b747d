CONSTANTS
  g1 = g1
  g2 = g2
  g3 = g3
  m1 = m1
  e1 = e1
  Relay = {g1, g2, g3, m1, e1}
  None = None
  Address <- MCAddress
  NetworkState <- GuardStates
  HibernationState <- AwakeOrG1
  NumGuards = 1
  MinNumGuards = 1
  ExpirationMin = 4
  ExpirationMax = 5
  GuardDownTime = 5
  RetryAge <- MCRetryAge
  RetryWait <- MCRetryWait
  MaxPopulateAttempts = 2
  PeriodLength = 2
  StartTime = 1
  Horizon = 9

SPECIFICATION Spec
INVARIANTS
  PathSound
  GuardsTrackConsensus
  GuardLifetimes
PROPERTIES
  GuardsUnrelatedWhenAdded
  KeepsContract
  ContactedGuardsKept
  RetriesAreSpaced
