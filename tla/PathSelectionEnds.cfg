CONSTANTS
  g1 = g1
  g2 = g2
  g3 = g3
  m1 = m1
  e1 = e1
  Relay = {g1, g2, g3, m1, e1}
  None = None
  Address <- MCAddress
  NetworkState <- EndStates
  HibernationState <- AnyGuards
  NumGuards = 2
  MinNumGuards = 1
  ExpirationMin = 4
  ExpirationMax = 4
  GuardDownTime = 5
  RetryAge <- MCRetryAge
  RetryWait <- MCRetryWait
  MaxPopulateAttempts = 2
  PeriodLength = 1
  StartTime = 1
  Horizon = 3

SPECIFICATION FairSpec
INVARIANTS
  QuotaFilled
PROPERTIES
  BuildEnds
