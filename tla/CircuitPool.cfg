CONSTANTS
  g = g
  m = m
  e1 = e1
  e2 = e2
  p80 = p80
  p22 = p22
  web = web
  ssh = ssh
  lookup = lookup
  Relay = {g, m, e1, e2}
  Path <- MCPath
  Port = {p80, p22}
  LongLived = {p22}
  SeedPort = p80
  Destination = {web, ssh, lookup}
  PortOf <- MCPortOf
  NetworkState <- TwoStates
  HibernationState <- AnyExit
  None = None
  NumClients = 2
  CoverNum = 2
  MaxUnused = 2
  MaxDirtiness = 3
  IdleTimeout = 5
  NeedLifetime = 3
  TimeStep = 2
  PeriodLength = 4
  Horizon = 8
  MaxStreams = 2

SPECIFICATION FairSpec
INVARIANTS
  CoverCountsExact
  DequesOrdered
  OnlyLiveCircuits
  NeedsCovered
  StreamServed
PROPERTIES
  Finishes
