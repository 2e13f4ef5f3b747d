CONSTANTS
  g = g
  m = m
  e1 = e1
  e2 = e2
  p80 = p80
  p22 = p22
  web = web
  ssh = ssh
  lookup = lookup
  Relay = {g, m, e1, e2}
  Path <- MCPath
  Port = {p80, p22}
  LongLived = {p22}
  SeedPort = p80
  Destination = {web, ssh, lookup}
  PortOf <- MCPortOf
  NetworkState <- AllStates
  HibernationState <- AnyExit
  None = None
  NumClients = 1
  CoverNum = 1
  MaxUnused = 2
  MaxDirtiness = 3
  IdleTimeout = 9
  NeedLifetime = 9
  TimeStep = 2
  PeriodLength = 4
  Horizon = 8
  MaxStreams = 1

SPECIFICATION Spec
INVARIANTS
  CoveringIsServable
