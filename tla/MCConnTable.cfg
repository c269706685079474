SPECIFICATION Spec
CONSTANTS
  a1 = a1
  NoIp = NoIp
  Ips <- OneIp
  Remotes <- IpAndUnix
  NumClients = 3
  MaxFd = 3
  HeaderTimeout = 1
  BodyTimeout = 1
  IdleTimeout = 1
  MaxPerIp = 2
  SweepMax = 2
  MaxEvents = 1
  Listeners <- HttpAndForward
  FwdReachable <- BothOutcomes
  AgeCap = 2
INVARIANTS TypeOK IpCountExact TableConsistent PerIpLimit DeadlinesKept
PROPERTY FreshSpared
