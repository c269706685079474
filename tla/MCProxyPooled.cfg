SPECIFICATION Spec
CONSTANTS
  NumClients = 1
  MaxFd = 3
  NoIp = NoIp
  Ips <- NoIps
  MaxPerIp = 0
  AgeCap = 0
  NumTargets = 2
  CounterMod = 4
  RetryTimeout = 1
  Mode = "least-conn"
  HttpTargets <- AllTargets
  Routes <- BothRoutes
  Answers <- EveryAnswer
  ProxyTimeout = 1
  ProxySweepMax = 3
  PoolSize = 1
  PoolIdle = 1
  MaxActive = 4
INVARIANT PooledClean
