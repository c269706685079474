SPECIFICATION Spec
CONSTANTS
  NumClients = 2
  MaxFd = 3
  NoIp = NoIp
  Ips <- NoIps
  MaxPerIp = 0
  AgeCap = 0
  NumTargets = 1
  CounterMod = 4
  RetryTimeout = 1
  Mode = "least-conn"
  HttpTargets <- AllTargets
  Routes <- OnlyKeepalive
  Answers <- OnlyPoolable
  ProxyTimeout = 1
  ProxySweepMax = 1
  PoolSize = 1
  PoolIdle = 1
  MaxActive = 2
INVARIANTS TypeOK Routed ActiveExact ConnectSwept
