SPECIFICATION Spec
CONSTANTS
  t1 = t1
  t2 = t2
  t3 = t3
  t4 = t4
  t5 = t5
  k1 = k1
  k2 = k2
  k3 = k3
  k4 = k4
  NoTask = NoTask
  Tasks = {t1, t2, t3, t4}
  Keys = {k1, k2, k3}
  KeyOf <- ThreeClients
  Shards = {0, 1}
  ShardOf <- TwoShards
  Flavour = "http"
  MaxConnections = 1
  MaxPerIp = 1
  Capacity = 1
  ScanLimit = 1
  PerIpRate = 1
  PerIpBurst = 1
  GlobalRate = 1
  GlobalBurst = 2
  IdleTicks = 0
  MaxClock = 1
INVARIANTS GlobalRateBound
PROPERTIES ImplementsPool
CHECK_DEADLOCK FALSE
