SPECIFICATION FairSpec
CONSTANTS
  t1 = t1
  t2 = t2
  t3 = t3
  t4 = t4
  t5 = t5
  k1 = k1
  k2 = k2
  k3 = k3
  k4 = k4
  NoTask = NoTask
  Tasks = {t1, t2, t3, t4, t5}
  Keys = {k1, k2, k3, k4}
  KeyOf <- FourClients
  Shards = {0, 1, 2}
  ShardOf <- ThreeShards
  Flavour = "request"
  MaxConnections = 2
  MaxPerIp = 1
  Capacity = 1
  ScanLimit = 1
  PerIpRate = 0
  PerIpBurst = 1
  GlobalRate = 0
  GlobalBurst = 1
  IdleTicks = 1
  MaxClock = 0
INVARIANTS GlobalExact PerIpExact
PROPERTIES Drained
CHECK_DEADLOCK FALSE
