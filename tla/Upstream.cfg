CONSTANTS
  r1 = r1  r2 = r2  r3 = r3  r4 = r4
  s1 = s1  s2 = s2
  c1 = c1  c2 = c2  c3 = c3
  p1 = p1
  NoPeer = NoPeer
  Requests = {r1, r2, r3, r4}
  Keys = {s1, s2}
  ShapeOf <- TwoShapes
  ClientOf <- ThreeClients
  PeerOf <- OneProxy
  Threshold = 2
  OpenTicks = 2
  MaxInFlight = 2
  MaxInFlightPerIp = 1
  MaxPerProxy = 1
  MaxDelay = 1
  MaxArrivals = 5
  Capacity = 1
  ScanLimit = 1
  IdleTicks = 0
  MaxClock = 3
SPECIFICATION FairSpec
INVARIANTS OriginBounded
PROPERTIES OpenKept PermitsReturned
CHECK_DEADLOCK FALSE
