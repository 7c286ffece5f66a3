CONSTANTS
  r1 = r1  r2 = r2
  k1 = k1  k2 = k2  k3 = k3
  t1 = t1  t2 = t2
  NoKey = NoKey
  Requests = {r1, r2}
  Keys = {k1, k2, k3}
  Kinds = {k1, k2}
  Tokens = {t1, t2}
  KeyOf <- MixedKeys
  TokenOf <- TwoTokens
  Rate <- OneEach
  Burst <- OneEach
  GlobalRate = 1
  GlobalBurst = 1
  Threshold = 2
  DistinctCap = 1
  Capacity = 2
  ScanLimit = 1
  IdleTicks = 3
  MaxDelay = 1
  MaxClock = 1
  MaxArrivals = 3
SYMMETRY Sym
SPECIFICATION Spec
INVARIANT DeniedPaysNothing
CHECK_DEADLOCK FALSE
