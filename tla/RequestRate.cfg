CONSTANTS
  r1 = r1  r2 = r2
  k1 = k1  k2 = k2  k3 = k3
  t1 = t1  t2 = t2
  NoKey = NoKey
  Requests = {r1, r2}
  Keys = {k1, k2, k3}
  Kinds = {k1, k2}
  Tokens = {t1, t2}
  KeyOf <- MixedKeys
  TokenOf <- TwoTokens
  Rate <- ShapesOff
  Burst <- Faster
  GlobalRate = 1
  GlobalBurst = 1
  Threshold = 2
  DistinctCap = 2
  Capacity = 1
  ScanLimit = 1
  IdleTicks = 3
  MaxDelay = 1
  MaxClock = 6
  MaxArrivals = 4
SYMMETRY Sym
SPECIFICATION Spec
INVARIANTS RateBound
CHECK_DEADLOCK FALSE
