CONSTANTS
  s1 = s1  s2 = s2  p1 = p1  o1 = o1  o2 = o2
  Observers = {o1, o2}
  Signatures = {s1, s2}
  Shapes = {p1}
  Keys = {s1, s2, p1}
  Reasons = {"strong", "observed"}
  Second = 3
  Rate = 1
  Cooldown = 2
  MaxSamples = 1
  MaxDelay = 1
  MaxObserved = 5
  Capacity = 1
  ScanLimit = 1
  IdleTicks = 2
  MaxClock = 2
SYMMETRY Sym
SPECIFICATION Spec
INVARIANTS LoggingBounded
PROPERTIES FloodsActivate EvidenceKept
CHECK_DEADLOCK FALSE
