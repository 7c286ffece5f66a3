SPECIFICATION FairSpec
CONSTANTS
  sig = sig
  shape = shape
  prefix = prefix
  Nobody = Nobody
  Ids = {1, 2, 3}
  Facts <- AllFacts
  StaticRules <- OneStatic
  Contents <- SomeContents
  MaxRuntimeFilters = 2
  DefaultTtl = 2
  Activators = {a1}
  Evaluators = {e1}
  FactsOf <- AttackFacts
  SignalOf <- SameSignal
  MaxClock = 2
  MaxWrites = 1
  MaxActivations = 2

INVARIANTS VerdictJustified
PROPERTIES DeadlinePreserved FileLoaded
