CONSTANTS
  s1 = s1  s2 = s2  p1 = p1  c1 = c1  c2 = c2  x = x
  Signatures = {s1, s2}
  Shapes = {p1}
  ShapeOf <- OneShape
  Custom = {c1, c2}
  NameOf <- OwnNames
  Answers <- SomeAnswers
  UseProvider = TRUE
  StrongCoverage = TRUE
  LearnObserved = FALSE
  MinCount = 2
  MinAttack = 2
  MaxRead = 2
  MaxFilters = 3
  BackupCount = 2
  MaxLogged = 3
  MaxRotations = 2
  MaxRestarts = 1
SPECIFICATION FairSpec

INVARIANTS EvidenceReal
PROPERTIES RoundComplete FloodLearned
