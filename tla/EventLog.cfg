SPECIFICATION FairSpec
CONSTANTS
  QueueCapacity = 2
  BufCapacity = 3
  MaxBytes = 4
  BackupCount = 2
  MaxEvents = 6
  MaxCalls = 1
  MaxCrashes = 1
INVARIANTS OrderKept DropsCounted FlushDurable
PROPERTIES EventuallySettled
CHECK_DEADLOCK FALSE
