SPECIFICATION Spec
CONSTANTS
  N = 3
  MaxDepth = 2
  MaxLock = 1
  SleepTicks = 1
  NoThread = NoThread
  PreemptBlocking = TRUE
  Calls = {"sleep", "yield", "return"}
CHECK_DEADLOCK FALSE
INVARIANTS
  SpinlockExclusion
  SectionConsistent
PROPERTIES
  OwnershipIsFifo
