SPECIFICATION Spec
CONSTANTS
  N = 4
  MaxDepth = 2
  MaxLock = 1
  SleepTicks = 1
  NoThread = NoThread
  PreemptBlocking = FALSE
  Calls = {"sleep", "yield", "return"}
CHECK_DEADLOCK FALSE
INVARIANTS
  MutualExclusion
  NestingMatches
  NoLostWakeup
  LockCountAssertion
  ExitByOwner
PROPERTIES
  AsleepUntilDue
  ImplementsMonitor
