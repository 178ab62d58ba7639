SPECIFICATION Spec
CONSTANTS
  N = 3
  MaxDepth = 1
  MaxLock = 1
  SleepTicks = 0
  NoThread = NoThread
  PreemptBlocking = TRUE
  Calls = {"sleep", "yield", "return"}
CHECK_DEADLOCK FALSE
INVARIANT LockCountAssertion
