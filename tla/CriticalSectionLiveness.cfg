SPECIFICATION FairSpec
CONSTANTS
  N = 3
  MaxDepth = 2
  MaxLock = 1
  SleepTicks = 1
  NoThread = NoThread
  PreemptBlocking = FALSE
  Calls = {"sleep", "yield", "return"}
CHECK_DEADLOCK FALSE
PROPERTIES
  WaiterProceeds
  SleeperWakes
