SPECIFICATION FairSpec
CONSTANTS
  AddressSpace = 4096
  PageSize = 8
  LowMemory = 24
  KernelStart = 24
  KernelEnd = 38
  DatabaseSize = 2
  FrameSize = 1
  Margin = 3
  Threads = {t1, t2}
  NoThread = NoThread
  BlockSizes <- MCBlockSizes
  Header = 1
  PoolPages = 1
  PoolSize = 224
  Maps <- MCMaps
  Stale = {"free"}
  Requests = {2, 4, 5}
  MaxHeld = 2
CHECK_DEADLOCK FALSE
INVARIANTS
  BlocksApart
  KernelUntouched
  EveryBlockInItsPlace
  RequestsAreServed
  SearchIsNearlyComplete
PROPERTIES
  ImplementsAllocator
  LocksAreLeft
