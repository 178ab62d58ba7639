SPECIFICATION Spec
CONSTANTS
  N = 4
  Started = 2
  Capacity = 2
  MaxUsed = 1
  Protected = {"addCount", "addPointer", "spLeave", "gcFlagOff", "gcUnlockNext", "gcUnlockManaged"}
  NoThread = NoThread
CHECK_DEADLOCK FALSE
INVARIANTS
  WorldStopped
  LocksQuietAtSwap
  HeapExitByOwner
