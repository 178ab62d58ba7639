SPECIFICATION Spec
CONSTANTS
  N = 3
  Started = 3
  Capacity = 2
  MaxUsed = 1
  Protected = {}
  NoThread = NoThread
CHECK_DEADLOCK FALSE
INVARIANTS
  HeapExitByOwner
