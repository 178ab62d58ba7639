CONSTANTS
  Domain <- MCDomain
  MaxDepth = 3
  MaxObjects = 7
  MaxCells = 6
  MaxElements = 2
  MaxStarts = 2
SPECIFICATION Spec
INVARIANTS FramesAreLinked NothingIsLost
PROPERTIES ImplementsCallStack
CHECK_DEADLOCK FALSE
