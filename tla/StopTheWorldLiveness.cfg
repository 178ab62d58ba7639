SPECIFICATION FairSpec
CONSTANTS
  N = 3
  Started = 3
  Capacity = 2
  MaxUsed = 1
  Protected = {"addCount", "addPointer", "spLeave", "gcFlagOff", "gcUnlockNext", "gcUnlockManaged"}
  NoThread = NoThread
CHECK_DEADLOCK FALSE
PROPERTIES
  CollectionEnds
