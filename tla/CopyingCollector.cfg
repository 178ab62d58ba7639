SPECIFICATION FairSpec
CONSTANTS
  Objects = 3
  FieldKinds <- MCFieldKinds
  SlotKinds <- MCSlotKinds
  Statics = 1
  Targets = {3}
CHECK_DEADLOCK FALSE
INVARIANTS
  TypeOK
  OneCopyEach
  BlackIsForwarded
  CopiesAreFaithful
  SurvivorsAreReachable
  WrappersFollow
PROPERTIES
  SlotsKeepMeaning
  CollectionTerminates
