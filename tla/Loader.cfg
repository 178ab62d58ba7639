CONSTANTS
  Images <- MCImages
  Widths <- MCWidths
  PointerSize = 4
  Required = {"Object"}
  Imports = {"PalTimerClock", "PalLoggerPrint"}
SPECIFICATION Spec
INVARIANTS LayoutsAreSound OverridesAreFound AttributesAreAsWritten
CHECK_DEADLOCK FALSE
