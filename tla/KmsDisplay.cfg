\* Both planes, each call failing, two places of the picture, four pictures.
SPECIFICATION Spec
CONSTANTS
  Rects = {wide, small}
  NoRect = none
  MaxShow = 4
INVARIANTS
  ConsoleRestored
  NoStaleBorder
PROPERTIES
  ScanOutIsSafe
CHECK_DEADLOCK FALSE
