SPECIFICATION Spec
CONSTANTS
  Base = 8
  MaxString = 3
  MaxPoints = 3
  LatMax = 90
  LonMax = 180
INVARIANTS
  ReadAsSent
  CutIsRefused
  NewerIsSkipped
  FramesRenumber
CHECK_DEADLOCK FALSE
