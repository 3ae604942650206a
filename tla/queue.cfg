SPECIFICATION Spec
CONSTANTS
  Points = {a, b}
  MaxQueue = 5
  Window = 2
  Fits <- SamePlace
  FrameCap = 2
  SeqSpace = 64
  MaxSeq = 7
INVARIANTS
  FramesAreFull
  InflightInOrder
PROPERTY
  FlushKeepsNumbers
CHECK_DEADLOCK FALSE
