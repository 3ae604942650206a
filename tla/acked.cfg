SPECIFICATION Spec
CONSTANTS
  Points <- Points5
  Budget <- AckedBudget
  MaxQueue = 3
  Window = 2
  Fits <- Near
  FrameCap = 2
  SeqSpace = 16
  Procs = {p1}
  Drivers = {1, 2, 3}
  MaxGen = 3
  HasRefresh = FALSE
  DisableReconnect = FALSE
  MaxAttempts = 0
  Earlier <- NoTrack
  ResumeArgs = {}
  Apart = {}
PROPERTY
  AckedPointsArrived
CHECK_DEADLOCK FALSE
