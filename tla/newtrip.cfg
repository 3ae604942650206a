SPECIFICATION Spec
CONSTANTS
  Points <- Points2
  Budget <- NewTripBudget
  MaxQueue = 3
  Window = 2
  Fits <- Near
  FrameCap = 2
  SeqSpace = 16
  Procs = {p1}
  Drivers = {1, 2, 3}
  MaxGen = 3
  HasRefresh = TRUE
  DisableReconnect = FALSE
  MaxAttempts = 0
  Earlier <- NoTrack
  ResumeArgs = {}
  Apart = {}
PROPERTY
  NoTripSuperseded
CHECK_DEADLOCK FALSE
