SPECIFICATION FairSpec
CONSTANTS
  Points <- Points2
  Budget <- StartingBudget
  MaxQueue = 3
  Window = 2
  Fits <- Near
  FrameCap = 2
  SeqSpace = 16
  Procs = {p1}
  Drivers = {1, 2, 3}
  MaxGen = 3
  HasRefresh = FALSE
  DisableReconnect = FALSE
  MaxAttempts = 0
  Earlier <- NoTrack
  ResumeArgs = {}
  Apart = {}
PROPERTY
  TripStarts
CHECK_DEADLOCK FALSE
