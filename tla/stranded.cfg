SPECIFICATION FairSpec
CONSTANTS
  Points <- Points1
  Budget <- StrandedBudget
  MaxQueue = 3
  Window = 2
  Fits <- Near
  FrameCap = 2
  SeqSpace = 16
  Procs = {p1}
  Drivers = {1, 2, 3, 4}
  MaxGen = 5
  HasRefresh = FALSE
  DisableReconnect = FALSE
  MaxAttempts = 0
  Earlier <- NoTrack
  ResumeArgs = {}
  Apart = {}
PROPERTY
  DroppedIsReplaced
CHECK_DEADLOCK FALSE
