SPECIFICATION FairSpec
CONSTANTS
  Points = {}
  Budget <- CallsBudget
  MaxQueue = 3
  Window = 2
  Fits <- Near
  FrameCap = 2
  SeqSpace = 16
  Procs = {p1, p2}
  Drivers = {1}
  MaxGen = 2
  HasRefresh = FALSE
  DisableReconnect = FALSE
  MaxAttempts = 0
  Earlier <- OneTrack
  ResumeArgs <- SomeResume
  Apart <- CallsApart
PROPERTIES
  ReadyHasTrack
  CloseReleasesCallers
CHECK_DEADLOCK FALSE
