SPECIFICATION FairSpec
CONSTANTS
  Points <- Points5
  Budget <- TripBudget
  MaxQueue = 3
  Window = 2
  Fits <- Near
  FrameCap = 2
  SeqSpace = 16
  Procs = {p1}
  Drivers = {1, 2, 3}
  MaxGen = 4
  HasRefresh = FALSE
  DisableReconnect = FALSE
  MaxAttempts = 0
  Earlier <- NoTrack
  ResumeArgs = {}
  Apart <- TripApart
INVARIANTS
  BufferBounded
  InflightIsARun
  SeqNamesOnePoint
  AckedIsDone
PROPERTIES
  SessionStaysDriven
  OneTripOneTrack
  QueueDrains
  ResumesAgain
CHECK_DEADLOCK FALSE
