SPECIFICATION Spec
CONSTANTS
  Points <- Points1
  Budget <- SocketBudget
  MaxQueue = 3
  Window = 2
  Fits <- Near
  FrameCap = 2
  SeqSpace = 16
  Procs = {p1}
  Drivers = {1, 2, 3}
  MaxGen = 3
  HasRefresh = TRUE
  DisableReconnect = FALSE
  MaxAttempts = 1
  Earlier <- NoTrack
  ResumeArgs = {}
  Apart = {}
INVARIANT
  TypeOK
PROPERTIES
  SessionStaysDriven
  NewestSocketWins
  ClosedForGood
  KeepsConnection
CHECK_DEADLOCK FALSE
