SPECIFICATION FairSpec
CONSTANTS
  Reqs <- Reqs3
  BatchOf <- BatchOf21
  Batches = {1, 2}
  Concurrency = 2
  MaxRetries = 1
  MultiThread = TRUE
  Limits <- RefreshLimits
INVARIANTS
  TypeOK
  SingleFlight
  LatchHasLeader
  FreshTokenPresented
  FailedBatchIsOver
PROPERTIES
  KeepsRotation
  WaitersReturn
CHECK_DEADLOCK FALSE
