SPECIFICATION FairSpec
CONSTANTS
  Reqs <- Reqs3
  BatchOf <- BatchOf21
  Batches = {1, 2}
  Concurrency = 2
  MaxRetries = 1
  MultiThread = FALSE
  Limits <- CancelLimits
PROPERTY
  RequestsReturn
CHECK_DEADLOCK FALSE
