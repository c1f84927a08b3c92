SPECIFICATION FairSpec
CONSTANTS
  Servers = 2
  Sweeps = 2
  Queued = 1
  Retries = 1
  MaxConcurrent = 1
  ScanLimit = 1
  MaxErrors = 1
INVARIANTS
  RetriedChildWasStopped
PROPERTIES
  RetriedIsNotTakenUp
  MarkedRunIsRetried
CHECK_DEADLOCK FALSE
