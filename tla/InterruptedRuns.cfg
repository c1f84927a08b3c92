SPECIFICATION Spec
CONSTANTS
  Servers = 2
  Sweeps = 1
  Queued = 1
  Retries = 3
  MaxConcurrent = 1
  ScanLimit = 1
  MaxErrors = 1
INVARIANTS
  TypeOK
  ClaimsWithinLimit
CHECK_DEADLOCK FALSE
