SPECIFICATION FairSpec
CONSTANTS
  MaxRuns = 1
  MaxLease = 1
  MaxGeneration = 1
  MaxConcurrent = 1
  LocalChild = TRUE
  FallbackAttempts = 0
  Sweep = {s1}
  MaxRestarts = 1
  MaxErrors = 0
PROPERTIES
  EndedRunSettles
CHECK_DEADLOCK FALSE
