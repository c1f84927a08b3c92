SPECIFICATION FairSpec
CONSTANTS
  MaxRuns = 1
  MaxLease = 2
  MaxGeneration = 1
  MaxConcurrent = 1
  LocalChild = TRUE
  FallbackAttempts = 0
  Sweep = {s1}
  MaxRestarts = 1
  MaxErrors = 1
INVARIANTS
  TypeOK
  OutcomeIsFinalStatus
  SettledIsComplete
PROPERTIES
  ExecutedRunSettles
CHECK_DEADLOCK FALSE
