SPECIFICATION Spec
CONSTANTS
  MaxRuns = 2
  MaxLease = 1
  MaxGeneration = 2
  MaxConcurrent = 1
  LocalChild = FALSE
  FallbackAttempts = 1
  Sweep = {s1}
  MaxRestarts = 0
  MaxErrors = 0
INVARIANTS
  SettledMakesStepReady
  ReadyIsBacked
CHECK_DEADLOCK FALSE
