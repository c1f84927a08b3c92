SPECIFICATION Spec
CONSTANTS
  MaxRuns = 2
  MaxLease = 1
  MaxGeneration = 1
  MaxConcurrent = 1
  LocalChild = TRUE
  FallbackAttempts = 0
  Sweep = {s1}
  MaxRestarts = 1
  MaxErrors = 0
INVARIANTS
  LiveHoldsSlot
  LiveWithinCapacity
  RetryFollowsRelease
PROPERTIES
  ImplementsLifecycle
CHECK_DEADLOCK FALSE
