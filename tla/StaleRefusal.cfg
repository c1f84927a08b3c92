SPECIFICATION Spec
CONSTANTS
  Steps = 1
  Together = TRUE
  Worker = {w1, w2}
  Reconciler = r
  Nobody = nobody
  Cap = 1
  Limit = 1
  MaxErrors = 0
INVARIANT
  RefusedStepHasNoChild
CHECK_DEADLOCK FALSE
