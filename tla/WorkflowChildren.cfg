SPECIFICATION FairSpec
CONSTANTS
  Steps = 2
  Together = TRUE
  Worker = {w1}
  Reconciler = r
  Nobody = nobody
  Cap = 1
  Limit = 1
  MaxErrors = 1
INVARIANTS
  TypeOK
  OneOwner
  StepFollowsChild
PROPERTIES
  EndedChildStays
  ChildIsDecided
  WaitingStepIsSettled
CHECK_DEADLOCK FALSE
