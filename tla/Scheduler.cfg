SPECIFICATION Spec
CONSTANTS
  MaxGeneration = 3
  MaxTicks = 2
INVARIANTS
  TypeOK
  RecoveryLaneHasOneOwner
PROPERTIES
  DrainJoinsRecovery
  RecoveryLaneIsReleased
CHECK_DEADLOCK FALSE
