SPECIFICATION FairSpec
CONSTANTS
  MaxWork = 4
  MaxFaults = 1
INVARIANTS
  TypeOK
  StartedWorkIsDrained
  PluginsOutliveTheirUsers
  UnresolvedHoldsDatabase
PROPERTIES
  ShutdownSettles
CHECK_DEADLOCK FALSE
