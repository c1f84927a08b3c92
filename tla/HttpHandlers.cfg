SPECIFICATION Spec
CONSTANTS
  Request = {r1, r2}
INVARIANTS
  TypeOK
  DroppedIsQuiet
  ActiveIsJoinable
  DrainedLaneIsQuiet
PROPERTIES
  DrainAnswers
CHECK_DEADLOCK FALSE
