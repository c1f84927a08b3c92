SPECIFICATION FairSpec
CONSTANTS
  Agent = {a1, a2}
  Assignee = a1
  Kinds = {"plain", "comment", "mention", "bounded", "rework"}
  PeerKinds = {"plain"}
  MaxConcurrent = 1
  MaxWakes = 2
  MaxRetries = 1
  MaxLost = 1
INVARIANTS
  TypeOK
  WakeIsNotLost
  WakeRunsOnce
PROPERTIES
  LiveOwnerKeepsIssue
  WaitingIsAnswered
CHECK_DEADLOCK FALSE
