SPECIFICATION Spec
CONSTANTS
  MaxSentinels = 2
  Nodes <- MCNodes
  Priority <- Priorities
  ScriptMaxQueue = 2
  ScriptMaxRunning = 1
  ScriptMaxRetry = 2
  Families <- MCFamilies
  MaxWire = 1
  MaxBoots = 1
INVARIANTS
  FailoverConsistent
  OneLeader
PROPERTIES
  LimitsKept
  FailoverCompletes
CHECK_DEADLOCK FALSE
