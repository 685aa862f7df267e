SPECIFICATION Spec
CONSTANTS
  LongMax = 1
  MaxReal = 3
  MaxStringLen = 3
  ListMaxEntries = 2
  ListMaxValue = 1
  SetMaxIntset = 1
  HashMaxEntries = 1
  HashMaxValue = 1
  ZsetMaxEntries = 2
  ZsetMaxValue = 1
  Names = {"a", "b"}
  DbNum = 2
  SortKey <- MCSortKey
  Commands <- MCCommands
  MaxElements = 3
INVARIANTS
  ReplicaAgrees
  DatasetSound
  EffectsDeclared
CHECK_DEADLOCK FALSE
