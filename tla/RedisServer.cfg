SPECIFICATION Spec
CONSTANTS
  LongMax = 1
  MaxReal = 3
  MaxStringLen = 3
  ListMaxEntries = 2
  ListMaxValue = 1
  SetMaxIntset = 1
  HashMaxEntries = 1
  HashMaxValue = 1
  ZsetMaxEntries = 2
  ZsetMaxValue = 1
  Names = {"a", "b"}
  DbNum = 1
  SortKey <- MCSortKey
  c1 = c1
  c2 = c2
  c3 = c3
  Clients = {c1, c2, c3}
  ch1 = ch1
  ch2 = ch2
  Channels = {ch1, ch2}
  Families <- MCFamilies
  MaxElements = 2
INVARIANTS
  ListsAgree
  OneReply
  StreamRebuilds
PROPERTIES
  ServedInOrder
  Isolated
SYMMETRY Sym
CHECK_DEADLOCK FALSE
