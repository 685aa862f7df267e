\* One part at a time: a connection's requests in any pieces, what subscribers and
\* slaves are sent, one structure of each kind
SPECIFICATION Spec
CONSTANTS
  IobufLen = 4
  InlineMaxSize = 60
  MbulkBigArg = 8
  MaxQuerybufLen = 64
  MaxMultibulk = 4
  MaxBulk = 8
  MaxRequests = 2
  ReplyChunk = 4
  MaxWrite = 3
  StringSize = 1
  ItemSize = 1
  PipelinedSync = FALSE
  Sizes = {3}
  Rooms = {2, 8}
  MaxMessages = 3
  MaxTime = 2
  BigLen = 12
  MaxLength = 3
  HeaderSize = 10
  MaxLevel = 3
  InitialSize = 1
  ForceRatio = 2
  MinFill = 40
  MaxEntries = 4
INVARIANTS
  ExecutedAsSent
  ClosedForAReason
  InOrder
  OutputCounted
  ServedWhenDue
  
  IterationComplete
CHECK_DEADLOCK FALSE
