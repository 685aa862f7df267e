\* A server whose append only file is started, stopped and rewritten, and the two
\* threads that sync and close for it
SPECIFICATION FilesSpec
CONSTANTS
  Type = {"close", "fsync"}
  Job <- FileJobs
  NoJob = NoJob
  MaxJobs = 2
  Fds = {1, 2, 3}
  MaxFiles = 3
  StartMayFail = FALSE
INVARIANTS
  EachOnceInOrder
  QuietAfterZero
  NoLostWakeup
  DescriptorsOwned
CHECK_DEADLOCK FALSE
