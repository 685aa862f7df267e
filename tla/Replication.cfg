SPECIFICATION Spec
CONSTANTS
  Dbs <- MCDbs
  Servers <- MCServers
  Families <- MCFamilies
  MaxFds = 3
  MaxFaults = 1
  MaxCommands = 2
INVARIANTS
  StreamComplete
  FollowsHost
  FilesSound
PROPERTIES
  Resync
CHECK_DEADLOCK FALSE
