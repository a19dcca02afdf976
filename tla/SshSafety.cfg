CONSTANTS
  Callers = {1, 2, 3, 4, 5}
  Keys = {2, 3, 4, 5}
  KeyOf <- SharedHost
  Closers = {3, 4, 5}
  Deadline = {1, 3, 4, 5}
  MaxCommands = 2
  NoConn = NoConn
  Commands = {"roles", "backup", "test", "logs"}
  Limit = 2
SPECIFICATION FanFair
INVARIANTS
  FanTypeOK
  NoLeak
  NotClosedInUse
  FilesAsReported
PROPERTIES
  KeepsPromise
  HangsOnlyOnPeer
  FanOutEnds
CHECK_DEADLOCK FALSE
