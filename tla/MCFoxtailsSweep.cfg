SPECIFICATION Spec
CONSTANTS
  Conns = {c1, c2}
  Fds = {f1, f2}
  NoConn = NoConn
  NoFd = NoFd
  Listen = Listen
  NoJob = NoJob
  MaxConnections = 1
  MaxEvents = 2
  KeepAliveTimeout = 1
INVARIANT FreeListHasRoom
