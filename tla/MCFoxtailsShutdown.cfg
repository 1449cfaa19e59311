SPECIFICATION ShutdownSpec
CONSTANTS
  Conns = {c1, c2}
  Fds = {f1, f2}
  NoConn = NoConn
  NoFd = NoFd
  Listen = Listen
  NoJob = NoJob
  MaxConnections = 2
  MaxEvents = 2
  KeepAliveTimeout = 1
INVARIANT ShutdownComplete
PROPERTY InterruptEnds
PROPERTY RequestsAnswered
