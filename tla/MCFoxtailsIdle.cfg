SPECIFICATION IdleSpec
CONSTANTS
  Conns = {c1, c2, c3}
  Fds = {f1, f2}
  NoConn = NoConn
  NoFd = NoFd
  Listen = Listen
  NoJob = NoJob
  MaxConnections = 2
  MaxEvents = 4
  KeepAliveTimeout = 2
PROPERTY SilentClosed
