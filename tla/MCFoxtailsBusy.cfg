SPECIFICATION BusySpec
CONSTANTS
  Conns = {c1, c2, c3}
  Fds = {f1, f2}
  NoConn = NoConn
  NoFd = NoFd
  Listen = Listen
  NoJob = NoJob
  MaxConnections = 2
  MaxEvents = 2
  KeepAliveTimeout = 1
SYMMETRY Symmetry
INVARIANT TypeOK
INVARIANT SlotsAccounted
INVARIANT DescriptorsOwned
INVARIANT ClaimedOnce
INVARIANT CopiesCurrent
INVARIANT AnswerGoesBack
INVARIANT FreedOnce
PROPERTY HangupMeansClosed
