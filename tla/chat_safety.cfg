SPECIFICATION Spec
CONSTANTS
  c1 = c1
  c2 = c2
  c3 = c3
  Conns <- MCConns
  Script <- TwoOfOne
  Fds <- MCFds
  ListenFd <- MCListenFd
  UserLimit = 3
  MaxSends = 2
  NoConn = NoConn
  Null = Null
  Wild = Wild
  Blank = Blank
INVARIANTS
  TableConsistent
  ScannedOnce
  EventsFresh
  ArmedPointer
  OnlyCopiesRepeat
CHECK_DEADLOCK FALSE
