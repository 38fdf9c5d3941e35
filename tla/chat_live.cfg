SPECIFICATION FairSpec
CONSTANTS
  c1 = c1
  c2 = c2
  c3 = c3
  Conns <- MCConns
  Script <- OneTalks
  Fds <- MCFds
  ListenFd <- MCListenFd
  UserLimit = 2
  MaxSends = 1
  NoConn = NoConn
  Null = Null
  Wild = Wild
  Blank = Blank
INVARIANTS
  TypeOK
PROPERTIES
  KeepsRoster
  ClosedReaped
  EveryConnectionAnswered
CHECK_DEADLOCK FALSE
