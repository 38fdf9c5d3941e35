SPECIFICATION Spec
CONSTANTS
  c1 = c1
  c2 = c2
  c3 = c3
  Conns <- MCConns
  Script <- TwoTalk
  Fds <- MCFds
  ListenFd <- MCListenFd
  UserLimit = 3
  MaxSends = 1
  NoConn = NoConn
  Null = Null
  Wild = Wild
  Blank = Blank
INVARIANTS
  NoEcho
CHECK_DEADLOCK FALSE
