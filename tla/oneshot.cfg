SPECIFICATION FairSpec
CONSTANTS
  w1 = w1
  w2 = w2
  Fds <- MCFds
  ListenFd <- MCListenFd
  Workers <- MCWorkers
  Leavers <- MCLeavers
  MaxBacklog = 1
INVARIANTS
  TypeOK
  OneWorkerPerFd
  NobodyForgotten
PROPERTIES
  InputRead
CHECK_DEADLOCK FALSE
