SPECIFICATION Spec
CONSTANTS
  Timers <- MCFds
  ListenFd <- MCListenFd
  PipeFd <- MCPipeFd
  Null = Null
  Talkers <- MCOneTalker
  Leavers <- MCFds
  Stops = TRUE
  TimeSlot = 1
  MaxBacklog = 2
  MaxInput = 1
  MaxLate = 0
INVARIANTS
  TypeOK
  ListMatchesClients
  NoUseAfterFree
  AcceptNeverEmpty
  TickOnItsWay
PROPERTIES
  OnlyIdleClosed
CHECK_DEADLOCK FALSE
