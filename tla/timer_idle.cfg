SPECIFICATION FairSpec
CONSTANTS
  Timers <- MCFds
  ListenFd <- MCListenFd
  PipeFd <- MCPipeFd
  Null = Null
  Talkers <- MCTwoTalkers
  Leavers = {}
  Stops = FALSE
  TimeSlot = 1
  MaxBacklog = 1
  MaxInput = 1
  MaxLate = 0
PROPERTIES
  IdleIsClosed
CHECK_DEADLOCK FALSE
