SPECIFICATION Spec
CONSTANTS
  Timers <- MCFds
  ListenFd <- MCListenFd
  PipeFd <- MCPipeFd
  Null = Null
  Talkers <- MCTwoTalkers
  Leavers <- MCFds
  Stops = FALSE
  TimeSlot = 1
  MaxBacklog = 1
  MaxInput = 1
  MaxLate = 0
INVARIANTS
  HeadCanBeDeleted
CHECK_DEADLOCK FALSE
