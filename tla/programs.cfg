SPECIFICATION MCSpec
CONSTANTS
  Timers = {t1, t2, t3, t4}
  Null = Null
  Timeouts <- MCTimeouts
  N = 3
  SI = 1
  TwTimers = {w1, w2, w3}
  NoTimer = NoTimer
  TwTimeouts <- MCTwTimeouts
  MaxTyped = 3
  MaxSaid = 2
  Conns = {c1, c2}
  Listener = Listener
  Nobody = Nobody
  MaxPieces = 2
  PipeSize = 2
  RecvSize = 3
  Backlog = 2
  Before = 2
  Behind = 2
INVARIANTS
  ProgramTypesOK
  PrintsAscending
  FiresOnSchedule
  SlotsLinked
  TypedInOrder
  OnlyStopEnds
PROPERTIES
  EqualsKeepOrder
  ServerEndSeen
  BothRead
  StopIsHeard
  StreamRead
  TakesTurns
CHECK_DEADLOCK FALSE
