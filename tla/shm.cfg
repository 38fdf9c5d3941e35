SPECIFICATION Spec
CONSTANTS
  c1 = c1
  c2 = c2
  c3 = c3
  None = None
  Conns <- ThreeConns
  UserLimit = 2
  Listening = TRUE
  Talkers <- OneTalker
  Stops = TRUE
INVARIANTS TypeOK ParentTable NoZombieForgotten StopLeavesAtMostOne
SYMMETRY Sym
PROPERTIES KeepsRoster
CHECK_DEADLOCK FALSE
