SPECIFICATION Spec
CONSTANTS
  c1 = c1
  c2 = c2
  c3 = c3
  None = None
  Conns <- ThreeConns
  UserLimit = 2
  Listening = TRUE
  Talkers <- TwoTalkers
  Stops = FALSE
INVARIANT ShmNoEcho
SYMMETRY Sym
CHECK_DEADLOCK FALSE
