\* One restart, and just enough connections for it.
CONSTANTS
  w1 = w1
  w2 = w2
  c1 = c1
  c2 = c2
  c3 = c3
  c4 = c4
  c5 = c5
  c6 = c6
  c7 = c7
  Threads = {w1, w2}
  Conns = {c1, c2, c3, c4, c5, c6, c7}
  Engine = c1
  MinConn = 1
  MaxConn = 7
  MaxRestarts = 1
  LogMayFail = FALSE
SPECIFICATION Spec
SYMMETRY Symmetry
INVARIANTS
  NotShared
  EnoughConnections
PROPERTY NoLeak
