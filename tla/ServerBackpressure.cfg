SPECIFICATION Spec
CONSTANTS
  c1 = c1
  w1 = w1
  w2 = w2
  Conns = {c1}
  Workers = {w1, w2}
  HWM = 3
  Low = 1
  MaxChunks = 11
  Impatient = {}
  Statuses = {"known"}
  MoreHigh = {0}
SYMMETRY WorkerSymmetry
INVARIANTS NoGridlock
CHECK_DEADLOCK FALSE
