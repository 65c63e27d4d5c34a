SPECIFICATION Spec
CONSTANTS
  c1 = c1
  c2 = c2
  w1 = w1
  w2 = w2
  Conns = {c1, c2}
  Workers = {w1, w2}
  HWM = 1
  Low = 0
  MaxChunks = 2
  Impatient = {c1}
  Statuses = {"known", "unknown"}
  MoreHigh = {0, 1}
SYMMETRY WorkerSymmetry
INVARIANTS TypeOK RightClient OneReplyPerConnection NoLostRequest
PROPERTY ImplementsRequestResponse
CHECK_DEADLOCK FALSE
