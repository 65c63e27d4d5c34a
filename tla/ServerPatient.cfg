SPECIFICATION FairSpec
CONSTANTS
  c1 = c1
  c2 = c2
  c3 = c3
  w1 = w1
  w2 = w2
  Conns = {c1, c2, c3}
  Workers = {w1, w2}
  HWM = 1
  Low = 0
  MaxChunks = 1
  Impatient = {}
  Statuses = {"known"}
  MoreHigh = {0}
INVARIANTS ServerSurvives
PROPERTIES Answered
CHECK_DEADLOCK FALSE
