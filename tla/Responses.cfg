SPECIFICATION Spec
CONSTANTS
  t1 = t1
  t2 = t2
  Threads = {t1, t2}
  MaxRequests = 1
  Times = {1, 2}
  Fields = 2
SYMMETRY Symmetry
INVARIANTS
  WarmRequestsAnswered
  FieldsOfNearCalls
CHECK_DEADLOCK FALSE
