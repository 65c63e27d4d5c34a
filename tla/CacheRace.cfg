SPECIFICATION Spec
CONSTANTS
  t1 = t1
  t2 = t2
  Threads = {t1, t2}
  Known = {"HTTP/1.1", "HTTP/1.0"}
  Unknown = {"HTTP/2.0"}
  MaxCalls = 3
INVARIANTS NullMeansUnknown
CHECK_DEADLOCK FALSE
