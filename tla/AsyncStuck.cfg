SPECIFICATION FairLoggingSpec
CONSTANTS
  p1 = p1
  p2 = p2
  worker1 = worker1
  None = None
  Threads = {p1, p2}
  Owner = p1
  Worker = worker1
  Pushers = {p1, p2}
  Poppers = {worker1}
  Message <- MCMessage
  Bytes <- MCBytes
  Size = 2
  MaxSize = 2
  MaxFiles = 1
  ForceFlush = {FALSE}
  Faults = {"open", "remove", "rename", "write"}
  Modes = {"async"}
  Policy = "block_retry"
  Formats = {TRUE, FALSE}
  Flushes = {}
  Kills = FALSE
  MaxCalls = 2
  MaxLives = 1
PROPERTIES CallsReturnAlways
CHECK_DEADLOCK FALSE
