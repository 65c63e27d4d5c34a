SPECIFICATION LoggingSpec
CONSTANTS
  p1 = p1
  p2 = p2
  worker1 = worker1
  None = None
  Threads = {p1, p2}
  Owner = p1
  Worker = worker1
  Pushers = {p1, p2}
  Poppers = {worker1}
  Message <- MCMessage
  Bytes <- MCBytes
  Size = 2
  MaxSize = 2
  MaxFiles = 1
  ForceFlush = {TRUE, FALSE}
  Faults = {"open", "remove", "rename", "write", "flush"}
  Modes = {"sync", "async"}
  Policy = "block_retry"
  Formats = {TRUE, FALSE}
  Flushes = {p2}
  Kills = TRUE
  MaxCalls = 2
  MaxLives = 2
INVARIANTS FileBound FilesAreTheLog
CHECK_DEADLOCK FALSE
