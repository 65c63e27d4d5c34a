SPECIFICATION RequestsSpec
CONSTANTS
  Lines <- AllLines
  MaxLines = 4
  MaxFirst = 5
  Adjacent = TRUE
  FilesystemHosts = {"files"}
  ExternalHosts = {"rest"}
  Callers = {"worker", "direct"}
  Uris = {"path", "absolute", "star", "other"}
  Outcomes = {"sets", "leaves", "invalid_request", "std_exception", "other_exception"}
  Garbage = {"unknown", "named", "invalid"}
INVARIANTS
  RequestLineIsRead HeadersAreTheSection BodyDelivered
  ResourceRunsForItsHost SuccessMeansExecuted KnownTerminations
CHECK_DEADLOCK FALSE
