SPECIFICATION ProgramSpec
CONSTANTS
  a = a
  b = b
  lib1 = lib1
  w1 = w1
  w2 = w2
  Names = {a, b}
  Libraries = {lib1}
  Ports = {80, 8080, 8081}
  PortTexts = {8080, 73616}
  Foreign = {8081}
  MaxSites = 2
  Workers = {w1, w2}
  StaticLoggers = {"server1", "worker", "service"}
  MainLogger = "server2"
  LookedUp = {"server", "server2"}
  Callers = {TRUE, FALSE}
INVARIANTS PortsMatchWebsites ServedByNamedWebsite LibraryReferences UsedIsThere
CHECK_DEADLOCK FALSE
