SPECIFICATION Spec
CONSTANTS
  Methods = {"GET", "PUT"}
  Statics = {"a"}
  Names = {"x", "y"}
  Segments = {"a", "b", ""}
  MaxRoute = 2
  MaxPath = 3
  MaxRoutes = 3
INVARIANTS TreeIsTheRoutes DispatchIsPreferredMatch
CHECK_DEADLOCK FALSE
