SPECIFICATION Spec
CONSTANTS
  IntBits = 6
  Precise <- Digits6
  Letters = {"a", "n", "x"}
  MaxPacked = 3
  Calls <- MCCalls
  Sinks <- TwoSinks
  Changes = 1
INVARIANTS StaysInside FormatsAsSpecified OneLinePerCall LinesExpand
CHECK_DEADLOCK FALSE
