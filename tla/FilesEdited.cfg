SPECIFICATION Spec
CONSTANTS
  Threads = {t1, t2}
  Contents <- ReadableContents
  Editor = {"rename", "rewrite", "remove"}
  MaxEdits = 2
  MaxOpen = 2
  LibMagic = TRUE
SYMMETRY ThreadSymmetry
INVARIANTS LengthMatchesBody ServedVersionExisted LoadedOrError
CHECK_DEADLOCK FALSE
