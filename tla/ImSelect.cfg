SPECIFICATION Spec
CONSTANTS
  Ids <- TwoWindows
  RawInput = TRUE
  Select = TRUE
  MaxOps = 4
INVARIANTS
  NothingStranded
CHECK_DEADLOCK FALSE
