SPECIFICATION Spec
CONSTANTS
  Ids <- TwoWindows
  RawInput = TRUE
  Select = FALSE
  MaxOps = 4
INVARIANTS
  OneAnswerEach
  RawModeFollows
  SwitchIsSeen
  CountCoversWindows
  NothingStranded
PROPERTIES
  RequestsAnswered
  FbTermGoesOn
CHECK_DEADLOCK FALSE
