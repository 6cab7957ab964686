SPECIFICATION Spec
CONSTANTS
  Win = {w1, w2, w3}
  None = None
  SignalFd = 8
  KeyboardFd = 9
  Fd = {1, 2, 3}
  Keys = {"create", "destroy", "exit"}
  Holders = TRUE
INVARIANTS
  PipesMatch
  HangUpsAreFresh
PROPERTIES
  HungUpWindowsClose
  ProgramsEndWithLoop
CHECK_DEADLOCK FALSE
