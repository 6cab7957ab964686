SPECIFICATION Spec
CONSTANTS
  Signals <- AllSignals
INVARIANTS
  HeldOnlyInFront
PROPERTIES
  RequestsGranted
  EntersInFront
  HandedOverClean
CHECK_DEADLOCK FALSE
