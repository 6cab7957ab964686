SPECIFICATION Spec
CONSTANTS
  Win = {w1, w2}
  None = None
  Mods = {m}
  Special = {s}
  Plain = {a}
  RawInput = TRUE
  MaxQueue = 3
SYMMETRY WinSymmetry
INVARIANTS
  KeysPassedOnce
  BackgroundHoldsNothing
  KeysDownAreHeld
PROPERTIES
  KeysReachActive
  ReleasesFollowPresses
CHECK_DEADLOCK FALSE
