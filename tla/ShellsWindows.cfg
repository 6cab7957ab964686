SPECIFICATION Spec
CONSTANTS
  NrShells = 3
  Shell = {s1, s2, s3}
  None = None
  DefaultRef = DefaultRef
  KeyModes <- OneMode
  HiddenBy <- TwoReasons
  ColorIndex = {1}
  Color <- TwoColors
SYMMETRY ShellSymmetry
INVARIANTS
  ActiveIsCurrent
  ConsoleFollowsActive
PROPERTIES
  WindowsKeepSlots
  FocusFallsBack
