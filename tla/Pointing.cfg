SPECIFICATION Spec
CONSTANTS
  W = 3
  H = 2
  K = 1
  U32 = 64
  Blank = b
  d = d
  w = w
  Lines <- MCLines
  WordChars <- MCWordChars
INVARIANTS
  OnlySelectionReversed
  TextShown
PROPERTIES
  KeepsWhatIsShown
