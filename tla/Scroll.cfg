SPECIFICATION Spec
CONSTANTS
  N = 2
  H = 3
  U16 = 5
  Content = {b, x}
  Blank = b
  Garbage = g
  Unseen = u
  WideChars = FALSE
  MaxPending = 2
INVARIANTS
  LinesApart
  CleanRowsShown
PROPERTIES
  ImplementsTerminal
