SPECIFICATION Spec
CONSTANTS
  W = 3
  Blank = b
  Letters = {a}
  Wides = {w}
  Shapes = {"underline", "block"}
  DefaultShape = "block"
  MaxOps = 2
INVARIANTS
  RowShown
  OneCursor
