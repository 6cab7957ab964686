SPECIFICATION Spec
CONSTANTS
  R = 5
  F = 2
  Bottom = 1
  Spare = 3
  Content = {a, b}
  Junk = junk
  Bare = bare
INVARIANTS
  InMemory
  DisplayRight
