SPECIFICATION Spec
CONSTANTS
  Bytes <- AllBytes
  NPar = 3
  PaletteLen = 2
  MaxSeen = 3
  MaxParam = 2
  Unwritten <- OneUnwritten
PROPERTIES
  ShownAsWritten
  ArgumentsAsWritten
  EscapeHeard
