SPECIFICATION Spec
CONSTANTS
  BufSize = 3
  Room = 2
  Retries = 1
  Chunks <- MCChunks
  Output = {"h", "q"}
INVARIANTS
  ReadsAsSent
  KeysReachProgram
PROPERTIES
  OutputIsRead
