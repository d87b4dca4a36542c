SPECIFICATION Spec
CONSTANTS
  Names <- MCNames
  Pieces <- MCPieces
  Outputs <- MCOutputs
  Size <- MCSize
  ClusterSize = 2
  Space = 4
  Counted = 4
  MaxCommands = 5
  MaxDepth = 3
INVARIANTS
  TypeOK
  RedirectedOutput
  OnePlace
CHECK_DEADLOCK FALSE
