SPECIFICATION Spec
CONSTANTS
  Names <- MCNames
  Parts <- MCParts
  Root = 2
  Clusters <- MCClusters
  Room = 2
  MaxLeftover = 1
INVARIANTS
  TypeOK
  TreeMatchesFat
  ReachableInUse
  CwdStringNamesCwd
PROPERTIES
  ImplementsTree
CHECK_DEADLOCK FALSE
