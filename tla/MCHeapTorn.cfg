SPECIFICATION Spec
CONSTANTS
  HDR = 2
  Word = 24
  HeapStart = 1
  HeapSize = 15
  Requests <- MCRequests
  NullSizes <- MCNullSizes
  MaxLive = 3
INVARIANTS
  LiveDisjoint
CHECK_DEADLOCK FALSE
