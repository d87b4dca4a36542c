SPECIFICATION Spec
CONSTANTS
  HDR = 2
  Word = 24
  HeapStart = 1
  HeapSize = 15
  Requests <- MCRequests
  NullSizes <- MCNullSizes
  MaxLive = 3
INVARIANTS
  TypeOK
  ListMatchesMemory
  NoAdjacentFree
  CoversHeap
  HeldIsAllocated
  LiveDisjointUntorn
  LiveInHeap
PROPERTIES
  HeldUntouched
CHECK_DEADLOCK FALSE
