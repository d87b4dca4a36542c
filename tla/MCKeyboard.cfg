SPECIFICATION Spec
CONSTANTS
  Keys <- MCKeys
  Kind <- MCKind
  Extended <- MCExtended
  KB_BUFFER_SIZE = 2
  MaxTyped = 4
INVARIANTS
  TypeOK
  TypedIsDelivered
PROPERTIES
  ImplementsQueue
  FetchReturnsUnlessMissed
CHECK_DEADLOCK FALSE
