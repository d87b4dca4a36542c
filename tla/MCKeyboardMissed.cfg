SPECIFICATION Spec
CONSTANTS
  Keys <- MCFewKeys
  Kind <- MCFewKind
  Extended <- MCNotExtended
  KB_BUFFER_SIZE = 2
  MaxTyped = 2
PROPERTIES
  FetchReturns
CHECK_DEADLOCK FALSE
