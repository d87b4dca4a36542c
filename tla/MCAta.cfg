SPECIFICATION Spec
CONSTANTS
  Sectors <- MCSectors
  SectorSize = 4
  Zero = "0"
  Garbage = "?"
  Identity <- MCIdentity
  Data <- MCData
  InTime = TRUE
  Patient = TRUE
INVARIANTS
  TypeOK
PROPERTIES
  ImplementsDisk
  RequestReturns
