SPECIFICATION Spec
CONSTANTS
  Files <- MCFiles
  Layouts <- MCLayouts
  SectorPerCluster = 2
  SectorSize = 2
  Texts <- MCTexts
  Lengths <- MCLengths
  MaxSize = 8
INVARIANTS
  TypeOK
  ReadsBack
PROPERTIES
  StaysInChain
