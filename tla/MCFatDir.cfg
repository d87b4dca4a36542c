SPECIFICATION DirSpec
CONSTANTS
  Names <- Short
  Lfn <- MCShortLfn
  SectorPerCluster = 2
  EntriesPerSector = 4
  Dots = 2
  Beyond <- MCBeyond
  StackClean = TRUE
INVARIANTS
  DirTypeOK
  FoundIffPlaced
  NoOrphans
PROPERTIES
  OutsideUntouched
