SPECIFICATION DirSpec
CONSTANTS
  Names <- MCMixed
  Lfn <- MCMixedLfn
  SectorPerCluster = 2
  EntriesPerSector = 8
  Dots = 2
  Beyond <- MCBeyondMixed
  StackClean = TRUE
PROPERTIES
  CreateKeepsOthers
