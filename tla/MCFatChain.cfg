SPECIFICATION Spec
CONSTANTS
  file1 = file1
  file2 = file2
  Names <- MCNames
  SECTOR_SIZE = 24
  MaxCluster = 7
  SearchLimit = 6
  EOC = 100
  Foreign <- MCForeign
  InitFree = 3
  ClusterSize = 2
  HalfWord = 65536
  Sizes <- MCSizes
  MaxSize = 5
  Garbage <- MCGarbage
  MaxCrashes = 1
  UseAfterCrash = TRUE
INVARIANTS
  TypeOK
  NoCrossLink
  ChainMatchesSize
  NothingLost
  FreeCountTracks
  OthersIntact
  MirrorLag
CHECK_DEADLOCK FALSE
