CONSTANTS
  a = a
  d = d
  numBits = 16
  N_SECTORS = 2
  SectorSize = 2
  NumDirEntries = 2
  FieldSector <- TwoSectors
  MapSectors = 2
  NoName = NoName
  Path <- Paths
  FileSizes = {5}
  OpenFileId = {}
  MayCrash = FALSE
  MaxCalls = 6
SPECIFICATION Spec
INVARIANT
  RemovalFreesAll
\* The number of operations is bounded.
CHECK_DEADLOCK FALSE
