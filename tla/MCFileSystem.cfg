CONSTANTS
  a = a
  d = d
  numBits = 16
  N_SECTORS = 2
  SectorSize = 2
  NumDirEntries = 2
  FieldSector <- TwoSectors
  MapSectors = 2
  NoName = NoName
  Path <- Paths
  FileSizes = {2, 5}
  OpenFileId = {1}
  MayCrash = TRUE
  MaxCalls = 4
SPECIFICATION Spec
INVARIANTS
  DiskIsSound
  OpenHeadersCurrent
  LosesOnlyAsKnown
PROPERTY
  ImplementsNamespace
\* The number of operations is bounded, and a kill inside an entry or a removal ends the run.
CHECK_DEADLOCK FALSE
