CONSTANTS
  numBits = 84
  N_SECTORS = 3
  SectorSize = 3
  MaxBytes = 90
  UsedChoices <- Disks
  Writable = {1, 3, 8, 9, 10, 30, 90}
  Positions = {0, 1, 2, 9, 29}
  Lengths = {0, 1, 3, 5, 90}
  MaxWrites = 2
SPECIFICATION Spec
INVARIANTS
  SectorsInOrder
  ReadsBack
  FileHolds
  RemovalFrees
  AllocatesUpToHalf
\* A file that has been removed does nothing more.
CHECK_DEADLOCK FALSE
