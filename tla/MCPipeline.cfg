CONSTANTS
  Lines = 2
  ReaderQueueSize = 1
  WriterQueueSize = 1
  Runs <- MCRuns
  Producer = {p1, p2}
  Consumer = {c1, c2}
  Signal = {h1, h2}
  MaxOverlaps = 1
  Null = Null
  HoistedRead = TRUE
SPECIFICATION FairSpec
INVARIANTS
  ExactlyOnce
  VectorOwnsLive
  TeardownLosesNothing
PROPERTIES
  RunEnds
