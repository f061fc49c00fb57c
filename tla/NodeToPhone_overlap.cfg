SPECIFICATION FairSpec
CONSTANTS
  a = a
  b = b
  c = c
  pic = pic
  doc = doc
  none = none
  NONE = NONE
  Transfers <- TwoFiles
  NumChunks <- TwoSizes
  Name <- OwnNames
  YieldEvery = 2
  Faults = TRUE
  Overlap = TRUE
  MaxConns = 2
  MaxDrops = 1
CHECK_DEADLOCK FALSE
INVARIANTS
  NoChunkKeptTwice
PROPERTY
  EverySendEnds
