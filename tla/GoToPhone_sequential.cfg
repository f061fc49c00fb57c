SPECIFICATION FairSpec
CONSTANTS
  a = a
  b = b
  pic = pic
  doc = doc
  NONE = NONE
  Transfers <- TwoFiles
  NumChunks <- TwoSizes
  Name <- OwnNames
  YieldEvery = 2
  Faults = TRUE
  Overlap = FALSE
  ChanCap = 50
  MaxConns = 2
  MaxDrops = 1
CHECK_DEADLOCK FALSE
INVARIANTS
  TypeOK
  SavedIsComplete
  NoEarlyAck
PROPERTY
  EverySendEndsOrPanics
