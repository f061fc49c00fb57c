SPECIFICATION FairSpec
CONSTANTS
  a = a
  b = b
  z = z
  pic = pic
  doc = doc
  NONE = NONE
  Transfers <- TwoFiles
  NumChunks <- TwoSizes
  Name <- SameName
  Existing <- PicExists
  Overlap = TRUE
  MaxConns = 2
  MaxDrops = 1
CHECK_DEADLOCK FALSE
INVARIANT
  NoChunkWrittenTwice
PROPERTIES
  EverySendEnds
  DoneIsSaved
