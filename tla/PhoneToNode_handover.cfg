SPECIFICATION Spec
CONSTANTS
  a = a
  b = b
  z = z
  pic = pic
  doc = doc
  NONE = NONE
  Transfers <- TwoFiles
  NumChunks <- TwoSizes
  Name <- OwnNames
  Existing <- PicExists
  Overlap = FALSE
  MaxConns = 1
  MaxDrops = 0
CHECK_DEADLOCK FALSE
INVARIANT NoStrandedSend
