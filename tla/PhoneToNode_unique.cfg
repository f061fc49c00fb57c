SPECIFICATION Spec
CONSTANTS
  a = a
  b = b
  z = z
  pic = pic
  doc = doc
  NONE = NONE
  Transfers <- TwoFiles
  NumChunks <- TwoSizes
  Name <- SameName
  Existing <- PicExists
  Overlap = TRUE
  MaxConns = 1
  MaxDrops = 0
CHECK_DEADLOCK FALSE
INVARIANT UniquePaths
