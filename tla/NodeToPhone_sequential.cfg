SPECIFICATION Spec
CONSTANTS
  a = a
  b = b
  c = c
  pic = pic
  doc = doc
  none = none
  NONE = NONE
  Transfers <- ThreeFiles
  NumChunks <- ThreeSizes
  Name <- ThreeNames
  YieldEvery = 2
  Faults = TRUE
  Overlap = FALSE
  MaxConns = 2
  MaxDrops = 1
CHECK_DEADLOCK FALSE
INVARIANTS
  TypeOK
  AckedMeansCollected
  SavedIsComplete
  NoStrandedSend
