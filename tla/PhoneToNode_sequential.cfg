SPECIFICATION Spec
CONSTANTS
  a = a
  b = b
  z = z
  pic = pic
  doc = doc
  NONE = NONE
  Transfers <- ThreeFiles
  NumChunks <- ThreeSizes
  Name <- ThreeNames
  Existing <- PicExists
  Overlap = FALSE
  MaxConns = 2
  MaxDrops = 1
CHECK_DEADLOCK FALSE
INVARIANTS
  TypeOK
  DoneMeansComplete
  AckedMeansWritten
  OneChunkInFlight
  ServerSurvives
  AuthPrecedesFrames
PROPERTY
  CopySpec
