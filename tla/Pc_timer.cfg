SPECIFICATION FairSpec
CONSTANTS
  NONE = NONE
  d1 = d1
  d2 = d2
  Devices <- MCDevices
  MaxReqs = 1
  MaxConns = 1
  MaxCodes = 2
  MaxFaults = 0
PROPERTIES
  CodeEndsForCause
CHECK_DEADLOCK FALSE
