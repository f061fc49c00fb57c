SPECIFICATION FairSpec
CONSTANTS
  NONE = NONE
  d1 = d1
  d2 = d2
  Devices <- MCDevices
  MaxReqs = 2
  MaxConns = 2
  MaxCodes = 2
  MaxFaults = 1
INVARIANTS
  TypeOK
  ActiveHasTimer
  ToldIsKnown
  EntryIsLive
  ReplacedIsClosed
PROPERTIES
  ToldEndsCode
  GoCodeEndsForCause
  EveryRequestEnds
CONSTRAINT FirstIsD1
CHECK_DEADLOCK FALSE
