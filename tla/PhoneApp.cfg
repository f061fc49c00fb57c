SPECIFICATION Spec
CONSTANTS
  NONE = NONE
  pc1 = pc1
  pc2 = pc2
  Pcs <- MCPcs
  MaxAttempts = 2

  MaxTaps = 3
  MaxCalls = 2
  MaxPairings = 2
  MaxFaults = 1
INVARIANTS
  TypeOK
  DisconnectHolds
  NeverStuck
  StatusIsHonest
  TextsKept
  CredentialsMatch
  LastIsListed
PROPERTIES
  Settles
CONSTRAINT FirstIsPc1
CHECK_DEADLOCK FALSE
