SPECIFICATION FairSpec
CONSTANTS
  PoolSize = 2
  MaxPoolSize = 4
  MaxCount = 3
  MaxNodes = 3
  MaxAge = 3
  Lambda = 4
  Utility = TRUE
  MinNodes = 3
INVARIANT NodesBounded
PROPERTIES KeepsPoolContract ScanEnds
CHECK_DEADLOCK FALSE
