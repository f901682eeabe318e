SPECIFICATION Spec
CONSTANTS
  PoolSize = 2
  MaxPoolSize = 4
  MaxCount = 3
  MaxNodes = 4
  MaxAge = 1
  Lambda = 2
  Utility = FALSE
  MinNodes = 10
INVARIANTS
  WinnerKeepsNeighbour EdgesStayYoung ScanMeetsEachEdge OrphansAreRemoved
  FreeListIsComplete CountsExact
PROPERTY ImplementsStore
CHECK_DEADLOCK FALSE
