SPECIFICATION FairSpec
CONSTANTS
  Ops = {"run", "insert", "terminate", "updateClustering", "getNode", "destroy"}
  Inserted = {1, 2}
  InitDb = 2
  InitNodes = {0, 2}
  MaxIters <- Limits
  Lambda = 1
  Spurious = TRUE
  MaxCalls = 5
  MaxDb = 6
  IterCap = 3
PROPERTIES TerminateEnds LocksGranted TrainsToTheEnd DestroyReturns
CHECK_DEADLOCK FALSE
