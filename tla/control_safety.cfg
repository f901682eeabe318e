SPECIFICATION Spec
CONSTANTS
  Ops = {"run", "pause", "terminate", "save", "saveFailing", "getClustering", "updateClustering", "insert", "getNode", "destroy"}
  Inserted = {1, 2}
  InitDb = 0
  InitNodes = {0, 1, 2}
  MaxIters <- NoLimits
  Lambda = 2
  Spurious = TRUE
  MaxCalls <- NoLimit
  MaxDb = 4
  IterCap = 2
INVARIANTS BatchShowsRunning RestHoldsNothing NoCircularWait PauseQuiesces SnapshotResumes
CHECK_DEADLOCK FALSE
