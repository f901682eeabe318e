SPECIFICATION FairSpec
CONSTANTS
  Ops = {"run", "pause"}
  Inserted = {1}
  InitDb = 3
  InitNodes = {0}
  MaxIters <- NoLimits
  Lambda = 1
  Spurious = FALSE
  MaxCalls = 3
  MaxDb = 3
  IterCap = 1
PROPERTY RunReturns
CHECK_DEADLOCK FALSE
