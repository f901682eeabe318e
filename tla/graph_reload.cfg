SPECIFICATION ReloadSpec
CONSTANTS
  PoolSize = 2
  MaxPoolSize = 4
  MaxCount = 3
INVARIANTS FreeHeadIsFree MaximumIndexCoversNodes EdgesSymmetric CountZeroMeansNoEdges ExportKeepsGraph
