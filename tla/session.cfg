SPECIFICATION FairSpec
CONSTANTS
  MaxIters = {2, 5}
  Rows = {0, 1, 2, 3}
  Means = {1, 2}
  Capacity = 3
  Window = 1
  Patience = 2
  Few = 0
  Many = 1
  IterCap = 1
PROPERTIES StatisticsAreLatest OfflineReturns
CHECK_DEADLOCK FALSE
