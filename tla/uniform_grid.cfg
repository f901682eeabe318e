SPECIFICATION Spec
CONSTANTS
  Slots = {0, 1, 2}
  Dim = 2
  Side = 8
  Coords = {0, 3, 8}
  Queries = {0, 2, 5, 7}
  FirstL = 4
  LastL = 4
INVARIANT FindsNearest
CHECK_DEADLOCK FALSE
