SPECIFICATION Spec
CONSTANTS
  Slots = {a, b, d, e}
  InitNodes = {2, 3}
  MaxNodes = 4
  Lambda = 2
  LoadedErrs = {0, 3}
  Amounts = {1, 4}
  MaxErr = 6
  MaxCycle = 2
  N = 7
  Decay <- Halves
SYMMETRY Symmetry
INVARIANTS HeapOK NodesQueued PicksLargest
PROPERTY ExtractAdvances
CHECK_DEADLOCK FALSE
