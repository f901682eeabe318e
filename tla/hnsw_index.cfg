SPECIFICATION Spec
CONSTANTS
  Keys = {a, b, d, e, f}
  Places = {0, 1, 4, 9, 11}
  Levels = 2
  MaxLinks = 1
  Ef = 3
  MaxUpper = 2
  MaxMoved = 1
  MaxWith = 3
SYMMETRY Symmetry
INVARIANTS Check LinksBounded StoredDistances
CHECK_DEADLOCK FALSE
