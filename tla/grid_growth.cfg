SPECIFICATION Spec
CONSTANTS
  Slots = {0, 1, 2, 3}
  Dim = 1
  Side = 8
  Coords = {0, 3, 8}
  Queries = {0}
  FirstL = 9
  LastL = 4
PROPERTY GridStaysSound
CHECK_DEADLOCK FALSE
