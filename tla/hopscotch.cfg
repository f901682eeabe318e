SPECIFICATION Spec
CONSTANTS
  Keys = {0, 1, 2, 16, 32, 48, 64}
  NeighborhoodSize = 4
  InitCount = 16
  MaxExponent = 7
INVARIANTS TableOK LoopFindsAll
PROPERTY CallsEnd ImplementsKeySet
