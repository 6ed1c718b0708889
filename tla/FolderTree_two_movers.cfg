SPECIFICATION Spec
CONSTANTS
  w1 = w1
  w2 = w2
  Workers = {w1, w2}
  Movers = {w1, w2}
  MaxFolderDepth = 3
  MaxId = 3
INVARIANTS Forest
CHECK_DEADLOCK FALSE
