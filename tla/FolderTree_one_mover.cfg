SPECIFICATION Spec
CONSTANTS
  w1 = w1
  w2 = w2
  Workers = {w1, w2}
  Movers = {w1}
  MaxFolderDepth = 3
  MaxId = 3
INVARIANTS
  Forest
  NothingHidden
CHECK_DEADLOCK FALSE
PROPERTIES PurgesTrash
