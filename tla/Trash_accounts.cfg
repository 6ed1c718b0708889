SPECIFICATION Spec
CONSTANTS
  Workers = {w1, w2}
  a = a
  b = b
  Folders = {a, b}
  Below <- MCBelow
  Top = Top
  Size <- MCSize
  Quota = 3
  MaxId = 2
CONSTRAINT Claimed
SYMMETRY Symmetry
INVARIANTS
  TypeOK
  NeverUndercharged
  NeverOvercharged
  NothingHidden
PROPERTIES PurgesTrash
CHECK_DEADLOCK FALSE
