SPECIFICATION Spec
CONSTANTS
  u1 = u1
  u2 = u2
  n1 = n1
  n2 = n2
  h1 = h1
  h2 = h2
  w1 = w1
  w2 = w2
  None = None
  Users = {u1}
  Names = {n1}
  Hashes = {h1, h2}
  Workers = {w1, w2}
  MaxVersions = 1
  MaxId = 3
  MaxNo = 2
  Suffixed <- MCSuffixed
  Size <- MCSize
  Quota <- MCQuota
CONSTRAINT Undamaged
SYMMETRY WorkerSymmetry
INVARIANTS
  TypeOK
  RefsMatchRows
  RowsReadable
  BlobsAccounted
  NeverOvercharged
PROPERTIES
  ImplementsFileStore
  PruneKeepsNewest
CHECK_DEADLOCK FALSE
