SPECIFICATION AllSpec
CONSTANTS
  Files = {"a", "b"}
  Hashes = {h1, h2}
  MaxVersions = 2
  MaxBlobs = 3
  MaxNo = 3
  MaxFaults = 1
  Quota <- MCQuota
  Size <- MCSize
  Users = {"u1", "u2"}
  Workers = {w1, w2}
  Clients = {c1, c2}
  Ttls = {2, 4}
  Until = 6
INVARIANTS
  AllTypesOK
  RowsMatchDisk
  ChargedForOwn
  WithinQuota
  NoStrayBlobs
  OneHolder
CONSTRAINT Harmless
SYMMETRY Symmetry
CHECK_DEADLOCK FALSE
