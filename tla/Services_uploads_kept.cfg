SPECIFICATION AllSpec
CONSTANTS
  Files = {"a", "b"}
  Hashes = {h1, h2}
  MaxVersions = 2
  MaxBlobs = 3
  MaxNo = 3
  MaxFaults = 0
  Quota <- MCQuota
  Size <- MCSize
  Users = {"u1", "u2"}
  Workers = {w1, w2}
  Clients = {c1, c2}
  Ttls = {2, 4}
  Until = 6
INVARIANT UploadsKept
CHECK_DEADLOCK FALSE
