SPECIFICATION FairSpec
CONSTANTS
  u1 = u1
  h1 = h1
  h2 = h2
  up = up
  rm = rm
  w1 = w1
  w2 = w2
  c1 = c1
  Nil = Nil
  Users = {u1}
  Hooks = {h1, h2}
  Owner <- MCOwner
  Actions = {up}
  Events <- MCUploads
  Workers = {w1}
  Handlers = {c1}
  MaxAttempts = 1
  AutoDisableAfter = 1
  MaxPerUser = 2
  MaxEdits = 1
  MaxFaults = 1
INVARIANTS NothingSkipped
PROPERTIES
  GateHeals
  JobsEnd
CHECK_DEADLOCK FALSE
