SPECIFICATION Spec
CONSTANTS
  u1 = u1
  h1 = h1
  h2 = h2
  up = up
  rm = rm
  w1 = w1
  w2 = w2
  c1 = c1
  Nil = Nil
  Users = {u1}
  Hooks = {h1}
  Owner <- MCOwner
  Actions = {up, rm}
  Events <- MCEvents
  Workers = {w1, w2}
  Handlers = {c1}
  MaxAttempts = 2
  AutoDisableAfter = 2
  MaxPerUser = 2
  MaxEdits = 2
  MaxFaults = 1
SYMMETRY WorkerSymmetry
INVARIANTS
  TypeOK
  OnePlace
  TriedOnce
  DisabledForCause
  GateCurrent
CHECK_DEADLOCK FALSE
