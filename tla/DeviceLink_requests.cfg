SPECIFICATION FairSpec
CONSTANTS
  Handlers = {h1, h2, h3}
  MaxSessions = 3
  MaxRequests = 8
  MaxFailures = 1
INVARIANTS
  TypeOK
  DeliveredOnce
  TtlOwed
  ApprovedCarriesTokens
PROPERTIES
  ImplementsPairing
  EventuallyGone
CHECK_DEADLOCK FALSE
