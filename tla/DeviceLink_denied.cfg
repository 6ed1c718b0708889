SPECIFICATION Spec
CONSTANTS
  Handlers = {h1, h2}
  MaxSessions = 2
  MaxRequests = 5
  MaxFailures = 0
PROPERTIES DeniedIsTerminal
CHECK_DEADLOCK FALSE
