CONSTANTS
  Servers = {1}
  Clients = {2, 3}
  None = None
  RedirectTimeout = 0
  Pings = {1}
  MaxConnections = 4
  IdModulus = 7
  IdentifyCap = 0
  MayTimeOut = {1, 2, 3}
  MayLeave = {1, 2, 3}
  ErrorBound = 1
  Memory <- BlankMemory
SPECIFICATION Spec
INVARIANTS
  TypeOK
  RosterHasNoGhosts
  RosterIsComplete
CHECK_DEADLOCK FALSE
