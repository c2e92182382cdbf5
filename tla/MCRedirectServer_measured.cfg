CONSTANTS
  Servers = {1, 2}
  Clients = {3}
  None = None
  RedirectTimeout = 1
  Pings = {1}
  MaxConnections = 3
  IdModulus = 16
  IdentifyCap = 1
  MayTimeOut = {}
  MayLeave = {3}
  ErrorBound = 0
  Memory <- BlankMemory
SPECIFICATION Spec
PROPERTIES
  RedirectIsMeasured
