CONSTANTS
  Servers = {1, 2}
  Clients = {3}
  None = None
  RedirectTimeout = 0
  Pings = {1, 2}
  MaxConnections = 3
  IdModulus = 1
  IdentifyCap = 1
  MayTimeOut = {1, 3}
  MayLeave = {}
  ErrorBound = 0
  Memory <- AnyMemory
SPECIFICATION LiveSpec
PROPERTIES
  RedirectTargetConnected
  RedirectIsToNearest
  RedirectConcludes
  DeadAreReaped
