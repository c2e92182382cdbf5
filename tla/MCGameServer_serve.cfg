CONSTANTS
  None = None
  c1 = c1
  c2 = c2
  Clients = {c1}
  MaxSockets = 2
  GiveUpSockets = {1}
  ReapCap = 1
  IdModulus = 4
  SendCap = 1
  ErrorBound = 0
  MayTimeOut = {}
SPECIFICATION LiveSpec
INVARIANTS
  TypeOK
  ConnectedWasAccepted
  HandShakeDoesNotNest
PROPERTIES
  JoinsRouter
  ClientsAreServed
CHECK_DEADLOCK FALSE
