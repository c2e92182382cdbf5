CONSTANTS
  None = None
  c1 = c1
  c2 = c2
  Clients = {c1, c2}
  MaxSockets = 1
  GiveUpSockets = {}
  ReapCap = 1
  IdModulus = 5
  SendCap = 4
  ErrorBound = 1
  MayTimeOut = {c1}
SPECIFICATION Spec
INVARIANTS
  RosterIsComplete
CHECK_DEADLOCK FALSE
