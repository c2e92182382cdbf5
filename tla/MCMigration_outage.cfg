CONSTANTS
  None = None
  MaxHandShakes = 2
  MaxRedirects = 1
  MaxConnections = 2
  MaxRepeats = 1
  MaxOutages = 1
SPECIFICATION Spec
INVARIANTS
  TypeOK
  MainLoopIsConnected
  RedirectedWasIdentified
  OneSession
CHECK_DEADLOCK FALSE
