CONSTANTS
  None = None
  MaxHandShakes = 2
  MaxRedirects = 1
  MaxConnections = 1
  MaxRepeats = 0
  MaxOutages = 0
SPECIFICATION LiveSpec
PROPERTIES
  ClientIsAnswered
  RouterIsAnswered
  ClientIsSentOn
CHECK_DEADLOCK FALSE
