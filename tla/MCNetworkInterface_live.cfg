CONSTANTS
  router = router
  client = client
  server = server
  m1 = m1
  m2 = m2
  Interfaces = {router, client}
  Messages = {m1}
  Src <- OneForward
  Dst <- OneToClient
  Id <- OneNumber
  Hooked = {m1}
  Invalidated = {router, client}
  ResendTimer = 1
  DuplicationTimeout = 2
  ResendCap = 1
  CharMin <- WrappedChar
  CharMax = 2
  SendCap = 2
  Duplicates = TRUE
  Prompt = FALSE
SPECIFICATION TimerSpec
INVARIANT
  CallbackSound
PROPERTIES
  EventuallyResolved
  EventuallyAcknowledged
