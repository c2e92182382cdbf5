CONSTANTS
  router = router
  client = client
  server = server
  m1 = m1
  m2 = m2
  Interfaces = {router, client, server}
  Messages = {m1, m2}
  Src <- RouterAndClient
  Dst <- ToServer
  Id <- SameNumber
  Hooked = {m1}
  Invalidated = {}
  ResendTimer = 1
  DuplicationTimeout = 2
  ResendCap = 1
  CharMin <- WrappedChar
  CharMax = 2
  SendCap = 1
  Duplicates = FALSE
  Prompt = TRUE
SPECIFICATION Spec
PROPERTY
  DroppedWasHanded
CHECK_DEADLOCK FALSE
