CONSTANTS
  router = router
  client = client
  server = server
  m1 = m1
  m2 = m2
  Interfaces = {router, client}
  Messages = {m1, m2}
  Src <- Forward
  Dst <- ToClient
  Id <- Numbered
  Hooked = {m1}
  Invalidated = {router, client}
  ResendTimer = 0
  DuplicationTimeout = 2
  ResendCap = 1
  CharMin <- WrappedChar
  CharMax = 2
  SendCap = 1
  Duplicates = TRUE
  Prompt = FALSE
SPECIFICATION Spec
INVARIANTS
  TypeOK
  NoSilentLoss
  RemembersRecent
  FlushForgetsExpired
PROPERTIES
  RepeatOnlyAfterSilence
  DroppedWasHanded
  ImplementsDelivery
