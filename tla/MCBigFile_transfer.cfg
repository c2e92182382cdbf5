CONSTANTS
  Sizes = {0, 1, 4, 5, 11}
  CHUNKSPERSEGMENT = 4
  CharModulus = 8
  UninitFlags = {TRUE, FALSE}
  Corruptions = 2
  Repeatable = {"Head"}
  Repeats = 1
SPECIFICATION LiveSpec
INVARIANTS
  TypeOK
  TransitIsCounted
  ChunksAreForThisSegment
  SomethingIsToCome
  EndsAgree
  MessagesAreBounded
PROPERTIES
  ImplementsFileTransfer
  CompletesIntact
  SenderOutlivesTransfer
  TransferCompletes
CHECK_DEADLOCK FALSE
