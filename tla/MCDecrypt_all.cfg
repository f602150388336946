SPECIFICATION Spec
CONSTANTS
  b1 = b1
  b2 = b2
  End = End
  Pad = Pad
  NoSum = NoSum
  NoMeta = NoMeta
  Blocks <- MCBlocks
  Payloads <- MCPayloads
  Dicts <- MCDicts
  Sums <- MCSums
  SinkErrors = {"disk"}
  MaxItems = 5
INVARIANTS
  TypeOK
  OutIsPrefix
  NothingLost
  SuccessIsComplete
  JoinedOnReturn
  CauseReported
PROPERTIES
  ImplementsPromise
  Terminates
