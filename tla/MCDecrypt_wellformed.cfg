SPECIFICATION Spec
CONSTANTS
  b1 = b1
  b2 = b2
  End = End
  Pad = Pad
  NoSum = NoSum
  NoMeta = NoMeta
  Blocks <- MCBlocks
  Payloads <- FewPayloads
  Dicts <- FewDicts
  Sums <- MCSums
  SinkErrors = {"disk"}
  MaxItems = 3
INVARIANTS
  WellFormedAccepted
