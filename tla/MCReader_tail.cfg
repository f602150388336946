SPECIFICATION ReaderSpec
CONSTANTS
  b1 = b1
  b2 = b2
  End = End
  Pad = Pad
  NoSum = NoSum
  NoMeta = NoMeta
  SinkErrors = {"closedpipe"}
  Blocks <- MCBlocks
  Payloads <- FewPayloads
  Dicts <- MCDicts
  Sums <- MCSums
  MaxItems = 4
INVARIANTS
  TailErrorSurfaces
