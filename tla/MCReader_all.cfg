SPECIFICATION ReaderSpec
CONSTANTS
  b1 = b1
  b2 = b2
  End = End
  Pad = Pad
  NoSum = NoSum
  NoMeta = NoMeta
  SinkErrors = {"closedpipe"}
  Blocks <- MCBlocks
  Payloads <- MCPayloads
  Dicts <- MCDicts
  Sums <- MCSums
  MaxItems = 4
INVARIANTS
  ReaderTypeOK
  SourceOutlivesDecrypt
  EOFIsComplete
  CloseAgrees
  CloseReports
PROPERTIES
  CloseReturns
  ReadReturns
