SPECIFICATION Spec
CONSTANTS
  BlockSize = 2
  ChunkSize = 4
  End = 0
  Pieces <- MCPieces
  MaxBytes = 8
  MaxItems = 5
INVARIANTS
  TypeOK
  StagesHoldAll
  ChunksFit
  CloseIsComplete
  FailureSticks
