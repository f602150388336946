SPECIFICATION Spec
CONSTANTS
  Nil = Nil
  Names <- MCNames
  Trees <- MCTrees
  Commands <- MCCommands
  Workers = 2
  MaxRuns = 3
  TempNames <- MCTempNames
INVARIANTS
  ExitTells
  OnlyOutputs
  RoundTrip
PROPERTIES
  RerunChangesNothing
  RunEnds
