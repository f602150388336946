SPECIFICATION Spec
CONSTANTS
  N = 2
  OutPath <- OwnTargets
  OldTargets <- FirstExists
  Workers = 2
  PreserveTime = TRUE
  MaxRuns = 3
  MaxDiscErrs = 0
  NoFile = NoFile
  OldFile = OldFile
INVARIANTS
  NoLitter
PROPERTIES
  ReplacesAtomically
