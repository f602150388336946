SPECIFICATION Spec
CONSTANTS
  Inputs <- CutInputs
  MaxBytes = 0
  Depth = 40
INVARIANTS
  CleanEndIsClean
