SPECIFICATION Spec
CONSTANTS
  Inputs <- AllInputs
  MaxBytes = 5
  Depth = 40
INVARIANTS
  TypeOK
  Reencodes
  RoundTrip
