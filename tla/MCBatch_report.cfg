SPECIFICATION Spec
CONSTANTS
  N = 3
  OutPath <- SharedTargets
  OldTargets <- OtherExists
  Workers = 2
  PreserveTime = TRUE
  MaxRuns = 1
  MaxDiscErrs = 1
  NoFile = NoFile
  OldFile = OldFile
INVARIANTS
  TypeOK
  LitterBounded
  ReportSettled
  SuccessStands
  TimesAreOwn
PROPERTIES
  ExistingKept
  BatchReturns
