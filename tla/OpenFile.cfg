SPECIFICATION Spec
CONSTANTS
  letter = letter
  report = report
  here = here
  there = there
  None = None
  Guarded = {letter}
  Files = {letter, report}
  Names = {here, there}
  MaxOpens = 2
  MaxSaves = 2
  MaxActs = 3
  MaxChecks = 1
INVARIANTS TypeOK VersionIsOfItsFile PreviewAlive CopyIsTimed EditNotForgotten PromiseKept
SYMMETRY Interchangeable
CHECK_DEADLOCK FALSE
