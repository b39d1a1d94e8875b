CONSTANTS
  Procs <- TwoProcs
  Bases <- TwoBases
  Inputs <- Either
  MaxRuns = 2
SPECIFICATION Spec
INVARIANTS LoneBinaryIsOwn TempHasOwner ErrorsStopTheRun
CHECK_DEADLOCK FALSE
