CONSTANTS
  MaxOpen = 6
  MaxEntered = 8
  Values = {v1, v2}
  Default = default
  MaxLen = 3
  MaxCases = 3
SPECIFICATION RuntimeSpec
INVARIANTS TypeOK NeverSkipsInner FirstCaseRuns
PROPERTIES FlatIsHandlerStack StepsAreForEach LoopEnds
CHECK_DEADLOCK FALSE
