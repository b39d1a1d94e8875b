CONSTANTS
  Types <- SomeTypes
  ReturnTypes <- Returned
  ConstInits <- Inits
  MaxNesting = 4
  MaxLabels = 6
SPECIFICATION AllSpec
INVARIANTS AllTypeOK ContextIsNesting AcceptsWellPlaced
INVARIANTS TargetsCovered OwedIsFresh LoopStackMatches BackEdgesAreLoops
INVARIANT LoopsAgree
