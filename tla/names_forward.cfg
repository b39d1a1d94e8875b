CONSTANTS
  MaxTop = 1
  MaxDepth = 1
  MaxDecls = 1
  MaxFrames = 1
SPECIFICATION Spec
INVARIANT ForwardReferencesWork
CHECK_DEADLOCK FALSE
