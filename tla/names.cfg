CONSTANTS
  MaxTop = 2
  MaxDepth = 3
  MaxDecls = 3
  MaxFrames = 4
SPECIFICATION Spec
INVARIANTS TablesAgree SemaIsLexical IRIsLexical CIsLexical RefusedExactly
CHECK_DEADLOCK FALSE
