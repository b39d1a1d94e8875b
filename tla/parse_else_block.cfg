CONSTANT Files <- IfFiles
SPECIFICATION Spec
INVARIANT ElseBlockMayStartWithIf
CHECK_DEADLOCK FALSE
