CONSTANT Files <- SomeFiles
SPECIFICATION Spec
INVARIANTS TypeOK AcceptsGrammar
PROPERTY Terminates
CHECK_DEADLOCK FALSE
