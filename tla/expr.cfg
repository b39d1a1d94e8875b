CONSTANT Inputs <- SomeInputs
SPECIFICATION Spec
INVARIANTS PrecedenceHolds AcceptsExpressions
PROPERTY Terminates
CHECK_DEADLOCK FALSE
