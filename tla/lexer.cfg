CONSTANT Inputs <- SomeInputs
SPECIFICATION Spec
INVARIANTS ErrorsExact TokensAreLexemes 
PROPERTY Terminates
CHECK_DEADLOCK FALSE
