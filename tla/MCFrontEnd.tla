---------------------------- MODULE MCFrontEnd ----------------------------
(* FrontEnd for TLC: the types that tell the branches of isCompatibleWith  *)
(* apart, a returned number and a returned pointer.                        *)
EXTENDS FrontEnd

SomeTypes == {"void", "int", "float", "ptr", "null", "unknown"}
Returned  == {"float", "ptr"}
Inits     == {"name", "literal"}
=============================================================================
