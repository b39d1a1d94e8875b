--------------------------- MODULE MCScopeStack ---------------------------
(* ScopeStack for TLC: names and symbols are model values.                 *)
EXTENDS ScopeStack, TLC

CONSTANTS x, c, v

OneName  == {x}
TwoSymbols == {c, v}
=============================================================================
