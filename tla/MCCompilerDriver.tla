------------------------- MODULE MCCompilerDriver -------------------------
(* CompilerDriver for TLC: two processes, on inputs of different base      *)
(* names or of the same one (in different directories).                    *)
EXTENDS CompilerDriver

TwoProcs == {"p", "q"}
TwoBases == {"a", "b"}
Distinct == [p \in TwoProcs |-> IF p = "p" THEN "a" ELSE "b"]
Same     == [p \in TwoProcs |-> "a"]
Either   == {Distinct, Same}
=============================================================================
