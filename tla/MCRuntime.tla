----------------------------- MODULE MCRuntime -----------------------------
(* Exceptions and Loops for TLC.  The two have no variable in common, so   *)
(* their steps in any order show nothing that each alone does not: a       *)
(* behaviour is one of the try statements of a program, beside a loop that *)
(* is over, or one of a loop, before any try.                              *)
EXTENDS Exceptions, Loops

VARIABLE part

NoLoop ==
  /\ target = "c" /\ cases = <<>> /\ pure = TRUE /\ len = 0
  /\ idx = 0 /\ pc = "end" /\ value = (CHOOSE v \in Values : TRUE) /\ at = 0 /\ repeats = FALSE

RuntimeInit ==
  /\ CInit
  /\ \/ part = "tries" /\ NoLoop
     \/ part = "loop" /\ LoopInit

RuntimeNext ==
  /\ UNCHANGED part
  /\ \/ part = "tries" /\ CNext /\ UNCHANGED loopVars
     \/ part = "loop" /\ LoopNext /\ UNCHANGED cVars

RuntimeSpec ==
  RuntimeInit /\ [][RuntimeNext]_<<part, cVars, loopVars>> /\ WF_loopVars(LoopNext)
=============================================================================
