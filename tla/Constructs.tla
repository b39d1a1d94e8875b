---------------------------- MODULE Constructs ----------------------------
(***************************************************************************)
(* The nesting of NSL declarations and statements (ast.hpp), as the        *)
(* visitors walk it: the kinds of the constructs a visitor can be inside.  *)
(* A visitor's call stack is a sequence of frames, each with its kind.     *)
(***************************************************************************)
EXTENDS Naturals, Sequences

LoopKinds   == {"for", "while", "loop"}

(* An elseif frame holds one nested if; a match frame holds cases; a type  *)
(* frame holds methods.  All other frames hold statements.                 *)
StatementKinds == {"fn", "then", "else", "case", "try", "catch"} \cup LoopKinds
Kinds          == StatementKinds \cup {"elseif", "match", "type"}

Top(frames)  == frames[Len(frames)]
Rest(frames) == SubSeq(frames, 1, Len(frames) - 1)

Inside(frames, kinds) == frames # <<>> /\ Top(frames).kind \in kinds

(* Statement context as the source nests it: the loop, if any, a break or  *)
(* continue leaves or repeats, and the function a return or await is in.   *)
Enclosing(frames, kinds) == {i \in DOMAIN frames : frames[i].kind \in kinds}
=============================================================================
