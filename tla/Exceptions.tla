----------------------------- MODULE Exceptions -----------------------------
(***************************************************************************)
(* The exceptions of a generated C program (codegen.cpp: the runtime       *)
(* header's NSL_TRY, NSL_CATCH, NSL_THROW and the statements written with  *)
(* them).  All try statements share one jmp_buf: each one overwrites it    *)
(* when it is entered and none restores it.  longjmp resumes in the catch  *)
(* of the try that wrote it last, ended or not, as long as the function it *)
(* stands in has not returned; otherwise, and when no try was ever         *)
(* entered, the behaviour is undefined ("wild").                           *)
(***************************************************************************)
EXTENDS HandlerStack

VARIABLES
  jmpBuf,     \* __nsl_jmp_buf: the stack below the try that wrote it, and its id
  flat        \* history: no try was entered while another ran, and every throw
              \* was from a try block

cVars == <<vars, jmpBuf, flat>>

Unset == [below |-> <<>>, id |-> 0]

CInit == Init /\ jmpBuf = Unset /\ flat = TRUE

CCall     == Call /\ UNCHANGED <<jmpBuf, flat>>
CReturn   == Return /\ UNCHANGED <<jmpBuf, flat>>
CLeaveTry == LeaveTry /\ UNCHANGED <<jmpBuf, flat>>

(* Mutant of CEnterTry: an outer try keeps the buffer.                     *)
CEnterTryKeeps ==
  /\ EnterTry
  /\ jmpBuf' = IF jmpBuf = Unset THEN [below |-> stack, id |-> entered + 1] ELSE jmpBuf
  /\ flat' = (flat /\ Handlers = {})

(* NSL_TRY: if (setjmp(__nsl_jmp_buf) == 0)                                *)
CEnterTry ==
  /\ EnterTry
  /\ jmpBuf' = [below |-> stack, id |-> entered + 1]
  /\ flat' = (flat /\ Handlers = {})

(* The innermost statement around a throw that the program is inside.      *)
ThrowsFrom ==
  LET S == Handlers \cup Positions(stack, "catch") IN
  IF S = {} THEN "bare" ELSE stack[Last(S)].kind

(* The function the last try stands in has not returned.                   *)
FrameAlive ==
  /\ jmpBuf # Unset
  /\ LET f == jmpBuf.below[Last(Positions(jmpBuf.below, "call"))] IN
       \E i \in DOMAIN stack : stack[i] = f

(* Mutant of CThrow: nothing is unwound.                                   *)
CThrowPush ==
  /\ ending = "no"
  /\ IF FrameAlive
     THEN /\ stack' = Append(stack, [kind |-> "catch", id |-> jmpBuf.id])
          /\ UNCHANGED ending
     ELSE ending' = "wild" /\ UNCHANGED stack
  /\ flat' = (flat /\ ThrowsFrom = "try")
  /\ UNCHANGED <<entered, jmpBuf>>

(* Mutant of CThrow: NSL_TRY without its test of what setjmp returns, so   *)
(* that the try block starts again.                                        *)
CThrowIntoTry ==
  /\ ending = "no"
  /\ IF FrameAlive
     THEN /\ stack' = Append(jmpBuf.below, [kind |-> "try", id |-> jmpBuf.id])
          /\ UNCHANGED ending
     ELSE ending' = "wild" /\ UNCHANGED stack
  /\ flat' = (flat /\ ThrowsFrom = "try")
  /\ UNCHANGED <<entered, jmpBuf>>

(* NSL_THROW: longjmp(__nsl_jmp_buf, 1)                                    *)
CThrow ==
  /\ ending = "no"
  /\ IF FrameAlive
     THEN /\ stack' = Append(jmpBuf.below, [kind |-> "catch", id |-> jmpBuf.id])
          /\ UNCHANGED ending
     ELSE ending' = "wild" /\ UNCHANGED stack
  /\ flat' = (flat /\ ThrowsFrom = "try")
  /\ UNCHANGED <<entered, jmpBuf>>

CNext == CCall \/ CReturn \/ CEnterTry \/ CLeaveTry \/ CThrow

CSpec == CInit /\ [][CNext]_cVars

-----------------------------------------------------------------------------
(* Every variable has its type, and the stack its bound.                   *)
TypeOK ==
  /\ \A i \in DOMAIN stack : stack[i] \in [kind : {"call", "try", "catch"}, id : 1 .. entered]
  /\ stack # <<>> /\ stack[1].kind = "call"
  /\ Len(stack) <= MaxOpen
  /\ entered \in 1 .. MaxEntered
  /\ ending \in {"no", "returned", "uncaught", "wild"}
  /\ jmpBuf.id \in 0 .. entered
  /\ flat \in BOOLEAN

(* A program that has so far run one try block at a time and thrown only   *)
(* from try blocks, of any function, got the exceptions of the language:   *)
(* each of its steps is one of HandlerStack.                               *)
FlatIsHandlerStack == [][flat' => [Next]_vars]_cVars

(* A throw is never caught further out than the innermost running try:     *)
(* the try that wrote the buffer last is no older than any that runs.      *)
NeverSkipsInner ==
  \A i \in Handlers : stack[i].id <= jmpBuf.id
=============================================================================
