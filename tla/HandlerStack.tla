---------------------------- MODULE HandlerStack ----------------------------
(***************************************************************************)
(* What try, catch and throw mean in NSL (ast.hpp: TryCatchStmt,           *)
(* ThrowStmt): a throw ends everything opened since the innermost try      *)
(* block that is still running and runs that statement's catch block; a    *)
(* throw in a catch block goes to the next try around it; a throw that no  *)
(* try block encloses ends the program.                                    *)
(***************************************************************************)
EXTENDS Naturals, Sequences

CONSTANTS
  MaxOpen,    \* bound: calls and try statements open at once
  MaxEntered  \* bound: calls and try statements entered in all

ASSUME MaxOpenAssumption == MaxOpen \in Nat \ {0}
ASSUME MaxEnteredAssumption == MaxEntered \in Nat \ {0}

VARIABLES
  stack,      \* open calls, try blocks and catch blocks, oldest first
  entered,    \* calls and try statements entered so far: the newest id
  ending      \* "no", or how the program ended

vars == <<stack, entered, ending>>

Opening(kind) == [kind |-> kind, id |-> entered + 1]
Prefix(s, n)  == SubSeq(s, 1, n)

Positions(s, kind) == {i \in DOMAIN s : s[i].kind = kind}
Last(S) == CHOOSE i \in S : \A j \in S : j <= i

Init ==
  /\ stack = <<[kind |-> "call", id |-> 1]>>
  /\ entered = 1
  /\ ending = "no"

Open(kind) ==
  /\ ending = "no"
  /\ Len(stack) < MaxOpen
  /\ entered < MaxEntered
  /\ stack' = Append(stack, Opening(kind))
  /\ entered' = entered + 1
  /\ UNCHANGED ending

Call     == Open("call")
EnterTry == Open("try")

(* The end of a try or catch block, or a break or continue out of it.      *)
LeaveTry ==
  /\ ending = "no"
  /\ stack[Len(stack)].kind \in {"try", "catch"}
  /\ stack' = Prefix(stack, Len(stack) - 1)
  /\ UNCHANGED <<entered, ending>>

(* A return leaves every try statement the function is in.  The return of  *)
(* main ends the program.                                                  *)
Return ==
  /\ ending = "no"
  /\ LET top == Last(Positions(stack, "call")) IN
       IF top = 1
       THEN ending' = "returned" /\ UNCHANGED stack
       ELSE stack' = Prefix(stack, top - 1) /\ UNCHANGED ending
  /\ UNCHANGED entered

Handlers == Positions(stack, "try")

Throw ==
  /\ ending = "no"
  /\ IF Handlers = {}
     THEN ending' = "uncaught" /\ UNCHANGED stack
     ELSE LET h == Last(Handlers) IN
          /\ stack' = Append(Prefix(stack, h - 1), [stack[h] EXCEPT !.kind = "catch"])
          /\ UNCHANGED ending
  /\ UNCHANGED entered

Next == Call \/ EnterTry \/ LeaveTry \/ Return \/ Throw

Spec == Init /\ [][Next]_vars
=============================================================================
