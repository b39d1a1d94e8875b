------------------------------ MODULE ForEach ------------------------------
(***************************************************************************)
(* What "for x in xs" means: the body runs once for every element, in      *)
(* order, until the elements are used up or a break.  A continue ends one  *)
(* run of the body and nothing else.                                       *)
(***************************************************************************)
EXTENDS Naturals

VARIABLES
  len,        \* number of elements
  started,    \* runs of the body begun: the last one is for element started
  phase       \* "between" runs, in the "body", or "done"

vars == <<len, started, phase>>

Init == len \in Nat /\ started = 0 /\ phase = "between"

StartBody ==
  /\ phase = "between"
  /\ started < len
  /\ started' = started + 1
  /\ phase' = "body"
  /\ UNCHANGED len

EndBody ==
  /\ phase = "body"
  /\ phase' = "between"
  /\ UNCHANGED <<len, started>>

Break ==
  /\ phase = "body"
  /\ phase' = "done"
  /\ UNCHANGED <<len, started>>

Exhausted ==
  /\ phase = "between"
  /\ started = len
  /\ phase' = "done"
  /\ UNCHANGED <<len, started>>

Next == StartBody \/ EndBody \/ Break \/ Exhausted

Spec == Init /\ [][Next]_vars /\ WF_vars(Next)
=============================================================================
