------------------------------- MODULE Loops -------------------------------
(***************************************************************************)
(* The run of a lowered for loop whose body is a match statement.  IRGen   *)
(* (irgen.cpp) lowers the two to blocks and jumps; CCodeGen (codegen.cpp)  *)
(* writes a C for statement around a chain of ifs.  They differ in where   *)
(* continue goes: IRGen records for_cond as the loop's continue label,     *)
(* while C goes on at the increment; and in the subject of the match: the  *)
(* IR takes it once, the C writes it out in the test of every case.  What  *)
(* a case does besides is left open.                                       *)
(***************************************************************************)
EXTENDS Naturals, Sequences

CONSTANTS
  Values,   \* values of subjects and patterns
  Default,  \* the pattern of a default case
  MaxLen,   \* bound: elements of the iterated array
  MaxCases  \* bound: cases of the match

ASSUME BoundsAssumption == MaxLen \in Nat /\ MaxCases \in Nat

VARIABLES
  target,   \* "ir" or "c"
  cases,    \* the patterns of the match, in order
  pure,     \* the subject has the same value each time it is evaluated
  len,      \* nsl_len of the array, copied before the loop
  idx,      \* the index slot
  pc,       \* "cond", "match", "case", "step" or "end"
  value,    \* the value of the subject, first taken
  at,       \* the case that is tested or run
  repeats   \* history: an IR loop met a continue

program  == <<target, cases, pure, len>>
loopVars == <<program, idx, pc, value, at, repeats>>

(* In C the default case is the else that ends the chain, or a block when  *)
(* it is the only one; anywhere else the C compiler refuses it.            *)
CRefuses == \E k \in 1..(Len(cases) - 1) : cases[k] = Default

LoopInit ==
  /\ target \in {"ir", "c"} /\ pure \in BOOLEAN
  /\ cases \in UNION {[1..n -> Values \cup {Default}] : n \in 0..MaxCases}
  /\ target = "c" => ~CRefuses
  /\ len \in 0..MaxLen
  /\ idx = 0 /\ pc = "cond" /\ at = 0 /\ repeats = FALSE
  /\ value \in Values

(* idx < len: into the body, to its match, or out of the loop.             *)
Test ==
  /\ pc = "cond"
  /\ IF idx < len THEN pc' = "match" /\ at' = 1 /\ value' \in Values
     ELSE pc' = "end" /\ UNCHANGED <<at, value>>
  /\ UNCHANGED <<program, idx, repeats>>

(* Mutant of TestCase: a test that fails goes to the block of the next     *)
(* case instead of its test.                                               *)
TestCaseFalls ==
  /\ pc = "match" /\ at <= Len(cases) /\ cases[at] # Default
  /\ IF value = cases[at] THEN pc' = "case" /\ at' = at
     ELSE at' = at + 1 /\ pc' = IF at < Len(cases) THEN "case" ELSE "match"
  /\ UNCHANGED <<program, idx, value, repeats>>
(* The test of a case compares what the IR took before, or in C takes the  *)
(* subject again.                                                          *)
TestCase ==
  /\ pc = "match" /\ at <= Len(cases) /\ cases[at] # Default
  /\ \E v \in Values :
       /\ target = "ir" \/ pure \/ at = 1 => v = value
       /\ IF v = cases[at] THEN pc' = "case" /\ at' = at
          ELSE pc' = pc /\ at' = at + 1
  /\ UNCHANGED <<program, idx, value, repeats>>
(* A default case has no test; nothing jumps past it.                      *)
EnterDefault ==
  /\ pc = "match" /\ at <= Len(cases) /\ cases[at] = Default
  /\ pc' = "case"
  /\ UNCHANGED <<program, idx, value, at, repeats>>
(* The match ends, after a case or without one, and with it the body.      *)
MatchEnds ==
  /\ pc = "case" \/ (pc = "match" /\ at > Len(cases))
  /\ pc' = "step"
  /\ UNCHANGED <<program, idx, value, at, repeats>>

Break ==
  /\ pc = "case"
  /\ pc' = "end"
  /\ UNCHANGED <<program, idx, value, at, repeats>>

(* m_loopStack.push_back({condLabel.name, endLabel.name})                  *)
IRContinue ==
  /\ target = "ir" /\ pc = "case"
  /\ pc' = "cond"
  /\ repeats' = TRUE
  /\ UNCHANGED <<program, idx, value, at>>
CContinueToTest ==     \* mutant of CContinue: as if a while loop were written
  /\ target = "c" /\ pc = "case"
  /\ pc' = "cond"
  /\ UNCHANGED <<program, idx, value, at, repeats>>
CContinue ==
  /\ target = "c" /\ pc = "case"
  /\ pc' = "step"
  /\ UNCHANGED <<program, idx, value, at, repeats>>

(* Mutant of Step: the increment forgotten.                                *)
StepStays ==
  /\ pc = "step"
  /\ pc' = "cond"
  /\ UNCHANGED <<program, idx, value, at, repeats>>
Step ==
  /\ pc = "step"
  /\ idx' = idx + 1
  /\ pc' = "cond"
  /\ UNCHANGED <<program, value, at, repeats>>

LoopNext ==
  \/ Test \/ TestCase \/ EnterDefault \/ MatchEnds
  \/ Break \/ IRContinue \/ CContinue \/ Step

(* Cases terminate, so a started loop keeps going.                         *)
LoopSpec == LoopInit /\ [][LoopNext]_loopVars /\ WF_loopVars(LoopNext)

-----------------------------------------------------------------------------
(* The body of the current element has begun unless the loop is about to   *)
(* test or has used up the elements.                                       *)
F == INSTANCE ForEach WITH
       started <- IF pc = "cond" \/ idx = len THEN idx ELSE idx + 1,
       phase   <- CASE pc = "cond" -> "between"
                    [] pc = "end"  -> "done"
                    [] OTHER       -> "body"

(* As long as no IR loop has met a continue, every step of either loop is  *)
(* one of the for-each loop: no element is skipped or begun twice, however *)
(* the cases of its match end, by a continue in C included.                *)
StepsAreForEach == [][~repeats' => [F!Next]_(F!vars)]_loopVars

(* A loop ends, whatever its cases do, or it is an IR loop with a continue.*)
LoopEnds == <>(pc = "end" \/ repeats)

(* The case that runs is the first one that is a default or has the value  *)
(* of the subject, and the match is left without a case only when there is *)
(* none; in C, if the subject can be evaluated again and again.            *)
FirstCaseRuns ==
  pc \in {"match", "case"} /\ (target = "ir" \/ pure) =>
    /\ \A k \in 1..(at - 1) : cases[k] \notin {Default, value}
    /\ pc = "case" => cases[at] \in {Default, value}
=============================================================================
