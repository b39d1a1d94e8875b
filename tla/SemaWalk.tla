----------------------------- MODULE SemaWalk -----------------------------
(***************************************************************************)
(* The walk of SemanticAnalyzer over declarations and statements           *)
(* (sema.cpp): the context it keeps in members (m_inLoop, m_inAsync,       *)
(* m_currentReturnType, the number of open scopes), what each visitor      *)
(* saves and restores around a body, and the errors it reports from them.  *)
(* The walked program is any nesting of constructs up to MaxNesting.       *)
(***************************************************************************)
EXTENDS Constructs, FiniteSets

CONSTANTS
  Types,        \* the type kinds that occur as values
  ReturnTypes,  \* those of them that functions declare to return
  MaxNesting    \* bound: constructs open at once

ASSUME ReturnTypesAssumption == ReturnTypes \subseteq Types
ASSUME MaxNestingAssumption == MaxNesting \in Nat \ {0}

VARIABLES
  frames,       \* the visitors' call stack, with what each one saved
  depth,        \* size of m_scopeStack
  inLoop,       \* m_inLoop
  inAsync,      \* m_inAsync
  curReturn,    \* m_currentReturnType, NoType for the null pointer
  hasErrors,    \* m_diag.hasErrors()
  misplaced     \* history: a statement stood where the language forbids it

vars == <<frames, depth, inLoop, inAsync, curReturn, hasErrors, misplaced>>

NoType == "no type"

(* Type::isCompatibleWith on types without parameters.                     *)
IsCompatible(from, to) ==
  \/ "unknown" \in {from, to}
  \/ from = "null" /\ to \in {"ptr", "ref"}
  \/ from = to
  \/ {from, to} \subseteq {"int", "float", "double"}

(* checkType: a null type is not checked (inferExprType returns one for    *)
(* types whose name the registry does not know, such as ptr<int>).         *)
TypeError(actual, expected) ==
  NoType \notin {actual, expected} /\ ~IsCompatible(actual, expected)

Frame(kind) ==
  [kind |-> kind, async |-> FALSE, ret |-> NoType,
   saved |-> [loop |-> inLoop, async |-> inAsync, ret |-> curReturn]]

Room == Len(frames) < MaxNesting

(* analyse: the global scope, then every declaration in order.             *)
Init ==
  /\ frames = <<>>
  /\ depth = 1
  /\ inLoop = FALSE
  /\ inAsync = FALSE
  /\ curReturn = NoType
  /\ hasErrors = FALSE
  /\ misplaced = FALSE

-----------------------------------------------------------------------------
EnterType ==
  /\ Room
  /\ frames = <<>>
  /\ frames' = Append(frames, Frame("type"))
  /\ depth' = depth + 1
  /\ UNCHANGED <<inLoop, inAsync, curReturn, hasErrors, misplaced>>

LeaveType ==
  /\ Inside(frames, {"type"})
  /\ frames' = Rest(frames)
  /\ depth' = depth - 1
  /\ UNCHANGED <<inLoop, inAsync, curReturn, hasErrors, misplaced>>

(* Mutant of EnterFunction: m_currentReturnType is not set.                *)
EnterFunctionNoReturn(async, ret) ==
  /\ Room
  /\ frames = <<>> \/ Inside(frames, {"type"})
  /\ frames' = Append(frames, [Frame("fn") EXCEPT !.async = async, !.ret = ret])
  /\ depth' = depth + 1
  /\ inAsync' = async
  /\ UNCHANGED <<inLoop, curReturn, hasErrors, misplaced>>

EnterFunction(async, ret) ==
  /\ Room
  /\ frames = <<>> \/ Inside(frames, {"type"})
  /\ frames' = Append(frames, [Frame("fn") EXCEPT !.async = async, !.ret = ret])
  /\ depth' = depth + 1
  /\ inAsync' = async
  /\ curReturn' = ret
  /\ UNCHANGED <<inLoop, hasErrors, misplaced>>

LeaveFunction ==
  /\ Inside(frames, {"fn"})
  /\ frames' = Rest(frames)
  /\ depth' = depth - 1
  /\ inAsync' = Top(frames).saved.async
  /\ curReturn' = Top(frames).saved.ret
  /\ UNCHANGED <<inLoop, hasErrors, misplaced>>

-----------------------------------------------------------------------------
(* for, while and loop push a scope and set m_inLoop for their body.       *)
EnterLoop(kind) ==
  /\ Room
  /\ Inside(frames, StatementKinds)
  /\ frames' = Append(frames, Frame(kind))
  /\ depth' = depth + 1
  /\ inLoop' = TRUE
  /\ UNCHANGED <<inAsync, curReturn, hasErrors, misplaced>>

(* Mutants of LeaveLoop: the flag is not restored, or cleared instead.     *)
LeaveLoopKeeps ==
  /\ Inside(frames, LoopKinds)
  /\ frames' = Rest(frames)
  /\ depth' = depth - 1
  /\ UNCHANGED <<inLoop, inAsync, curReturn, hasErrors, misplaced>>
LeaveLoopClears ==
  /\ Inside(frames, LoopKinds)
  /\ frames' = Rest(frames)
  /\ depth' = depth - 1
  /\ inLoop' = FALSE
  /\ UNCHANGED <<inAsync, curReturn, hasErrors, misplaced>>

LeaveLoop ==
  /\ Inside(frames, LoopKinds)
  /\ frames' = Rest(frames)
  /\ depth' = depth - 1
  /\ inLoop' = Top(frames).saved.loop
  /\ UNCHANGED <<inAsync, curReturn, hasErrors, misplaced>>

(* The other bodies only push a scope: a then branch, a case, a try block. *)
EnterBlock(kind) ==
  /\ Room
  /\ \/ kind \in {"then", "try"} /\ Inside(frames, StatementKinds)
     \/ kind = "case" /\ Inside(frames, {"match"})
  /\ frames' = Append(frames, Frame(kind))
  /\ depth' = depth + 1
  /\ UNCHANGED <<inLoop, inAsync, curReturn, hasErrors, misplaced>>

(* The end of a then branch without an else, of an else, case or catch.    *)
LeaveBlock ==
  /\ Inside(frames, {"then", "else", "case", "catch"})
  /\ frames' = Rest(frames)
  /\ depth' = depth - 1
  /\ UNCHANGED <<inLoop, inAsync, curReturn, hasErrors, misplaced>>

(* The second body of a statement follows the first: else after then,      *)
(* catch after try.                                                        *)
SecondBlock ==
  /\ Inside(frames, {"then", "try"})
  /\ frames' = Append(Rest(frames),
                      Frame(IF Top(frames).kind = "then" THEN "else" ELSE "catch"))
  /\ UNCHANGED <<depth, inLoop, inAsync, curReturn, hasErrors, misplaced>>

(* An else-if is visited with no scope of its own: the nested if opens its *)
(* then branch at once.  A match has no scope of its own either.           *)
ElseIf ==
  /\ Room
  /\ Inside(frames, {"then"})
  /\ frames' = Rest(frames) \o <<Frame("elseif"), Frame("then")>>
  /\ UNCHANGED <<depth, inLoop, inAsync, curReturn, hasErrors, misplaced>>

EnterMatch ==
  /\ Room
  /\ Inside(frames, StatementKinds)
  /\ frames' = Append(frames, Frame("match"))
  /\ UNCHANGED <<depth, inLoop, inAsync, curReturn, hasErrors, misplaced>>

LeaveUnscoped ==
  /\ Inside(frames, {"elseif", "match"})
  /\ frames' = Rest(frames)
  /\ UNCHANGED <<depth, inLoop, inAsync, curReturn, hasErrors, misplaced>>

-----------------------------------------------------------------------------
(* A leaf statement: what the analyser reports, and what the nesting says. *)
Judge(error, wrong) ==
  /\ Inside(frames, StatementKinds)
  /\ hasErrors' = (hasErrors \/ error)
  /\ misplaced' = (misplaced \/ wrong)
  /\ UNCHANGED <<frames, depth, inLoop, inAsync, curReturn>>

InnermostFn(fs) ==
  fs[CHOOSE i \in Enclosing(fs, {"fn"}) : \A j \in Enclosing(fs, {"fn"}) : j <= i]

BreakOrContinue ==
  Judge(~inLoop, Enclosing(frames, LoopKinds) = {})

Await ==
  Judge(~inAsync, ~InnermostFn(frames).async)

ReturnValue(t) ==
  Judge(TypeError(t, curReturn), TypeError(t, InnermostFn(frames).ret))

Next ==
  \/ EnterType \/ LeaveType
  \/ \E async \in BOOLEAN, ret \in ReturnTypes : EnterFunction(async, ret)
  \/ LeaveFunction
  \/ \E kind \in LoopKinds : EnterLoop(kind)
  \/ LeaveLoop
  \/ \E kind \in {"then", "case", "try"} : EnterBlock(kind)
  \/ LeaveBlock \/ SecondBlock \/ ElseIf \/ EnterMatch \/ LeaveUnscoped
  \/ BreakOrContinue \/ Await
  \/ \E t \in Types \cup {NoType} : ReturnValue(t)

Spec == Init /\ [][Next]_vars

-----------------------------------------------------------------------------
Context == [loop : BOOLEAN, async : BOOLEAN, ret : ReturnTypes \cup {NoType}]

(* Every member has its type.                                              *)
TypeOK ==
  /\ frames \in Seq([kind : Kinds, async : BOOLEAN, ret : ReturnTypes \cup {NoType},
                     saved : Context])
  /\ depth \in Nat
  /\ inLoop \in BOOLEAN
  /\ inAsync \in BOOLEAN
  /\ curReturn \in ReturnTypes \cup {NoType}
  /\ hasErrors \in BOOLEAN
  /\ misplaced \in BOOLEAN

(* The saved and restored members say, at every point of the walk, what    *)
(* the nesting says: m_inLoop that a loop is open, m_inAsync and           *)
(* m_currentReturnType what the open function declares, and m_scopeStack   *)
(* has one scope for the program and one for every construct with a scope. *)
ContextIsNesting ==
  /\ inLoop = (Enclosing(frames, LoopKinds) # {})
  /\ IF Enclosing(frames, {"fn"}) = {}
     THEN inAsync = FALSE /\ curReturn = NoType
     ELSE /\ inAsync = InnermostFn(frames).async
          /\ curReturn = InnermostFn(frames).ret
  /\ depth = 1 + Cardinality(Enclosing(frames, Kinds \ {"elseif", "match"}))

(* analyse returns true exactly for the programs whose breaks, continues,  *)
(* awaits and returns all stand where the nesting allows them.             *)
AcceptsWellPlaced == hasErrors = misplaced
=============================================================================
