------------------------------- MODULE IRGen -------------------------------
(***************************************************************************)
(* The lowering of functions to basic blocks: the statement visitors of    *)
(* IRGen (irgen.cpp) and the block and label handling of IRBuilder         *)
(* (ir.cpp).  A label is its counter value and the prefix it was made      *)
(* with; of a block's instructions only the jumps are kept, since nothing  *)
(* else refers to a label.  The lowered program is any nesting of          *)
(* constructs whose labels stay below MaxLabels.                           *)
(***************************************************************************)
EXTENDS Constructs, FiniteSets

CONSTANTS
  ConstInits,   \* kinds of initialiser of top-level constants that occur
  MaxNesting,   \* bound: constructs open at once
  MaxLabels     \* bound: labels made in all

VARIABLES
  frames,       \* the visitors' call stack, with the labels each one holds
  inFunction,   \* m_curFn is not null
  blocks,       \* the blocks of m_curFn
  lblCnt,       \* m_lblCnt
  loopStack,    \* m_loopStack
  nullDeref     \* currentBlock() went through a null m_curFn

vars == <<frames, inFunction, blocks, lblCnt, loopStack, nullDeref>>

Entry      == [no |-> 0, prefix |-> "entry"]
NoLabel    == [no |-> 0, prefix |-> "none"]
HeadPrefix == {"for_cond", "while_cond", "loop_body"}

(* freshLabel: the labels a visitor makes, in order, from the next count.  *)
Label(i, prefix) == [no |-> lblCnt + i, prefix |-> prefix]

(* Mutants of MakeLabels: one label not counted, the count running down.   *)
MakeLabelsShort(n) ==
  /\ lblCnt + n <= MaxLabels
  /\ lblCnt' = lblCnt + n - 1
MakeLabelsDown(n) ==
  /\ lblCnt + n <= MaxLabels
  /\ lblCnt' = lblCnt - n

MakeLabels(n) ==
  /\ lblCnt + n <= MaxLabels
  /\ lblCnt' = lblCnt + n

Block(l)   == [name |-> l, jumps |-> {}]
Names(bs)  == {bs[i].name : i \in DOMAIN bs}

(* emitJump and emitCondJump append to the last block of the function.     *)
JumpTo(bs, targets) ==
  [bs EXCEPT ![Len(bs)].jumps = @ \cup targets]

(* setInsertBlock: a label that already has a block gets no second one.    *)
Place(bs, l) == IF l \in Names(bs) THEN bs ELSE Append(bs, Block(l))

Frame(kind, head, next, end) ==
  [kind |-> kind, head |-> head, next |-> next, end |-> end]

Push(frame) ==
  /\ Len(frames) < MaxNesting
  /\ frames' = Append(frames, frame)

Init ==
  /\ frames = <<>>
  /\ inFunction = FALSE
  /\ blocks = <<>>
  /\ lblCnt = 0
  /\ loopStack = <<>>
  /\ nullDeref = FALSE

-----------------------------------------------------------------------------
(* visitConstDecl, outside any function: a name is looked up and emits     *)
(* nothing, any other initialiser emits an instruction.                    *)
VisitConst(init) ==
  /\ ~nullDeref
  /\ frames = <<>>
  /\ nullDeref' = (init # "name" /\ ~inFunction)
  /\ UNCHANGED <<frames, inFunction, blocks, lblCnt, loopStack>>

(* visitFunctionDecl; the methods of a type are not lowered.               *)
EnterFunction ==
  /\ ~nullDeref
  /\ frames = <<>>
  /\ Push(Frame("fn", NoLabel, NoLabel, NoLabel))
  /\ inFunction' = TRUE
  /\ blocks' = <<Block(Entry)>>
  /\ UNCHANGED <<lblCnt, loopStack, nullDeref>>

LeaveFunction ==
  /\ Inside(frames, {"fn"})
  /\ frames' = Rest(frames)
  /\ inFunction' = FALSE
  /\ blocks' = <<>>
  /\ UNCHANGED <<lblCnt, loopStack, nullDeref>>

-----------------------------------------------------------------------------
(* visitIfStmt up to the then branch.                                      *)
OpenIf(bs) ==
  /\ MakeLabels(3)
  /\ blocks' = Place(JumpTo(bs, {Label(0, "if_true"), Label(1, "if_false")}),
                     Label(0, "if_true"))

ThenFrame == Frame("then", NoLabel, Label(1, "if_false"), Label(2, "if_end"))

EnterIf ==
  /\ Inside(frames, StatementKinds)
  /\ OpenIf(blocks)
  /\ Push(ThenFrame)
  /\ UNCHANGED <<inFunction, loopStack, nullDeref>>

(* Mutant of Finish: the jump written after the block was begun.           *)
FinishSwapped(l) == JumpTo(Place(blocks, l), {Top(frames).end})

(* The end of a body jumps to the label its successors share, and the      *)
(* block of label l begins.                                                *)
Finish(l) == Place(JumpTo(blocks, {Top(frames).end}), l)

(* No else branch: the false block only jumps on.                          *)
LeaveThen ==
  /\ Inside(frames, {"then"})
  /\ blocks' = Place(JumpTo(Finish(Top(frames).next), {Top(frames).end}), Top(frames).end)
  /\ frames' = Rest(frames)
  /\ UNCHANGED <<inFunction, lblCnt, loopStack, nullDeref>>

(* else after then, catch after try.                                       *)
SecondBlock ==
  /\ Inside(frames, {"then", "try"})
  /\ blocks' = Finish(Top(frames).next)
  /\ frames' = Append(Rest(frames),
                      Frame(IF Top(frames).kind = "then" THEN "else" ELSE "catch",
                            NoLabel, NoLabel, Top(frames).end))
  /\ UNCHANGED <<inFunction, lblCnt, loopStack, nullDeref>>

ElseIf ==
  /\ Inside(frames, {"then"})
  /\ Len(frames) < MaxNesting
  /\ OpenIf(Finish(Top(frames).next))
  /\ frames' = Rest(frames)
                 \o <<Frame("elseif", NoLabel, NoLabel, Top(frames).end), ThenFrame>>
  /\ UNCHANGED <<inFunction, loopStack, nullDeref>>

LeaveBlock ==
  /\ Inside(frames, {"else", "elseif", "catch"})
  /\ blocks' = Finish(Top(frames).end)
  /\ frames' = Rest(frames)
  /\ UNCHANGED <<inFunction, lblCnt, loopStack, nullDeref>>

-----------------------------------------------------------------------------
(* visitMatchStmt.  A case with a pattern is entered by a test, a default  *)
(* case by falling through from the block before.                          *)
EnterMatch ==
  /\ Inside(frames, StatementKinds)
  /\ MakeLabels(1)
  /\ Push(Frame("match", NoLabel, NoLabel, Label(0, "match_end")))
  /\ UNCHANGED <<inFunction, blocks, loopStack, nullDeref>>

EnterCase(pattern) ==
  /\ Inside(frames, {"match"})
  /\ MakeLabels(2)
  /\ LET tested == IF pattern
                   THEN JumpTo(blocks, {Label(0, "case"), Label(1, "case_next")})
                   ELSE blocks
     IN  blocks' = Place(tested, Label(0, "case"))
  /\ Push(Frame("case", NoLabel, Label(1, "case_next"), Top(frames).end))
  /\ UNCHANGED <<inFunction, loopStack, nullDeref>>

LeaveCase ==
  /\ Inside(frames, {"case"})
  /\ blocks' = Finish(Top(frames).next)
  /\ frames' = Rest(frames)
  /\ UNCHANGED <<inFunction, lblCnt, loopStack, nullDeref>>

(* Mutant of LeaveMatch: the end block forgotten.                          *)
LeaveMatchNoEnd ==
  /\ Inside(frames, {"match"})
  /\ frames' = Rest(frames)
  /\ UNCHANGED <<inFunction, blocks, lblCnt, loopStack, nullDeref>>

LeaveMatch ==
  /\ Inside(frames, {"match"})
  /\ blocks' = Place(blocks, Top(frames).end)
  /\ frames' = Rest(frames)
  /\ UNCHANGED <<inFunction, lblCnt, loopStack, nullDeref>>

-----------------------------------------------------------------------------
(* visitForStmt and visitWhileStmt: condition block, then body block;      *)
(* continue repeats the condition.                                         *)
EnterTested(kind, cond, body, end) ==
  LET c == Label(0, cond)  b == Label(1, body)  e == Label(2, end) IN
  /\ Inside(frames, StatementKinds)
  /\ MakeLabels(3)
  /\ blocks' = Place(JumpTo(Place(JumpTo(blocks, {c}), c), {b, e}), b)
  /\ loopStack' = Append(loopStack, [continueLabel |-> c, breakLabel |-> e])
  /\ Push(Frame(kind, c, NoLabel, e))
  /\ UNCHANGED <<inFunction, nullDeref>>

EnterFor   == EnterTested("for", "for_cond", "for_body", "for_end")
EnterWhile == EnterTested("while", "while_cond", "while_body", "while_end")

(* visitLoopStmt: one body block.                                          *)
EnterLoop ==
  LET b == Label(0, "loop_body")  e == Label(1, "loop_end") IN
  /\ Inside(frames, StatementKinds)
  /\ MakeLabels(2)
  /\ blocks' = Place(JumpTo(blocks, {b}), b)
  /\ loopStack' = Append(loopStack, [continueLabel |-> b, breakLabel |-> e])
  /\ Push(Frame("loop", b, NoLabel, e))
  /\ UNCHANGED <<inFunction, nullDeref>>

(* Mutant of LeaveLoop: the loop is not popped.                            *)
LeaveLoopKeeps ==
  /\ Inside(frames, LoopKinds)
  /\ blocks' = Place(JumpTo(blocks, {Top(frames).head}), Top(frames).end)
  /\ frames' = Rest(frames)
  /\ UNCHANGED <<inFunction, lblCnt, loopStack, nullDeref>>

LeaveLoop ==
  /\ Inside(frames, LoopKinds)
  /\ loopStack' = Rest(loopStack)
  /\ blocks' = Place(JumpTo(blocks, {Top(frames).head}), Top(frames).end)
  /\ frames' = Rest(frames)
  /\ UNCHANGED <<inFunction, lblCnt, nullDeref>>

(* visitTryCatchStmt: the try block is entered by falling through, and     *)
(* nothing jumps to the catch block.                                       *)
EnterTry ==
  /\ Inside(frames, StatementKinds)
  /\ MakeLabels(3)
  /\ blocks' = Place(blocks, Label(0, "try"))
  /\ Push(Frame("try", NoLabel, Label(1, "catch"), Label(2, "try_end")))
  /\ UNCHANGED <<inFunction, loopStack, nullDeref>>

(* visitBreakStmt and visitContinueStmt: dropped outside a loop.           *)
LoopJump(which) ==
  /\ Inside(frames, StatementKinds)
  /\ blocks' = IF loopStack = <<>> THEN blocks
               ELSE JumpTo(blocks, {Top(loopStack)[which]})
  /\ UNCHANGED <<frames, inFunction, lblCnt, loopStack, nullDeref>>

Break    == LoopJump("breakLabel")
Continue == LoopJump("continueLabel")

Next ==
  \/ \E init \in ConstInits : VisitConst(init)
  \/ EnterFunction \/ LeaveFunction
  \/ EnterIf \/ LeaveThen \/ SecondBlock \/ ElseIf \/ LeaveBlock
  \/ EnterMatch \/ \E pattern \in BOOLEAN : EnterCase(pattern)
  \/ LeaveCase \/ LeaveMatch
  \/ EnterFor \/ EnterWhile \/ EnterLoop \/ LeaveLoop
  \/ EnterTry \/ Break \/ Continue

Spec == Init /\ [][Next]_vars

-----------------------------------------------------------------------------
Prefixes == {"entry", "none", "if_true", "if_false", "if_end", "case", "case_next",
             "match_end", "for_cond", "for_body", "for_end", "while_cond",
             "while_body", "while_end", "loop_body", "loop_end", "try", "catch",
             "try_end"}
Labels == [no : Nat, prefix : Prefixes]

(* Every variable has its type.                                            *)
TypeOK ==
  /\ frames \in Seq([kind : Kinds, head : Labels, next : Labels, end : Labels])
  /\ inFunction \in BOOLEAN
  /\ blocks \in Seq([name : Labels, jumps : SUBSET Labels])
  /\ lblCnt \in Nat
  /\ loopStack \in Seq([continueLabel : Labels, breakLabel : Labels])
  /\ nullDeref \in BOOLEAN

(* The labels open constructs have promised a block.                       *)
Owed == ({frames[i].next : i \in DOMAIN frames}
           \cup {frames[i].end : i \in DOMAIN frames}) \ {NoLabel}

(* No jump of a function goes astray: its target has a block or is owed    *)
(* one by a construct that is still open.  When no construct is open but   *)
(* the function itself, every target has a block.                          *)
TargetsCovered ==
  \A i \in DOMAIN blocks : blocks[i].jumps \subseteq Names(blocks) \cup Owed

(* setInsertBlock never meets a label that has a block already (it would   *)
(* silently go on in the wrong block): what is owed is not yet placed, and *)
(* what freshLabel will make is new to the function.                       *)
OwedIsFresh ==
  /\ Owed \cap Names(blocks) = {}
  /\ \A l \in Owed \cup Names(blocks) : l # Entry => l.no < lblCnt

(* m_loopStack lists the open loops: a break leaves and a continue repeats *)
(* the innermost loop around it, also past ifs, matches and try blocks.    *)
LoopStackMatches ==
  LET loops == Enclosing(frames, LoopKinds) IN
  /\ Len(loopStack) = Cardinality(loops)
  /\ \A i \in loops :
       loopStack[Cardinality({j \in loops : j <= i})] =
         [continueLabel |-> frames[i].head, breakLabel |-> frames[i].end]

(* Control flow goes back only to the head of a loop: every jump to an     *)
(* earlier block, or to its own, is to a loop head.                        *)
BackEdgesAreLoops ==
  \A i, j \in DOMAIN blocks :
    (j <= i /\ blocks[j].name \in blocks[i].jumps) => blocks[j].name.prefix \in HeadPrefix
=============================================================================
