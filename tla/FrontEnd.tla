----------------------------- MODULE FrontEnd -----------------------------
(***************************************************************************)
(* SemanticAnalyzer and IRGen on one program (compiler.cpp: IRGen runs     *)
(* only if analyse reported no error).  Each walks the whole program on    *)
(* its own and neither changes what the other reads, so their walks are    *)
(* laid side by side, construct by construct; hasErrors can only grow, so  *)
(* what is said of a program without errors so far covers the accepted     *)
(* ones.  The methods of a type are analysed but not lowered.              *)
(***************************************************************************)
EXTENDS SemaWalk

CONSTANTS
  ConstInits,   \* kinds of initialiser of top-level constants that occur
  MaxLabels     \* bound: labels IRGen makes

ASSUME MaxLabelsAssumption == MaxLabels \in Nat

VARIABLES
  irFrames,     \* IRGen's call stack
  inFunction, blocks, lblCnt, loopStack, nullDeref

G == INSTANCE IRGen WITH frames <- irFrames

irVars  == <<irFrames, inFunction, blocks, lblCnt, loopStack, nullDeref>>
allVars == <<vars, irVars>>

AllInit == Init /\ G!Init

InType == Enclosing(frames, {"type"}) # {}

(* A type and its methods: the analyser alone.                             *)
TypeStep ==
  /\ EnterType \/ (InType /\ Next)
  /\ UNCHANGED irVars

(* A top-level constant: IRGen lowers its initialiser outside any function *)
(* and, unless it is a name, does not survive it; the analyser's context   *)
(* plays no part.                                                          *)
ConstStep ==
  /\ \E init \in ConstInits : G!VisitConst(init)
  /\ UNCHANGED vars

EnterBoth ==
  \/ (\E async \in BOOLEAN, ret \in ReturnTypes : EnterFunction(async, ret)) /\ G!EnterFunction
  \/ EnterLoop("for")    /\ G!EnterFor
  \/ EnterLoop("while")  /\ G!EnterWhile
  \/ EnterLoop("loop")   /\ G!EnterLoop
  \/ EnterBlock("then")  /\ G!EnterIf
  \/ EnterBlock("try")   /\ G!EnterTry
  \/ EnterBlock("case")  /\ \E pattern \in BOOLEAN : G!EnterCase(pattern)
  \/ EnterMatch          /\ G!EnterMatch

LeaveBoth ==
  \/ LeaveFunction /\ G!LeaveFunction
  \/ LeaveLoop     /\ G!LeaveLoop
  \/ SecondBlock   /\ G!SecondBlock
  \/ ElseIf        /\ G!ElseIf
  \/ LeaveBlock    /\ (G!LeaveThen \/ G!LeaveBlock \/ G!LeaveCase)
  \/ LeaveUnscoped /\ (G!LeaveBlock \/ G!LeaveMatch)

LoopJumpBoth ==
  /\ BreakOrContinue
  /\ G!Break \/ G!Continue

(* Statements that lower to instructions without a label.                  *)
LeafBoth ==
  /\ Await \/ \E t \in Types \cup {NoType} : ReturnValue(t)
  /\ UNCHANGED irVars

AllNext ==
  \/ TypeStep
  \/ ConstStep
  \/ ~InType /\ (EnterBoth \/ LeaveBoth \/ LoopJumpBoth \/ LeafBoth)

AllSpec == AllInit /\ [][AllNext]_allVars

-----------------------------------------------------------------------------
(* Every variable of the two has its type.                                 *)
AllTypeOK == TypeOK /\ G!TypeOK

(* What IRGen promises of the blocks and labels of a function holds in the *)
(* company of the analyser; see the module for each.                       *)
TargetsCovered    == G!TargetsCovered
OwedIsFresh       == G!OwedIsFresh
LoopStackMatches  == G!LoopStackMatches
BackEdgesAreLoops == G!BackEdgesAreLoops

(* The analyser's flag and IRGen's stack agree on where loops are, at      *)
(* every point of every function that is lowered.  IRGen drops a break or  *)
(* continue that has no loop without a word (irgen.cpp), so this is what   *)
(* keeps one of an accepted program from being lost.                       *)
LoopsAgree == ~InType => (inLoop <=> loopStack # <<>>)
=============================================================================
