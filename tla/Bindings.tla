------------------------------ MODULE Bindings ------------------------------
(***************************************************************************)
(* What a name means, found three times over: by the analyser's scopes     *)
(* (sema.cpp), by the variable scopes of the IR generator (irgen.cpp), and *)
(* by the C compiler in the blocks CCodeGen writes (codegen.cpp).  Each    *)
(* has tables that map names to declarations and treats every name on its  *)
(* own, so one name is enough: a table is what it has for that name, a     *)
(* declaration or 0.  The declarations of the name at top level come first *)
(* and are numbered in their order in the text; the local ones follow.     *)
(* The three walks are taken in step, through one nesting of functions and *)
(* blocks.  Parent pointers are taken as sound (see ScopeStack).           *)
(***************************************************************************)
EXTENDS Naturals, Sequences, FiniteSets

CONSTANTS
  MaxTop,     \* bound: declarations of the name at top level
  MaxDepth,   \* bound: nesting
  MaxDecls,   \* bound: local declarations of the name
  MaxFrames   \* bound: functions and blocks entered

ASSUME BoundsAssumption == {MaxTop, MaxDepth, MaxDecls, MaxFrames} \subseteq Nat

VARIABLES
  top,        \* the kinds of the top-level declarations of the name, in order
  visited,    \* how many of them the visit has passed
  frames,     \* the functions and blocks around the present place
  entered,    \* how many there have been
  log,        \* every local declaration met, with the frame it was met in
  sema,       \* m_scopeStack: what each scope has
  ir,         \* m_varScopes: what each has; empty between functions
  c,          \* file scope, as far as the C above this place, and C blocks
  refused,    \* the C has two declarations of the name in one scope
  last        \* the last use of the name, and what each took it for

vars == <<top, visited, frames, entered, log, sema, ir, c, refused, last>>

(* A constant declared in a function reaches all three as a let            *)
(* declaration, and so is no kind of its own.                              *)
Kinds == {"function", "type", "const", "use"}
Tops(kinds) == {i \in DOMAIN top : top[i] \in kinds}
Latest(S) == IF S = {} THEN 0 ELSE CHOOSE i \in S : \A j \in S : j <= i
Innermost(table) ==
  LET k == Latest({i \in DOMAIN table : table[i] # 0}) IN IF k = 0 THEN 0 ELSE table[k]
Drop(s, n) == SubSeq(s, 1, Len(s) - n)
SetTop(s, d) == [s EXCEPT ![Len(s)] = d]

(* firstPass registers functions and types, a later one over an earlier.   *)
Registered == Latest(Tops({"function", "type"}))
(* The file scope of the C: types, then methods, constants, then functions.*)
(* Imports are no names of the C.                                          *)
FileNames == Kinds \ {"use"}
TypesAndFunctions(all) ==      \* mutant of FileScope: constants come last
  Latest(Tops(IF all THEN {"function", "type"} ELSE {"type"}))
FileScope(all) == Latest(Tops(IF all THEN FileNames ELSE {"type"}))

NoUse == [how |-> "none", visible |-> 0, sema |-> 0, ir |-> 0, c |-> 0, reported |-> FALSE]

Init ==
  /\ top \in UNION {[1..n -> Kinds] : n \in 0..MaxTop}
  /\ visited = 0
  /\ frames = <<>> /\ entered = 0
  /\ log = {}
  /\ sema = <<Registered>>
  /\ ir = <<>> /\ c = <<>>
  /\ refused = (Cardinality(Tops(FileNames)) > 1)
  /\ last = NoUse

(* The next local declaration, and the frame of the present place.         *)
Locals  == {e.decl : e \in log}
NewDecl == Len(top) + Cardinality(Locals) + 1
Frame   == frames[Len(frames)].id
InFunction == frames # <<>> /\ frames[1].kind = "function"
MayDeclare == Cardinality(Locals) < MaxDecls

(* The reference, lexical scoping: the last declaration met in a construct *)
(* that is still open; else the last at top level, be it above or below:   *)
(* "register all top-level symbols so forward references work" (sema.cpp). *)
Open    == {frames[k].id : k \in DOMAIN frames}
IsLocal(d) == d > Len(top)
Reached == {e.decl : e \in {f \in log : f.frame \in Open}}
Visible == IF Reached # {} THEN Latest(Reached) ELSE Latest(DOMAIN top)

(* visitIdentExpr of the three; a callee is a bare name in the IR.         *)
Use(how) ==
  [how |-> how, visible |-> Visible, sema |-> Innermost(sema),
   ir |-> IF how = "call" THEN 0 ELSE Innermost(ir), c |-> Innermost(c), reported |-> FALSE]
MayUse(used, how) == last' = IF used THEN Use(how) ELSE NoUse

(* visitConstDecl, visitUseDecl of the analyser; the others are passed.    *)
VisitTop ==
  /\ frames = <<>> /\ visited < Len(top)
  /\ visited' = visited + 1
  /\ IF top[visited'] \in {"const", "use"}
     THEN sema' = <<visited'>> ELSE UNCHANGED sema
  /\ last' = NoUse
  /\ UNCHANGED <<top, frames, entered, log, ir, c, refused>>

(* Entering a construct, with or without a declaration of the name that is *)
(* its own: a parameter, a loop or a catch variable.                       *)
Enter(kind, declares) ==
  /\ Len(frames) < MaxDepth /\ entered < MaxFrames
  /\ declares => MayDeclare
  /\ entered' = entered + 1
  /\ frames' = Append(frames, [kind |-> kind, id |-> entered'])
  /\ log' = IF declares THEN log \cup {[decl |-> NewDecl, frame |-> entered']} ELSE log
  /\ UNCHANGED <<top, visited, refused>>
Own(declares) == IF declares THEN NewDecl ELSE 0

EnterFunction(declares) ==
  /\ frames = <<>>
  /\ Enter("function", declares)
  /\ sema' = Append(sema, Own(declares))
  /\ ir' = <<Own(declares)>>
  /\ c' = <<FileScope(TRUE), Own(declares)>>
  /\ last' = NoUse
(* A type has a scope for its methods; the IR generator passes them over.  *)
EnterMethod(declares) ==
  /\ frames = <<>>
  /\ Enter("method", declares)
  /\ sema' = sema \o <<0, Own(declares)>>
  /\ c' = <<FileScope(FALSE), Own(declares)>>
  /\ last' = NoUse
  /\ UNCHANGED ir
Lower(d) == IF InFunction THEN Append(ir, d) ELSE ir
(* Branches, cases, while and loop bodies, and try blocks.  The condition  *)
(* or pattern comes before.                                                *)
EnterBlock(uses) ==
  /\ frames # <<>>
  /\ MayUse(uses, "read")
  /\ Enter("block", FALSE)
  /\ sema' = Append(sema, 0)
  /\ ir' = Lower(0)
  /\ c' = Append(c, 0)
(* Mutant of EnterFor: the variable is defined before the scope is pushed. *)
EnterForOutside(declares, uses) ==
  /\ frames # <<>>
  /\ MayUse(uses, "read")
  /\ Enter("for", declares)
  /\ sema' = Append(IF declares THEN SetTop(sema, NewDecl) ELSE sema, 0)
  /\ ir' = Lower(Own(declares))
  /\ c' = c \o <<0, Own(declares)>>
(* Mutant of EnterFor: the IR's scope is left out.                         *)
EnterForNoScope(declares, uses) ==
  /\ frames # <<>>
  /\ MayUse(uses, "read")
  /\ Enter("for", declares)
  /\ sema' = Append(sema, Own(declares))
  /\ ir' = IF InFunction THEN Append(IF declares THEN SetTop(ir, NewDecl) ELSE ir, 0) ELSE ir
  /\ c' = c \o <<0, Own(declares)>>
(* The iterable comes first.  In C the length and the loop are in a block  *)
(* of their own, around the block of the body.                             *)
EnterFor(declares, uses) ==
  /\ frames # <<>>
  /\ MayUse(uses, "read")
  /\ Enter("for", declares)
  /\ sema' = Append(sema, Own(declares))
  /\ ir' = Lower(Own(declares))
  /\ c' = c \o <<0, Own(declares)>>
EnterCatch(declares) ==
  /\ frames # <<>>
  /\ Enter("catch", declares)
  /\ sema' = Append(sema, Own(declares))
  /\ ir' = Lower(Own(declares))
  /\ c' = Append(c, Own(declares))
  /\ last' = NoUse

(* Leaving: every scope and block of the construct goes.                   *)
ScopesOf(kind) == IF kind = "method" THEN 2 ELSE 1
BlocksOf(kind) == IF kind \in {"function", "method", "for"} THEN 2 ELSE 1
LeaveOneBlock ==       \* mutant of Leave: the block around a for stays open
  /\ frames # <<>>
  /\ frames' = Drop(frames, 1)
  /\ sema' = Drop(sema, ScopesOf(frames[Len(frames)].kind))
  /\ ir' = IF InFunction THEN Drop(ir, 1) ELSE ir
  /\ c' = Drop(c, 1)
  /\ last' = NoUse
  /\ UNCHANGED <<top, visited, entered, log, refused>>
Leave ==
  /\ frames # <<>>
  /\ frames' = Drop(frames, 1)
  /\ sema' = Drop(sema, ScopesOf(frames[Len(frames)].kind))
  /\ ir' = IF InFunction THEN Drop(ir, 1) ELSE ir
  /\ c' = Drop(c, BlocksOf(frames[Len(frames)].kind))
  /\ last' = NoUse
  /\ UNCHANGED <<top, visited, entered, log, refused>>

(* visitLetDecl: the analyser and the IR generator take the initialiser    *)
(* before they define the name; in C the new name is in scope there.  A    *)
(* second declaration in a scope replaces the first, but C refuses it.     *)
LetDefinesFirst(uses) ==       \* mutant: the IR slot comes before the value
  /\ frames # <<>> /\ MayDeclare
  /\ log' = log \cup {[decl |-> NewDecl, frame |-> Frame]}
  /\ sema' = SetTop(sema, NewDecl)
  /\ ir' = IF InFunction THEN SetTop(ir, NewDecl) ELSE ir
  /\ c' = SetTop(c, NewDecl)
  /\ refused' = (refused \/ c[Len(c)] # 0)
  /\ last' = IF uses THEN [Use("initialiser") EXCEPT !.ir = NewDecl, !.c = NewDecl] ELSE NoUse
  /\ UNCHANGED <<top, visited, frames, entered>>
Let(uses) ==
  /\ frames # <<>> /\ MayDeclare
  /\ log' = log \cup {[decl |-> NewDecl, frame |-> Frame]}
  /\ sema' = SetTop(sema, NewDecl)
  /\ ir' = IF InFunction THEN SetTop(ir, NewDecl) ELSE ir
  /\ c' = SetTop(c, NewDecl)
  /\ refused' = (refused \/ c[Len(c)] # 0)
  /\ last' = IF uses THEN [Use("initialiser") EXCEPT !.c = NewDecl] ELSE NoUse
  /\ UNCHANGED <<top, visited, frames, entered>>

IsConst(d) == d \in Tops({"const"})
(* visitSetStmt: the analyser reports a constant; the IR generator stores  *)
(* to the variable it finds, and without one drops the statement.          *)
Set ==
  /\ frames # <<>>
  /\ last' = [Use("set") EXCEPT !.reported = IsConst(Innermost(sema))]
  /\ UNCHANGED <<top, visited, frames, entered, log, sema, ir, c, refused>>
Read(how) ==
  /\ frames # <<>>
  /\ last' = Use(how)
  /\ UNCHANGED <<top, visited, frames, entered, log, sema, ir, c, refused>>

Next ==
  \/ VisitTop \/ Leave \/ Set
  \/ \E how \in {"read", "call"} : Read(how)
  \/ \E declares \in BOOLEAN :
       EnterFunction(declares) \/ EnterMethod(declares) \/ EnterCatch(declares)
  \/ \E uses \in BOOLEAN : EnterBlock(uses) \/ Let(uses)
  \/ \E declares, uses \in BOOLEAN : EnterFor(declares, uses)

Spec == Init /\ [][Next]_vars
-----------------------------------------------------------------------------
(* The tables the analyser and the IR generator keep for a function are    *)
(* the same: below the global scope, the two walks push, define and pop in *)
(* the same places.  In methods and between functions the IR has nothing.  *)
TablesAgree == ir = IF InFunction THEN Tail(sema) ELSE <<>>

(* The analyser finds, for every use, the declaration lexical scoping      *)
(* gives, the last one in the innermost construct that has one, and at top *)
(* level a declaration of the name whenever it has met one: functions and  *)
(* types wherever they are, constants and imports only when they are above.*)
(* A set statement is reported, of a local or of the only top-level        *)
(* declaration of a name, exactly when it names a constant that has been   *)
(* met: also behind a closed shadow, never when a local shadows it.        *)
Met == Tops({"function", "type"}) \cup {i \in Tops({"const", "use"}) : i <= visited}
SemaIsLexical ==
  last.how # "none" =>
    LET d == last.visible IN
    /\ IF IsLocal(d) THEN last.sema = d
       ELSE IF Met = {} THEN last.sema = 0 ELSE last.sema \in Met
    /\ IsLocal(d) \/ Len(top) < 2 =>
         (last.reported <=> last.how = "set" /\ IsConst(d) /\ d \in Met)

(* What the analyser says of its first pass: all top-level symbols are     *)
(* registered, so that forward references work.  A name that has one       *)
(* declaration at top level then means that one in every function, above   *)
(* it too, and setting it is reported there when it is a constant.         *)
ForwardReferencesWork ==
  Len(top) = 1 /\ last.how # "none" =>
    /\ last.sema = last.visible
    /\ last.reported <=> last.how = "set" /\ IsConst(last.visible)

(* In a function the IR reads, writes and initialises the local variable   *)
(* lexical scoping gives, and only names without one are left to be found  *)
(* by name.  A callee is never looked for among the variables.             *)
IRIsLexical ==
  last.how \in {"read", "set", "initialiser"} /\ InFunction =>
    last.ir = IF IsLocal(last.visible) THEN last.visible ELSE 0

(* When C does not refuse the program, a name in the C means the same      *)
(* declaration, if that is in the C above it: a local, or in a function a  *)
(* constant, function or type; in a method, a type.  The initialiser of a  *)
(* let that uses its own name is the exception.                            *)
CIsLexical ==
  last.how \in {"read", "set", "call"} /\ ~refused =>
    LET d == last.visible
        known == IF InFunction THEN FileNames ELSE {"type"} IN
    IsLocal(d) \/ d \in Tops(known) => last.c = d

(* A redeclaration goes unnoticed by the analyser, which lets it replace   *)
(* the first, and is refused by C; the two happen in exactly the same      *)
(* programs, those with two declarations in one construct, or with two     *)
(* names of the file scope.                                                *)
RefusedExactly ==
  refused <=> \/ Cardinality(Tops(FileNames)) > 1
              \/ \E e, f \in log : e # f /\ e.frame = f.frame
=============================================================================
