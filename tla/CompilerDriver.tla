--------------------------- MODULE CompilerDriver ---------------------------
(***************************************************************************)
(* Compiler::run (compiler.cpp) in several nslc processes at once, each    *)
(* run again and again: the stages and their early returns, and the files. *)
(* The C code of a binary goes through /tmp/__nsl_<base>.c, named only by  *)
(* the input's base name, so processes can meet there; the outputs are     *)
(* files of their own.  A process can be killed between two steps; the     *)
(* C compiler (external) can fail on any input.                            *)
(***************************************************************************)
EXTENDS Naturals, Sequences

CONSTANTS
  Procs,      \* the nslc processes
  Bases,      \* base names of inputs
  Inputs,     \* the assignments of base names to processes that occur
  MaxRuns     \* bound: runs of one process

ASSUME InputsAssumption == Inputs \subseteq [Procs -> Bases]
ASSUME MaxRunsAssumption == MaxRuns \in Nat

VARIABLES
  base,       \* the base name of each process's input
  pc,         \* where each process is
  target,     \* its EmitTarget
  run,        \* which run of the process this is: it names the source text
  hasErrors,  \* m_diag.hasErrors()
  status,     \* what std::system returned
  code,       \* what the last finished run returned
  temp,       \* the temporary C file of each base name
  out         \* the output file of each process

vars == <<base, pc, target, run, hasErrors, status, code, temp, out>>

Targets == {"binary", "c", "ir", "ast", "tokens"}
Stages  == {"read", "lex", "parse", "sema", "irgen", "gen"}

Holding == {"write", "compile", "remove"}    \* a temporary file is open or to be removed

Text(p)  == [proc |-> p, run |-> run[p]]     \* the C code of p's source
Texts    == [proc : Procs, run : 1 .. MaxRuns]
Broken   == [proc |-> "none", run |-> 0]     \* what a short write leaves

(* A file that is there: whose open handles write to it, and the writes    *)
(* since it was truncated, all of them at its start.  It is an orphan if a *)
(* process was killed that would have removed it (history).                *)
Absent  == [there |-> FALSE, orphan |-> FALSE, handles |-> {}, written |-> <<>>]
Opened(file, p) ==
  [file EXCEPT !.there = TRUE, !.handles = @ \cup {p}, !.written = <<>>]
(* A file removed since it was opened takes the write with it.             *)
Closed(file, p, text) ==
  IF p \in file.handles
  THEN [file EXCEPT !.handles = @ \ {p}, !.written = Append(@, text)] ELSE file
Left(file, p, holding) ==
  [file EXCEPT !.handles = @ \ {p}, !.orphan = @ \/ (holding /\ file.there)]
NoOutput == [kind |-> "none", text |-> Broken]

Init ==
  /\ base \in Inputs
  /\ pc = [p \in Procs |-> "idle"]
  /\ target = [p \in Procs |-> "binary"]
  /\ run = [p \in Procs |-> 0]
  /\ hasErrors = [p \in Procs |-> FALSE]
  /\ status = [p \in Procs |-> 0]
  /\ code = [p \in Procs |-> 0]
  /\ temp = [b \in Bases |-> Absent]
  /\ out = [p \in Procs |-> NoOutput]

Goto(p, next) == pc' = [pc EXCEPT ![p] = next] /\ UNCHANGED code
Exit(p, c)    == pc' = [pc EXCEPT ![p] = "exited"] /\ code' = [code EXCEPT ![p] = c]

(* A command line with an input file; --version and a missing input return *)
(* before the pipeline.                                                    *)
Start(p, t) ==
  /\ pc[p] \in {"idle", "exited", "killed"}
  /\ run[p] < MaxRuns
  /\ run' = [run EXCEPT ![p] = @ + 1]
  /\ target' = [target EXCEPT ![p] = t]
  /\ hasErrors' = [hasErrors EXCEPT ![p] = FALSE]
  /\ Goto(p, "read")
  /\ UNCHANGED <<base, status, temp, out>>

(* The target then plays no part.                                          *)
StartWithoutWork(p) ==
  /\ pc[p] \in {"idle", "exited", "killed"}
  /\ run[p] < MaxRuns
  /\ run' = [run EXCEPT ![p] = @ + 1]
  /\ target' = [target EXCEPT ![p] = "tokens"]
  /\ hasErrors' = [hasErrors EXCEPT ![p] = FALSE]
  /\ \E c \in {0, 1} : Exit(p, c)
  /\ UNCHANGED <<base, status, temp, out>>

(* What follows a stage that reported no error; "done" returns 0.          *)
After(stage, t) ==
  CASE stage = "read"  -> "lex"
    [] stage = "lex"   -> IF t = "tokens" THEN "done" ELSE "parse"
    [] stage = "parse" -> IF t = "ast" THEN "done" ELSE "sema"
    [] stage = "sema"  -> IF t = "ir" THEN "irgen" ELSE "gen"
    [] stage = "irgen" -> "done"
    [] stage = "gen"   -> IF t = "c" THEN "emit" ELSE "open"

(* Errors only add up.  The C generator reports none.                      *)
Report(p) ==
  \E error \in (IF pc[p] = "gen" THEN {FALSE} ELSE BOOLEAN) :
    hasErrors' = [hasErrors EXCEPT ![p] = @ \/ error]

Proceed(p) ==
  LET next == After(pc[p], target[p]) IN
  IF next = "done" THEN Exit(p, 0) ELSE Goto(p, next)

(* Mutant of RunStage: no look at the errors of the lexer.                 *)
RunStageUnchecked(p) ==
  /\ pc[p] \in Stages
  /\ Report(p)
  /\ IF hasErrors'[p] /\ pc[p] # "lex" THEN Exit(p, 1) ELSE Proceed(p)
  /\ UNCHANGED <<base, target, run, status, temp, out>>

RunStage(p) ==
  /\ pc[p] \in Stages
  /\ Report(p)
  /\ IF hasErrors'[p] THEN Exit(p, 1) ELSE Proceed(p)
  /\ UNCHANGED <<base, target, run, status, temp, out>>

(* What f << cCode leaves in an open file: all, or less if the disk fills. *)
(* Nobody looks at f afterwards.                                           *)
Written(p) == {Text(p), Broken}

(* --emit-c: the output file cannot be opened, or is written.              *)
EmitC(p) ==
  /\ pc[p] = "emit"
  /\ \/ Exit(p, 1) /\ UNCHANGED out
     \/ /\ \E text \in Written(p) : out' = [out EXCEPT ![p] = [kind |-> "c", text |-> text]]
        /\ Exit(p, 0)
  /\ UNCHANGED <<base, target, run, hasErrors, status, temp>>

-----------------------------------------------------------------------------
(* Mutant of TempOf: a fixed name.                                         *)
OneTemp(p) == CHOOSE b \in Bases : TRUE

(* tmpC = "/tmp/__nsl_" + defaultOutputName() + ".c"                       *)
TempOf(p) == base[p]

OpenTemp(p) ==
  /\ pc[p] = "open"
  /\ \/ Exit(p, 1) /\ UNCHANGED temp
     \/ Goto(p, "write") /\ temp' = [temp EXCEPT ![TempOf(p)] = Opened(@, p)]
  /\ UNCHANGED <<base, target, run, hasErrors, status, out>>

WriteTemp(p) ==
  /\ pc[p] = "write"
  /\ \E text \in Written(p) : temp' = [temp EXCEPT ![TempOf(p)] = Closed(@, p, text)]
  /\ Goto(p, "compile")
  /\ UNCHANGED <<base, target, run, hasErrors, status, out>>

(* compileC.  Writes over one another may or may not leave valid C; if     *)
(* they do it is the last one's.                                           *)
Compile(p) ==
  LET written == temp[TempOf(p)].written IN
  /\ pc[p] = "compile"
  /\ \/ /\ status' = [status EXCEPT ![p] = 256]
        /\ \E left \in {NoOutput, out[p]} : out' = [out EXCEPT ![p] = left]
     \/ /\ written # <<>>
        /\ \A i \in DOMAIN written : written[i] # Broken
        /\ status' = [status EXCEPT ![p] = 0]
        /\ out' = [out EXCEPT ![p] = [kind |-> "binary", text |-> written[Len(written)]]]
  /\ Goto(p, "remove")
  /\ UNCHANGED <<base, target, run, hasErrors, temp>>

(* Mutant of RemoveTemp: the file is kept when compilation failed.         *)
RemoveOnSuccess(p) ==
  /\ pc[p] = "remove"
  /\ temp' = IF status[p] = 0 THEN [temp EXCEPT ![TempOf(p)] = Absent] ELSE temp
  /\ Exit(p, IF status[p] = 0 THEN 0 ELSE 1)
  /\ UNCHANGED <<base, target, run, hasErrors, status, out>>

RemoveTemp(p) ==
  /\ pc[p] = "remove"
  /\ temp' = [temp EXCEPT ![TempOf(p)] = Absent]
  /\ Exit(p, IF status[p] = 0 THEN 0 ELSE 1)
  /\ UNCHANGED <<base, target, run, hasErrors, status, out>>

(* The process ends between two steps; its handle is closed.               *)
Kill(p) ==
  /\ pc[p] \notin {"idle", "exited", "killed"}
  /\ temp' = [temp EXCEPT ![TempOf(p)] = Left(@, p, pc[p] \in Holding)]
  /\ Goto(p, "killed")
  /\ UNCHANGED <<base, target, run, hasErrors, status, out>>

Next ==
  \E p \in Procs :
    \/ \E t \in Targets : Start(p, t)
    \/ StartWithoutWork(p) \/ RunStage(p) \/ EmitC(p)
    \/ OpenTemp(p) \/ WriteTemp(p) \/ Compile(p) \/ RemoveTemp(p) \/ Kill(p)

Spec == Init /\ [][Next]_vars

-----------------------------------------------------------------------------
Returned(p, c, t) == pc[p] = "exited" /\ code[p] = c /\ target[p] = t

(* "source -> lex -> ... -> C file -> cc -> binary" (compiler.hpp:4) and   *)
(* "returns 0 on success" (compiler.hpp:64): the binary a successful run   *)
(* leaves was built from the source of that run, if its input shares its   *)
(* base name with no other process's; and then whatever its own earlier    *)
(* runs left in the temporary file, killed or not, and whatever a full     *)
(* disk cut off.                                                           *)
OwnBinary(p) ==
  Returned(p, 0, "binary") => out[p] = [kind |-> "binary", text |-> Text(p)]
Alone(p) == \A q \in Procs \ {p} : base[q] # base[p]
LoneBinaryIsOwn == \A p \in Procs : Alone(p) => OwnBinary(p)

(* "Clean up temp file" (compiler.cpp): a temporary file is there only     *)
(* while a process is still to remove it, or after one was killed, also    *)
(* when processes remove it under one another.                             *)
TempHasOwner ==
  \A p \in Procs : LET file == temp[TempOf(p)] IN
    (file.there /\ ~file.orphan) =>
      \E q \in Procs : TempOf(q) = TempOf(p) /\ pc[q] \in Holding

(* A run that reported an error returns 1, and leaves the output and the   *)
(* temporary file alone.                                                   *)
ErrorsStopTheRun ==
  /\ \A p \in Procs : (pc[p] = "exited" /\ hasErrors[p]) => code[p] = 1
  /\ \A p \in Procs : pc[p] \in {"emit", "open", "write", "compile"} => ~hasErrors[p]
=============================================================================
