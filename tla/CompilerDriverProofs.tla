------------------------ MODULE CompilerDriverProofs ------------------------
(***************************************************************************)
(* Theorems about CompilerDriver, for any set of processes and of base     *)
(* names and any number of runs.                                           *)
(***************************************************************************)
EXTENDS CompilerDriver, TLAPS

Steps   == Stages \cup Holding \cup {"idle", "emit", "open", "exited", "killed"}
AllText == [proc : Procs, run : Nat] \cup {Broken}
Writes  == Seq(AllText)
File    == [there : BOOLEAN, orphan : BOOLEAN, handles : SUBSET Procs, written : Writes]
Output  == [kind : {"none", "c", "binary"}, text : AllText]

TypeOK ==
  /\ base \in [Procs -> Bases] /\ pc \in [Procs -> Steps] /\ target \in [Procs -> Targets]
  /\ run \in [Procs -> Nat] /\ hasErrors \in [Procs -> BOOLEAN]
  /\ status \in [Procs -> Nat] /\ code \in [Procs -> Nat]
  /\ temp \in [Bases -> File] /\ out \in [Procs -> Output]

(* Past the stages there are no errors.                                    *)
Clean(p) ==
  /\ pc[p] = "exited" /\ hasErrors[p] => code[p] = 1
  /\ pc[p] \in {"emit", "open"} \cup Holding => ~hasErrors[p]

(* The stages after the analysis are those of the target.                  *)
OnRoute(p) ==
  /\ pc[p] = "irgen" => target[p] = "ir"
  /\ pc[p] = "emit"  => target[p] = "c"

(* Of a process whose base name is its own: nobody else has the temporary  *)
(* file open, and from its opening to the end of the run it holds what     *)
(* this run has written.                                                   *)
OwnFile(p) ==
  LET file == temp[base[p]] IN
  /\ file.handles = IF pc[p] = "write" THEN {p} ELSE {}
  /\ pc[p] = "write" => file.written = <<>>
  /\ pc[p] = "compile" => file.written \in {<<Text(p)>>, <<Broken>>}
  /\ pc[p] = "remove" /\ status[p] = 0 => out[p] = [kind |-> "binary", text |-> Text(p)]
  /\ OwnBinary(p)

(* The inductive invariant.                                                *)
IInv ==
  /\ TypeOK /\ TempHasOwner
  /\ \A p \in Procs : Clean(p) /\ OnRoute(p) /\ (Alone(p) => OwnFile(p))

-----------------------------------------------------------------------------
(* What the file operations leave in a file.                               *)
LEMMA NoWrites == <<>> \in Writes
  BY DEF Writes

LEMMA AbsentFacts ==
  Absent \in File /\ ~Absent.there /\ ~Absent.orphan /\ Absent.handles = {} /\ Absent.written = <<>>
  BY NoWrites DEF Absent, File

LEMMA OpenedFacts ==
  ASSUME NEW file \in File, NEW p \in Procs
  PROVE  /\ Opened(file, p) \in File
         /\ Opened(file, p).handles = file.handles \cup {p}
         /\ Opened(file, p).written = <<>>
  BY NoWrites DEF Opened, File

LEMMA ClosedFacts ==
  ASSUME NEW file \in File, NEW p \in Procs, NEW text \in AllText
  PROVE  /\ Closed(file, p, text) \in File
         /\ Closed(file, p, text).there = file.there
         /\ Closed(file, p, text).orphan = file.orphan
         /\ Closed(file, p, text).handles = file.handles \ {p}
         /\ p \in file.handles => Closed(file, p, text).written = Append(file.written, text)
  <1>1. Append(file.written, text) \in Writes
    BY DEF File, Writes
  <1>2. QED
    BY <1>1 DEF Closed, File

LEMMA LeftFacts ==
  ASSUME NEW file \in File, NEW p \in Procs, NEW holding \in BOOLEAN
  PROVE  /\ Left(file, p, holding) \in File
         /\ Left(file, p, holding).there = file.there
         /\ Left(file, p, holding).orphan = (file.orphan \/ (holding /\ file.there))
         /\ Left(file, p, holding).handles = file.handles \ {p}
         /\ Left(file, p, holding).written = file.written
  BY DEF Left, File

-----------------------------------------------------------------------------
(* A step of one process keeps the invariant if it keeps its own part, and *)
(* leaves the file it meets in good hands: the others, and the files of    *)
(* other base names, stay as they are.                                     *)
Owned(b) ==
  temp[b].there /\ ~temp[b].orphan =>
    \E q \in Procs : TempOf(q) = b /\ pc[q] \in Holding

LEMMA OneMoves ==
  ASSUME IInv, TypeOK', NEW p \in Procs, UNCHANGED base,
         \A q \in Procs \ {p} :
           UNCHANGED <<pc[q], target[q], run[q], hasErrors[q], status[q], code[q], out[q]>>,
         \A b \in Bases \ {base[p]} : UNCHANGED temp[b],
         Clean(p)', OnRoute(p)', Owned(base[p])', Alone(p) => OwnFile(p)'
  PROVE  IInv'
  <1>1. TempHasOwner'
    <2> SUFFICES ASSUME NEW r \in Procs, temp'[base[r]].there, ~temp'[base[r]].orphan
                 PROVE  \E q \in Procs : base[q] = base[r] /\ pc'[q] \in Holding
      BY DEF TempHasOwner, TempOf
    <2>1. CASE base[r] = base[p]
      BY <2>1 DEF Owned, TempOf
    <2>2. CASE base[r] # base[p]
      <3>1. base[r] \in Bases
        BY DEF IInv, TypeOK
      <3>2. temp'[base[r]] = temp[base[r]]
        BY <2>2, <3>1
      <3>3. PICK q \in Procs : base[q] = base[r] /\ pc[q] \in Holding
        BY <3>2 DEF IInv, TempHasOwner, TempOf
      <3>4. q # p
        BY <2>2, <3>3
      <3>5. pc'[q] = pc[q]
        BY <3>4
      <3>6. QED
        BY <3>3, <3>5
    <2>3. QED
      BY <2>1, <2>2
  <1>2. ASSUME NEW q \in Procs PROVE Clean(q)' /\ OnRoute(q)'
    <2>1. CASE q = p
      BY <2>1
    <2>2. CASE q # p
      <3>1. Clean(q) /\ OnRoute(q)
        BY DEF IInv
      <3>2. UNCHANGED <<pc[q], target[q], hasErrors[q], code[q]>>
        BY <2>2
      <3>3. QED
        BY <3>1, <3>2 DEF Clean, OnRoute
    <2>3. QED
      BY <2>1, <2>2
  <1>3. ASSUME NEW q \in Procs, Alone(q)' PROVE OwnFile(q)'
    <2>1. Alone(q)
      BY <1>3 DEF Alone
    <2>2. CASE q = p
      BY <2>1, <2>2
    <2>3. CASE q # p
      <3>1. OwnFile(q)
        BY <2>1 DEF IInv
      <3>2. base[q] # base[p] /\ base[q] \in Bases
        BY <2>1, <2>3 DEF Alone, IInv, TypeOK
      <3>3. temp'[base[q]] = temp[base[q]]
        BY <3>2
      <3>4. UNCHANGED <<pc[q], target[q], run[q], status[q], code[q], out[q]>>
        BY <2>3
      <3>5. QED
        BY <3>1, <3>3, <3>4 DEF OwnFile, OwnBinary, Returned, Text
    <2>4. QED
      BY <2>2, <2>3
  <1>4. QED
    BY <1>1, <1>2, <1>3 DEF IInv

(* The steps.  Those on the files say first what becomes of the file met.  *)
LEMMA StartIInv ==
  ASSUME IInv, NEW p \in Procs, NEW t \in Targets, Start(p, t)
  PROVE  IInv'
  <1>1. TypeOK'
    BY DEF Start, Goto, IInv, TypeOK, Steps, Stages
  <1>2. \A q \in Procs \ {p} :
          UNCHANGED <<pc[q], target[q], run[q], hasErrors[q], status[q], code[q], out[q]>>
    BY DEF Start, Goto, IInv, TypeOK
  <1>3. pc'[p] = "read" /\ UNCHANGED <<base, temp>> /\ pc[p] \notin Holding
    BY DEF Start, Goto, IInv, TypeOK, Holding
  <1>4. Clean(p)' /\ OnRoute(p)'
    BY <1>3 DEF Clean, OnRoute, Holding
  <1>5. Owned(base[p])'
    BY <1>2, <1>3 DEF IInv, TempHasOwner, TempOf, Owned
  <1>6. Alone(p) => OwnFile(p)'
    BY <1>3 DEF IInv, OwnFile, OwnBinary, Returned, Holding
  <1>7. QED
    BY <1>1, <1>2, <1>3, <1>4, <1>5, <1>6, OneMoves

LEMMA StartWithoutWorkIInv ==
  ASSUME IInv, NEW p \in Procs, StartWithoutWork(p)
  PROVE  IInv'
  <1>1. TypeOK'
    BY DEF StartWithoutWork, Exit, IInv, TypeOK, Steps, Targets
  <1>2. \A q \in Procs \ {p} :
          UNCHANGED <<pc[q], target[q], run[q], hasErrors[q], status[q], code[q], out[q]>>
    BY DEF StartWithoutWork, Exit, IInv, TypeOK
  <1>3. /\ pc'[p] = "exited" /\ target'[p] = "tokens" /\ ~hasErrors'[p]
        /\ UNCHANGED <<base, temp>> /\ pc[p] \notin Holding
    BY DEF StartWithoutWork, Exit, IInv, TypeOK, Holding
  <1>4. Clean(p)' /\ OnRoute(p)'
    BY <1>3 DEF Clean, OnRoute, Holding
  <1>5. Owned(base[p])'
    BY <1>2, <1>3 DEF IInv, TempHasOwner, TempOf, Owned
  <1>6. Alone(p) => OwnFile(p)'
    BY <1>3 DEF IInv, OwnFile, OwnBinary, Returned, Holding
  <1>7. QED
    BY <1>1, <1>2, <1>3, <1>4, <1>5, <1>6, OneMoves

LEMMA RunStageIInv ==
  ASSUME IInv, NEW p \in Procs, RunStage(p)
  PROVE  IInv'
  <1> DEFINE next == After(pc[p], target[p])
  <1>1. /\ next \in Stages \cup {"done", "emit", "open"}
        /\ next = "done" => target[p] # "binary"
        /\ next = "irgen" => target[p] = "ir"
        /\ next = "emit" => target[p] = "c"
    BY DEF RunStage, After, Stages, IInv, TypeOK, OnRoute, Targets
  <1> HIDE DEF next
  <1>2. /\ hasErrors' \in [Procs -> BOOLEAN] /\ (hasErrors[p] => hasErrors'[p])
        /\ \A q \in Procs \ {p} : UNCHANGED hasErrors[q]
    BY DEF RunStage, Report, IInv, TypeOK
  <1>3. \/ pc' = [pc EXCEPT ![p] = "exited"] /\ code' = [code EXCEPT ![p] = 1] /\ hasErrors'[p]
        \/ /\ pc' = [pc EXCEPT ![p] = "exited"] /\ code' = [code EXCEPT ![p] = 0]
           /\ ~hasErrors'[p] /\ next = "done"
        \/ /\ pc' = [pc EXCEPT ![p] = next] /\ UNCHANGED code
           /\ ~hasErrors'[p] /\ next # "done"
    BY DEF RunStage, Proceed, Exit, Goto, next
  <1>4. TypeOK'
    <2>1. pc' \in [Procs -> Steps] /\ code' \in [Procs -> Nat]
      BY <1>1, <1>3 DEF IInv, TypeOK, Steps
    <2>2. QED
      BY <1>2, <2>1 DEF RunStage, IInv, TypeOK
  <1>5. \A q \in Procs \ {p} :
          UNCHANGED <<pc[q], target[q], run[q], hasErrors[q], status[q], code[q], out[q]>>
    <2>1. \A q \in Procs \ {p} : UNCHANGED <<pc[q], code[q]>>
      BY <1>3 DEF IInv, TypeOK
    <2>2. QED
      BY <1>2, <2>1 DEF RunStage
  <1>6. \/ pc'[p] = "exited" /\ code'[p] = 1 /\ hasErrors'[p]
        \/ pc'[p] = "exited" /\ code'[p] = 0 /\ ~hasErrors'[p] /\ next = "done"
        \/ pc'[p] = next /\ ~hasErrors'[p] /\ next # "done"
    BY <1>3 DEF IInv, TypeOK
  <1>7. UNCHANGED <<base, temp, target>> /\ pc[p] \notin Holding
    BY DEF RunStage, Stages, Holding
  <1>8. Clean(p)' /\ OnRoute(p)'
    BY <1>1, <1>6, <1>7 DEF Clean, OnRoute, Stages, Holding
  <1>9. Owned(base[p])'
    BY <1>5, <1>7 DEF IInv, TempHasOwner, TempOf, Owned
  <1>10. Alone(p) => OwnFile(p)'
    <2>1. pc'[p] \notin Holding
      BY <1>1, <1>6 DEF Stages, Holding
    <2>2. ~(pc'[p] = "exited" /\ code'[p] = 0 /\ target'[p] = "binary")
      BY <1>1, <1>6, <1>7 DEF Stages
    <2>3. QED
      BY <1>7, <2>1, <2>2 DEF IInv, OwnFile, OwnBinary, Returned, Holding
  <1>11. QED
    BY <1>4, <1>5, <1>7, <1>8, <1>9, <1>10, OneMoves

LEMMA EmitCIInv ==
  ASSUME IInv, NEW p \in Procs, EmitC(p)
  PROVE  IInv'
  <1>1. /\ out' \in [Procs -> Output]
        /\ \A q \in Procs \ {p} : UNCHANGED out[q]
    <2>1. Written(p) \subseteq AllText
      BY DEF Written, Text, AllText, IInv, TypeOK
    <2>2. QED
      BY <2>1 DEF EmitC, IInv, TypeOK, Output
  <1>2. \E c \in {0, 1} : pc' = [pc EXCEPT ![p] = "exited"] /\ code' = [code EXCEPT ![p] = c]
    BY DEF EmitC, Exit
  <1>3. TypeOK'
    BY <1>1, <1>2 DEF EmitC, IInv, TypeOK, Steps
  <1>4. \A q \in Procs \ {p} :
          UNCHANGED <<pc[q], target[q], run[q], hasErrors[q], status[q], code[q], out[q]>>
    BY <1>1, <1>2 DEF EmitC, IInv, TypeOK
  <1>5. /\ pc'[p] = "exited" /\ pc[p] = "emit" /\ target'[p] = "c" /\ ~hasErrors'[p]
        /\ UNCHANGED <<base, temp>>
    BY <1>2 DEF EmitC, IInv, TypeOK, OnRoute, Clean
  <1>6. Clean(p)' /\ OnRoute(p)'
    BY <1>5 DEF Clean, OnRoute, Holding
  <1>7. Owned(base[p])'
    BY <1>4, <1>5 DEF IInv, TempHasOwner, TempOf, Owned, Holding
  <1>8. Alone(p) => OwnFile(p)'
    BY <1>5 DEF IInv, OwnFile, OwnBinary, Returned
  <1>9. QED
    BY <1>3, <1>4, <1>5, <1>6, <1>7, <1>8, OneMoves

LEMMA OpenTempIInv ==
  ASSUME IInv, NEW p \in Procs, OpenTemp(p)
  PROVE  IInv'
  <1> DEFINE b    == base[p]
             file == Opened(temp[b], p)
  <1>1. b \in Bases /\ temp[b] \in File /\ pc[p] = "open" /\ ~hasErrors[p]
    BY DEF IInv, TypeOK, Clean, OpenTemp
  <1>2. file \in File /\ file.handles = temp[b].handles \cup {p} /\ file.written = <<>>
    BY <1>1, OpenedFacts
  <1> HIDE DEF file
  <1>3. \/ /\ pc' = [pc EXCEPT ![p] = "exited"] /\ code' = [code EXCEPT ![p] = 1]
           /\ UNCHANGED temp
        \/ /\ pc' = [pc EXCEPT ![p] = "write"] /\ UNCHANGED code
           /\ temp' = [temp EXCEPT ![b] = file]
    BY DEF OpenTemp, Exit, Goto, TempOf, file
  <1>4. UNCHANGED <<base, target, run, hasErrors, status, out>>
    BY DEF OpenTemp
  <1>5. TypeOK'
    <2>1. temp' \in [Bases -> File]
      BY <1>1, <1>2, <1>3 DEF IInv, TypeOK
    <2>2. pc' \in [Procs -> Steps] /\ code' \in [Procs -> Nat]
      BY <1>3 DEF IInv, TypeOK, Steps, Holding
    <2>3. QED
      BY <1>4, <2>1, <2>2 DEF IInv, TypeOK
  <1>6. \A q \in Procs \ {p} :
          UNCHANGED <<pc[q], target[q], run[q], hasErrors[q], status[q], code[q], out[q]>>
    <2>1. \A q \in Procs \ {p} : UNCHANGED <<pc[q], code[q]>>
      BY <1>3 DEF IInv, TypeOK
    <2>2. QED
      BY <1>4, <2>1
  <1>7. \A a \in Bases \ {b} : UNCHANGED temp[a]
    BY <1>1, <1>3 DEF IInv, TypeOK
  <1>8. \/ pc'[p] = "exited" /\ code'[p] = 1 /\ UNCHANGED temp
        \/ pc'[p] = "write" /\ temp'[b] = file
    BY <1>1, <1>3 DEF IInv, TypeOK
  <1>9. Clean(p)' /\ OnRoute(p)'
    BY <1>1, <1>4, <1>8 DEF Clean, OnRoute, Holding
  <1>10. Owned(base[p])'
    BY <1>1, <1>4, <1>6, <1>8 DEF IInv, TempHasOwner, TempOf, Owned, Holding
  <1>11. Alone(p) => OwnFile(p)'
    <2> SUFFICES ASSUME Alone(p) PROVE OwnFile(p)'
      OBVIOUS
    <2>1. temp[b].handles = {}
      BY <1>1 DEF IInv, OwnFile
    <2>2. CASE pc'[p] = "exited" /\ code'[p] = 1 /\ UNCHANGED temp
      BY <1>4, <2>1, <2>2 DEF OwnFile, OwnBinary, Returned
    <2>3. CASE pc'[p] = "write" /\ temp'[b] = file
      BY <1>2, <1>4, <2>1, <2>3 DEF OwnFile, OwnBinary, Returned
    <2>4. QED
      BY <1>8, <2>2, <2>3
  <1>12. QED
    BY <1>4, <1>5, <1>6, <1>7, <1>9, <1>10, <1>11, OneMoves

LEMMA WriteTempIInv ==
  ASSUME IInv, NEW p \in Procs, WriteTemp(p)
  PROVE  IInv'
  <1> DEFINE b == base[p]
  <1>1. /\ b \in Bases /\ temp[b] \in File /\ pc[p] = "write" /\ ~hasErrors[p]
        /\ Text(p) \in AllText /\ Broken \in AllText
    BY DEF IInv, TypeOK, Clean, WriteTemp, Holding, Text, AllText
  <1>2. PICK text \in {Text(p), Broken} :
          temp' = [temp EXCEPT ![b] = Closed(temp[b], p, text)]
    BY DEF WriteTemp, Written, TempOf
  <1> DEFINE file == Closed(temp[b], p, text)
  <1>3. /\ file \in File /\ file.there = temp[b].there /\ file.orphan = temp[b].orphan
        /\ file.handles = temp[b].handles \ {p}
        /\ p \in temp[b].handles => file.written = Append(temp[b].written, text)
    BY <1>1, ClosedFacts
  <1> HIDE DEF file
  <1>4. /\ pc' = [pc EXCEPT ![p] = "compile"]
        /\ UNCHANGED <<base, target, run, hasErrors, status, out, code>>
    BY DEF WriteTemp, Goto
  <1>5. TypeOK'
    BY <1>1, <1>2, <1>3, <1>4 DEF file, IInv, TypeOK, Steps, Holding
  <1>6. \A q \in Procs \ {p} :
          UNCHANGED <<pc[q], target[q], run[q], hasErrors[q], status[q], code[q], out[q]>>
    BY <1>4 DEF IInv, TypeOK
  <1>7. \A a \in Bases \ {b} : UNCHANGED temp[a]
    BY <1>1, <1>2 DEF IInv, TypeOK
  <1>8. pc'[p] = "compile" /\ temp'[b] = file
    BY <1>1, <1>2, <1>4 DEF IInv, TypeOK, file
  <1>9. Clean(p)' /\ OnRoute(p)'
    BY <1>1, <1>4, <1>8 DEF Clean, OnRoute, Holding
  <1>10. Owned(base[p])'
    BY <1>4, <1>8 DEF Owned, TempOf, Holding
  <1>11. Alone(p) => OwnFile(p)'
    <2> SUFFICES ASSUME Alone(p) PROVE OwnFile(p)'
      OBVIOUS
    <2>1. temp[b].handles = {p} /\ temp[b].written = <<>>
      BY <1>1 DEF IInv, OwnFile
    <2>2. file.handles = {} /\ file.written = <<text>>
      BY <1>1, <1>3, <2>1
    <2>3. Text(p)' = Text(p)
      BY <1>4 DEF Text
    <2>4. QED
      BY <1>4, <1>8, <2>2, <2>3 DEF OwnFile, OwnBinary, Returned
  <1>12. QED
    BY <1>4, <1>5, <1>6, <1>7, <1>9, <1>10, <1>11, OneMoves

LEMMA CompileIInv ==
  ASSUME IInv, NEW p \in Procs, Compile(p)
  PROVE  IInv'
  <1> DEFINE written == temp[base[p]].written
             built   == [kind |-> "binary", text |-> written[Len(written)]]
  <1>1. /\ base[p] \in Bases /\ written \in Seq(AllText) /\ pc[p] = "compile" /\ ~hasErrors[p]
    BY DEF IInv, TypeOK, Clean, Compile, Holding, File, Writes
  <1>2. /\ pc' = [pc EXCEPT ![p] = "remove"]
        /\ UNCHANGED <<base, target, run, hasErrors, temp, code>>
    BY DEF Compile, Goto
  <1>3. \/ /\ status' = [status EXCEPT ![p] = 256]
           /\ \E left \in {NoOutput, out[p]} : out' = [out EXCEPT ![p] = left]
        \/ /\ written # <<>> /\ \A i \in DOMAIN written : written[i] # Broken
           /\ status' = [status EXCEPT ![p] = 0]
           /\ out' = [out EXCEPT ![p] = built]
    BY Zenon DEF Compile, TempOf
  <1>4. out' \in [Procs -> Output] /\ status' \in [Procs -> Nat]
    <2>1. NoOutput \in Output /\ out[p] \in Output
      BY DEF NoOutput, Output, AllText, IInv, TypeOK
    <2>2. written # <<>> => built \in Output
      BY <1>1 DEF Output
    <2> HIDE DEF built
    <2>3. \E left \in Output : out' = [out EXCEPT ![p] = left]
      BY <1>3, <2>1, <2>2, Zenon
    <2>4. out' \in [Procs -> Output]
      BY <2>3 DEF IInv, TypeOK
    <2>5. status' \in [Procs -> Nat]
      <3>1. status' = [status EXCEPT ![p] = 256] \/ status' = [status EXCEPT ![p] = 0]
        BY <1>3, Zenon
      <3>2. QED
        BY <3>1 DEF IInv, TypeOK
    <2>6. QED
      BY <2>4, <2>5
  <1>5. TypeOK'
    BY <1>2, <1>4 DEF IInv, TypeOK, Steps, Holding
  <1>6. \A q \in Procs \ {p} :
          UNCHANGED <<pc[q], target[q], run[q], hasErrors[q], status[q], code[q], out[q]>>
    <2>1. \A q \in Procs \ {p} : UNCHANGED <<status[q], out[q]>>
      BY <1>3 DEF IInv, TypeOK
    <2>2. QED
      BY <1>2, <2>1 DEF IInv, TypeOK
  <1>7. pc'[p] = "remove"
    BY <1>2 DEF IInv, TypeOK
  <1>8. Clean(p)' /\ OnRoute(p)'
    BY <1>1, <1>2, <1>7 DEF Clean, OnRoute, Holding
  <1>9. Owned(base[p])'
    BY <1>2, <1>7 DEF Owned, TempOf, Holding
  <1>10. Alone(p) => OwnFile(p)'
    <2> SUFFICES ASSUME Alone(p) PROVE OwnFile(p)'
      OBVIOUS
    <2>1. temp[base[p]].handles = {} /\ written \in {<<Text(p)>>, <<Broken>>}
      BY <1>1 DEF IInv, OwnFile
    <2>2. status'[p] = 0 => out'[p] = [kind |-> "binary", text |-> Text(p)]
      <3> SUFFICES ASSUME status'[p] = 0 PROVE out'[p] = [kind |-> "binary", text |-> Text(p)]
        OBVIOUS
      <3>1. /\ \A i \in DOMAIN written : written[i] # Broken
            /\ out'[p] = built
        BY <1>3 DEF IInv, TypeOK
      <3>2. written # <<Broken>>
        BY <3>1
      <3>3. written = <<Text(p)>>
        BY <2>1, <3>2
      <3>4. QED
        BY <3>1, <3>3
    <2>3. Text(p)' = Text(p)
      BY <1>2 DEF Text
    <2>4. QED
      BY <1>2, <1>7, <2>1, <2>2, <2>3 DEF OwnFile, OwnBinary, Returned
  <1>11. QED
    BY <1>2, <1>5, <1>6, <1>8, <1>9, <1>10, OneMoves

LEMMA RemoveTempIInv ==
  ASSUME IInv, NEW p \in Procs, RemoveTemp(p)
  PROVE  IInv'
  <1>1. /\ base[p] \in Bases /\ pc[p] = "remove" /\ ~hasErrors[p]
    BY DEF IInv, TypeOK, Clean, RemoveTemp, Holding
  <1>2. PICK result \in {0, 1} :
          /\ result = IF status[p] = 0 THEN 0 ELSE 1
          /\ pc' = [pc EXCEPT ![p] = "exited"] /\ code' = [code EXCEPT ![p] = result]
    BY DEF RemoveTemp, Exit
  <1>3. /\ temp' = [temp EXCEPT ![base[p]] = Absent]
        /\ UNCHANGED <<base, target, run, hasErrors, status, out>>
    BY DEF RemoveTemp, TempOf
  <1>4. TypeOK'
    BY <1>1, <1>2, <1>3, AbsentFacts DEF IInv, TypeOK, Steps
  <1>5. \A q \in Procs \ {p} :
          UNCHANGED <<pc[q], target[q], run[q], hasErrors[q], status[q], code[q], out[q]>>
    BY <1>2, <1>3 DEF IInv, TypeOK
  <1>6. \A a \in Bases \ {base[p]} : UNCHANGED temp[a]
    BY <1>1, <1>3 DEF IInv, TypeOK
  <1>7. pc'[p] = "exited" /\ code'[p] = result /\ temp'[base[p]] = Absent
    BY <1>1, <1>2, <1>3 DEF IInv, TypeOK
  <1>8. Clean(p)' /\ OnRoute(p)'
    BY <1>1, <1>3, <1>7 DEF Clean, OnRoute, Holding
  <1>9. Owned(base[p])'
    BY <1>3, <1>7, AbsentFacts DEF Owned
  <1>10. Alone(p) => OwnFile(p)'
    <2> SUFFICES ASSUME Alone(p) PROVE OwnFile(p)'
      OBVIOUS
    <2>1. Text(p)' = Text(p)
      BY <1>3 DEF Text
    <2>2. status[p] = 0 => out[p] = [kind |-> "binary", text |-> Text(p)]
      BY <1>1 DEF IInv, OwnFile
    <2>3. OwnBinary(p)'
      BY <1>2, <1>3, <1>7, <2>1, <2>2 DEF OwnBinary, Returned
    <2>4. QED
      BY <1>3, <1>7, <2>3, AbsentFacts DEF OwnFile
  <1>11. QED
    BY <1>3, <1>4, <1>5, <1>6, <1>8, <1>9, <1>10, OneMoves

LEMMA KillIInv ==
  ASSUME IInv, NEW p \in Procs, Kill(p)
  PROVE  IInv'
  <1> DEFINE b    == base[p]
             held == pc[p] \in Holding
             file == Left(temp[b], p, held)
  <1>1. b \in Bases /\ temp[b] \in File /\ held \in BOOLEAN
    BY DEF IInv, TypeOK
  <1>2. /\ file \in File /\ file.there = temp[b].there
        /\ file.orphan = (temp[b].orphan \/ (held /\ temp[b].there))
        /\ file.handles = temp[b].handles \ {p} /\ file.written = temp[b].written
    <2> HIDE DEF held
    <2>1. QED
      BY <1>1, LeftFacts
  <1>3. temp' = [temp EXCEPT ![b] = file]
    BY DEF Kill, TempOf
  <1> HIDE DEF file
  <1>4. /\ pc' = [pc EXCEPT ![p] = "killed"]
        /\ UNCHANGED <<base, target, run, hasErrors, status, out, code>>
    BY DEF Kill, Goto
  <1>5. TypeOK'
    BY <1>1, <1>2, <1>3, <1>4 DEF IInv, TypeOK, Steps
  <1>6. \A q \in Procs \ {p} :
          UNCHANGED <<pc[q], target[q], run[q], hasErrors[q], status[q], code[q], out[q]>>
    BY <1>4 DEF IInv, TypeOK
  <1>7. \A a \in Bases \ {b} : UNCHANGED temp[a]
    BY <1>1, <1>3 DEF IInv, TypeOK
  <1>8. pc'[p] = "killed" /\ temp'[b] = file
    BY <1>1, <1>3, <1>4 DEF IInv, TypeOK
  <1>9. Clean(p)' /\ OnRoute(p)'
    BY <1>8 DEF Clean, OnRoute, Holding
  <1>10. Owned(base[p])'
    <2> SUFFICES ASSUME file.there, ~file.orphan
                 PROVE  \E q \in Procs : base[q] = b /\ pc'[q] \in Holding
      BY <1>4, <1>8 DEF Owned, TempOf
    <2>1. temp[b].there /\ ~temp[b].orphan /\ pc[p] \notin Holding
      BY <1>2
    <2>2. PICK q \in Procs : base[q] = b /\ pc[q] \in Holding
      BY <2>1 DEF IInv, TempHasOwner, TempOf
    <2>3. QED
      BY <1>6, <2>1, <2>2
  <1>11. Alone(p) => OwnFile(p)'
    <2> SUFFICES ASSUME Alone(p) PROVE OwnFile(p)'
      OBVIOUS
    <2>1. temp[b].handles \subseteq {p}
      BY DEF IInv, OwnFile
    <2>2. QED
      BY <1>2, <1>4, <1>8, <2>1 DEF OwnFile, OwnBinary, Returned
  <1>12. QED
    BY <1>4, <1>5, <1>6, <1>7, <1>9, <1>10, <1>11, OneMoves

-----------------------------------------------------------------------------
LEMMA InitIInv == Init => IInv
  <1> SUFFICES ASSUME Init PROVE IInv
    OBVIOUS
  <1>1. base \in [Procs -> Bases]
    BY InputsAssumption DEF Init
  <1>2. NoOutput \in Output /\ \A b \in Bases : temp[b] = Absent
    BY DEF NoOutput, Output, AllText, Init
  <1>3. TypeOK
    BY <1>1, <1>2, AbsentFacts DEF Init, TypeOK, Steps, Targets
  <1>4. TempHasOwner
    BY <1>1, <1>2, AbsentFacts DEF TempHasOwner, TempOf
  <1>5. ASSUME NEW p \in Procs PROVE Clean(p) /\ OnRoute(p) /\ OwnFile(p)
    <2>1. pc[p] = "idle" /\ temp[base[p]] = Absent
      BY <1>1, <1>2 DEF Init
    <2>2. QED
      BY <2>1, AbsentFacts DEF Clean, OnRoute, OwnFile, OwnBinary, Returned, Holding
  <1>6. QED
    BY <1>3, <1>4, <1>5 DEF IInv

LEMMA NextIInv == IInv /\ [Next]_vars => IInv'
  <1> SUFFICES ASSUME IInv, [Next]_vars PROVE IInv'
    OBVIOUS
  <1>1. ASSUME NEW p \in Procs, NEW t \in Targets, Start(p, t) PROVE IInv'
    BY <1>1, StartIInv
  <1>2. ASSUME NEW p \in Procs, StartWithoutWork(p) PROVE IInv'
    BY <1>2, StartWithoutWorkIInv
  <1>3. ASSUME NEW p \in Procs, RunStage(p) PROVE IInv'
    BY <1>3, RunStageIInv
  <1>4. ASSUME NEW p \in Procs, EmitC(p) PROVE IInv'
    BY <1>4, EmitCIInv
  <1>5. ASSUME NEW p \in Procs, OpenTemp(p) PROVE IInv'
    BY <1>5, OpenTempIInv
  <1>6. ASSUME NEW p \in Procs, WriteTemp(p) PROVE IInv'
    BY <1>6, WriteTempIInv
  <1>7. ASSUME NEW p \in Procs, Compile(p) PROVE IInv'
    BY <1>7, CompileIInv
  <1>8. ASSUME NEW p \in Procs, RemoveTemp(p) PROVE IInv'
    BY <1>8, RemoveTempIInv
  <1>9. ASSUME NEW p \in Procs, Kill(p) PROVE IInv'
    BY <1>9, KillIInv
  <1>10. CASE UNCHANGED vars
    BY <1>10 DEF vars, IInv, TypeOK, Clean, OnRoute, TempHasOwner, TempOf, Alone, OwnFile,
                 OwnBinary, Returned, Text
  <1>11. QED
    BY <1>1, <1>2, <1>3, <1>4, <1>5, <1>6, <1>7, <1>8, <1>9, <1>10 DEF Next

LEMMA SpecIInv == Spec => []IInv
  BY InitIInv, NextIInv, PTL DEF Spec

(* However many compilers run, on whatever inputs, killed anywhere: a run  *)
(* that reported an error returns 1, and no run goes on to the output or   *)
(* the temporary file with an error reported.                              *)
THEOREM ErrorsAlwaysStop == Spec => []ErrorsStopTheRun
  <1>1. IInv => ErrorsStopTheRun
    BY DEF IInv, Clean, ErrorsStopTheRun, Holding
  <1>2. QED
    BY <1>1, SpecIInv, PTL

(* A temporary file never stays behind, unless its remover was killed, in  *)
(* however many compilers that open, write and remove it under one another.*)
THEOREM TempAlwaysHasOwner == Spec => []TempHasOwner
  <1>1. IInv => TempHasOwner
    BY DEF IInv
  <1>2. QED
    BY <1>1, SpecIInv, PTL

(* A compiler whose input has a base name of its own leaves the binary of  *)
(* its own source, whatever the others do and whatever its killed runs and *)
(* a full disk have left in the temporary file.                            *)
THEOREM LoneBinaryAlwaysOwn == Spec => []LoneBinaryIsOwn
  <1>1. IInv => LoneBinaryIsOwn
    BY DEF IInv, LoneBinaryIsOwn, OwnFile
  <1>2. QED
    BY <1>1, SpecIInv, PTL
=============================================================================
