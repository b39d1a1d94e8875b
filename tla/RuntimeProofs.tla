---------------------------- MODULE RuntimeProofs ----------------------------
(***************************************************************************)
(* Theorems about what a generated program does at run time: about         *)
(* Exceptions, for every bound on the stack and on what is entered, and    *)
(* about Loops, for arrays of any length and matches of any number of      *)
(* cases.                                                                  *)
(***************************************************************************)
EXTENDS Exceptions, Loops, WellFoundedInduction, TLAPS

-----------------------------------------------------------------------------
(* Exceptions.                                                             *)
USE MaxOpenAssumption, MaxEnteredAssumption

Entry == [kind : {"call", "try", "catch"}, id : Nat]

(* A stack of the running program: main at the bottom, ids given out.      *)
IsStack(s) ==
  /\ s \in Seq(Entry)
  /\ s # <<>> /\ s[1].kind = "call"
  /\ Len(s) <= MaxOpen
  /\ \A i \in 1 .. Len(s) : s[i].id \in 1 .. entered

(* The buffer is unset, or holds a stack with room for the try.            *)
BufferOK ==
  /\ jmpBuf \in [below : Seq(Entry), id : Nat]
  /\ jmpBuf = Unset \/ (/\ IsStack(jmpBuf.below)
                        /\ Len(jmpBuf.below) < MaxOpen
                        /\ jmpBuf.id \in 1 .. entered)

(* No try in the buffer's stack is younger than the one that wrote it.     *)
BelowIsOlder ==
  \A i \in 1 .. Len(jmpBuf.below) :
    jmpBuf.below[i].kind = "try" => jmpBuf.below[i].id <= jmpBuf.id

(* In a flat program the one running try is the one that wrote the buffer. *)
FlatBuffer ==
  flat => \A h \in Handlers :
            /\ \A k \in Handlers : k = h
            /\ stack[h].id = jmpBuf.id
            /\ jmpBuf.below = Prefix(stack, h - 1)

(* The inductive invariant.                                                *)
IInv ==
  /\ TypeOK /\ IsStack(stack) /\ BufferOK
  /\ NeverSkipsInner /\ BelowIsOlder /\ FlatBuffer

-----------------------------------------------------------------------------
(* A nonempty set of positions has a last one.                             *)
LEMMA LastIsGreatest ==
  ASSUME NEW n \in Nat, NEW S \in SUBSET (1 .. n), S # {}
  PROVE  Last(S) \in S /\ \A j \in S : j <= Last(S)
  <1> DEFINE T == {n - i : i \in S}
  <1>1. T \in SUBSET Nat
    <2>1. \A i \in S : i \in 1 .. n
      OBVIOUS
    <2>2. \A i \in 1 .. n : n - i \in Nat
      OBVIOUS
    <2>3. QED
      BY <2>1, <2>2
  <1>2. PICK m \in T : \A t \in T : m <= t
    <2>1. T # {}
      OBVIOUS
    <2> HIDE DEF T
    <2>2. PICK m \in T : \A t \in T : ~ (<<t, m>> \in OpToRel(<, Nat))
      BY <1>1, <2>1, NatLessThanWellFounded, WFMin
    <2>3. \A t \in T : ~ (t < m)
      BY <1>1, <2>2 DEF OpToRel
    <2>4. m \in Nat /\ \A t \in T : t \in Nat
      BY <1>1, <2>2
    <2>5. ASSUME NEW t \in T PROVE m <= t
      <3>1. t \in Nat /\ ~ (t < m)
        BY <2>3, <2>4
      <3>2. QED
        BY <2>4, <3>1
    <2>6. QED
      BY <2>2, <2>5
  <1>3. PICK i \in S : m = n - i
    BY <1>2
  <1>4. \A j \in S : n - j \in T /\ j \in 1 .. n
    OBVIOUS
  <1>5. \A j \in S : j <= i
    BY <1>2, <1>3, <1>4
  <1>6. QED
    BY <1>5 DEF Last

LEMMA HandlersAre ==
  ASSUME IsStack(stack)
  PROVE  Handlers = {i \in 1 .. Len(stack) : stack[i].kind = "try"}
  BY DEF IsStack, Handlers, Positions

(* What is left of a stack when its end is cut off.                        *)
LEMMA CutIsStack ==
  ASSUME IsStack(stack), NEW m \in 1 .. Len(stack)
  PROVE  /\ IsStack(Prefix(stack, m))
         /\ Len(Prefix(stack, m)) = m
         /\ \A i \in 1 .. m : Prefix(stack, m)[i] = stack[i]
  BY DEF IsStack, Prefix

(* The last call of a stack is one of its entries.                         *)
LEMMA LastCall ==
  ASSUME NEW s, IsStack(s)
  PROVE  LET c == Last(Positions(s, "call")) IN
         c \in 1 .. Len(s) /\ s[c].kind = "call"
  <1> DEFINE C == Positions(s, "call")
  <1>1. C \in SUBSET (1 .. Len(s)) /\ 1 \in C /\ Len(s) \in Nat
    BY DEF IsStack, Positions
  <1>2. Last(C) \in C
    BY <1>1, LastIsGreatest
  <1>3. QED
    BY <1>1, <1>2 DEF Positions
-----------------------------------------------------------------------------
(* The type invariant repeats the shape of the stack.                      *)
LEMMA TypeOKIs ==
  ASSUME IsStack(stack), BufferOK, entered \in 1 .. MaxEntered,
         ending \in {"no", "returned", "uncaught", "wild"},
         flat \in BOOLEAN
  PROVE  TypeOK
  <1>1. \A i \in 1 .. Len(stack) :
          stack[i] \in [kind : {"call", "try", "catch"}, id : 1 .. entered]
    <2> TAKE i \in 1 .. Len(stack)
    <2>1. stack[i] \in Entry /\ stack[i].id \in 1 .. entered
      BY DEF IsStack
    <2>2. QED
      BY <2>1 DEF Entry
  <1>2. jmpBuf.id \in 0 .. entered
    BY DEF BufferOK, Unset
  <1>3. QED
    BY <1>1, <1>2 DEF TypeOK, IsStack

LEMMA TypeOKNext ==
  ASSUME IsStack(stack)', BufferOK', entered' \in 1 .. MaxEntered,
         ending' \in {"no", "returned", "uncaught", "wild"},
         flat' \in BOOLEAN
  PROVE  TypeOK'
  <1>1. \A i \in 1 .. Len(stack') :
          stack'[i] \in [kind : {"call", "try", "catch"}, id : 1 .. entered']
    <2> TAKE i \in 1 .. Len(stack')
    <2>1. stack'[i] \in Entry /\ stack'[i].id \in 1 .. entered'
      BY DEF IsStack
    <2>2. QED
      BY <2>1 DEF Entry
  <1>2. jmpBuf'.id \in 0 .. entered'
    BY DEF BufferOK, Unset
  <1>3. QED
    BY <1>1, <1>2 DEF TypeOK, IsStack

LEMMA InitIInv == CInit => IInv
  <1> SUFFICES ASSUME CInit PROVE IInv
    OBVIOUS
  <1>1. /\ stack = <<[kind |-> "call", id |-> 1]>> /\ entered = 1 /\ ending = "no"
        /\ jmpBuf = Unset /\ flat = TRUE
    BY DEF CInit, Init
  <1>2. IsStack(stack)
    BY <1>1 DEF IsStack, Entry
  <1>3. Handlers = {}
    BY <1>1, <1>2, HandlersAre
  <1>4. BufferOK /\ BelowIsOlder
    BY <1>1 DEF BufferOK, BelowIsOlder, Unset, Entry
  <1>5. TypeOK
    <2>1. entered \in 1 .. MaxEntered
      BY <1>1
    <2>2. ending \in {"no", "returned", "uncaught", "wild"}
      BY <1>1
    <2>3. flat \in BOOLEAN
      BY <1>1, Zenon
    <2>4. QED
      BY <1>2, <1>4, <2>1, <2>2, <2>3, TypeOKIs
  <1>6. QED
    BY <1>2, <1>3, <1>4, <1>5 DEF IInv, NeverSkipsInner, FlatBuffer

(* A call or a try statement begins.                                       *)
LEMMA OpenIsStack ==
  ASSUME IInv, NEW kind \in {"call", "try"}, Open(kind)
  PROVE  /\ IsStack(stack)'
         /\ entered' = entered + 1 /\ entered' \in 1 .. MaxEntered
         /\ Len(stack') = Len(stack) + 1
         /\ stack'[Len(stack) + 1] = Opening(kind)
         /\ \A i \in 1 .. Len(stack) : stack'[i] = stack[i]
         /\ \A s : IsStack(s) => IsStack(s)'
  <1>1. entered \in 1 .. MaxEntered /\ IsStack(stack)
    BY DEF IInv, TypeOK
  <1>2. Opening(kind) \in Entry /\ Opening(kind).id = entered + 1
    BY <1>1 DEF Opening, Entry
  <1>3. /\ stack' = Append(stack, Opening(kind)) /\ Len(stack) < MaxOpen
        /\ entered' = entered + 1 /\ entered < MaxEntered
    BY DEF Open
  <1>4. QED
    BY <1>1, <1>2, <1>3 DEF IsStack

LEMMA CallIInv == ASSUME IInv, CCall PROVE IInv'
  <1>1. Open("call") /\ UNCHANGED <<jmpBuf, flat>>
    BY DEF CCall, Call
  <1>2. /\ IsStack(stack)' /\ entered' = entered + 1
        /\ Len(stack') = Len(stack) + 1 /\ IsStack(stack)
        /\ stack'[Len(stack) + 1] = Opening("call")
        /\ \A i \in 1 .. Len(stack) : stack'[i] = stack[i]
        /\ \A s : IsStack(s) => IsStack(s)'
    BY <1>1, OpenIsStack DEF IInv
  <1>3. Handlers' = Handlers
    BY <1>2, HandlersAre DEF IsStack, Handlers, Positions, Opening
  <1>4. BufferOK'
    BY <1>1, <1>2 DEF IInv, BufferOK, TypeOK
  <1>5. TypeOK'
    <2>1. /\ entered' \in 1 .. MaxEntered
          /\ ending' \in {"no", "returned", "uncaught", "wild"}
      BY <1>1, OpenIsStack DEF Open, IInv, TypeOK
    <2>2. flat' \in BOOLEAN
      BY <1>1 DEF IInv, TypeOK
    <2>3. QED
      BY <1>2, <1>4, <2>1, <2>2, TypeOKNext
  <1>6. NeverSkipsInner' /\ BelowIsOlder'
    BY <1>1, <1>2, <1>3, HandlersAre DEF IInv, NeverSkipsInner, BelowIsOlder
  <1>7. FlatBuffer'
    <2>1. \A h \in Handlers : Prefix(stack', h - 1) = Prefix(stack, h - 1)
      BY <1>2, HandlersAre DEF IsStack, Prefix
    <2>2. QED
      BY <1>1, <1>2, <1>3, <2>1, HandlersAre DEF IInv, FlatBuffer
  <1>8. QED
    BY <1>2, <1>4, <1>5, <1>6, <1>7 DEF IInv

LEMMA EnterTryIInv == ASSUME IInv, CEnterTry PROVE IInv'
  <1>1. /\ Open("try")
        /\ jmpBuf' = [below |-> stack, id |-> entered + 1]
        /\ flat' = (flat /\ Handlers = {})
    BY DEF CEnterTry, EnterTry
  <1>2. /\ IsStack(stack)' /\ entered' = entered + 1
        /\ Len(stack') = Len(stack) + 1 /\ IsStack(stack)
        /\ stack'[Len(stack) + 1] = Opening("try")
        /\ \A i \in 1 .. Len(stack) : stack'[i] = stack[i]
        /\ \A s : IsStack(s) => IsStack(s)'
    BY <1>1, OpenIsStack DEF IInv
  <1>3. /\ Len(stack) \in Nat /\ Len(stack) < MaxOpen /\ entered \in Nat
        /\ stack' = Append(stack, Opening("try")) /\ Opening("try").id = entered + 1
    BY <1>1 DEF Open, Opening, IInv, IsStack, TypeOK
  <1>4. Handlers' = Handlers \cup {Len(stack) + 1}
    BY <1>2, <1>3, HandlersAre DEF IsStack, Handlers, Positions, Opening
  <1>5. BufferOK'
    <2>1. jmpBuf' \in [below : Seq(Entry), id : Nat]
      BY <1>1, <1>2, <1>3 DEF IsStack
    <2>2. \A i \in 1 .. Len(stack) : stack[i].id \in 1 .. entered'
      BY <1>2, <1>3 DEF IsStack
    <2>3. IsStack(jmpBuf.below)'
      BY <1>1, <1>2, <2>2 DEF IsStack
    <2>4. QED
      BY <1>1, <1>2, <1>3, <2>1, <2>3 DEF BufferOK
  <1>6. TypeOK'
    <2>1. /\ entered' \in 1 .. MaxEntered
          /\ ending' \in {"no", "returned", "uncaught", "wild"}
      BY <1>1, OpenIsStack DEF Open, IInv, TypeOK
    <2>2. flat' \in BOOLEAN
      BY <1>1
    <2>3. QED
      BY <1>2, <1>5, <2>1, <2>2, TypeOKNext
  <1>7. NeverSkipsInner'
    BY <1>1, <1>2, <1>3, <1>4, HandlersAre DEF NeverSkipsInner, IsStack
  <1>8. BelowIsOlder'
    BY <1>1, <1>2, <1>3 DEF BelowIsOlder, IsStack
  <1>9. FlatBuffer'
    <2>1. SUFFICES ASSUME Handlers = {}, NEW h \in Handlers'
                   PROVE  /\ \A k \in Handlers' : k = h
                          /\ stack'[h].id = jmpBuf'.id
                          /\ jmpBuf'.below = Prefix(stack', h - 1)
      BY <1>1 DEF FlatBuffer
    <2>2. h = Len(stack) + 1 /\ \A k \in Handlers' : k = h
      BY <1>4, <2>1
    <2>3. Prefix(stack', h - 1) = stack
      BY <1>2, <1>3, <2>2 DEF Prefix, IsStack
    <2>4. QED
      BY <1>1, <1>2, <1>3, <2>2, <2>3
  <1>10. QED
    BY <1>2, <1>5, <1>6, <1>7, <1>8, <1>9 DEF IInv

(* Leaving a try or returning cuts off the end of the stack.               *)
LEMMA CutIInv ==
  ASSUME IInv, NEW m \in 1 .. Len(stack), stack' = Prefix(stack, m),
         UNCHANGED <<entered, jmpBuf, flat>>,
         ending' \in {"no", "returned", "uncaught", "wild"}
  PROVE  IInv'
  <1>1. /\ IsStack(stack) /\ IsStack(stack)' /\ Len(stack') = m
        /\ \A i \in 1 .. m : stack'[i] = stack[i]
    BY CutIsStack DEF IInv, IsStack
  <1>2. Handlers' = Handlers \cap 1 .. m
    BY <1>1, HandlersAre DEF IsStack, Handlers, Positions
  <1>3. BufferOK'
    BY DEF IInv, BufferOK, IsStack
  <1>4. TypeOK'
    BY <1>1, <1>3, TypeOKNext DEF IInv, TypeOK
  <1>5. NeverSkipsInner' /\ BelowIsOlder'
    BY <1>1, <1>2, HandlersAre DEF IInv, NeverSkipsInner, BelowIsOlder
  <1>6. FlatBuffer'
    <2>1. \A h \in Handlers \cap 1 .. m : Prefix(stack', h - 1) = Prefix(stack, h - 1)
      BY <1>1 DEF IsStack, Prefix
    <2>2. QED
      BY <1>1, <1>2, <2>1 DEF IInv, FlatBuffer
  <1>7. QED
    BY <1>1, <1>3, <1>4, <1>5, <1>6 DEF IInv

LEMMA LeaveTryIInv == ASSUME IInv, CLeaveTry PROVE IInv'
  <1>1. /\ stack' = Prefix(stack, Len(stack) - 1)
        /\ stack[Len(stack)].kind \in {"try", "catch"}
        /\ UNCHANGED <<entered, ending, jmpBuf, flat>>
    BY DEF CLeaveTry, LeaveTry
  <1>2. Len(stack) - 1 \in 1 .. Len(stack)
    BY <1>1 DEF IInv, IsStack
  <1>3. ending' \in {"no", "returned", "uncaught", "wild"}
    BY <1>1 DEF IInv, TypeOK
  <1>4. QED
    BY <1>1, <1>2, <1>3, CutIInv

LEMMA ReturnIInv == ASSUME IInv, CReturn PROVE IInv'
  <1> DEFINE top == Last(Positions(stack, "call"))
  <1>1. IsStack(stack) /\ top \in 1 .. Len(stack)
    BY LastCall DEF IInv
  <1>2. UNCHANGED <<entered, jmpBuf, flat>>
    BY DEF CReturn, Return
  <1>3. CASE top = 1
    <2>1. ending' = "returned" /\ stack' = stack
      BY <1>3 DEF CReturn, Return
    <2>2. stack' = Prefix(stack, Len(stack)) /\ Len(stack) \in 1 .. Len(stack)
      BY <1>1, <2>1 DEF IsStack, Prefix
    <2>3. QED
      BY <1>2, <2>1, <2>2, CutIInv
  <1>4. CASE top # 1
    <2>1. ending' = ending /\ stack' = Prefix(stack, top - 1)
      BY <1>4 DEF CReturn, Return
    <2>2. top - 1 \in 1 .. Len(stack)
      BY <1>1, <1>4
    <2>3. ending' \in {"no", "returned", "uncaught", "wild"}
      BY <2>1 DEF IInv, TypeOK
    <2>4. QED
      BY <1>2, <2>1, <2>2, <2>3, CutIInv
  <1>5. QED
    BY <1>3, <1>4

-----------------------------------------------------------------------------
(* A throw in a flat program is from the one running try block, and its    *)
(* buffer holds the stack below that try.                                  *)
LEMMA FlatThrow ==
  ASSUME IInv, flat, ThrowsFrom = "try"
  PROVE  \E h \in Handlers :
           /\ \A k \in Handlers : k = h
           /\ h \in 1 .. Len(stack) /\ stack[h].kind = "try"
           /\ stack[h].id = jmpBuf.id /\ jmpBuf # Unset
           /\ jmpBuf.below = Prefix(stack, h - 1)
  <1> DEFINE S == Handlers \cup Positions(stack, "catch")
  <1>1. IsStack(stack) /\ Len(stack) \in Nat /\ entered \in Nat
    BY DEF IInv, IsStack, TypeOK
  <1>2. S # {} /\ stack[Last(S)].kind = "try"
    BY DEF ThrowsFrom
  <1>3. S \in SUBSET (1 .. Len(stack))
    BY <1>1 DEF Handlers, Positions, IsStack
  <1>4. Last(S) \in 1 .. Len(stack)
    <2> HIDE DEF S
    <2>1. QED
      BY <1>1, <1>2, <1>3, LastIsGreatest
  <1>5. PICK h \in Handlers : h = Last(S)
    BY <1>1, <1>2, <1>4, HandlersAre
  <1>6. /\ \A k \in Handlers : k = h
        /\ stack[h].id = jmpBuf.id
        /\ jmpBuf.below = Prefix(stack, h - 1)
    BY <1>5 DEF IInv, FlatBuffer
  <1>7. jmpBuf # Unset
    BY <1>1, <1>4, <1>5, <1>6 DEF IsStack, Unset
  <1>8. QED
    BY <1>2, <1>4, <1>5, <1>6, <1>7

LEMMA ThrowIInv == ASSUME IInv, CThrow PROVE IInv'
  <1>1. /\ IsStack(stack) /\ BufferOK /\ entered \in 1 .. MaxEntered
        /\ ending \in {"no", "returned", "uncaught", "wild"}
        /\ flat \in BOOLEAN
    BY DEF IInv, TypeOK
  <1>2. /\ entered' = entered /\ jmpBuf' = jmpBuf
        /\ flat' = (flat /\ ThrowsFrom = "try")
    BY DEF CThrow
  <1>3. BufferOK' /\ BelowIsOlder'
    BY <1>1, <1>2 DEF IInv, BufferOK, BelowIsOlder, IsStack
  <1>4. flat' \in BOOLEAN
    BY <1>2
  <1>5. CASE FrameAlive
    <2>1. /\ stack' = Append(jmpBuf.below, [kind |-> "catch", id |-> jmpBuf.id])
          /\ ending' = ending
      BY <1>5 DEF CThrow
    <2>2. /\ IsStack(jmpBuf.below) /\ Len(jmpBuf.below) < MaxOpen
          /\ Len(jmpBuf.below) \in Nat /\ jmpBuf.id \in 1 .. entered
      BY <1>1, <1>5 DEF FrameAlive, BufferOK, IsStack
    <2>3. /\ IsStack(stack)' /\ Len(stack') = Len(jmpBuf.below) + 1
          /\ stack'[Len(jmpBuf.below) + 1].kind = "catch"
          /\ \A i \in 1 .. Len(jmpBuf.below) : stack'[i] = jmpBuf.below[i]
      <3>1. [kind |-> "catch", id |-> jmpBuf.id] \in Entry
        BY <1>1, <2>2 DEF Entry
      <3>2. /\ stack' \in Seq(Entry) /\ Len(stack') = Len(jmpBuf.below) + 1
            /\ stack'[Len(jmpBuf.below) + 1] = [kind |-> "catch", id |-> jmpBuf.id]
            /\ \A i \in 1 .. Len(jmpBuf.below) : stack'[i] = jmpBuf.below[i]
        BY <2>1, <2>2, <3>1 DEF IsStack
      <3>3. \A i \in 1 .. Len(stack') : stack'[i].id \in 1 .. entered'
        BY <1>2, <2>2, <3>2 DEF IsStack
      <3>4. stack' # <<>> /\ stack'[1].kind = "call" /\ Len(stack') <= MaxOpen
        <4>1. /\ jmpBuf.below \in Seq(Entry) /\ jmpBuf.below # <<>>
              /\ jmpBuf.below[1].kind = "call"
          BY <2>2 DEF IsStack
        <4>2. 1 \in 1 .. Len(jmpBuf.below)
          BY <4>1
        <4>3. stack'[1].kind = "call"
          BY <3>2, <4>1, <4>2
        <4>4. Len(stack') <= MaxOpen /\ Len(stack') # 0
          BY <2>2, <3>2
        <4>5. QED
          BY <3>2, <4>3, <4>4
      <3>5. QED
        BY <3>2, <3>3, <3>4 DEF IsStack
    <2>4. Handlers' = {i \in 1 .. Len(jmpBuf.below) : jmpBuf.below[i].kind = "try"}
      BY <2>2, <2>3 DEF IsStack, Handlers, Positions
    <2>5. TypeOK'
      BY <1>1, <1>2, <1>3, <1>4, <2>1, <2>3, TypeOKNext
    <2>6. NeverSkipsInner'
      BY <1>2, <2>3, <2>4 DEF IInv, NeverSkipsInner, BelowIsOlder
    <2>7. FlatBuffer'
      <3>1. SUFFICES ASSUME flat, ThrowsFrom = "try" PROVE Handlers' = {}
        BY <1>2 DEF FlatBuffer
      <3>2. PICK h \in Handlers : /\ \A k \in Handlers : k = h
                                  /\ h \in 1 .. Len(stack)
                                  /\ jmpBuf.below = Prefix(stack, h - 1)
        BY <3>1, FlatThrow
      <3>3. \A i \in 1 .. Len(jmpBuf.below) : i < h /\ stack[i] = jmpBuf.below[i]
        BY <1>1, <3>2 DEF IsStack, Prefix
      <3>4. ASSUME NEW i \in Handlers' PROVE FALSE
        <4>1. i \in Handlers /\ i < h
          BY <1>1, <2>2, <2>4, <3>2, <3>3, HandlersAre
        <4>2. QED
          BY <3>2, <4>1
      <3>5. QED
        BY <3>4
    <2>8. QED
      BY <1>3, <2>3, <2>5, <2>6, <2>7 DEF IInv
  <1>6. CASE ~FrameAlive
    <2>1. ending' = "wild" /\ UNCHANGED stack
      BY <1>6 DEF CThrow
    <2>2. IsStack(stack)' /\ Handlers' = Handlers
      BY <1>1, <1>2, <2>1 DEF IsStack, Handlers
    <2>3. TypeOK'
      BY <1>1, <1>2, <1>3, <1>4, <2>1, <2>2, TypeOKNext
    <2>4. NeverSkipsInner' /\ FlatBuffer'
      BY <1>2, <2>1, <2>2 DEF IInv, NeverSkipsInner, FlatBuffer
    <2>5. QED
      BY <1>3, <2>2, <2>3, <2>4 DEF IInv
  <1>7. QED
    BY <1>5, <1>6

(* Every step of the generated program keeps the inductive invariant.     *)
THEOREM Invariance == CSpec => []IInv
  <1>1. IInv /\ UNCHANGED cVars => IInv'
    BY DEF cVars, vars, IInv, TypeOK, IsStack, BufferOK, NeverSkipsInner,
           BelowIsOlder, FlatBuffer, Handlers
  <1>2. IInv /\ [CNext]_cVars => IInv'
    BY <1>1, CallIInv, ReturnIInv, EnterTryIInv, LeaveTryIInv, ThrowIInv DEF CNext
  <1>3. QED
    BY InitIInv, <1>2, PTL DEF CSpec

(* Every variable of the exception runtime keeps its type, and the stack   *)
(* its bound, in every program.                                            *)
THEOREM TypeCorrect == CSpec => []TypeOK
  <1>1. IInv => TypeOK
    BY DEF IInv
  <1>2. QED
    BY Invariance, <1>1, PTL

(* A throw never resumes outside the innermost running try block: the one  *)
(* jmp_buf was written by a try no older than any that runs.               *)
THEOREM InnerNeverSkipped == CSpec => []NeverSkipsInner
  <1>1. IInv => NeverSkipsInner
    BY DEF IInv
  <1>2. QED
    BY Invariance, <1>1, PTL

-----------------------------------------------------------------------------
(* In a flat program longjmp does what the language's throw does.          *)
LEMMA FlatThrowIsThrow == ASSUME IInv, CThrow, flat' PROVE Throw
  <1>1. ending = "no" /\ entered' = entered /\ flat /\ ThrowsFrom = "try"
    BY DEF CThrow
  <1>2. PICK h \in Handlers :
          /\ \A k \in Handlers : k = h
          /\ h \in 1 .. Len(stack) /\ stack[h].kind = "try"
          /\ stack[h].id = jmpBuf.id /\ jmpBuf # Unset
          /\ jmpBuf.below = Prefix(stack, h - 1)
    BY <1>1, FlatThrow
  <1>3. IsStack(stack) /\ IsStack(jmpBuf.below)
    BY <1>2 DEF IInv, BufferOK
  <1>4. FrameAlive
    <2> DEFINE c == Last(Positions(jmpBuf.below, "call"))
    <2>1. c \in 1 .. Len(jmpBuf.below)
      BY <1>3, LastCall
    <2>2. c \in DOMAIN stack /\ stack[c] = jmpBuf.below[c]
      <3> HIDE DEF c
      <3>1. QED
        BY <1>2, <1>3, <2>1 DEF IsStack, Prefix
    <2>3. QED
      BY <1>2, <2>2 DEF FrameAlive
  <1>5. /\ stack' = Append(jmpBuf.below, [kind |-> "catch", id |-> jmpBuf.id])
        /\ ending' = ending
    BY <1>4 DEF CThrow
  <1>6. Last(Handlers) = h
    <2>1. Handlers \in SUBSET (1 .. Len(stack)) /\ Len(stack) \in Nat
      BY <1>3, HandlersAre DEF IsStack
    <2>2. Last(Handlers) \in Handlers
      BY <1>2, <2>1, LastIsGreatest
    <2>3. QED
      BY <1>2, <2>2
  <1>7. [stack[h] EXCEPT !.kind = "catch"] = [kind |-> "catch", id |-> jmpBuf.id]
    <2>1. stack[h] \in Entry
      BY <1>2, <1>3 DEF IsStack
    <2>2. QED
      BY <1>2, <2>1 DEF Entry
  <1>8. QED
    BY <1>1, <1>2, <1>5, <1>6, <1>7 DEF Throw

(* A program that runs one try block at a time and throws only from try    *)
(* blocks takes only the steps of HandlerStack, whatever it calls: for it  *)
(* the one shared jmp_buf is an implementation of exceptions.              *)
THEOREM FlatRefines == CSpec => FlatIsHandlerStack
  <1>1. ASSUME IInv, [CNext]_cVars, flat' PROVE [Next]_vars
    <2>1. CASE CThrow
      BY <1>1, <2>1, FlatThrowIsThrow DEF Next
    <2>2. CASE CCall \/ CReturn \/ CEnterTry \/ CLeaveTry
      BY <2>2 DEF CCall, CReturn, CEnterTry, CLeaveTry, Next
    <2>3. CASE UNCHANGED cVars
      BY <2>3 DEF cVars
    <2>4. QED
      BY <1>1, <2>1, <2>2, <2>3 DEF CNext
  <1>2. IInv /\ [CNext]_cVars => [flat' => [Next]_vars]_cVars
    BY <1>1
  <1>3. QED
    BY Invariance, <1>2, PTL DEF CSpec, FlatIsHandlerStack

-----------------------------------------------------------------------------
(* The inductive invariant: where the loop is in its array, and in its     *)
(* match.                                                                  *)
InBody == {"match", "case", "step"}

LoopTypeOK ==
  /\ target \in {"ir", "c"} /\ pure \in BOOLEAN /\ repeats \in BOOLEAN
  /\ cases \in Seq(Values \cup {Default})
  /\ len \in Nat /\ idx \in Nat /\ at \in Nat
  /\ pc \in {"cond", "end"} \cup InBody

Placed ==
  /\ idx <= len
  /\ pc \in InBody => idx < len
  /\ pc \in {"match", "case"} => at >= 1
  /\ pc = "case" => at <= Len(cases)

LInv == LoopTypeOK /\ Placed /\ FirstCaseRuns

LEMMA InitLInv == LoopInit => LInv
  <1> SUFFICES ASSUME LoopInit PROVE LInv
    OBVIOUS
  <1>1. PICK n \in 0 .. MaxCases : cases \in [1 .. n -> Values \cup {Default}]
    BY DEF LoopInit
  <1>2. n \in Nat /\ len \in Nat
    BY BoundsAssumption DEF LoopInit
  <1>3. cases \in Seq(Values \cup {Default})
    BY <1>1, <1>2
  <1>4. idx = 0 /\ pc = "cond" /\ at = 0 /\ repeats = FALSE /\ target \in {"ir", "c"} /\ pure \in BOOLEAN
    BY DEF LoopInit
  <1>5. LoopTypeOK
    BY <1>2, <1>3, <1>4 DEF LoopTypeOK
  <1>6. Placed /\ FirstCaseRuns
    BY <1>2, <1>4 DEF Placed, FirstCaseRuns, InBody
  <1>7. QED
    BY <1>5, <1>6 DEF LInv

(* The cases before the next one.                                          *)
LEMMA OneMore ==
  ASSUME NEW n \in Nat
  PROVE  \A k \in 1 .. (n + 1) - 1 : k \in 1 .. n - 1 \/ k = n
  OBVIOUS

LEMMA TestCaseLInv ==
  ASSUME LInv, TestCase
  PROVE  LInv'
  <1>1. /\ pc = "match" /\ at \in Nat /\ at >= 1 /\ at <= Len(cases) /\ cases[at] # Default
        /\ UNCHANGED <<program, idx, value, repeats>>
    BY DEF TestCase, LInv, LoopTypeOK, Placed
  <1>2. PICK v \in Values :
          /\ target = "ir" \/ pure \/ at = 1 => v = value
          /\ IF v = cases[at] THEN pc' = "case" /\ at' = at
             ELSE pc' = pc /\ at' = at + 1
    BY DEF TestCase
  <1>3. LoopTypeOK'
    BY <1>1, <1>2 DEF LInv, LoopTypeOK, program, InBody
  <1>4. Placed'
    BY <1>1, <1>2 DEF LInv, Placed, program, InBody
  <1>5. FirstCaseRuns'
    <2> SUFFICES ASSUME target = "ir" \/ pure
                 PROVE  /\ \A k \in 1 .. at' - 1 : cases[k] \notin {Default, value}
                        /\ pc' = "case" => cases[at'] \in {Default, value}
      BY <1>1 DEF FirstCaseRuns, program
    <2>1. v = value /\ \A k \in 1 .. at - 1 : cases[k] \notin {Default, value}
      BY <1>1, <1>2 DEF LInv, FirstCaseRuns
    <2>2. CASE v = cases[at]
      BY <1>2, <2>1, <2>2
    <2>3. CASE v # cases[at]
      <3>1. at' = at + 1 /\ pc' # "case"
        BY <1>1, <1>2, <2>3
      <3>2. QED
        BY <1>1, <2>1, <2>3, <3>1, OneMore
    <2>4. QED
      BY <2>2, <2>3
  <1>6. QED
    BY <1>3, <1>4, <1>5 DEF LInv

LEMMA NextLInv == LInv /\ [LoopNext]_loopVars => LInv'
  <1> SUFFICES ASSUME LInv, [LoopNext]_loopVars PROVE LInv'
    OBVIOUS
  <1> USE DEF LInv, LoopTypeOK, Placed, FirstCaseRuns, InBody
  <1>1. CASE Test
    BY <1>1 DEF Test, program
  <1>2. CASE TestCase
    BY <1>2, TestCaseLInv
  <1>3. CASE EnterDefault
    BY <1>3 DEF EnterDefault, program
  <1>4. CASE MatchEnds
    BY <1>4 DEF MatchEnds, program
  <1>5. CASE Break
    BY <1>5 DEF Break, program
  <1>6. CASE IRContinue
    BY <1>6 DEF IRContinue, program
  <1>7. CASE CContinue
    BY <1>7 DEF CContinue, program
  <1>8. CASE Step
    BY <1>8 DEF Step, program
  <1>9. CASE UNCHANGED loopVars
    BY <1>9 DEF loopVars, program
  <1>10. QED
    BY <1>1, <1>2, <1>3, <1>4, <1>5, <1>6, <1>7, <1>8, <1>9 DEF LoopNext

LEMMA AlwaysLInv == LoopSpec => []LInv
  BY InitLInv, NextLInv, PTL DEF LoopSpec

-----------------------------------------------------------------------------
(* The case that runs is the first that is a default or has the value of   *)
(* the subject, however many cases there are: the jumps visitMatchStmt of  *)
(* IRGen writes, and the chain of ifs of CCodeGen for a subject that can   *)
(* be evaluated again.                                                     *)
THEOREM FirstCaseAlwaysRuns == LoopSpec => []FirstCaseRuns
  <1>1. LInv => FirstCaseRuns
    BY DEF LInv
  <1>2. QED
    BY <1>1, AlwaysLInv, PTL

-----------------------------------------------------------------------------
(* Where the for-each loop is.                                             *)
Started == IF pc = "cond" \/ idx = len THEN idx ELSE idx + 1
Phase   == CASE pc = "cond" -> "between"
             [] pc = "end"  -> "done"
             [] OTHER       -> "body"

LEMMA PhaseIs ==
  ASSUME LInv
  PROVE  /\ pc = "cond" => Phase = "between" /\ Started = idx
         /\ pc = "end" => Phase = "done" /\ Started = IF idx = len THEN idx ELSE idx + 1
         /\ pc \in InBody => Phase = "body" /\ Started = idx + 1
  BY DEF LInv, LoopTypeOK, Placed, InBody, Phase, Started

(* One step of the lowered loop is one of the for-each loop, or none.      *)
LEMMA StepIsForEach ==
  ASSUME LInv, LInv', [LoopNext]_loopVars, ~repeats'
  PROVE  [F!Next]_(F!vars)
  <1>1. /\ F!StartBody <=> /\ Phase = "between" /\ Started < len
                           /\ Started' = Started + 1 /\ Phase' = "body" /\ UNCHANGED len
        /\ F!EndBody   <=> Phase = "body" /\ Phase' = "between" /\ UNCHANGED <<len, Started>>
        /\ F!Break     <=> Phase = "body" /\ Phase' = "done" /\ UNCHANGED <<len, Started>>
        /\ F!Exhausted <=> /\ Phase = "between" /\ Started = len
                           /\ Phase' = "done" /\ UNCHANGED <<len, Started>>
    BY DEF F!StartBody, F!EndBody, F!Break, F!Exhausted, Started, Phase
  <1>2. UNCHANGED <<len, Started, Phase>> => UNCHANGED F!vars
    BY DEF F!vars, Started, Phase
  <1>3. F!StartBody \/ F!EndBody \/ F!Break \/ F!Exhausted \/ UNCHANGED F!vars => [F!Next]_(F!vars)
    BY DEF F!Next
  <1>4. /\ pc = "cond" => Phase = "between" /\ Started = idx
        /\ pc = "end" => Phase = "done" /\ Started = IF idx = len THEN idx ELSE idx + 1
        /\ pc \in InBody => Phase = "body" /\ Started = idx + 1
    BY PhaseIs
  <1>5. /\ pc' = "cond" => Phase' = "between" /\ Started' = idx'
        /\ pc' = "end" => Phase' = "done" /\ Started' = IF idx' = len' THEN idx' ELSE idx' + 1
        /\ pc' \in InBody => Phase' = "body" /\ Started' = idx' + 1
    BY DEF LInv, LoopTypeOK, Placed, InBody, Phase, Started
  <1>6. /\ idx \in Nat /\ len \in Nat /\ idx <= len /\ (pc \in InBody => idx < len)
        /\ {"match", "case", "step"} \subseteq InBody
    BY DEF LInv, LoopTypeOK, Placed, InBody
  <1>7. CASE Test
    <2>1. CASE idx < len
      <3>1. F!StartBody
        BY <1>1, <1>4, <1>5, <1>6, <1>7, <2>1 DEF Test, program
      <3>2. QED
        BY <1>3, <3>1
    <2>2. CASE ~(idx < len)
      <3>1. F!Exhausted
        BY <1>1, <1>4, <1>5, <1>6, <1>7, <2>2 DEF Test, program
      <3>2. QED
        BY <1>3, <3>1
    <2>3. QED
      BY <2>1, <2>2
  <1>8. CASE TestCase \/ EnterDefault \/ MatchEnds \/ CContinue
    <2>1. pc \in InBody /\ pc' \in InBody /\ UNCHANGED <<idx, len>>
      BY <1>6, <1>8 DEF TestCase, EnterDefault, MatchEnds, CContinue, program
    <2>2. QED
      BY <1>2, <1>3, <1>4, <1>5, <2>1
  <1>9. CASE Break
    <2>1. F!Break
      BY <1>1, <1>4, <1>5, <1>6, <1>9 DEF Break, program
    <2>2. QED
      BY <1>3, <2>1
  <1>10. CASE IRContinue
    BY <1>10 DEF IRContinue
  <1>11. CASE Step
    <2>1. F!EndBody
      BY <1>1, <1>4, <1>5, <1>6, <1>11 DEF Step, program
    <2>2. QED
      BY <1>3, <2>1
  <1>12. CASE UNCHANGED loopVars
    <2>1. UNCHANGED <<len, Started, Phase>>
      BY <1>12 DEF loopVars, program, Started, Phase
    <2>2. QED
      BY <1>2, <1>3, <2>1
  <1>13. QED
    BY <1>7, <1>8, <1>9, <1>10, <1>11, <1>12 DEF LoopNext

(* Until an IR loop meets a continue, every step of the loop IRGen or      *)
(* CCodeGen writes (visitForStmt) is one of the for-each loop: the body    *)
(* runs once for every element, in order, and a continue in C goes on with *)
(* the next.                                                               *)
THEOREM StepsAlwaysForEach == LoopSpec => StepsAreForEach
  <1>1. LInv /\ LInv' /\ [LoopNext]_loopVars => [~repeats' => [F!Next]_(F!vars)]_loopVars
    BY StepIsForEach
  <1>2. QED
    BY <1>1, AlwaysLInv, PTL DEF LoopSpec, StepsAreForEach
=============================================================================
