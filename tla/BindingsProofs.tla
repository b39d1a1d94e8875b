--------------------------- MODULE BindingsProofs ---------------------------
(***************************************************************************)
(* Theorems about Bindings, for programs of any size: any number of        *)
(* top-level and local declarations of the name, in any nesting.           *)
(***************************************************************************)
EXTENDS Bindings, FiniteSetTheorems, NaturalsInduction, WellFoundedInduction, TLAPS

(* A nonempty set of indices has a last one.                               *)
LEMMA LastExists ==
  ASSUME NEW n \in Nat, NEW S \in SUBSET (1 .. n), S # {}
  PROVE  \E k \in S : \A j \in S : j <= k
  <1> DEFINE R == OpToRel(<, Nat)
             T == {n - k : k \in S}
  <1>1. IsWellFoundedOn(R, Nat)
    BY NatLessThanWellFounded
  <1>2. \A k \in S : k \in Nat /\ n - k \in Nat
    OBVIOUS
  <1>3. T \subseteq Nat /\ T # {}
    BY <1>2
  <1>4. \A x, y \in Nat : y < x => <<y, x>> \in R
    BY DEF OpToRel
  <1> HIDE DEF R
  <1>5. \E x \in T : \A y \in T : ~(<<y, x>> \in R)
    BY <1>1, <1>3, WFMin
  <1>6. PICK k \in S : \A y \in T : ~(<<y, n - k>> \in R)
    BY <1>5
  <1>7. \A j \in S : ~(n - j < n - k)
    BY <1>2, <1>4, <1>6
  <1>8. QED
    BY <1>2, <1>7

LEMMA LatestIs ==
  ASSUME NEW S \in SUBSET Nat, NEW d \in S, \A j \in S : j <= d
  PROVE  Latest(S) = d
  <1> DEFINE l == CHOOSE i \in S : \A j \in S : j <= i
  <1>1. l \in S /\ \A j \in S : j <= l
    OBVIOUS
  <1>2. l = d
    <2> HIDE DEF l
    <2>1. l \in Nat /\ d \in Nat /\ l <= d /\ d <= l
      BY <1>1
    <2>2. QED
      BY <2>1
  <1>3. QED
    BY <1>2 DEF Latest

-----------------------------------------------------------------------------
(* Tables: what the innermost entry of one is.                             *)
Last(table, k) == k \in DOMAIN table /\ table[k] # 0 /\ \A j \in DOMAIN table : j > k => table[j] = 0

LEMMA InnermostIs ==
  ASSUME NEW table \in Seq(Nat), NEW k, Last(table, k)
  PROVE  Innermost(table) = table[k]
  <1> DEFINE S == {i \in DOMAIN table : table[i] # 0}
  <1>1. S \in SUBSET Nat /\ k \in S /\ \A j \in S : j <= k /\ k # 0
    BY DEF Last
  <1>2. Latest(S) = k
    BY <1>1, LatestIs
  <1>3. QED
    BY <1>1, <1>2 DEF Innermost

LEMMA InnermostNone ==
  ASSUME NEW table \in Seq(Nat), \A k \in DOMAIN table : table[k] = 0
  PROVE  Innermost(table) = 0
  <1>1. {i \in DOMAIN table : table[i] # 0} = {}
    OBVIOUS
  <1>2. QED
    BY <1>1 DEF Innermost, Latest

LEMMA LastOrNone ==
  ASSUME NEW table \in Seq(Nat)
  PROVE  (\E k : Last(table, k)) \/ \A k \in DOMAIN table : table[k] = 0
  <1> DEFINE S == {i \in DOMAIN table : table[i] # 0}
  <1>1. CASE S = {}
    BY <1>1
  <1>2. CASE S # {}
    <2>1. Len(table) \in Nat /\ S \in SUBSET (1 .. Len(table))
      OBVIOUS
    <2>2. PICK k \in S : \A j \in S : j <= k
      BY <1>2, <2>1, LastExists
    <2>3. Last(table, k)
      BY <2>1, <2>2 DEF Last
    <2>4. QED
      BY <2>3
  <1>3. QED
    BY <1>1, <1>2

(* Tables that differ by their global scope.                               *)
LEMMA InnermostTail ==
  ASSUME NEW table \in Seq(Nat), table # <<>>
  PROVE  Innermost(table) = IF Innermost(Tail(table)) # 0 THEN Innermost(Tail(table)) ELSE table[1]
  <1> DEFINE t == Tail(table)
  <1>1. /\ t \in Seq(Nat) /\ DOMAIN t = 1 .. Len(table) - 1 /\ DOMAIN table = 1 .. Len(table)
        /\ \A k \in 1 .. Len(table) - 1 : t[k] = table[k + 1]
        /\ Len(table) \in Nat \ {0}
    OBVIOUS
  <1> HIDE DEF t
  <1>2. CASE \A k \in DOMAIN t : t[k] = 0
    <2>1. Innermost(t) = 0
      BY <1>1, <1>2, InnermostNone
    <2>2. \A k \in DOMAIN table : k > 1 => table[k] = 0
      <3> SUFFICES ASSUME NEW k \in DOMAIN table, k > 1 PROVE table[k] = 0
        OBVIOUS
      <3>1. k - 1 \in 1 .. Len(table) - 1 /\ k = (k - 1) + 1
        BY <1>1
      <3>2. t[k - 1] = table[k]
        BY <1>1, <3>1
      <3>3. QED
        BY <1>1, <1>2, <3>1, <3>2
    <2>3. CASE table[1] # 0
      <3>1. Last(table, 1)
        BY <1>1, <2>2, <2>3 DEF Last
      <3>2. QED
        BY <2>1, <3>1, InnermostIs DEF t
    <2>4. CASE table[1] = 0
      <3>1. \A k \in DOMAIN table : table[k] = 0
        BY <1>1, <2>2, <2>4
      <3>2. QED
        BY <2>1, <2>4, <3>1, InnermostNone DEF t
    <2>5. QED
      BY <2>3, <2>4
  <1>3. ASSUME NEW k, Last(t, k) PROVE Innermost(table) = t[k] /\ Innermost(t) = t[k] /\ t[k] # 0
    <2>1. k \in 1 .. Len(table) - 1 /\ k + 1 \in DOMAIN table /\ table[k + 1] = t[k]
      BY <1>1, <1>3 DEF Last
    <2>2. \A j \in DOMAIN table : j > k + 1 => table[j] = 0
      <3> SUFFICES ASSUME NEW j \in DOMAIN table, j > k + 1 PROVE table[j] = 0
        OBVIOUS
      <3>1. j - 1 \in 1 .. Len(table) - 1 /\ j = (j - 1) + 1 /\ j - 1 > k
        BY <1>1, <2>1
      <3>2. t[j - 1] = table[j]
        BY <1>1, <3>1
      <3>3. QED
        BY <1>1, <1>3, <3>1, <3>2 DEF Last
    <2>3. Last(table, k + 1)
      BY <1>3, <2>1, <2>2 DEF Last
    <2>4. QED
      BY <1>1, <1>3, <2>1, <2>3, InnermostIs DEF Last
  <1>4. QED
    BY <1>1, <1>2, <1>3, LastOrNone DEF t

-----------------------------------------------------------------------------
(* The inductive invariant.                                                *)
Outer  == {"function", "method"}
Inner  == {"block", "for", "catch"}
FrameT == [kind : Outer \cup Inner, id : Nat]
Entry  == [decl : Nat \ {0}, frame : Nat]

TypeOK ==
  /\ top \in Seq(Kinds) /\ visited \in 0..Len(top)
  /\ frames \in Seq(FrameT) /\ entered \in Nat
  /\ log \in SUBSET Entry
  /\ sema \in Seq(Nat) /\ ir \in Seq(Nat)

(* Functions and methods are outermost; an inner frame was entered later.  *)
Nested ==
  /\ \A i \in DOMAIN frames :
       frames[i].id \in 1..entered /\ (i = 1 <=> frames[i].kind \in Outer)
  /\ \A i, j \in DOMAIN frames : i < j => frames[i].id < frames[j].id

(* Declarations are numbered in the order they are met, so those of an     *)
(* inner frame come after those of the frames around it.                   *)
Passed == {i \in Tops({"const", "use"}) : i <= visited}
Numbered == \E n \in Nat : Locals = Len(top) + 1 .. Len(top) + n
Logged == \A e \in log : e.frame <= entered /\ e.decl > Len(top)
Ordered ==
  \A i, j \in DOMAIN frames, e, f \in log :
    i < j /\ e.frame = frames[i].id /\ f.frame = frames[j].id => e.decl < f.decl

(* A scope of the analyser has the last declaration met in its frame; the  *)
(* global one has what the two passes have made of the text so far.        *)
Holds(lg, id, d) ==
  IF d = 0 THEN \A e \in lg : e.frame # id
  ELSE [decl |-> d, frame |-> id] \in lg /\ \A e \in lg : e.frame = id => e.decl <= d
Global == IF Passed # {} THEN Latest(Passed) ELSE Registered
Extra  == IF frames # <<>> /\ frames[1].kind = "method" THEN 2 ELSE 1
Scoped ==
  /\ Len(sema) = Len(frames) + Extra
  /\ sema[1] = Global
  /\ Extra = 2 => sema[2] = 0
  /\ \A k \in DOMAIN frames : Holds(log, frames[k].id, sema[k + Extra])

Core == TypeOK /\ Nested /\ Numbered /\ Logged /\ Ordered /\ Scoped
IInv == Core /\ TablesAgree /\ SemaIsLexical /\ IRIsLexical

-----------------------------------------------------------------------------
LEMMA TopsFacts ==
  ASSUME TypeOK, NEW kinds
  PROVE  Tops(kinds) \in SUBSET (1 .. Len(top)) /\ Len(top) \in Nat
  BY DEF TypeOK, Tops

LEMMA LatestFacts ==
  ASSUME NEW n \in Nat, NEW S \in SUBSET (1 .. n)
  PROVE  /\ Latest(S) \in 0 .. n
         /\ S # {} => Latest(S) \in S /\ \A j \in S : j <= Latest(S)
  <1>1. CASE S = {}
    BY <1>1 DEF Latest
  <1>2. CASE S # {}
    <2>1. PICK k \in S : \A j \in S : j <= k
      BY <1>2, LastExists
    <2>2. S \in SUBSET Nat /\ k \in 0 .. n
      OBVIOUS
    <2>3. Latest(S) = k
      BY <2>1, <2>2, LatestIs
    <2>4. QED
      BY <2>1, <2>2, <2>3
  <1>3. QED
    BY <1>1, <1>2

LEMMA GlobalFacts ==
  ASSUME TypeOK
  PROVE  Global \in 0 .. Len(top)
  <1>1. /\ Passed \in SUBSET (1 .. Len(top)) /\ Tops({"function", "type"}) \in SUBSET (1 .. Len(top))
        /\ Len(top) \in Nat
    BY TopsFacts DEF Passed
  <1>2. QED
    BY <1>1, LatestFacts DEF Global, Registered

(* The next declaration is newer than any other.                           *)
LEMMA NewDeclFacts ==
  ASSUME TypeOK, Numbered
  PROVE  /\ NewDecl \in Nat /\ NewDecl > Len(top)
         /\ \A e \in log : e.decl < NewDecl
         /\ Locals = Len(top) + 1 .. NewDecl - 1
  <1>1. Len(top) \in Nat /\ DOMAIN top = 1 .. Len(top)
    BY DEF TypeOK
  <1>2. PICK n \in Nat : Locals = Len(top) + 1 .. Len(top) + n
    BY DEF Numbered
  <1>3. Cardinality(Locals) = n
    BY <1>1, <1>2, FS_Interval
  <1>4. NewDecl = Len(top) + n + 1
    BY <1>3 DEF NewDecl
  <1>5. \A e \in log : e.decl \in Nat \ {0} /\ e.decl \in Locals
    BY DEF TypeOK, Entry, Locals
  <1>6. \A e \in log : e.decl < NewDecl
    BY <1>1, <1>2, <1>4, <1>5
  <1>7. QED
    BY <1>1, <1>2, <1>4, <1>6

LEMMA LogMore ==
  ASSUME TypeOK, Numbered, UNCHANGED top, NEW id,
         log' = log \cup {[decl |-> NewDecl, frame |-> id]}
  PROVE  Numbered'
  <1> DEFINE new == [decl |-> NewDecl, frame |-> id]
  <1>1. Locals' = Locals \cup {NewDecl}
    <2>1. new.decl = NewDecl
      OBVIOUS
    <2>2. QED
      BY <2>1 DEF Locals
  <1>2. /\ NewDecl \in Nat /\ NewDecl > Len(top) /\ Len(top) \in Nat
        /\ Locals = Len(top) + 1 .. NewDecl - 1
    BY NewDeclFacts DEF TypeOK
  <1>3. Locals' = Len(top)' + 1 .. Len(top)' + (NewDecl - Len(top))
    BY <1>1, <1>2
  <1>4. NewDecl - Len(top) \in Nat
    BY <1>2
  <1>5. QED
    BY <1>3, <1>4 DEF Numbered

LEMMA IndexShift ==
  ASSUME NEW n \in Nat, NEW x \in {1, 2}, NEW k \in 1 .. n
  PROVE  k + x - 1 \in 1 .. n + x - 1 /\ (k + x - 1) + 1 = k + x
  OBVIOUS

(* What each finds for a name is what lexical scoping gives it, or, when   *)
(* that is at top level, what the two passes have left there.              *)
LEMMA UseAgrees ==
  ASSUME Core
  PROVE  /\ Innermost(sema) = IF IsLocal(Visible) THEN Visible ELSE Global
         /\ Innermost(Tail(sema)) = IF IsLocal(Visible) THEN Visible ELSE 0
  <1> DEFINE t == Tail(sema)
  <1>1. /\ DOMAIN frames = 1 .. Len(frames) /\ Len(frames) \in Nat
        /\ Extra \in {1, 2} /\ Len(sema) = Len(frames) + Extra
        /\ sema \in Seq(Nat) /\ t \in Seq(Nat) /\ sema # <<>>
        /\ DOMAIN t = 1 .. Len(frames) + Extra - 1
        /\ \A k \in DOMAIN t : t[k] = sema[k + 1]
    <2>1. Extra \in {1, 2} /\ Len(sema) = Len(frames) + Extra /\ sema \in Seq(Nat) /\ frames \in Seq(FrameT)
      BY DEF Core, TypeOK, Scoped, Extra
    <2>2. Len(frames) \in Nat /\ Len(sema) >= 1
      BY <2>1
    <2>3. QED
      BY <2>1, <2>2
  <1> HIDE DEF t
  <1>2. \A d : d \in Reached <=> \E e \in log, k \in DOMAIN frames : e.frame = frames[k].id /\ e.decl = d
    BY DEF Reached, Open
  <1>5. CASE \A k \in DOMAIN t : t[k] = 0
    <2>1. Reached = {}
      <3> SUFFICES ASSUME NEW e \in log, NEW k \in DOMAIN frames, e.frame = frames[k].id PROVE FALSE
        BY <1>2
      <3>1. sema[k + Extra] = 0
        <4>1. k + Extra - 1 \in DOMAIN t /\ (k + Extra - 1) + 1 = k + Extra
          BY <1>1, IndexShift
        <4>2. QED
          BY <1>1, <1>5, <4>1
      <3>2. QED
        BY <3>1 DEF Core, Scoped, Holds
    <2>2. Innermost(t) = 0
      BY <1>1, <1>5, InnermostNone
    <2>3. Innermost(sema) = Global
      BY <1>1, <2>2, InnermostTail DEF t, Core, Scoped
    <2>4. ~IsLocal(Visible)
      <3>1. Visible = Latest(DOMAIN top)
        BY <2>1 DEF Visible
      <3>2. Len(top) \in Nat /\ DOMAIN top \in SUBSET (1 .. Len(top))
        BY DEF Core, TypeOK
      <3>3. Visible \in 0 .. Len(top)
        BY <3>1, <3>2, LatestFacts
      <3>4. QED
        BY <3>2, <3>3 DEF IsLocal
    <2>5. QED
      BY <2>2, <2>3, <2>4 DEF t
  <1>6. ASSUME NEW m, Last(t, m)
        PROVE  Innermost(sema) = Visible /\ Innermost(t) = Visible /\ IsLocal(Visible)
    <2> DEFINE k == m + 1 - Extra
               d == sema[k + Extra]
    <2>1. k \in DOMAIN frames /\ d = t[m] /\ d # 0
      <3>1. m \in 1 .. Len(frames) + Extra - 1 /\ t[m] # 0 /\ t[m] = sema[m + 1] /\ k + Extra = m + 1
        BY <1>1, <1>6 DEF Last
      <3>2. CASE Extra = 1
        BY <1>1, <3>1, <3>2
      <3>3. CASE Extra = 2
        <4>1. m # 1
          BY <3>1, <3>3 DEF Core, Scoped
        <4>2. QED
          BY <1>1, <3>1, <3>3, <4>1
      <3>4. QED
        BY <1>1, <3>2, <3>3
    <2>2. \A j \in DOMAIN frames : j > k => sema[j + Extra] = 0
      <3> SUFFICES ASSUME NEW j \in DOMAIN frames, j > k PROVE sema[j + Extra] = 0
        OBVIOUS
      <3>1. m \in 1 .. Len(frames) + Extra - 1
        BY <1>1, <1>6 DEF Last
      <3>2. j + Extra - 1 \in DOMAIN t /\ (j + Extra - 1) + 1 = j + Extra
        BY <1>1, IndexShift
      <3>4. j + Extra - 1 > m
        <4>1. j \in Nat /\ m \in Nat /\ Extra \in Nat /\ j > m + 1 - Extra
          BY <1>1, <3>1
        <4>2. QED
          BY <4>1
      <3>5. QED
        BY <1>1, <1>6, <3>2, <3>4 DEF Last
    <2> HIDE DEF k
    <2>3. \A j \in DOMAIN frames : Holds(log, frames[j].id, sema[j + Extra])
      BY DEF Core, Scoped
    <2>4. /\ [decl |-> d, frame |-> frames[k].id] \in log
          /\ \A e \in log : e.frame = frames[k].id => e.decl <= d
      BY <2>1, <2>3 DEF Holds
    <2>5. d \in Nat /\ d > Len(top)
      BY <2>4 DEF Core, Logged, TypeOK, Entry
    <2>6. d \in Reached
      <3>1. [decl |-> d, frame |-> frames[k].id].frame = frames[k].id
            /\ [decl |-> d, frame |-> frames[k].id].decl = d
        OBVIOUS
      <3>2. QED
        BY <1>2, <2>1, <2>4, <3>1
    <2>7. \A i \in Reached : i \in Nat /\ i <= d
      <3> SUFFICES ASSUME NEW e \in log, NEW j \in DOMAIN frames, e.frame = frames[j].id
                   PROVE  e.decl \in Nat /\ e.decl <= d
        BY <1>2
      <3>2. e.decl \in Nat
        BY DEF Core, TypeOK, Entry
      <3>3. ~(j > k)
        BY <2>2, <2>3 DEF Holds
      <3>4. CASE j = k
        BY <2>4, <3>2, <3>4
      <3>5. CASE j < k
        <4>1. e.decl < d
          BY <2>1, <2>4, <3>5 DEF Core, Ordered
        <4>2. QED
          BY <2>5, <3>2, <4>1
      <3>6. QED
        BY <1>1, <2>1, <3>2, <3>3, <3>4, <3>5
    <2>8. Latest(Reached) = d /\ Reached # {}
      BY <2>6, <2>7, LatestIs
    <2>9. Visible = d /\ IsLocal(Visible)
      BY <2>5, <2>8 DEF IsLocal, Visible
    <2>10. Innermost(t) = d
      BY <1>1, <1>6, <2>1, InnermostIs
    <2>11. Innermost(sema) = d
      BY <1>1, <2>1, <2>10, InnermostTail DEF t
    <2>12. QED
      BY <2>9, <2>10, <2>11
  <1>7. QED
    BY <1>1, <1>5, <1>6, LastOrNone DEF t

-----------------------------------------------------------------------------
(* Entering a construct.                                                   *)
LEMMA AppendFacts ==
  ASSUME NEW table \in Seq(Nat), NEW d \in Nat, NEW n \in Nat, Len(table) = n
  PROVE  /\ Append(table, d) \in Seq(Nat) /\ Len(Append(table, d)) = n + 1
         /\ \A i \in 1 .. n : Append(table, d)[i] = table[i]
         /\ Append(table, d)[n + 1] = d
  OBVIOUS

LEMMA ConcatTwo ==
  ASSUME NEW table \in Seq(Nat), NEW d \in Nat, NEW n \in Nat, Len(table) = n,
         NEW t, t = table \o <<0, d>>
  PROVE  /\ t \in Seq(Nat) /\ Len(t) = n + 2
         /\ \A i \in 1 .. n : t[i] = table[i]
         /\ t[n + 1] = 0 /\ t[n + 2] = d
  <1> DEFINE one == Append(table, 0)
  <1>1. t = Append(one, d)
    OBVIOUS
  <1>2. one \in Seq(Nat) /\ Len(one) = n + 1 /\ one[n + 1] = 0 /\ \A i \in 1 .. n : one[i] = table[i]
    BY AppendFacts
  <1> HIDE DEF one
  <1>3. /\ t \in Seq(Nat) /\ Len(t) = (n + 1) + 1 /\ t[(n + 1) + 1] = d
        /\ \A i \in 1 .. n + 1 : t[i] = one[i]
    <2>1. PICK k \in Nat : k = n + 1 /\ Len(one) = k
      BY <1>2
    <2>2. /\ Append(one, d) \in Seq(Nat) /\ Len(Append(one, d)) = k + 1
          /\ \A i \in 1 .. k : Append(one, d)[i] = one[i]
          /\ Append(one, d)[k + 1] = d
      BY <1>2, <2>1, AppendFacts
    <2>3. QED
      BY <1>1, <2>1, <2>2
  <1>4. n + 1 \in 1 .. n + 1 /\ (\A i \in 1 .. n : i \in 1 .. n + 1) /\ (n + 1) + 1 = n + 2
    OBVIOUS
  <1>5. QED
    BY <1>2, <1>3, <1>4

LEMMA EnterCore ==
  ASSUME Core, NEW kind \in Outer \cup Inner, NEW declares \in BOOLEAN, Enter(kind, declares),
         kind \in Outer <=> frames = <<>>,
         sema' = IF kind = "method" THEN sema \o <<0, Own(declares)>>
                 ELSE Append(sema, Own(declares)),
         ir' \in Seq(Nat)
  PROVE  Core'
  <1> DEFINE n == entered + 1
             f == [kind |-> kind, id |-> n]
             d == Own(declares)
             new == [decl |-> NewDecl, frame |-> n]
             m == Len(frames)
  <1>1. /\ frames' = Append(frames, f) /\ entered' = n /\ n \in Nat /\ f \in FrameT
        /\ log' = (IF declares THEN log \cup {new} ELSE log)
        /\ UNCHANGED <<top, visited>>
    BY DEF Enter, Core, TypeOK, FrameT
  <1>2. /\ NewDecl \in Nat \ {0} /\ NewDecl > Len(top) /\ \A e \in log : e.decl < NewDecl
        /\ Len(top) \in Nat
    BY NewDeclFacts DEF Core, TypeOK
  <1>3. /\ d = IF declares THEN NewDecl ELSE 0
        /\ d \in Nat /\ new \in Entry /\ new.decl = NewDecl /\ new.frame = n
    BY <1>1, <1>2 DEF Own, Entry
  <1>4. /\ frames \in Seq(FrameT) /\ m \in Nat /\ DOMAIN frames = 1 .. m
        /\ frames' \in Seq(FrameT) /\ Len(frames') = m + 1 /\ DOMAIN frames' = 1 .. m + 1
        /\ frames'[m + 1] = f /\ \A i \in 1 .. m : frames'[i] = frames[i]
        /\ f.id = n /\ f.kind = kind /\ (frames = <<>> <=> m = 0)
    BY <1>1 DEF Core, TypeOK
  <1>15. /\ \A i \in 1 .. m + 1 : i \in 1 .. m \/ i = m + 1
         /\ \A i \in 1 .. m : frames[i].id # n
    <2>1. \A i \in 1 .. m : frames[i].id \in 1 .. entered
      BY <1>4 DEF Core, Nested
    <2>2. entered \in Nat
      BY DEF Core, TypeOK
    <2>3. QED
      BY <1>4, <2>1, <2>2
  <1> HIDE DEF f, new, d
  <1>5. TypeOK'
    <2>1. sema' \in Seq(Nat)
      BY <1>3 DEF Core, TypeOK, d
    <2>2. log' \in SUBSET Entry
      BY <1>1, <1>3 DEF Core, TypeOK
    <2>3. QED
      BY <1>1, <1>4, <2>1, <2>2 DEF Core, TypeOK
  <1>6. Nested'
    <2>1. \A i \in 1 .. m : frames[i].id \in 1 .. entered /\ (i = 1 <=> frames[i].kind \in Outer)
      BY <1>4 DEF Core, Nested
    <2>2. \A i, j \in 1 .. m : i < j => frames[i].id < frames[j].id
      BY <1>4 DEF Core, Nested
    <2>3. entered \in Nat
      BY DEF Core, TypeOK
    <2>4. \A i \in DOMAIN frames' : frames'[i].id \in 1 .. n /\ (i = 1 <=> frames'[i].kind \in Outer)
      <3> SUFFICES ASSUME NEW i \in 1 .. m + 1
                   PROVE  frames'[i].id \in 1 .. n /\ (i = 1 <=> frames'[i].kind \in Outer)
        BY <1>4
      <3>1. CASE i \in 1 .. m
        BY <1>4, <2>1, <2>3, <3>1
      <3>2. CASE i = m + 1
        BY <1>4, <2>3, <3>2
      <3>3. QED
        BY <1>4, <3>1, <3>2
    <2>5. \A i, j \in DOMAIN frames' : i < j => frames'[i].id < frames'[j].id
      <3> SUFFICES ASSUME NEW i \in 1 .. m + 1, NEW j \in 1 .. m + 1, i < j
                   PROVE  frames'[i].id < frames'[j].id
        BY <1>4
      <3>1. i \in 1 .. m
        BY <1>4
      <3>2. CASE j \in 1 .. m
        BY <1>4, <2>2, <3>1, <3>2
      <3>3. CASE j = m + 1
        BY <1>4, <2>1, <2>3, <3>1, <3>3
      <3>4. QED
        BY <1>15, <3>2, <3>3
    <2>6. QED
      BY <1>1, <2>4, <2>5 DEF Nested
  <1>7. Numbered'
    <2>1. CASE declares
      BY <1>1, <2>1, LogMore DEF new, Core
    <2>2. CASE ~declares
      BY <1>1, <2>2 DEF Core, Numbered, Locals
    <2>3. QED
      BY <2>1, <2>2
  <1>8. \A e \in log : e.frame \in Nat /\ e.frame <= entered
    BY DEF Core, Logged, TypeOK, Entry
  <1>9. \A e \in log' : e \in log \/ (declares /\ e = new)
    BY <1>1
  <1>10. \A e \in log : e \in log' /\ e.frame # n
    <2>1. entered \in Nat
      BY DEF Core, TypeOK
    <2>2. QED
      BY <1>1, <1>8, <2>1
  <1>11. Logged'
    <2>1. entered \in Nat
      BY DEF Core, TypeOK
    <2>2. \A e \in log' : e.frame <= n /\ e.decl > Len(top)
      <3>1. \A e \in log : e.decl > Len(top)
        BY DEF Core, Logged
      <3>2. new.frame <= n /\ new.decl > Len(top)
        BY <1>2, <1>3, <2>1
      <3>3. QED
        BY <1>8, <1>9, <2>1, <3>1, <3>2
    <2>3. QED
      BY <1>1, <2>2 DEF Logged
  <1>12. Ordered'
    <2> SUFFICES ASSUME NEW i \in 1 .. m + 1, NEW j \in 1 .. m + 1, NEW e \in log', NEW g \in log',
                        i < j, e.frame = frames'[i].id, g.frame = frames'[j].id
                 PROVE  e.decl < g.decl
      BY <1>4 DEF Ordered
    <2>1. i \in 1 .. m
      BY <1>4
    <2>2. frames[i].id # n
      BY <1>15, <2>1
    <2>3. e \in log
      BY <1>3, <1>4, <1>9, <2>1, <2>2
    <2>4. CASE j \in 1 .. m
      <3>1. frames[j].id # n
        BY <1>15, <2>4
      <3>2. g \in log
        BY <1>3, <1>4, <1>9, <2>4, <3>1
      <3>3. QED
        BY <1>4, <2>1, <2>3, <2>4, <3>2 DEF Core, Ordered
    <2>5. CASE j = m + 1
      <3>1. g = new
        BY <1>4, <1>9, <1>10, <2>5
      <3>2. QED
        BY <1>2, <1>3, <2>3, <3>1
    <2>6. QED
      BY <1>15, <2>4, <2>5
  <1>13. Scoped'
    <2>1. /\ sema \in Seq(Nat) /\ Len(sema) = m + Extra /\ Extra \in {1, 2}
          /\ m = 0 => Extra = 1
      BY <1>4 DEF Core, TypeOK, Scoped, Extra
    <2>2. Extra' = IF kind = "method" THEN 2 ELSE Extra
      <3>1. CASE m = 0
        <4>1. m + 1 = 1
          BY <3>1
        <4>2. frames'[1] = f /\ frames' # <<>>
          BY <1>4, <4>1
        <4>3. QED
          BY <1>4, <2>1, <3>1, <4>2 DEF Extra
      <3>2. CASE m # 0
        <4>1. frames'[1] = frames[1] /\ frames' # <<>> /\ frames # <<>>
          BY <1>4, <3>2
        <4>2. kind # "method"
          BY <4>1 DEF Outer
        <4>3. QED
          BY <4>1, <4>2 DEF Extra
      <3>3. QED
        BY <3>1, <3>2
    <2>3. kind = "method" => m = 0 /\ Extra = 1
      BY <1>4, <2>1 DEF Outer
    <2>4. /\ Len(sema') = m + 1 + Extra'
          /\ sema'[m + 1 + Extra'] = d
          /\ \A k \in 1 .. m + Extra : sema'[k] = sema[k]
          /\ kind = "method" => sema'[2] = 0
      <3>1. CASE kind = "method"
        <4>1. sema' = sema \o <<0, d>>
          BY <3>1 DEF d
        <4>2. m = 0 /\ Extra = 1 /\ Extra' = 2
          BY <2>2, <2>3, <3>1
        <4>3. PICK l \in Nat : Len(sema) = l /\ l = m + Extra
          BY <1>4, <2>1
        <4>4. /\ Len(sema') = l + 2 /\ sema'[l + 1] = 0 /\ sema'[l + 2] = d
              /\ \A i \in 1 .. l : sema'[i] = sema[i]
          BY <1>3, <2>1, <4>1, <4>3, ConcatTwo
        <4>5. l + 1 = 2 /\ l + 2 = m + 1 + Extra' /\ l = m + Extra
          BY <4>2, <4>3
        <4>6. QED
          BY <4>4, <4>5
      <3>2. CASE kind # "method"
        <4>1. sema' = Append(sema, d)
          BY <3>2 DEF d
        <4>2. QED
          BY <1>3, <1>4, <2>1, <2>2, <3>2, <4>1
      <3>3. QED
        BY <3>1, <3>2
    <2>5. sema'[1] = Global'
      <3>1. Global' = Global
        BY <1>1 DEF Global, Passed, Registered, Tops
      <3>2. 1 \in 1 .. m + Extra
        BY <1>4, <2>1
      <3>3. QED
        BY <2>4, <3>1, <3>2 DEF Core, Scoped
    <2>6. Extra' = 2 => sema'[2] = 0
      <3>1. CASE kind = "method"
        BY <2>4, <3>1
      <3>2. CASE kind # "method"
        <4>1. Extra = 2 => 2 \in 1 .. m + Extra
          BY <1>4
        <4>2. QED
          BY <2>2, <2>4, <3>2, <4>1 DEF Core, Scoped
      <3>3. QED
        BY <3>1, <3>2
    <2>7. \A k \in DOMAIN frames' : Holds(log', frames'[k].id, sema'[k + Extra'])
      <3> SUFFICES ASSUME NEW k \in 1 .. m + 1
                   PROVE  Holds(log', frames'[k].id, sema'[k + Extra'])
        BY <1>4
      <3>1. CASE k \in 1 .. m
        <4>1. Extra' = Extra /\ k + Extra \in 1 .. m + Extra
          BY <1>4, <2>1, <2>2, <2>3, <3>1
        <4>2. sema'[k + Extra'] = sema[k + Extra] /\ frames'[k] = frames[k]
          BY <1>4, <2>4, <3>1, <4>1
        <4>3. Holds(log, frames[k].id, sema[k + Extra]) /\ frames[k].id # n
          BY <1>4, <1>15, <3>1 DEF Core, Scoped
        <4>4. QED
          BY <1>3, <1>9, <1>10, <4>2, <4>3 DEF Holds
      <3>2. CASE k = m + 1
        <4>1. frames'[k].id = n /\ sema'[k + Extra'] = d
          BY <1>4, <2>4, <3>2
        <4>2. CASE declares
          <5>1. new \in log' /\ d # 0 /\ new = [decl |-> d, frame |-> n]
            BY <1>1, <1>2, <1>3, <4>2 DEF new
          <5>2. \A e \in log' : e.frame = n => e.decl <= d
            BY <1>2, <1>3, <1>9, <1>10, <4>2
          <5>3. QED
            BY <4>1, <5>1, <5>2 DEF Holds
        <4>3. CASE ~declares
          BY <1>3, <1>9, <1>10, <4>1, <4>3 DEF Holds
        <4>4. QED
          BY <4>2, <4>3
      <3>3. QED
        BY <1>15, <3>1, <3>2
    <2>8. QED
      BY <1>4, <2>4, <2>5, <2>6, <2>7 DEF Scoped
  <1>14. QED
    BY <1>5, <1>6, <1>7, <1>11, <1>12, <1>13 DEF Core

-----------------------------------------------------------------------------
(* Leaving a construct.                                                    *)
LEMMA DropFacts ==
  ASSUME NEW S, NEW table \in Seq(S), NEW n \in Nat, Len(table) = n, NEW k \in 0 .. n
  PROVE  /\ Drop(table, k) \in Seq(S) /\ Len(Drop(table, k)) = n - k
         /\ \A i \in 1 .. n - k : Drop(table, k)[i] = table[i]
  <1>1. n - k \in 0 .. n
    OBVIOUS
  <1>2. \A i \in 1 .. n - k : table[i] \in S
    OBVIOUS
  <1>3. QED
    BY <1>1, <1>2 DEF Drop

(* What is left of the frames and of the analyser's scopes.                *)
LEMMA LeaveSteps ==
  ASSUME Core, NEW m \in Nat \ {0}, Len(frames) = m, frames' = Drop(frames, 1),
         sema' = Drop(sema, ScopesOf(frames[m].kind))
  PROVE  /\ frames' \in Seq(FrameT) /\ Len(frames') = m - 1
         /\ \A i \in 1 .. m - 1 : frames'[i] = frames[i]
         /\ m = 1 <=> frames[m].kind \in Outer
         /\ Extra' = IF m = 1 THEN 1 ELSE Extra
         /\ sema' \in Seq(Nat) /\ Len(sema') = m - 1 + Extra'
         /\ \A i \in 1 .. m - 1 + Extra' : sema'[i] = sema[i]
  <1> DEFINE k == ScopesOf(frames[m].kind)
  <1>1. /\ DOMAIN frames = 1 .. m /\ frames \in Seq(FrameT) /\ Len(frames) = m
        /\ sema \in Seq(Nat) /\ Len(sema) = m + Extra /\ Extra \in {1, 2} /\ k \in {1, 2}
    BY DEF Core, TypeOK, Scoped, Extra, ScopesOf
  <1>2. 1 \in 0 .. m /\ m \in 1 .. m /\ 1 \in 1 .. m /\ (m # 1 => 1 \in 1 .. m - 1)
    OBVIOUS
  <1>3. /\ frames' \in Seq(FrameT) /\ Len(frames') = m - 1
        /\ \A i \in 1 .. m - 1 : frames'[i] = frames[i]
    <2>1. /\ Drop(frames, 1) \in Seq(FrameT) /\ Len(Drop(frames, 1)) = m - 1
          /\ \A i \in 1 .. m - 1 : Drop(frames, 1)[i] = frames[i]
      BY <1>1, <1>2, DropFacts, Zenon
    <2>2. QED
      BY <2>1
  <1>4. m = 1 <=> frames[m].kind \in Outer
    BY <1>1, <1>2 DEF Core, Nested
  <1>5. /\ m = 1 => k = Extra
        /\ m # 1 => k = 1
    BY <1>1, <1>4 DEF ScopesOf, Extra, Outer
  <1>6. Extra' = IF m = 1 THEN 1 ELSE Extra
    <2>1. CASE m = 1
      <3>1. frames' = <<>>
        BY <1>3, <2>1
      <3>2. QED
        BY <2>1, <3>1 DEF Extra
    <2>2. CASE m # 1
      <3>1. frames' # <<>> /\ frames'[1] = frames[1] /\ frames # <<>>
        BY <1>1, <1>2, <1>3, <2>2
      <3>2. QED
        BY <2>2, <3>1 DEF Extra
    <2>3. QED
      BY <2>1, <2>2
  <1> HIDE DEF k
  <1>7. /\ sema' \in Seq(Nat) /\ Len(sema') = m - 1 + Extra'
        /\ \A i \in 1 .. m - 1 + Extra' : sema'[i] = sema[i]
    <2>1. PICK n \in Nat : n = m + Extra
      BY <1>1
    <2>2. Len(sema) = n /\ k \in 0 .. n /\ n - k = m - 1 + Extra'
      BY <1>1, <1>5, <1>6, <2>1
    <2>3. /\ Drop(sema, k) \in Seq(Nat) /\ Len(Drop(sema, k)) = n - k
          /\ \A i \in 1 .. n - k : Drop(sema, k)[i] = sema[i]
      <3>1. sema \in Seq(Nat) /\ Len(sema) = n /\ k \in 0 .. n
        BY <1>1, <2>2
      <3>2. QED
        BY <3>1, DropFacts, Zenon
    <2>4. QED
      BY <2>2, <2>3 DEF k
  <1>8. QED
    BY <1>3, <1>4, <1>6, <1>7

LEMMA LeaveCore ==
  ASSUME Core, frames # <<>>, frames' = Drop(frames, 1),
         sema' = Drop(sema, ScopesOf(frames[Len(frames)].kind)),
         UNCHANGED <<top, visited, entered, log>>, ir' \in Seq(Nat)
  PROVE  Core'
  <1>20. PICK m \in Nat \ {0} : m = Len(frames)
    BY DEF Core, TypeOK
  <1>1. DOMAIN frames = 1 .. m /\ frames \in Seq(FrameT) /\ Len(frames) = m /\ Extra \in {1, 2}
    BY <1>20 DEF Core, TypeOK, Extra
  <1>21. /\ \A i \in 1 .. m - 1 : i \in 1 .. m
         /\ m - 1 \in Nat
    OBVIOUS
  <1>22. /\ frames' \in Seq(FrameT) /\ Len(frames') = m - 1
         /\ \A i \in 1 .. m - 1 : frames'[i] = frames[i]
         /\ Extra' = IF m = 1 THEN 1 ELSE Extra
         /\ sema' \in Seq(Nat) /\ Len(sema') = m - 1 + Extra'
         /\ \A i \in 1 .. m - 1 + Extra' : sema'[i] = sema[i]
    BY <1>20, LeaveSteps
  <1>2. /\ frames' \in Seq(FrameT) /\ Len(frames') = m - 1 /\ DOMAIN frames' = 1 .. m - 1
        /\ \A i \in 1 .. m - 1 : frames'[i] = frames[i] /\ i \in 1 .. m
    <2>1. DOMAIN frames' = 1 .. m - 1
      BY <1>21, <1>22
    <2>2. QED
      BY <1>21, <1>22, <2>1
  <1>4. Extra' = IF m = 1 THEN 1 ELSE Extra
    BY <1>22
  <1>5. /\ sema' \in Seq(Nat) /\ Len(sema') = m - 1 + Extra'
        /\ \A i \in 1 .. m - 1 + Extra' : sema'[i] = sema[i]
    BY <1>22
  <1>6. TypeOK'
    BY <1>2, <1>5 DEF Core, TypeOK
  <1>7. Nested'
    BY <1>1, <1>2, <1>21 DEF Core, Nested
  <1>8. Numbered' /\ Logged'
    BY DEF Core, Numbered, Locals, Logged, Tops, Passed
  <1>9. Ordered'
    <2> SUFFICES ASSUME NEW i \in 1 .. m - 1, NEW j \in 1 .. m - 1, NEW e \in log, NEW g \in log,
                        i < j, e.frame = frames'[i].id, g.frame = frames'[j].id
                 PROVE  e.decl < g.decl
      BY <1>2 DEF Ordered
    <2>1. i \in DOMAIN frames /\ j \in DOMAIN frames
      BY <1>1, <1>21
    <2>2. QED
      BY <1>2, <2>1 DEF Core, Ordered
  <1>10. Scoped'
    <2>1. Global' = Global
      BY DEF Global, Passed, Registered, Tops
    <2>2. sema'[1] = Global'
      <3>1. 1 \in 1 .. m - 1 + Extra'
        BY <1>1, <1>4
      <3>2. QED
        BY <1>5, <2>1, <3>1 DEF Core, Scoped
    <2>3. Extra' = 2 => sema'[2] = 0
      <3> SUFFICES ASSUME Extra' = 2 PROVE sema'[2] = 0
        OBVIOUS
      <3>1. Extra = 2 /\ 2 \in 1 .. m - 1 + Extra'
        BY <1>1, <1>4
      <3>2. QED
        BY <1>5, <3>1 DEF Core, Scoped
    <2>4. \A i \in DOMAIN frames' : Holds(log', frames'[i].id, sema'[i + Extra'])
      <3> SUFFICES ASSUME NEW i \in 1 .. m - 1
                   PROVE  Holds(log', frames'[i].id, sema'[i + Extra'])
        BY <1>2
      <3>1. Extra' = Extra /\ i + Extra' \in 1 .. m - 1 + Extra' /\ i \in DOMAIN frames
        <4>1. i \in Nat \ {0} /\ i <= m - 1 /\ m # 1
          OBVIOUS
        <4>2. Extra' = Extra /\ Extra \in Nat
          BY <1>1, <1>4, <4>1
        <4>3. QED
          BY <1>1, <1>21, <4>1, <4>2
      <3>2. Holds(log, frames[i].id, sema[i + Extra])
        BY <3>1 DEF Core, Scoped
      <3>3. frames'[i] = frames[i] /\ sema'[i + Extra'] = sema[i + Extra] /\ log' = log
        BY <1>2, <1>5, <3>1
      <3>4. QED
        BY <3>2, <3>3
    <2>5. QED
      BY <1>2, <1>5, <2>2, <2>3, <2>4 DEF Scoped
  <1>11. QED
    BY <1>6, <1>7, <1>8, <1>9, <1>10 DEF Core

-----------------------------------------------------------------------------
(* A declaration in the innermost scope.                                   *)
LEMMA SetTopFacts ==
  ASSUME NEW table \in Seq(Nat), NEW d \in Nat, NEW n \in Nat, Len(table) = n, n # 0
  PROVE  /\ SetTop(table, d) \in Seq(Nat) /\ Len(SetTop(table, d)) = n
         /\ SetTop(table, d)[n] = d
         /\ \A i \in 1 .. n : i # n => SetTop(table, d)[i] = table[i]
  BY DEF SetTop

LEMMA LetCore ==
  ASSUME Core, frames # <<>>, log' = log \cup {[decl |-> NewDecl, frame |-> Frame]},
         sema' = SetTop(sema, NewDecl),
         UNCHANGED <<top, visited, frames, entered>>, ir' \in Seq(Nat)
  PROVE  Core'
  <1>20. PICK m \in Nat \ {0} : m = Len(frames)
    BY DEF Core, TypeOK
  <1> DEFINE d   == NewDecl
             id  == frames[m].id
             new == [decl |-> d, frame |-> id]
  <1>1. /\ DOMAIN frames = 1 .. m /\ frames \in Seq(FrameT) /\ m \in DOMAIN frames
        /\ sema \in Seq(Nat) /\ Len(sema) = m + Extra /\ Extra \in {1, 2}
    BY <1>20 DEF Core, TypeOK, Scoped, Extra
  <1>2. /\ d \in Nat \ {0} /\ d > Len(top) /\ Len(top) \in Nat
        /\ \A e \in log : e.decl < d /\ e.decl \in Nat
    BY NewDeclFacts DEF Core, TypeOK, Entry
  <1>3. /\ id \in 1 .. entered /\ entered \in Nat
        /\ \A i \in 1 .. m : i # m => frames[i].id # id
    <2>1. id \in 1 .. entered /\ entered \in Nat
      BY <1>1 DEF Core, Nested, TypeOK
    <2>2. ASSUME NEW i \in 1 .. m, i # m PROVE frames[i].id # id
      <3>1. i < m /\ i \in DOMAIN frames
        BY <1>1, <2>2
      <3>2. frames[i].id < id /\ frames[i].id \in 1 .. entered
        BY <1>1, <3>1 DEF Core, Nested
      <3>3. QED
        BY <2>1, <3>2
    <2>3. QED
      BY <2>1, <2>2
  <1>4. /\ log' = log \cup {new} /\ new \in Entry /\ new.decl = d /\ new.frame = id
        /\ \A e \in log' : e \in log \/ e = new
    BY <1>2, <1>3, <1>20 DEF Frame, Entry
  <1>5. /\ sema' \in Seq(Nat) /\ Len(sema') = m + Extra /\ sema'[m + Extra] = d
        /\ \A i \in 1 .. m + Extra : i # m + Extra => sema'[i] = sema[i]
    <2>1. PICK n \in Nat \ {0} : n = m + Extra /\ Len(sema) = n
      BY <1>1
    <2>2. /\ sema' \in Seq(Nat) /\ Len(sema') = n /\ sema'[n] = d
          /\ \A i \in 1 .. n : i # n => sema'[i] = sema[i]
      <3>1. d \in Nat /\ sema \in Seq(Nat) /\ Len(sema) = n /\ n \in Nat /\ n # 0
        BY <1>1, <1>2, <2>1
      <3> HIDE DEF d
      <3>2. /\ SetTop(sema, d) \in Seq(Nat) /\ Len(SetTop(sema, d)) = n
            /\ SetTop(sema, d)[n] = d
            /\ \A i \in 1 .. n : i # n => SetTop(sema, d)[i] = sema[i]
        BY <3>1 DEF SetTop
      <3>3. sema' = SetTop(sema, d)
        BY DEF d
      <3>4. QED
        BY <3>2, <3>3
    <2>3. QED
      BY <2>1, <2>2
  <1>6. TypeOK'
    BY <1>4, <1>5 DEF Core, TypeOK
  <1>7. Nested'
    BY DEF Core, Nested
  <1>8. Numbered'
    BY <1>4, LogMore DEF Core
  <1> HIDE DEF d, id, new
  <1>9. Logged'
    <2>1. \A e \in log : e.frame <= entered /\ e.decl > Len(top)
      BY DEF Core, Logged
    <2>2. new.frame <= entered /\ new.decl > Len(top)
      BY <1>2, <1>3, <1>4
    <2>3. QED
      BY <1>4, <2>1, <2>2 DEF Logged
  <1>10. Ordered'
    <2> SUFFICES ASSUME NEW i \in 1 .. m, NEW j \in 1 .. m, NEW e \in log', NEW g \in log',
                        i < j, e.frame = frames[i].id, g.frame = frames[j].id
                 PROVE  e.decl < g.decl
      <3>1. DOMAIN frames' = 1 .. m /\ frames' = frames
        BY <1>1
      <3>2. QED
        BY <3>1, Zenon DEF Ordered
    <2>1. i # m
      OBVIOUS
    <2>2. e \in log
      BY <1>3, <1>4, <2>1
    <2>3. CASE g \in log
      BY <1>1, <2>2, <2>3 DEF Core, Ordered
    <2>4. CASE g = new
      BY <1>2, <1>4, <2>2, <2>4
    <2>5. QED
      BY <1>4, <2>3, <2>4
  <1>11. Scoped'
    <2>1. Global' = Global /\ Extra' = Extra
      BY DEF Global, Passed, Registered, Tops, Extra
    <2>2. sema'[1] = Global'
      <3>1. 1 \in 1 .. m + Extra /\ 1 # m + Extra
        BY <1>1
      <3>2. QED
        BY <1>5, <2>1, <3>1 DEF Core, Scoped
    <2>3. Extra' = 2 => sema'[2] = 0
      <3> SUFFICES ASSUME Extra = 2 PROVE sema'[2] = 0
        BY <2>1
      <3>1. 2 \in 1 .. m + Extra /\ 2 # m + Extra
        BY <1>1
      <3>2. QED
        BY <1>5, <3>1 DEF Core, Scoped
    <2>4. \A i \in DOMAIN frames : Holds(log', frames[i].id, sema'[i + Extra])
      <3> SUFFICES ASSUME NEW i \in 1 .. m PROVE Holds(log', frames[i].id, sema'[i + Extra])
        BY <1>1
      <3>1. CASE i = m
        <4>1. frames[i].id = id /\ sema'[i + Extra] = d /\ d # 0
          BY <1>2, <1>5, <3>1 DEF id
        <4>2. [decl |-> d, frame |-> id] \in log'
          BY <1>4 DEF new
        <4>3. \A e \in log' : e.frame = id => e.decl <= d
          BY <1>2, <1>4
        <4>4. QED
          BY <4>1, <4>2, <4>3 DEF Holds
      <3>2. CASE i # m
        <4>1. i + Extra \in 1 .. m + Extra /\ i + Extra # m + Extra
          <5>1. i \in Nat /\ i <= m /\ i >= 1 /\ Extra \in Nat
            BY <1>1
          <5>2. QED
            BY <3>2, <5>1
        <4>2. sema'[i + Extra] = sema[i + Extra] /\ frames[i].id # id
          BY <1>3, <1>5, <3>2, <4>1
        <4>3. Holds(log, frames[i].id, sema[i + Extra])
          BY <1>1 DEF Core, Scoped
        <4>4. \A e \in log' : e.frame = frames[i].id => e \in log
          BY <1>4, <4>2
        <4>5. QED
          BY <1>4, <4>2, <4>3, <4>4 DEF Holds
      <3>3. QED
        BY <3>1, <3>2
    <2>5. QED
      BY <1>5, <1>20, <2>1, <2>2, <2>3, <2>4 DEF Scoped
  <1>12. QED
    BY <1>6, <1>7, <1>8, <1>9, <1>10, <1>11 DEF Core

-----------------------------------------------------------------------------
(* The two passes over the top level.                                      *)
LEMMA VisitTopCore ==
  ASSUME Core, VisitTop
  PROVE  Core' /\ sema' \in Seq(Nat) /\ frames = <<>> /\ UNCHANGED <<top, frames, ir>> /\ last' = NoUse
  <1> DEFINE v == visited + 1
  <1>1. /\ frames = <<>> /\ visited' = v /\ v \in 1 .. Len(top) /\ visited \in Nat /\ Len(top) \in Nat
        /\ UNCHANGED <<top, frames, entered, log, ir>> /\ last' = NoUse
    BY DEF VisitTop, Core, TypeOK
  <1>2. sema' = IF v \in Tops({"const", "use"}) THEN <<v>> ELSE sema
    <2>1. v \in Tops({"const", "use"}) <=> top[v] \in {"const", "use"}
      BY <1>1 DEF Tops, Core, TypeOK
    <2>2. QED
      BY <1>1, <2>1 DEF VisitTop
  <1>3. sema' \in Seq(Nat)
    <2>1. <<v>> \in Seq(Nat) /\ sema \in Seq(Nat)
      BY <1>1 DEF Core, TypeOK
    <2>2. QED
      BY <1>2, <2>1
  <1>4. TypeOK'
    BY <1>1, <1>3 DEF Core, TypeOK
  <1>5. Nested' /\ Ordered' /\ Numbered' /\ Logged'
    BY <1>1 DEF Core, Nested, Ordered, Numbered, Locals, Logged
  <1>6. Passed' = IF v \in Tops({"const", "use"}) THEN Passed \cup {v} ELSE Passed
    <2>1. \A i \in Tops({"const", "use"}) : i \in Nat /\ (i <= v <=> i <= visited \/ i = v)
      BY <1>1, TopsFacts DEF Core
    <2>2. Tops({"const", "use"})' = Tops({"const", "use"})
      BY <1>1 DEF Tops
    <2>3. QED
      BY <1>1, <2>1, <2>2 DEF Passed
  <1>7. CASE v \notin Tops({"const", "use"})
    <2>1. Passed' = Passed /\ UNCHANGED sema
      BY <1>2, <1>6, <1>7
    <2>2. Global' = Global /\ Extra' = Extra
      BY <1>1, <2>1 DEF Global, Registered, Tops, Extra
    <2>3. Scoped'
      BY <1>1, <2>1, <2>2 DEF Core, Scoped
    <2>4. QED
      BY <1>1, <1>3, <1>4, <1>5, <2>3 DEF Core
  <1>8. CASE v \in Tops({"const", "use"})
    <2>1. sema' = <<v>> /\ Passed' = Passed \cup {v}
      BY <1>2, <1>6, <1>8
    <2>2. Latest(Passed') = v
      <3>1. Passed' \in SUBSET Nat /\ v \in Passed' /\ \A i \in Passed' : i <= v
        BY <1>1, <2>1, TopsFacts DEF Core, Passed
      <3>2. QED
        BY <3>1, LatestIs
    <2>3. Global' = v
      BY <2>1, <2>2 DEF Global
    <2>4. Extra' = 1 /\ Len(frames') = 0 /\ DOMAIN frames' = {}
      BY <1>1 DEF Extra
    <2>5. Len(sema') = 1 /\ sema'[1] = v
      BY <2>1
    <2>6. Scoped'
      BY <2>3, <2>4, <2>5 DEF Scoped
    <2>7. QED
      BY <1>1, <1>3, <1>4, <1>5, <2>6 DEF Core
  <1>9. QED
    BY <1>7, <1>8

-----------------------------------------------------------------------------
(* The tables of the IR generator are the inner ones of the analyser.      *)
LEMMA SeqSame ==
  ASSUME NEW s \in Seq(Nat), NEW t \in Seq(Nat), Len(s) = Len(t), \A i \in 1 .. Len(s) : s[i] = t[i]
  PROVE  s = t
  OBVIOUS

LEMMA TailAppend ==
  ASSUME NEW t \in Seq(Nat), NEW d \in Nat, t # <<>>
  PROVE  Tail(Append(t, d)) = Append(Tail(t), d)
  OBVIOUS

LEMMA TailDrop ==
  ASSUME NEW t \in Seq(Nat), Len(t) >= 2
  PROVE  Tail(Drop(t, 1)) = Drop(Tail(t), 1)
  BY DEF Drop

LEMMA TailSet ==
  ASSUME NEW t \in Seq(Nat), NEW d \in Nat, Len(t) >= 2
  PROVE  Tail(SetTop(t, d)) = SetTop(Tail(t), d)
  <1> DEFINE u == SetTop(t, d)
             n == Len(t)
             w == Tail(t)
  <1>1. /\ u \in Seq(Nat) /\ Len(u) = n /\ u[n] = d /\ \A i \in 1 .. n : i # n => u[i] = t[i]
    BY DEF SetTop
  <1>2. w \in Seq(Nat) /\ Len(w) = n - 1 /\ \A i \in 1 .. n - 1 : w[i] = t[i + 1]
    OBVIOUS
  <1> HIDE DEF u, w
  <1>3. Tail(u) \in Seq(Nat) /\ Len(Tail(u)) = n - 1 /\ \A i \in 1 .. n - 1 : Tail(u)[i] = u[i + 1]
    BY <1>1
  <1>4. /\ SetTop(w, d) \in Seq(Nat) /\ Len(SetTop(w, d)) = n - 1
        /\ SetTop(w, d)[n - 1] = d /\ \A i \in 1 .. n - 1 : i # n - 1 => SetTop(w, d)[i] = w[i]
    BY <1>2 DEF SetTop
  <1>5. \A i \in 1 .. n - 1 : Tail(u)[i] = SetTop(w, d)[i]
    <2> SUFFICES ASSUME NEW i \in 1 .. n - 1 PROVE Tail(u)[i] = SetTop(w, d)[i]
      OBVIOUS
    <2>1. n \in Nat /\ i + 1 \in 1 .. n
      OBVIOUS
    <2>2. CASE i = n - 1
      <3>1. i + 1 = n
        BY <2>1, <2>2
      <3>2. QED
        BY <1>1, <1>3, <1>4, <2>2, <3>1
    <2>3. CASE i # n - 1
      <3>1. i + 1 # n
        BY <2>1, <2>3
      <3>2. QED
        BY <1>1, <1>2, <1>3, <1>4, <2>1, <2>3, <3>1
    <2>4. QED
      BY <2>2, <2>3
  <1>6. QED
    BY <1>3, <1>4, <1>5, SeqSame DEF u, w

LEMMA LenOfTail ==
  ASSUME NEW t \in Seq(Nat), NEW n \in Nat, Len(t) = n, n # 0
  PROVE  t # <<>> /\ Tail(t) \in Seq(Nat) /\ Len(Tail(t)) = n - 1
  OBVIOUS

LEMMA EmptyIs ==
  ASSUME NEW t \in Seq(Nat), Len(t) = 0
  PROVE  t = <<>>
  OBVIOUS

LEMMA TailOfOne ==
  ASSUME NEW t \in Seq(Nat), NEW n \in {1}, Len(t) = n
  PROVE  Tail(t) = <<>> /\ t # <<>>
  <1>1. n \in Nat /\ n # 0 /\ n - 1 = 0
    OBVIOUS
  <1>2. t # <<>> /\ Tail(t) \in Seq(Nat) /\ Len(Tail(t)) = n - 1
    BY <1>1, LenOfTail, Zenon
  <1>3. Len(Tail(t)) = 0
    BY <1>1, <1>2
  <1>4. QED
    BY <1>2, <1>3, EmptyIs, Zenon

LEMMA TailOfTwo ==
  ASSUME NEW t \in Seq(Nat), NEW n \in {1}, Len(t) = n, NEW d \in Nat
  PROVE  Tail(Append(t, d)) = <<d>>
  <1>1. Tail(t) = <<>> /\ t # <<>>
    BY TailOfOne
  <1>2. Tail(Append(t, d)) = Append(Tail(t), d)
    BY <1>1, TailAppend
  <1>3. Append(<<>>, d) = <<d>>
    OBVIOUS
  <1>4. QED
    BY <1>1, <1>2, <1>3, Zenon

(* What a use has found is right.                                          *)
Agreed(u) ==
  u.how # "none" =>
    /\ IF IsLocal(u.visible) THEN u.sema = u.visible
       ELSE IF Met = {} THEN u.sema = 0 ELSE u.sema \in Met
    /\ IsLocal(u.visible) \/ Len(top) < 2 =>
         (u.reported <=> u.how = "set" /\ IsConst(u.visible) /\ u.visible \in Met)
    /\ u.how \in {"read", "set", "initialiser"} /\ InFunction =>
         u.ir = IF IsLocal(u.visible) THEN u.visible ELSE 0

(* What the two passes leave at top level is one of the declarations met.  *)
LEMMA GlobalMet ==
  ASSUME TypeOK
  PROVE  /\ Met \in SUBSET (1 .. Len(top))
         /\ IF Met = {} THEN Global = 0 ELSE Global \in Met
  <1>1. /\ Passed \in SUBSET (1 .. Len(top)) /\ Tops({"function", "type"}) \in SUBSET (1 .. Len(top))
        /\ Len(top) \in Nat
    BY TopsFacts DEF Passed
  <1>2. Met = Tops({"function", "type"}) \cup Passed
    BY DEF Met, Passed
  <1>3. Passed # {} => Latest(Passed) \in Passed
    BY <1>1, LatestFacts
  <1>4. Tops({"function", "type"}) # {} => Registered \in Tops({"function", "type"})
    BY <1>1, LatestFacts DEF Registered
  <1>5. Tops({"function", "type"}) = {} => Registered = 0
    BY DEF Registered, Latest
  <1>6. QED
    BY <1>1, <1>2, <1>3, <1>4, <1>5 DEF Global

(* With one declaration at top level at most, that is the constant there.  *)
LEMMA ConstMet ==
  ASSUME Core, ~IsLocal(Visible), Len(top) < 2
  PROVE  IsConst(Global) <=> IsConst(Visible) /\ Visible \in Met
  <1>1. Len(top) \in Nat /\ DOMAIN top = 1 .. Len(top)
    BY DEF Core, TypeOK
  <1>2. \A i : IsConst(i) => i \in 1 .. Len(top)
    BY <1>1 DEF IsConst, Tops
  <1>3. Visible = Latest(DOMAIN top)
    <2>1. Reached = {}
      <3> SUFFICES ASSUME Reached # {} PROVE FALSE
        OBVIOUS
      <3>1. Reached \subseteq Locals
        BY DEF Reached, Locals
      <3>2. PICK n \in Nat : Locals = Len(top) + 1 .. Len(top) + n
        BY DEF Core, Numbered
      <3>3. Len(top) + n \in Nat /\ Reached \in SUBSET (1 .. Len(top) + n)
        BY <1>1, <3>1, <3>2
      <3>4. Latest(Reached) \in Reached
        BY <3>3, LatestFacts
      <3>5. Visible \in Locals
        BY <3>1, <3>4 DEF Visible
      <3>6. QED
        BY <1>1, <3>2, <3>5 DEF IsLocal
    <2>2. QED
      BY <2>1 DEF Visible
  <1>4. /\ Met \in SUBSET (1 .. Len(top))
        /\ IF Met = {} THEN Global = 0 ELSE Global \in Met
    BY GlobalMet DEF Core
  <1>5. CASE Len(top) = 0
    BY <1>2, <1>4, <1>5
  <1>6. CASE Len(top) = 1
    <2>1. DOMAIN top \in SUBSET (1 .. Len(top)) /\ DOMAIN top = {1}
      BY <1>1, <1>6
    <2>2. Visible = 1
      BY <1>1, <1>3, <2>1, LatestFacts
    <2>3. \A i \in 1 .. Len(top) : i = 1
      BY <1>6
    <2>4. CASE Met = {}
      <3>1. Global = 0 /\ Visible \notin Met
        BY <1>4, <2>4
      <3>2. ~IsConst(0)
        BY <1>2
      <3>3. QED
        BY <3>1, <3>2, Zenon
    <2>5. CASE Met # {}
      <3>1. Global \in Met /\ Global = 1
        BY <1>4, <2>3, <2>5
      <3>2. QED
        BY <2>2, <3>1, Zenon
    <2>6. QED
      BY <2>4, <2>5
  <1>7. QED
    BY <1>1, <1>5, <1>6

LEMMA AgreedIs == Agreed(last) <=> SemaIsLexical /\ IRIsLexical
  <1>1. last.how \in {"read", "set", "initialiser"} => last.how # "none"
    OBVIOUS
  <1>2. QED
    BY <1>1 DEF Agreed, SemaIsLexical, IRIsLexical

LEMMA UseOK ==
  ASSUME Core, TablesAgree
  PROVE  /\ Agreed(NoUse)
         /\ \A how \in {"read", "call"} : Agreed(Use(how))
         /\ Agreed([Use("initialiser") EXCEPT !.c = NewDecl])
         /\ Agreed([Use("set") EXCEPT !.reported = IsConst(Innermost(sema))])
  <1> DEFINE i == Innermost(sema)
             s == [Use("set") EXCEPT !.reported = IsConst(i)]
             l == [Use("initialiser") EXCEPT !.c = NewDecl]
  <1>1. /\ i = IF IsLocal(Visible) THEN Visible ELSE Global
        /\ InFunction => Innermost(ir) = IF IsLocal(Visible) THEN Visible ELSE 0
    BY UseAgrees DEF TablesAgree
  <1>2. IF Met = {} THEN Global = 0 ELSE Global \in Met
    BY GlobalMet DEF Core
  <1>3. /\ IF IsLocal(Visible) THEN i = Visible ELSE IF Met = {} THEN i = 0 ELSE i \in Met
        /\ IsLocal(Visible) \/ Len(top) < 2 =>
             (IsConst(i) <=> IsConst(Visible) /\ Visible \in Met)
    <2>1. CASE IsLocal(Visible)
      <3>1. ~IsConst(Visible)
        BY <2>1, TopsFacts DEF IsConst, IsLocal, Core
      <3>2. QED
        BY <1>1, <2>1, <3>1
    <2>2. CASE ~IsLocal(Visible)
      <3>1. Len(top) < 2 => (IsConst(Global) <=> IsConst(Visible) /\ Visible \in Met)
        BY <2>2, ConstMet
      <3>2. QED
        BY <1>1, <1>2, <2>2, <3>1
    <2>3. QED
      BY <2>1, <2>2
  <1> HIDE DEF i
  <1>4. Agreed(NoUse)
    BY DEF Agreed, NoUse
  <1>5. ASSUME NEW u, u.how # "set", u.sema = i, u.visible = Visible, u.reported = FALSE,
               InFunction /\ u.how \in {"read", "set", "initialiser"} => u.ir = Innermost(ir)
        PROVE  Agreed(u)
    BY <1>1, <1>3, <1>5 DEF Agreed
  <1>6. \A how \in {"read", "call"} : Agreed(Use(how))
    <2> SUFFICES ASSUME NEW how \in {"read", "call"} PROVE Agreed(Use(how))
      OBVIOUS
    <2>1. /\ Use(how).how = how /\ Use(how).sema = i /\ Use(how).visible = Visible
          /\ Use(how).reported = FALSE /\ (how # "call" => Use(how).ir = Innermost(ir))
      BY DEF Use, i
    <2>2. QED
      BY <1>5, <2>1
  <1>7. Agreed(l)
    <2>1. /\ l.how = "initialiser" /\ l.sema = i /\ l.visible = Visible
          /\ l.reported = FALSE /\ l.ir = Innermost(ir)
      BY DEF Use, i
    <2> HIDE DEF l
    <2>2. QED
      BY <1>5, <2>1
  <1>8. Agreed(s)
    <2>1. /\ s.how = "set" /\ s.sema = i /\ s.visible = Visible
          /\ s.reported = IsConst(i) /\ s.ir = Innermost(ir)
      BY DEF Use, i
    <2> HIDE DEF s
    <2>2. QED
      BY <1>1, <1>3, <2>1 DEF Agreed
  <1>9. QED
    BY <1>4, <1>6, <1>7, <1>8 DEF i

LEMMA AgreedKept ==
  ASSUME NEW u, Agreed(u), last' = u, UNCHANGED <<top, visited>>, InFunction' = InFunction
  PROVE  Agreed(last)'
  <1>1. Met' = Met /\ Len(top)' = Len(top)
    BY DEF Met, Tops
  <1>2. \A i : IsConst(i)' = IsConst(i) /\ IsLocal(i)' = IsLocal(i)
    BY DEF IsConst, Tops, IsLocal
  <1>3. QED
    BY <1>1, <1>2 DEF Agreed

LEMMA NoUseAgreed ==
  ASSUME last' = NoUse
  PROVE  Agreed(last)'
  BY DEF Agreed, NoUse

-----------------------------------------------------------------------------
(* The steps.                                                              *)
LEMMA CoreFacts ==
  ASSUME Core, TablesAgree
  PROVE  /\ sema \in Seq(Nat) /\ ir \in Seq(Nat) /\ NewDecl \in Nat
         /\ \A declares \in BOOLEAN : Own(declares) \in Nat
         /\ frames = <<>> => Len(sema) = 1
         /\ frames # <<>> => Len(sema) >= 2
         /\ InFunction => ir = Tail(sema) /\ frames # <<>>
         /\ ~InFunction => ir = <<>>
  <1>1. Extra \in {1, 2} /\ Len(sema) = Len(frames) + Extra /\ frames \in Seq(FrameT)
    BY DEF Core, Scoped, TypeOK, Extra
  <1>2. (frames = <<>> => Extra = 1 /\ Len(frames) = 0) /\ (frames # <<>> => Len(frames) >= 1)
    BY <1>1 DEF Extra
  <1>3. (frames = <<>> => Len(sema) = 1) /\ (frames # <<>> => Len(sema) >= 2)
    BY <1>1, <1>2
  <1>4. NewDecl \in Nat
    BY NewDeclFacts DEF Core
  <1>5. QED
    BY <1>3, <1>4 DEF Core, TypeOK, Own, InFunction, TablesAgree

(* Inside a function or a method, entering leaves the outermost frame.     *)
LEMMA EnterInside ==
  ASSUME Core, frames # <<>>, NEW kind, NEW declares, Enter(kind, declares)
  PROVE  InFunction' = InFunction /\ frames' # <<>>
  <1> DEFINE f == [kind |-> kind, id |-> entered']
  <1>1. frames \in Seq(FrameT) /\ frames' = Append(frames, f)
    BY DEF Core, TypeOK, Enter
  <1> HIDE DEF f
  <1>2. frames \in Seq(FrameT \cup {f}) /\ f \in FrameT \cup {f}
    BY <1>1
  <1>3. frames' # <<>> /\ frames'[1] = frames[1]
    BY <1>1, <1>2
  <1>4. QED
    BY <1>3 DEF InFunction

LEMMA EnterInnerIInv ==
  ASSUME IInv, frames # <<>>, NEW kind \in Inner, NEW declares \in BOOLEAN, Enter(kind, declares),
         sema' = Append(sema, Own(declares)), ir' = Lower(Own(declares)), Agreed(last)'
  PROVE  IInv'
  <1> DEFINE d == Own(declares)
  <1>1. /\ Core /\ TablesAgree /\ sema \in Seq(Nat) /\ ir \in Seq(Nat) /\ d \in Nat
        /\ Len(sema) >= 2
        /\ InFunction => ir = Tail(sema)
        /\ ~InFunction => ir = <<>>
    BY CoreFacts DEF IInv
  <1> HIDE DEF d
  <1>2. ir' = (IF InFunction THEN Append(ir, d) ELSE ir) /\ ir' \in Seq(Nat)
    BY <1>1 DEF Lower, d
  <1>3. kind \notin Outer /\ kind # "method"
    BY DEF Inner, Outer
  <1>4. Core'
    BY <1>1, <1>2, <1>3, EnterCore
  <1>5. TablesAgree'
    <2>1. InFunction' = InFunction /\ frames' # <<>>
      BY <1>1, EnterInside
    <2>2. Tail(Append(sema, d)) = Append(Tail(sema), d)
      BY <1>1, TailAppend
    <2>3. sema' = Append(sema, d)
      BY DEF d
    <2>4. QED
      BY <1>1, <1>2, <2>1, <2>2, <2>3 DEF TablesAgree
  <1>6. (SemaIsLexical /\ IRIsLexical)'
    BY AgreedIs, PTL
  <1>7. QED
    BY <1>4, <1>5, <1>6 DEF IInv

LEMMA MayUseAgreed ==
  ASSUME IInv, frames # <<>>, NEW uses \in BOOLEAN, MayUse(uses, "read"),
         NEW kind, NEW declares, Enter(kind, declares)
  PROVE  Agreed(last)'
  <1>1. InFunction' = InFunction /\ UNCHANGED <<top, visited>>
    BY EnterInside DEF IInv, Enter
  <1>2. CASE uses
    <2>1. last' = Use("read") /\ Agreed(Use("read"))
      BY <1>2, UseOK DEF MayUse, IInv
    <2>2. QED
      BY <1>1, <2>1, AgreedKept
  <1>3. CASE ~uses
    BY <1>3, NoUseAgreed DEF MayUse
  <1>4. QED
    BY <1>2, <1>3

LEMMA EnterBlockIInv ==
  ASSUME IInv, NEW uses \in BOOLEAN, EnterBlock(uses)
  PROVE  IInv'
  <1>1. /\ frames # <<>> /\ Enter("block", FALSE) /\ MayUse(uses, "read")
        /\ sema' = Append(sema, Own(FALSE)) /\ ir' = Lower(Own(FALSE))
    BY DEF EnterBlock, Own
  <1>2. "block" \in Inner
    BY DEF Inner
  <1>3. QED
    BY <1>1, <1>2, MayUseAgreed, EnterInnerIInv

LEMMA EnterForIInv ==
  ASSUME IInv, NEW declares \in BOOLEAN, NEW uses \in BOOLEAN, EnterFor(declares, uses)
  PROVE  IInv'
  <1>1. /\ frames # <<>> /\ Enter("for", declares) /\ MayUse(uses, "read")
        /\ sema' = Append(sema, Own(declares)) /\ ir' = Lower(Own(declares))
    BY DEF EnterFor
  <1>2. "for" \in Inner
    BY DEF Inner
  <1>3. QED
    BY <1>1, <1>2, MayUseAgreed, EnterInnerIInv

LEMMA EnterCatchIInv ==
  ASSUME IInv, NEW declares \in BOOLEAN, EnterCatch(declares)
  PROVE  IInv'
  <1>1. /\ frames # <<>> /\ Enter("catch", declares) /\ last' = NoUse
        /\ sema' = Append(sema, Own(declares)) /\ ir' = Lower(Own(declares))
    BY DEF EnterCatch
  <1>2. "catch" \in Inner
    BY DEF Inner
  <1>3. QED
    BY <1>1, <1>2, NoUseAgreed, EnterInnerIInv

(* Functions and methods.                                                  *)
LEMMA EnterOuterFacts ==
  ASSUME Core, frames = <<>>, NEW kind, NEW declares, Enter(kind, declares)
  PROVE  frames' # <<>> /\ frames'[1].kind = kind
  <1> DEFINE f == [kind |-> kind, id |-> entered']
  <1>1. frames' = Append(<<>>, f) /\ f.kind = kind
    BY DEF Enter
  <1> HIDE DEF f
  <1>2. frames' = <<f>>
    BY <1>1
  <1>3. QED
    BY <1>1, <1>2

LEMMA EnterFunctionIInv ==
  ASSUME IInv, NEW declares \in BOOLEAN, EnterFunction(declares)
  PROVE  IInv'
  <1> DEFINE d == Own(declares)
  <1>1. /\ Core /\ sema \in Seq(Nat) /\ d \in Nat /\ frames = <<>> /\ Len(sema) = 1
        /\ Enter("function", declares) /\ last' = NoUse
        /\ sema' = Append(sema, d) /\ ir' = <<d>>
    BY CoreFacts DEF IInv, EnterFunction
  <1> HIDE DEF d
  <1>2. "function" \in Outer /\ ir' \in Seq(Nat)
    BY <1>1 DEF Outer
  <1>3. Core'
    BY <1>1, <1>2, EnterCore DEF d
  <1>4. frames' # <<>> /\ InFunction'
    BY <1>1, EnterOuterFacts DEF InFunction
  <1>5. Tail(sema') = <<d>>
    <2>1. PICK n \in {1} : Len(sema) = n
      BY <1>1
    <2>2. Tail(Append(sema, d)) = <<d>>
      BY <1>1, <2>1, TailOfTwo, Zenon
    <2>3. QED
      BY <1>1, <2>2, Zenon
  <1>6. TablesAgree'
    BY <1>1, <1>4, <1>5 DEF TablesAgree
  <1>7. Agreed(last)'
    BY <1>1, NoUseAgreed
  <1>8. (SemaIsLexical /\ IRIsLexical)'
    BY <1>7, AgreedIs, PTL
  <1>9. QED
    BY <1>3, <1>6, <1>8 DEF IInv

LEMMA EnterMethodIInv ==
  ASSUME IInv, NEW declares \in BOOLEAN, EnterMethod(declares)
  PROVE  IInv'
  <1>1. /\ Core /\ frames = <<>> /\ ir = <<>> /\ ir \in Seq(Nat)
        /\ Enter("method", declares) /\ last' = NoUse
        /\ sema' = sema \o <<0, Own(declares)>> /\ ir' = ir
    BY CoreFacts DEF IInv, EnterMethod, InFunction
  <1>2. "method" \in Outer /\ ir' \in Seq(Nat)
    BY <1>1 DEF Outer
  <1>3. Core'
    BY <1>1, <1>2, EnterCore
  <1>4. ~InFunction'
    BY <1>1, EnterOuterFacts DEF InFunction
  <1>5. TablesAgree'
    BY <1>1, <1>4 DEF TablesAgree
  <1>6. Agreed(last)'
    BY <1>1, NoUseAgreed
  <1>7. (SemaIsLexical /\ IRIsLexical)'
    BY <1>6, AgreedIs, PTL
  <1>8. QED
    BY <1>3, <1>5, <1>7 DEF IInv

LEMMA LeaveInside ==
  ASSUME Core, frames # <<>>, frames' = Drop(frames, 1)
  PROVE  InFunction' <=> InFunction /\ frames' # <<>>
  <1>1. PICK m \in Nat \ {0} : m = Len(frames)
    BY DEF Core, TypeOK
  <1>2. frames \in Seq(FrameT) /\ Len(frames) = m /\ m \in Nat /\ 1 \in 0 .. m
    BY <1>1 DEF Core, TypeOK
  <1>3. /\ frames' \in Seq(FrameT) /\ Len(frames') = m - 1
        /\ \A i \in 1 .. m - 1 : frames'[i] = frames[i]
    <2>1. /\ Drop(frames, 1) \in Seq(FrameT) /\ Len(Drop(frames, 1)) = m - 1
          /\ \A i \in 1 .. m - 1 : Drop(frames, 1)[i] = frames[i]
      BY <1>1, <1>2, DropFacts, Zenon
    <2>2. QED
      BY <2>1
  <1>4. ASSUME frames' # <<>> PROVE frames'[1] = frames[1]
    <2>1. 1 \in 1 .. m - 1
      BY <1>3, <1>4
    <2>2. QED
      BY <1>3, <2>1
  <1>5. QED
    BY <1>4 DEF InFunction

LEMMA LeaveOne ==
  ASSUME Core, InFunction
  PROVE  ScopesOf(frames[Len(frames)].kind) = 1
  <1>1. PICK m \in Nat \ {0} : m = Len(frames)
    BY DEF Core, TypeOK, InFunction
  <1>2. m \in DOMAIN frames
    BY <1>1 DEF Core, TypeOK
  <1>3. frames[m].kind # "method"
    <2>1. CASE m = 1
      BY <2>1 DEF InFunction
    <2>2. CASE m # 1
      BY <1>2, <2>2 DEF Core, Nested, Outer
    <2>3. QED
      BY <2>1, <2>2
  <1>4. QED
    BY <1>1, <1>3 DEF ScopesOf

LEMMA LeaveIInv ==
  ASSUME IInv, Leave
  PROVE  IInv'
  <1>1. /\ frames # <<>> /\ frames' = Drop(frames, 1) /\ last' = NoUse
        /\ sema' = Drop(sema, ScopesOf(frames[Len(frames)].kind))
        /\ ir' = (IF InFunction THEN Drop(ir, 1) ELSE ir)
        /\ UNCHANGED <<top, visited, entered, log>>
    BY DEF Leave
  <1>2. /\ Core /\ sema \in Seq(Nat) /\ ir \in Seq(Nat) /\ Len(sema) >= 2
        /\ InFunction => ir = Tail(sema)
        /\ ~InFunction => ir = <<>>
    BY <1>1, CoreFacts DEF IInv
  <1>3. InFunction' <=> InFunction /\ frames' # <<>>
    BY <1>1, <1>2, LeaveInside
  <1>6. Agreed(last)'
    BY <1>1, NoUseAgreed
  <1>7. (SemaIsLexical /\ IRIsLexical)'
    BY <1>6, AgreedIs, PTL
  <1>4. CASE InFunction
    <2>1. sema' = Drop(sema, 1)
      BY <1>1, <1>2, <1>4, LeaveOne
    <2>2. Tail(Drop(sema, 1)) = Drop(Tail(sema), 1)
      BY <1>2, TailDrop
    <2>3. ir' = Tail(sema')
      BY <1>1, <1>2, <1>4, <2>1, <2>2
    <2>4. ir' \in Seq(Nat)
      <3>1. PICK n \in Nat : n = Len(ir) /\ 1 \in 0 .. n
        <4>1. Len(Tail(sema)) >= 1 /\ Len(Tail(sema)) \in Nat
          BY <1>2
        <4>2. QED
          BY <1>2, <1>4, <4>1
      <3>2. Drop(ir, 1) \in Seq(Nat)
        BY <1>2, <3>1, DropFacts, Zenon
      <3>3. QED
        BY <1>1, <1>4, <3>2
    <2>5. Core'
      BY <1>1, <1>2, <2>4, LeaveCore
    <2>6. TablesAgree'
      <3>1. CASE frames' # <<>>
        BY <1>3, <1>4, <2>3, <3>1 DEF TablesAgree
      <3>2. CASE frames' = <<>>
        <4>1. Len(sema') = 1 /\ sema' \in Seq(Nat)
          <5>1. Len(sema') = Len(frames') + Extra' /\ Extra' = 1 /\ Len(frames') = 0
            BY <2>5, <3>2 DEF Core, Scoped, Extra
          <5>2. sema' \in Seq(Nat)
            BY <2>5 DEF Core, TypeOK
          <5>3. QED
            BY <5>1, <5>2
        <4>2. PICK n \in {1} : Len(sema') = n
          BY <4>1
        <4>3. Tail(sema') = <<>>
          BY <4>1, <4>2, TailOfOne, Zenon
        <4>4. QED
          BY <1>3, <2>3, <3>2, <4>3 DEF TablesAgree
      <3>3. QED
        BY <3>1, <3>2
    <2>7. QED
      BY <1>7, <2>5, <2>6 DEF IInv
  <1>5. CASE ~InFunction
    <2>1. ir' = <<>> /\ ir' \in Seq(Nat) /\ ~InFunction'
      BY <1>1, <1>2, <1>3, <1>5
    <2>2. Core'
      BY <1>1, <1>2, <2>1, LeaveCore
    <2>3. TablesAgree'
      BY <2>1 DEF TablesAgree
    <2>4. QED
      BY <1>7, <2>2, <2>3 DEF IInv
  <1>8. QED
    BY <1>4, <1>5

LEMMA LetIInv ==
  ASSUME IInv, NEW uses \in BOOLEAN, Let(uses)
  PROVE  IInv'
  <1> DEFINE u == [Use("initialiser") EXCEPT !.c = NewDecl]
  <1>1. /\ frames # <<>> /\ UNCHANGED <<top, visited, frames, entered>>
        /\ log' = log \cup {[decl |-> NewDecl, frame |-> Frame]}
        /\ sema' = SetTop(sema, NewDecl)
        /\ ir' = (IF InFunction THEN SetTop(ir, NewDecl) ELSE ir)
        /\ last' = (IF uses THEN u ELSE NoUse)
    BY DEF Let
  <1>2. /\ Core /\ TablesAgree /\ sema \in Seq(Nat) /\ ir \in Seq(Nat) /\ Len(sema) >= 2
        /\ NewDecl \in Nat
        /\ InFunction => ir = Tail(sema)
        /\ ~InFunction => ir = <<>>
    BY <1>1, CoreFacts DEF IInv
  <1>3. Agreed(u) /\ Agreed(NoUse)
    BY <1>2, UseOK
  <1> HIDE DEF u
  <1>4. ir' \in Seq(Nat)
    BY <1>1, <1>2 DEF SetTop
  <1>5. Core'
    BY <1>1, <1>2, <1>4, LetCore
  <1>6. InFunction' = InFunction
    BY <1>1 DEF InFunction
  <1>7. TablesAgree'
    <2>1. Tail(SetTop(sema, NewDecl)) = SetTop(Tail(sema), NewDecl)
      BY <1>2, TailSet
    <2>2. QED
      BY <1>1, <1>2, <1>6, <2>1 DEF TablesAgree
  <1>8. Agreed(last)'
    <2>1. last' = u \/ last' = NoUse
      BY <1>1
    <2>2. QED
      BY <1>1, <1>3, <1>6, <2>1, AgreedKept
  <1>9. (SemaIsLexical /\ IRIsLexical)'
    BY <1>8, AgreedIs, PTL
  <1>10. QED
    BY <1>5, <1>7, <1>9 DEF IInv

(* A use leaves the tables as they are.                                    *)
LEMMA TablesKept ==
  ASSUME Core, TablesAgree, UNCHANGED <<top, visited, frames, entered, log, sema, ir>>
  PROVE  Core' /\ TablesAgree' /\ InFunction' = InFunction
  <1>1. InFunction' = InFunction
    BY DEF InFunction
  <1>2. TablesAgree'
    BY <1>1 DEF TablesAgree
  <1>3. /\ Tops({"const", "use"})' = Tops({"const", "use"})
        /\ Tops({"function", "type"})' = Tops({"function", "type"})
        /\ Extra' = Extra /\ Locals' = Locals
    BY DEF Tops, Extra, Locals
  <1>4. Passed' = Passed /\ Registered' = Registered
    BY <1>3 DEF Passed, Registered
  <1>5. Global' = Global
    BY <1>4 DEF Global
  <1>6. TypeOK' /\ Nested' /\ Ordered'
    BY DEF Core, TypeOK, Nested, Ordered
  <1>7. Numbered' /\ Logged'
    BY <1>3, <1>4 DEF Core, Numbered, Logged
  <1>8. Scoped'
    BY <1>3, <1>5 DEF Core, Scoped
  <1>9. QED
    BY <1>1, <1>2, <1>6, <1>7, <1>8 DEF Core

LEMMA UseIInv ==
  ASSUME IInv, NEW u, Agreed(u), last' = u,
         UNCHANGED <<top, visited, frames, entered, log, sema, ir>>
  PROVE  IInv'
  <1>1. Core' /\ TablesAgree' /\ InFunction' = InFunction
    BY TablesKept DEF IInv
  <1>2. Agreed(last)'
    BY <1>1, AgreedKept
  <1>3. (SemaIsLexical /\ IRIsLexical)'
    BY <1>2, AgreedIs, PTL
  <1>4. QED
    BY <1>1, <1>3 DEF IInv

LEMMA SetIInv ==
  ASSUME IInv, Set
  PROVE  IInv'
  <1> DEFINE u == [Use("set") EXCEPT !.reported = IsConst(Innermost(sema))]
  <1>1. last' = u /\ UNCHANGED <<top, visited, frames, entered, log, sema, ir>>
    BY DEF Set
  <1>2. Agreed(u)
    BY UseOK DEF IInv
  <1> HIDE DEF u
  <1>3. QED
    BY <1>1, <1>2, UseIInv

LEMMA ReadIInv ==
  ASSUME IInv, NEW how \in {"read", "call"}, Read(how)
  PROVE  IInv'
  <1>1. Agreed(Use(how))
    BY UseOK DEF IInv
  <1>2. last' = Use(how) /\ UNCHANGED <<top, visited, frames, entered, log, sema, ir>>
    BY DEF Read
  <1>3. QED
    BY <1>1, <1>2, UseIInv

LEMMA VisitTopIInv ==
  ASSUME IInv, VisitTop
  PROVE  IInv'
  <1>1. Core' /\ frames = <<>> /\ UNCHANGED <<top, frames, ir>> /\ last' = NoUse
    BY VisitTopCore DEF IInv
  <1>2. TablesAgree'
    BY <1>1 DEF IInv, TablesAgree, InFunction
  <1>3. Agreed(last)'
    BY <1>1, NoUseAgreed
  <1>4. (SemaIsLexical /\ IRIsLexical)'
    BY <1>3, AgreedIs, PTL
  <1>5. QED
    BY <1>1, <1>2, <1>4 DEF IInv

LEMMA InitIInv ==
  ASSUME Init
  PROVE  IInv
  <1>1. /\ visited = 0 /\ frames = <<>> /\ entered = 0 /\ ir = <<>> /\ last = NoUse
        /\ log = {} /\ sema = <<Registered>>
    BY DEF Init
  <1>2. top \in Seq(Kinds) /\ Len(top) \in Nat /\ DOMAIN top = 1 .. Len(top)
    <2>1. PICK n \in 0 .. MaxTop : top \in [1 .. n -> Kinds]
      BY DEF Init
    <2>2. n \in Nat
      BY BoundsAssumption
    <2>3. QED
      BY <2>1, <2>2
  <1>3. /\ \A kinds : Tops(kinds) \in SUBSET (1 .. Len(top))
        /\ Registered \in Nat
    <2>1. \A kinds : Tops(kinds) \in SUBSET (1 .. Len(top))
      BY <1>2 DEF Tops
    <2>2. QED
      BY <1>2, <2>1, LatestFacts DEF Registered
  <1>5. TypeOK
    <2>1. sema \in Seq(Nat)
      BY <1>1, <1>3
    <2>2. QED
      BY <1>1, <1>2, <2>1 DEF TypeOK
  <1>6. Nested /\ Ordered
    BY <1>1 DEF Nested, Ordered
  <1>7. Numbered
    <2>1. Locals = {}
      BY <1>1 DEF Locals
    <2>2. Len(top) + 1 .. Len(top) + 0 = {} /\ 0 \in Nat
      BY <1>2
    <2>3. QED
      BY <2>1, <2>2 DEF Numbered
  <1>8. Passed = {}
    BY <1>1, <1>2, <1>3 DEF Passed
  <1>9. Logged
    BY <1>1 DEF Logged
  <1>10. Scoped
    BY <1>1, <1>3, <1>8 DEF Scoped, Extra, Global
  <1>11. TablesAgree
    BY <1>1 DEF TablesAgree, InFunction
  <1>12. SemaIsLexical /\ IRIsLexical
    BY <1>1 DEF SemaIsLexical, IRIsLexical, NoUse
  <1>13. QED
    BY <1>5, <1>6, <1>7, <1>9, <1>10, <1>11, <1>12 DEF IInv, Core

LEMMA NextIInv ==
  ASSUME IInv, [Next]_vars
  PROVE  IInv'
  <1>1. CASE UNCHANGED vars
    <2>1. UNCHANGED <<top, visited, frames, entered, log, sema, ir>> /\ last' = last
      BY <1>1 DEF vars
    <2>2. Agreed(last)
      BY AgreedIs DEF IInv
    <2>3. QED
      BY <2>1, <2>2, UseIInv
  <1>2. CASE VisitTop
    BY <1>2, VisitTopIInv
  <1>3. CASE Leave
    BY <1>3, LeaveIInv
  <1>4. CASE Set
    BY <1>4, SetIInv
  <1>5. CASE \E how \in {"read", "call"} : Read(how)
    BY <1>5, ReadIInv
  <1>6. CASE \E declares \in BOOLEAN :
               EnterFunction(declares) \/ EnterMethod(declares) \/ EnterCatch(declares)
    BY <1>6, EnterFunctionIInv, EnterMethodIInv, EnterCatchIInv
  <1>7. CASE \E uses \in BOOLEAN : EnterBlock(uses) \/ Let(uses)
    BY <1>7, EnterBlockIInv, LetIInv
  <1>8. CASE \E declares, uses \in BOOLEAN : EnterFor(declares, uses)
    BY <1>8, EnterForIInv
  <1>9. QED
    BY <1>1, <1>2, <1>3, <1>4, <1>5, <1>6, <1>7, <1>8 DEF Next

LEMMA SpecIInv == Spec => []IInv
  BY InitIInv, NextIInv, PTL DEF Spec

-----------------------------------------------------------------------------
(* In a function the IR generator keeps the very tables the analyser keeps *)
(* below its global scope (pushVarScope and pushScope, lookupVar and       *)
(* lookup), whatever the program and however deep it nests.                *)
THEOREM TablesAlwaysAgree == Spec => []TablesAgree
  BY SpecIInv, PTL DEF IInv

(* The analyser's lookup gives every use the local declaration of lexical  *)
(* scoping, and a top-level one whenever one has been met; a set statement *)
(* is reported exactly when that is a constant (Scope::lookup,             *)
(* visitSetStmt).                                                          *)
THEOREM SemaAlwaysLexical == Spec => []SemaIsLexical
  BY SpecIInv, PTL DEF IInv

(* The IR reads, writes and initialises the local variable lexical scoping *)
(* gives, and takes a name for a global one exactly when there is none     *)
(* (IRGen::lookupVar).                                                     *)
THEOREM IRAlwaysLexical == Spec => []IRIsLexical
  BY SpecIInv, PTL DEF IInv
-----------------------------------------------------------------------------
(* The blocks of the C: each construct has the block of its body, and some *)
(* have one around it that holds nothing.  LaidOut says of n frames fs and *)
(* l blocks cs in which block the body of each frame is, and that it has   *)
(* what the scope x places further up in s has.                            *)
LaidOut(fs, n, s, x, cs, l, pos) ==
  /\ pos \in [1 .. n -> Nat]
  /\ l = (IF n = 0 THEN 0 ELSE pos[n])
  /\ n # 0 => pos[1] = 2
  /\ \A k \in 1 .. n :
       /\ pos[k] \in 2 .. l /\ cs[pos[k]] = s[k + x]
       /\ k > 1 => pos[k - 1] = pos[k] - BlocksOf(fs[k].kind)
  /\ \A i, j \in 1 .. n : i < j => pos[i] < pos[j]
  /\ \A p \in 2 .. l : cs[p] # 0 => \E k \in 1 .. n : p = pos[k]
Blocks ==
  /\ c \in Seq(Nat)
  /\ \E pos : LaidOut(frames, Len(frames), sema, Extra, c, Len(c), pos)
  /\ frames # <<>> => c[1] = FileScope(InFunction)

LEMMA UpToNext ==
  ASSUME NEW n \in Nat
  PROVE  /\ \A k \in 1 .. n + 1 : k \in 1 .. n \/ k = n + 1
         /\ \A k \in 1 .. n : k \in 1 .. n + 1 /\ k # n + 1 /\ k < n + 1 /\ k \in Nat
         /\ \A i, j \in 1 .. n + 1 : i < j => i \in 1 .. n
         /\ n + 1 \in 1 .. n + 1 /\ 1 \in 1 .. n + 1 /\ (n # 0 => n \in 1 .. n /\ 1 \in 1 .. n)
         /\ \A k \in 1 .. n : k > 1 => k - 1 \in 1 .. n
         /\ (n + 1) - 1 = n
  OBVIOUS

(* A construct more: its frame, its scope, and b blocks.                   *)
Pushed(fs, n, s, x, cs, l, gs, s2, cs2, b) ==
  /\ \A k \in 1 .. n : gs[k] = fs[k] /\ s2[k + x] = s[k + x]
  /\ BlocksOf(gs[n + 1].kind) = b
  /\ cs2[l + b] = s2[n + 1 + x]
  /\ \A p \in 1 .. l : cs2[p] = cs[p]
  /\ b = 2 => cs2[l + 1] = 0
LEMMA PushLaid ==
  ASSUME NEW n \in Nat \ {0}, NEW l \in Nat, NEW b \in {1, 2},
         NEW fs, NEW s, NEW x, NEW cs, NEW pos, LaidOut(fs, n, s, x, cs, l, pos),
         NEW gs, NEW s2, NEW cs2, Pushed(fs, n, s, x, cs, l, gs, s2, cs2, b)
  PROVE  \E pos2 : LaidOut(gs, n + 1, s2, x, cs2, l + b, pos2)
  <1>20. /\ \A k \in 1 .. n : gs[k] = fs[k]
         /\ \A k \in 1 .. n : s2[k + x] = s[k + x]
         /\ BlocksOf(gs[n + 1].kind) = b
         /\ cs2[l + b] = s2[n + 1 + x]
         /\ \A p \in 1 .. l : cs2[p] = cs[p]
         /\ b = 2 => cs2[l + 1] = 0
    BY DEF Pushed
  <1> DEFINE q == [k \in 1 .. n + 1 |-> IF k = n + 1 THEN l + b ELSE pos[k]]
  <1>1. /\ pos \in [1 .. n -> Nat] /\ l = pos[n] /\ pos[1] = 2
        /\ \A k \in 1 .. n : pos[k] \in 2 .. l /\ cs[pos[k]] = s[k + x]
        /\ \A k \in 1 .. n : k > 1 => pos[k - 1] = pos[k] - BlocksOf(fs[k].kind)
        /\ \A i, j \in 1 .. n : i < j => pos[i] < pos[j]
        /\ \A p \in 2 .. l : cs[p] # 0 => \E k \in 1 .. n : p = pos[k]
    BY DEF LaidOut
  <1>2. l + b \in Nat /\ l >= 2
    BY <1>1, UpToNext
  <1>3. q \in [1 .. n + 1 -> Nat] /\ q[n + 1] = l + b /\ \A k \in 1 .. n : q[k] = pos[k]
    BY <1>1, <1>2, UpToNext
  <1> HIDE DEF q
  <1>4. \A k \in 1 .. n : q[k] \in 2 .. l /\ q[k] \in 1 .. l /\ q[k] < l + b /\ q[k] \in 2 .. l + b
    <2> SUFFICES ASSUME NEW k \in 1 .. n
                 PROVE  q[k] \in 2 .. l /\ q[k] \in 1 .. l /\ q[k] < l + b /\ q[k] \in 2 .. l + b
      OBVIOUS
    <2>1. q[k] \in 2 .. l
      BY <1>1, <1>3
    <2>2. QED
      BY <2>1
  <1>5. \A k \in 1 .. n + 1 :
          /\ q[k] \in 2 .. l + b /\ cs2[q[k]] = s2[k + x]
          /\ k > 1 => q[k - 1] = q[k] - BlocksOf(gs[k].kind)
    <2> SUFFICES ASSUME NEW k \in 1 .. n + 1
                 PROVE  /\ q[k] \in 2 .. l + b /\ cs2[q[k]] = s2[k + x]
                        /\ k > 1 => q[k - 1] = q[k] - BlocksOf(gs[k].kind)
      OBVIOUS
    <2>1. CASE k \in 1 .. n
      <3>1. cs2[q[k]] = s2[k + x]
        <4>1. cs2[q[k]] = cs[q[k]]
          BY <1>4, <1>20, <2>1
        <4>2. cs[q[k]] = s[k + x]
          BY <1>1, <1>3, <2>1
        <4>3. QED
          BY <1>20, <2>1, <4>1, <4>2
      <3>2. ASSUME k > 1 PROVE q[k - 1] = q[k] - BlocksOf(gs[k].kind)
        <4>1. k - 1 \in 1 .. n
          BY <2>1, <3>2, UpToNext
        <4>2. q[k - 1] = pos[k - 1] /\ q[k] = pos[k] /\ gs[k] = fs[k]
          BY <1>3, <1>20, <2>1, <4>1
        <4>3. QED
          BY <1>1, <2>1, <3>2, <4>2
      <3>3. QED
        BY <1>4, <2>1, <3>1, <3>2
    <2>2. CASE k = n + 1
      <3>1. k - 1 = n /\ n \in 1 .. n
        BY <2>2
      <3>2. q[n] = l
        BY <1>1, <1>3, <3>1
      <3>3. q[k] = l + b
        BY <1>3, <2>2
      <3>4. l = (l + b) - b /\ l + b \in 2 .. l + b
        BY <1>2
      <3>5. cs2[q[k]] = s2[k + x]
        BY <1>20, <2>2, <3>3
      <3>6. q[k - 1] = q[k] - BlocksOf(gs[k].kind)
        BY <1>20, <2>2, <3>1, <3>2, <3>3, <3>4
      <3>7. QED
        BY <3>3, <3>4, <3>5, <3>6
    <2>3. QED
      BY <2>1, <2>2, UpToNext
  <1>6. \A i, j \in 1 .. n + 1 : i < j => q[i] < q[j]
    <2> SUFFICES ASSUME NEW i \in 1 .. n + 1, NEW j \in 1 .. n + 1, i < j PROVE q[i] < q[j]
      OBVIOUS
    <2>1. i \in 1 .. n
      BY UpToNext
    <2>2. CASE j \in 1 .. n
      BY <1>1, <1>3, <2>1, <2>2
    <2>3. CASE j = n + 1
      BY <1>3, <1>4, <2>1, <2>3
    <2>4. QED
      BY <2>2, <2>3, UpToNext
  <1>7. \A p \in 2 .. l + b : cs2[p] # 0 => \E k \in 1 .. n + 1 : p = q[k]
    <2> SUFFICES ASSUME NEW p \in 2 .. l + b, cs2[p] # 0 PROVE \E k \in 1 .. n + 1 : p = q[k]
      OBVIOUS
    <2>1. CASE p \in 2 .. l
      <3>1. cs[p] # 0
        <4>1. p \in 1 .. l
          BY <2>1
        <4>2. QED
          BY <1>20, <4>1
      <3>2. PICK k \in 1 .. n : p = pos[k]
        BY <1>1, <2>1, <3>1
      <3>3. k \in 1 .. n + 1 /\ p = q[k]
        BY <1>3, <3>2, UpToNext
      <3>4. QED
        BY <3>3
    <2>2. CASE p = l + b
      BY <1>3, <2>2, UpToNext
    <2>3. p \in 2 .. l \/ p = l + b \/ (b = 2 /\ p = l + 1)
      BY <1>2
    <2>4. QED
      BY <1>20, <2>1, <2>2, <2>3
  <1>8. LaidOut(gs, n + 1, s2, x, cs2, l + b, q)
    <2>1. q[1] = 2
      BY <1>1, <1>3, UpToNext
    <2>2. n + 1 # 0
      OBVIOUS
    <2>3. QED
      BY <1>3, <1>5, <1>6, <1>7, <2>1, <2>2 DEF LaidOut
  <1>9. QED
    BY <1>8

LEMMA UpToLast ==
  ASSUME NEW n \in Nat \ {0}
  PROVE  /\ \A k \in 1 .. n : k \in 1 .. n - 1 \/ k = n
         /\ \A k \in 1 .. n - 1 : k \in 1 .. n /\ k < n /\ k \in Nat /\ (k > 1 => k - 1 \in 1 .. n - 1)
         /\ n \in 1 .. n /\ 1 \in 1 .. n /\ n - 1 \in Nat
         /\ n # 1 => n > 1 /\ n - 1 # 0 /\ n - 1 \in 1 .. n - 1 /\ n - 1 \in 1 .. n /\ 1 \in 1 .. n - 1
         /\ \A k \in 1 .. n - 1 : k = n - 1 \/ k < n - 1
  OBVIOUS

(* A construct less; the outermost has two blocks.                         *)
Popped(fs, n, s, x, cs, l, gs, s2, x2, cs2, b) ==
  /\ n = 1 => BlocksOf(fs[1].kind) = 2
  /\ BlocksOf(fs[n].kind) = b
  /\ \A k \in 1 .. n - 1 : gs[k] = fs[k] /\ s2[k + x2] = s[k + x]
  /\ \A p \in 1 .. l - b : cs2[p] = cs[p]
LEMMA PopLaid ==
  ASSUME NEW n \in Nat \ {0}, NEW l \in Nat, NEW b \in {1, 2},
         NEW fs, NEW s, NEW x, NEW cs, NEW pos, LaidOut(fs, n, s, x, cs, l, pos),
         NEW gs, NEW s2, NEW x2, NEW cs2, Popped(fs, n, s, x, cs, l, gs, s2, x2, cs2, b)
  PROVE  b <= l /\ \E pos2 : LaidOut(gs, n - 1, s2, x2, cs2, l - b, pos2)
  <1>20. /\ n = 1 => BlocksOf(fs[1].kind) = 2
         /\ BlocksOf(fs[n].kind) = b
         /\ \A k \in 1 .. n - 1 : gs[k] = fs[k]
         /\ \A k \in 1 .. n - 1 : s2[k + x2] = s[k + x]
         /\ \A p \in 1 .. l - b : cs2[p] = cs[p]
    BY DEF Popped
  <1> DEFINE q == [k \in 1 .. n - 1 |-> pos[k]]
  <1>1. /\ pos \in [1 .. n -> Nat] /\ l = pos[n] /\ pos[1] = 2
        /\ \A k \in 1 .. n : pos[k] \in 2 .. l /\ cs[pos[k]] = s[k + x]
        /\ \A k \in 1 .. n : k > 1 => pos[k - 1] = pos[k] - BlocksOf(fs[k].kind)
        /\ \A i, j \in 1 .. n : i < j => pos[i] < pos[j]
        /\ \A p \in 2 .. l : cs[p] # 0 => \E k \in 1 .. n : p = pos[k]
    BY DEF LaidOut
  <1>2. l - b = (IF n = 1 THEN 0 ELSE pos[n - 1]) /\ l - b \in Nat /\ b <= l
    <2>1. CASE n = 1
      <3>1. b = 2 /\ l = 2
        BY <1>1, <1>20, <2>1
      <3>2. QED
        BY <2>1, <3>1
    <2>2. CASE n # 1
      <3>1. pos[n - 1] = l - b /\ pos[n - 1] \in Nat
        BY <1>1, <1>20, <2>2, UpToLast
      <3>2. QED
        BY <2>2, <3>1
    <2>3. QED
      BY <2>1, <2>2
  <1>3. q \in [1 .. n - 1 -> Nat] /\ \A k \in 1 .. n - 1 : q[k] = pos[k]
    BY <1>1, UpToLast
  <1> HIDE DEF q
  <1>4. \A k \in 1 .. n - 1 : q[k] \in 2 .. l - b /\ q[k] \in 1 .. l - b
    <2> SUFFICES ASSUME NEW k \in 1 .. n - 1 PROVE q[k] \in 2 .. l - b /\ q[k] \in 1 .. l - b
      OBVIOUS
    <2>1. n # 1 /\ k \in 1 .. n /\ n - 1 \in 1 .. n
      BY UpToLast
    <2>2. CASE k = n - 1
      <3>1. q[k] = l - b /\ pos[k] \in 2 .. l
        BY <1>1, <1>2, <1>3, <2>1, <2>2
      <3>2. l - b >= 2
        BY <1>3, <3>1
      <3>3. QED
        BY <1>2, <3>1, <3>2
    <2>3. CASE k < n - 1
      <3>1. pos[k] < l - b /\ pos[k] \in 2 .. l
        BY <1>1, <1>2, <2>1, <2>3
      <3>2. QED
        BY <1>2, <1>3, <3>1
    <2>4. QED
      BY <2>2, <2>3, UpToLast
  <1>5. \A k \in 1 .. n - 1 :
          /\ cs2[q[k]] = s2[k + x2]
          /\ k > 1 => q[k - 1] = q[k] - BlocksOf(gs[k].kind)
    <2> SUFFICES ASSUME NEW k \in 1 .. n - 1
                 PROVE  /\ cs2[q[k]] = s2[k + x2]
                        /\ k > 1 => q[k - 1] = q[k] - BlocksOf(gs[k].kind)
      OBVIOUS
    <2>1. k \in 1 .. n /\ (k > 1 => k - 1 \in 1 .. n - 1)
      BY UpToLast
    <2>2. cs2[q[k]] = cs[q[k]] /\ cs[q[k]] = s[k + x]
      BY <1>1, <1>3, <1>4, <1>20, <2>1
    <2>3. k > 1 => q[k - 1] = q[k] - BlocksOf(gs[k].kind)
      BY <1>1, <1>3, <1>20, <2>1
    <2>4. QED
      BY <1>20, <2>2, <2>3
  <1>6. \A i, j \in 1 .. n - 1 : i < j => q[i] < q[j]
    BY <1>1, <1>3, UpToLast
  <1>7. \A p \in 2 .. l - b : cs2[p] # 0 => \E k \in 1 .. n - 1 : p = q[k]
    <2> SUFFICES ASSUME NEW p \in 2 .. l - b, cs2[p] # 0 PROVE \E k \in 1 .. n - 1 : p = q[k]
      OBVIOUS
    <2>1. p \in 1 .. l - b /\ p \in 2 .. l /\ p < l
      BY <1>2
    <2>2. PICK k \in 1 .. n : p = pos[k]
      BY <1>1, <1>20, <2>1
    <2>3. k # n
      BY <1>1, <2>1, <2>2
    <2>4. k \in 1 .. n - 1
      BY <2>3, UpToLast
    <2>5. QED
      BY <1>3, <2>2, <2>4
  <1>8. l - b = (IF n - 1 = 0 THEN 0 ELSE q[n - 1]) /\ (n - 1 # 0 => q[1] = 2)
    <2>1. CASE n = 1
      BY <1>2, <2>1
    <2>2. CASE n # 1
      BY <1>1, <1>2, <1>3, <2>2, UpToLast
    <2>3. QED
      BY <2>1, <2>2
  <1>9. LaidOut(gs, n - 1, s2, x2, cs2, l - b, q)
    BY <1>3, <1>4, <1>5, <1>6, <1>7, <1>8 DEF LaidOut
  <1>10. QED
    BY <1>2, <1>9

LEMMA SetLaid ==
  ASSUME NEW fs, NEW n \in Nat \ {0}, NEW s, NEW x, NEW cs, NEW l \in Nat, NEW pos,
         LaidOut(fs, n, s, x, cs, l, pos),
         NEW s2, \A k \in 1 .. n : k # n => s2[k + x] = s[k + x],
         NEW cs2, cs2[l] = s2[n + x], \A p \in 1 .. l : p # l => cs2[p] = cs[p]
  PROVE  LaidOut(fs, n, s2, x, cs2, l, pos)
  <1>1. /\ pos \in [1 .. n -> Nat] /\ l = pos[n] /\ pos[1] = 2
        /\ \A k \in 1 .. n : pos[k] \in 2 .. l /\ cs[pos[k]] = s[k + x]
        /\ \A k \in 1 .. n : k > 1 => pos[k - 1] = pos[k] - BlocksOf(fs[k].kind)
        /\ \A i, j \in 1 .. n : i < j => pos[i] < pos[j]
        /\ \A p \in 2 .. l : cs[p] # 0 => \E k \in 1 .. n : p = pos[k]
    BY DEF LaidOut
  <1>2. \A k \in 1 .. n : cs2[pos[k]] = s2[k + x]
    <2> SUFFICES ASSUME NEW k \in 1 .. n PROVE cs2[pos[k]] = s2[k + x]
      OBVIOUS
    <2>1. CASE k = n
      BY <1>1, <2>1
    <2>2. CASE k # n
      <3>1. k < n /\ n \in 1 .. n
        BY <2>2
      <3>2. pos[k] < l /\ pos[k] \in 2 .. l
        BY <1>1, <3>1
      <3>3. pos[k] \in 1 .. l /\ pos[k] # l
        BY <3>2
      <3>4. cs2[pos[k]] = cs[pos[k]] /\ cs[pos[k]] = s[k + x]
        BY <1>1, <3>3
      <3>5. QED
        BY <2>2, <3>4
    <2>3. QED
      BY <2>1, <2>2
  <1>3. \A p \in 2 .. l : cs2[p] # 0 => \E k \in 1 .. n : p = pos[k]
    <2> SUFFICES ASSUME NEW p \in 2 .. l, cs2[p] # 0 PROVE \E k \in 1 .. n : p = pos[k]
      OBVIOUS
    <2>1. CASE p = l
      BY <1>1, <2>1, UpToLast
    <2>2. CASE p # l
      BY <1>1, <2>2
    <2>3. QED
      BY <2>1, <2>2
  <1>4. QED
    BY <1>1, <1>2, <1>3 DEF LaidOut

(* No declaration further in: the rest of the blocks is empty.             *)
LEMMA LaidLast ==
  ASSUME NEW n \in Nat \ {0}, NEW cs \in Seq(Nat), NEW fs, NEW s, NEW x, NEW pos,
         LaidOut(fs, n, s, x, cs, Len(cs), pos),
         NEW k \in 1 .. n, s[k + x] # 0, \A j \in 1 .. n : j > k => s[j + x] = 0
  PROVE  Innermost(cs) = s[k + x]
  <1>20. PICK l \in Nat : l = Len(cs)
    OBVIOUS
  <1>1. /\ pos \in [1 .. n -> Nat]
        /\ \A j \in 1 .. n : pos[j] \in 2 .. l /\ cs[pos[j]] = s[j + x]
        /\ \A i, j \in 1 .. n : i < j => pos[i] < pos[j]
        /\ \A p \in 2 .. l : cs[p] # 0 => \E j \in 1 .. n : p = pos[j]
    BY <1>20 DEF LaidOut
  <1>2. \A p \in 1 .. l : p > pos[k] => cs[p] = 0
    <2> SUFFICES ASSUME NEW p \in 1 .. l, p > pos[k], cs[p] # 0 PROVE FALSE
      OBVIOUS
    <2>1. pos[k] \in 2 .. l
      BY <1>1
    <2>2. p \in 2 .. l
      BY <2>1
    <2>3. PICK j \in 1 .. n : p = pos[j]
      BY <1>1, <2>2
    <2>4. ~(j < k) /\ j # k
      <3>1. j < k => pos[j] < pos[k]
        BY <1>1
      <3>2. QED
        BY <2>1, <2>2, <2>3, <3>1
    <2>5. j > k
      BY <2>4
    <2>6. cs[p] = 0
      BY <1>1, <2>3, <2>5
    <2>7. QED
      BY <2>6
  <1>3. DOMAIN cs = 1 .. l /\ pos[k] \in 1 .. l /\ cs[pos[k]] # 0
    <2>1. pos[k] \in 2 .. l
      BY <1>1
    <2>2. QED
      BY <1>1, <1>20, <2>1
  <1>4. Last(cs, pos[k])
    BY <1>2, <1>3 DEF Last
  <1>5. QED
    BY <1>1, <1>4, InnermostIs

LEMMA LaidNone ==
  ASSUME NEW n \in Nat \ {0}, NEW cs \in Seq(Nat), NEW fs, NEW s, NEW x, NEW pos,
         LaidOut(fs, n, s, x, cs, Len(cs), pos), \A j \in 1 .. n : s[j + x] = 0
  PROVE  Innermost(cs) = cs[1]
  <1>20. PICK l \in Nat : l = Len(cs)
    OBVIOUS
  <1>1. /\ \A j \in 1 .. n : pos[j] \in 2 .. l /\ cs[pos[j]] = s[j + x]
        /\ \A p \in 2 .. l : cs[p] # 0 => \E j \in 1 .. n : p = pos[j]
    BY <1>20 DEF LaidOut
  <1>2. \A p \in 2 .. l : cs[p] = 0
    BY <1>1
  <1>3. DOMAIN cs = 1 .. l /\ 1 \in 1 .. l
    <2>1. pos[1] \in 2 .. l
      BY <1>1, UpToLast
    <2>2. QED
      BY <1>20, <2>1
  <1>4. \A p \in 1 .. l : p > 1 => cs[p] = 0
    BY <1>2
  <1>5. CASE cs[1] # 0
    <2>1. Last(cs, 1)
      BY <1>3, <1>4, <1>5 DEF Last
    <2>2. QED
      BY <2>1, InnermostIs
  <1>6. CASE cs[1] = 0
    <2>1. \A p \in DOMAIN cs : cs[p] = 0
      BY <1>3, <1>4, <1>6
    <2>2. QED
      BY <1>6, <2>1, InnermostNone
  <1>7. QED
    BY <1>5, <1>6

-----------------------------------------------------------------------------
(* Steps of the walk keep the blocks laid out.                             *)
LEMMA LaidFirst ==
  ASSUME NEW fs, NEW n \in Nat, n # 0, NEW s, NEW x, NEW cs, NEW l \in Nat, NEW pos,
         LaidOut(fs, n, s, x, cs, l, pos)
  PROVE  l >= 2 /\ 1 \in 1 .. l
  <1>1. pos[1] \in 2 .. l
    BY UpToLast DEF LaidOut
  <1>2. QED
    BY <1>1

LEMMA FileScopeFacts ==
  ASSUME TypeOK, NEW all
  PROVE  FileScope(all) \in Nat
  <1>1. \A kinds : Tops(kinds) \in SUBSET (1 .. Len(top)) /\ Len(top) \in Nat
    BY TopsFacts
  <1>2. \A kinds : Latest(Tops(kinds)) \in Nat
    BY <1>1, LatestFacts
  <1>3. QED
    BY <1>2 DEF FileScope

LEMMA FileScopeKept ==
  ASSUME UNCHANGED top, InFunction' = InFunction
  PROVE  FileScope(InFunction)' = FileScope(InFunction)
  BY DEF FileScope, Tops

LEMMA EnterSteps ==
  ASSUME Core, NEW n \in Nat, Len(frames) = n, NEW kind \in Inner \cup Outer, NEW declares, Enter(kind, declares)
  PROVE  /\ frames' \in Seq(FrameT) /\ Len(frames') = n + 1 /\ frames'[n + 1].kind = kind
         /\ \A k \in 1 .. n : frames'[k] = frames[k]
         /\ n # 0 => Extra' = Extra
  <1> DEFINE f == [kind |-> kind, id |-> entered']
  <1>1. frames \in Seq(FrameT) /\ frames' = Append(frames, f) /\ f \in FrameT /\ f.kind = kind
    BY DEF Core, TypeOK, Enter, FrameT
  <1> HIDE DEF f
  <1>2. /\ frames' \in Seq(FrameT) /\ Len(frames') = n + 1 /\ frames'[n + 1] = f
        /\ \A k \in 1 .. n : frames'[k] = frames[k]
    BY <1>1
  <1>3. ASSUME n # 0 PROVE Extra' = Extra
    <2>1. 1 \in 1 .. n /\ frames # <<>> /\ frames' # <<>>
      BY <1>1, <1>2, <1>3
    <2>2. frames'[1] = frames[1]
      BY <1>2, <2>1
    <2>3. QED
      BY <2>1, <2>2 DEF Extra
  <1>4. QED
    BY <1>1, <1>2, <1>3

LEMMA EnterInnerBlocks ==
  ASSUME Core, Blocks, frames # <<>>, NEW kind \in Inner, NEW declares \in BOOLEAN, Enter(kind, declares),
         sema' = Append(sema, Own(declares)),
         c' = IF kind = "for" THEN c \o <<0, Own(declares)>> ELSE Append(c, Own(declares))
  PROVE  Blocks'
  <1> DEFINE d == Own(declares)
             b == BlocksOf(kind)
  <1>1. /\ d \in Nat /\ b \in {1, 2} /\ (b = 2 <=> kind = "for") /\ c \in Seq(Nat)
        /\ sema \in Seq(Nat) /\ Extra \in {1, 2} /\ Len(sema) = Len(frames) + Extra
    <2>1. d \in Nat
      BY NewDeclFacts DEF Own, Core
    <2>2. QED
      BY <2>1 DEF BlocksOf, Inner, Blocks, Core, TypeOK, Scoped, Extra
  <1>2. PICK n \in Nat \ {0} : n = Len(frames)
    BY DEF Core, TypeOK
  <1>3. PICK l \in Nat : l = Len(c)
    BY <1>1
  <1>4. PICK pos : LaidOut(frames, n, sema, Extra, c, l, pos)
    BY <1>2, <1>3 DEF Blocks
  <1>5. /\ Len(frames') = n + 1 /\ frames'[n + 1].kind = kind /\ frames' # <<>>
        /\ \A k \in 1 .. n : frames'[k] = frames[k]
        /\ Extra' = Extra
    BY <1>2, EnterSteps
  <1>6. sema' = Append(sema, d) /\ c' = IF b = 2 THEN c \o <<0, d>> ELSE Append(c, d)
    BY <1>1
  <1> HIDE DEF d, b
  <1>7. /\ \A k \in 1 .. n : sema'[k + Extra] = sema[k + Extra]
        /\ sema'[n + 1 + Extra] = d
    <2>1. PICK i \in Nat : i = n + Extra /\ Len(sema) = i
      BY <1>1, <1>2
    <2>2. sema'[i + 1] = d /\ \A k \in 1 .. i : sema'[k] = sema[k]
      BY <1>1, <1>6, <2>1, AppendFacts
    <2>3. i + 1 = n + 1 + Extra /\ \A k \in 1 .. n : k + Extra \in 1 .. i
      BY <1>1, <2>1
    <2>4. QED
      BY <2>2, <2>3
  <1>8. /\ c' \in Seq(Nat) /\ Len(c') = l + b /\ c'[l + b] = d
        /\ \A p \in 1 .. l : c'[p] = c[p]
        /\ b = 2 => c'[l + 1] = 0
    <2>1. CASE b = 2
      BY <1>1, <1>3, <1>6, <2>1, ConcatTwo
    <2>2. CASE b = 1
      BY <1>1, <1>3, <1>6, <2>2, AppendFacts
    <2>3. QED
      BY <1>1, <2>1, <2>2
  <1>9. \E q : LaidOut(frames', n + 1, sema', Extra', c', l + b, q)
    <2>1. BlocksOf(frames'[n + 1].kind) = b
      BY <1>5 DEF b
    <2>2. /\ \A k \in 1 .. n : sema'[k + Extra'] = sema[k + Extra']
          /\ c'[l + b] = sema'[n + 1 + Extra']
          /\ LaidOut(frames, n, sema, Extra', c, l, pos)
      BY <1>4, <1>5, <1>7, <1>8
    <2>3. Pushed(frames, n, sema, Extra', c, l, frames', sema', c', b)
      BY <1>5, <1>8, <2>1, <2>2 DEF Pushed
    <2>4. QED
      BY <1>1, <2>2, <2>3, PushLaid, Zenon
  <1>10. c'[1] = FileScope(InFunction)'
    <2>1. InFunction' = InFunction /\ UNCHANGED top
      BY EnterInside DEF Enter
    <2>2. 1 \in 1 .. l
      BY <1>4, LaidFirst
    <2>3. c'[1] = c[1]
      BY <1>8, <2>2
    <2>4. QED
      BY <2>1, <2>3, FileScopeKept DEF Blocks
  <1>11. \E q : LaidOut(frames', Len(frames'), sema', Extra', c', Len(c'), q)
    BY <1>5, <1>8, <1>9
  <1>12. QED
    BY <1>8, <1>10, <1>11 DEF Blocks

LEMMA LastEntered ==
  ASSUME NEW table \in Seq(Nat), NEW d \in Nat, NEW n \in Nat, Len(table) = n
  PROVE  (table \o <<0, d>>)[n + 2] = d /\ Append(table, d)[n + 1] = d
  BY ConcatTwo, AppendFacts

LEMMA EnterOuterBlocks ==
  ASSUME Core, Core', frames = <<>>, NEW kind \in Outer, NEW declares \in BOOLEAN, Enter(kind, declares),
         sema' = (IF kind = "method" THEN sema \o <<0, Own(declares)>> ELSE Append(sema, Own(declares))),
         c' = <<FileScope(kind = "function"), Own(declares)>>
  PROVE  Blocks'
  <1> DEFINE d == Own(declares)
             g == FileScope(kind = "function")
  <1>1. d \in Nat /\ g \in Nat
    BY NewDeclFacts, FileScopeFacts DEF Own, Core
  <1>2. sema' = (IF kind = "method" THEN sema \o <<0, d>> ELSE Append(sema, d)) /\ c' = <<g, d>>
    OBVIOUS
  <1>3. frames' # <<>> /\ frames'[1].kind = kind /\ Len(frames') = 1
    <2>1. PICK n \in {0} : Len(frames) = n
      OBVIOUS
    <2>2. Len(frames') = n + 1
      BY <2>1, EnterSteps
    <2>3. n + 1 = 1
      BY <2>1
    <2>4. frames' # <<>> /\ frames'[1].kind = kind
      BY EnterOuterFacts
    <2>5. QED
      BY <2>2, <2>3, <2>4, Zenon
  <1>4. g = FileScope(InFunction)'
    <2>1. InFunction' = (kind = "function") /\ UNCHANGED top
      BY <1>3 DEF InFunction, Enter
    <2>2. QED
      BY <2>1 DEF FileScope, Tops
  <1> HIDE DEF d, g
  <1>5. c' \in Seq(Nat) /\ Len(c') = 2 /\ c'[1] = g /\ c'[2] = d
    BY <1>1, <1>2
  <1>6. sema'[1 + Extra'] = d
    <2>1. Extra' = IF kind = "method" THEN 2 ELSE 1
      BY <1>3 DEF Extra
    <2>2. sema \in Seq(Nat) /\ Len(sema) = 1
      BY DEF Core, TypeOK, Scoped, Extra
    <2>3. (sema \o <<0, d>>)[1 + 2] = d /\ Append(sema, d)[1 + 1] = d
      <3>1. 1 \in Nat
        OBVIOUS
      <3>2. QED
        BY <1>1, <2>2, <3>1, LastEntered, Zenon
    <2>4. CASE kind = "method"
      BY <1>2, <2>1, <2>3, <2>4, Zenon
    <2>5. CASE kind # "method"
      BY <1>2, <2>1, <2>3, <2>5, Zenon
    <2>6. QED
      BY <2>4, <2>5
  <1>7. LaidOut(frames', 1, sema', Extra', c', 2, [k \in 1 .. 1 |-> 2])
    <2> DEFINE pos == [k \in 1 .. 1 |-> 2]
    <2>1. pos \in [1 .. 1 -> Nat] /\ pos[1] = 2 /\ \A k \in 1 .. 1 : k = 1
      OBVIOUS
    <2>2. \A p \in 2 .. 2 : p = pos[1]
      BY <2>1
    <2> HIDE DEF pos
    <2>3. \A k \in 1 .. 1 : /\ pos[k] \in 2 .. 2 /\ c'[pos[k]] = sema'[k + Extra']
                           /\ ~(k > 1)
      <3>1. pos[1] \in 2 .. 2 /\ c'[pos[1]] = sema'[1 + Extra'] /\ ~(1 > 1)
        <4>1. 2 \in 2 .. 2 /\ ~(1 > 1)
          OBVIOUS
        <4>2. QED
          BY <1>5, <1>6, <2>1, <4>1, Zenon
      <3>2. QED
        BY <2>1, <3>1, Zenon
    <2>4. \A i, j \in 1 .. 1 : ~(i < j)
      OBVIOUS
    <2>5. \A p \in 2 .. 2 : \E k \in 1 .. 1 : p = pos[k]
      BY <2>1, <2>2
    <2>6. LaidOut(frames', 1, sema', Extra', c', 2, pos)
      BY <2>1, <2>3, <2>4, <2>5, Zenon DEF LaidOut
    <2>7. QED
      BY <2>6 DEF pos
  <1>8. \E pos : LaidOut(frames', Len(frames'), sema', Extra', c', Len(c'), pos)
    BY <1>3, <1>5, <1>7
  <1>9. QED
    BY <1>4, <1>5, <1>8 DEF Blocks

LEMMA LeaveBlocks ==
  ASSUME Core, Blocks, Leave
  PROVE  Blocks'
  <1>1. /\ frames # <<>> /\ frames' = Drop(frames, 1) /\ UNCHANGED top
        /\ sema' = Drop(sema, ScopesOf(frames[Len(frames)].kind))
        /\ c' = Drop(c, BlocksOf(frames[Len(frames)].kind))
    BY DEF Leave
  <1>2. PICK m \in Nat \ {0} : m = Len(frames)
    BY <1>1 DEF Core, TypeOK
  <1>3. PICK l \in Nat : l = Len(c)
    BY DEF Blocks
  <1>4. PICK pos : LaidOut(frames, m, sema, Extra, c, l, pos)
    BY <1>2, <1>3 DEF Blocks
  <1> DEFINE b == BlocksOf(frames[m].kind)
  <1>5. /\ Len(frames') = m - 1
        /\ \A i \in 1 .. m - 1 : frames'[i] = frames[i]
        /\ m = 1 <=> frames[m].kind \in Outer
        /\ Extra' = IF m = 1 THEN 1 ELSE Extra
        /\ \A i \in 1 .. m - 1 + Extra' : sema'[i] = sema[i]
    BY <1>1, <1>2, LeaveSteps
  <1>6. /\ b \in {1, 2} /\ Extra \in {1, 2} /\ c \in Seq(Nat)
        /\ m = 1 => BlocksOf(frames[1].kind) = 2
    BY <1>5 DEF BlocksOf, Extra, Outer, Blocks
  <1>7. \A k \in 1 .. m - 1 : sema'[k + Extra'] = sema[k + Extra]
    <2> SUFFICES ASSUME NEW k \in 1 .. m - 1 PROVE sema'[k + Extra'] = sema[k + Extra]
      OBVIOUS
    <2>1. Extra' = Extra
      BY <1>5
    <2>2. k + Extra' \in 1 .. m - 1 + Extra'
      BY <1>6, <2>1
    <2>3. QED
      BY <1>5, <2>1, <2>2
  <1>8. l >= b
    <2>1. l >= 2
      BY <1>4, LaidFirst
    <2>2. QED
      BY <1>6, <2>1
  <1>9. /\ c' \in Seq(Nat) /\ Len(c') = l - b
        /\ \A p \in 1 .. l - b : c'[p] = c[p]
    <2>1. c' = Drop(c, b) /\ b \in 0 .. l
      BY <1>1, <1>2, <1>6, <1>8
    <2> HIDE DEF b
    <2>2. /\ Drop(c, b) \in Seq(Nat) /\ Len(Drop(c, b)) = l - b
          /\ \A p \in 1 .. l - b : Drop(c, b)[p] = c[p]
      <3>1. c \in Seq(Nat) /\ Len(c) = l /\ b \in 0 .. l
        BY <1>3, <1>6, <2>1
      <3>2. QED
        BY <3>1, DropFacts, Zenon
    <2>3. QED
      BY <2>1, <2>2
  <1>10. \E q : LaidOut(frames', m - 1, sema', Extra', c', l - b, q)
    <2>1. Popped(frames, m, sema, Extra, c, l, frames', sema', Extra', c', b)
      BY <1>5, <1>6, <1>7, <1>9 DEF Popped
    <2> HIDE DEF b
    <2>2. QED
      BY <1>4, <1>6, <2>1, PopLaid, Zenon
  <1>11. ASSUME frames' # <<>> PROVE c'[1] = FileScope(InFunction)'
    <2>1. m - 1 # 0 /\ m - 1 \in Nat /\ l - b \in Nat
      BY <1>5, <1>6, <1>8, <1>11, LeaveSteps, <1>1, <1>2
    <2>2. 1 \in 1 .. l - b
      <3>1. PICK n \in Nat, i \in Nat : n = m - 1 /\ i = l - b /\ n # 0
        BY <2>1
      <3>2. \E q : LaidOut(frames', n, sema', Extra', c', i, q)
        BY <1>10, <3>1
      <3>3. QED
        BY <3>1, <3>2, LaidFirst
    <2>3. InFunction' = InFunction
      BY <1>1, <1>11, LeaveInside DEF InFunction
    <2>4. QED
      BY <1>1, <1>9, <2>2, <2>3, FileScopeKept DEF Blocks
  <1>12. \E q : LaidOut(frames', Len(frames'), sema', Extra', c', Len(c'), q)
    BY <1>5, <1>9, <1>10
  <1>13. QED
    BY <1>9, <1>11, <1>12 DEF Blocks

-----------------------------------------------------------------------------
LEMMA LetBlocks ==
  ASSUME Core, Blocks, NEW uses, Let(uses)
  PROVE  Blocks'
  <1> DEFINE d == NewDecl
  <1>1. /\ frames # <<>> /\ UNCHANGED <<top, frames>>
        /\ sema' = SetTop(sema, d) /\ c' = SetTop(c, d)
    BY DEF Let
  <1>2. PICK n \in Nat \ {0} : n = Len(frames)
    BY <1>1 DEF Core, TypeOK
  <1>3. PICK l \in Nat : l = Len(c)
    BY DEF Blocks
  <1>4. PICK pos : LaidOut(frames, n, sema, Extra, c, l, pos)
    BY <1>2, <1>3 DEF Blocks
  <1>5. d \in Nat /\ c \in Seq(Nat) /\ l >= 2
    BY <1>4, NewDeclFacts, LaidFirst DEF Core, Blocks
  <1> HIDE DEF d
  <1>6. /\ c' \in Seq(Nat) /\ Len(c') = l /\ c'[l] = d
        /\ \A p \in 1 .. l : p # l => c'[p] = c[p]
    <2>1. d \in Nat /\ c \in Seq(Nat) /\ Len(c) = l /\ l # 0
      BY <1>3, <1>5
    <2>2. /\ SetTop(c, d) \in Seq(Nat) /\ Len(SetTop(c, d)) = l
          /\ SetTop(c, d)[l] = d
          /\ \A p \in 1 .. l : p # l => SetTop(c, d)[p] = c[p]
      BY <2>1 DEF SetTop
    <2>3. QED
      BY <1>1, <2>2
  <1>7. /\ sema'[n + Extra] = d
        /\ \A k \in 1 .. n : k # n => sema'[k + Extra] = sema[k + Extra]
    <2>1. sema \in Seq(Nat) /\ Extra \in {1, 2} /\ Len(sema) = n + Extra
      BY <1>2 DEF Core, TypeOK, Scoped, Extra
    <2>2. PICK i \in Nat \ {0} : i = n + Extra /\ Len(sema) = i
      BY <2>1
    <2>3. /\ sema'[i] = d
          /\ \A k \in 1 .. i : k # i => sema'[k] = sema[k]
      <3>1. d \in Nat /\ sema \in Seq(Nat) /\ Len(sema) = i /\ i \in Nat /\ i # 0
        BY <1>5, <2>1, <2>2
      <3>2. /\ SetTop(sema, d)[i] = d
            /\ \A k \in 1 .. i : k # i => SetTop(sema, d)[k] = sema[k]
        BY <3>1 DEF SetTop
      <3>3. QED
        BY <1>1, <3>2
    <2>4. \A k \in 1 .. n : k # n => k + Extra \in 1 .. i /\ k + Extra # i
      BY <2>1, <2>2
    <2>5. QED
      BY <2>2, <2>3, <2>4
  <1>8. LaidOut(frames, n, sema', Extra, c', l, pos)
    <2>1. c'[l] = sema'[n + Extra]
      BY <1>6, <1>7
    <2>2. QED
      BY <1>4, <1>6, <1>7, <2>1, SetLaid
  <1>9. LaidOut(frames, Len(frames), sema, Extra, c, Len(c), pos)' /\ InFunction' = InFunction
    <2>1. frames' = frames /\ Extra' = Extra /\ InFunction' = InFunction /\ Len(c') = l
      BY <1>1, <1>6 DEF Extra, InFunction
    <2>2. LaidOut(frames', Len(frames'), sema', Extra', c', Len(c'), pos)
      BY <1>2, <1>8, <2>1
    <2>3. QED
      BY <2>1, <2>2 DEF LaidOut, BlocksOf
  <1>10. c'[1] = FileScope(InFunction)'
    <2>1. 1 \in 1 .. l /\ 1 # l
      BY <1>5
    <2>2. QED
      BY <1>1, <1>6, <1>9, <2>1, FileScopeKept DEF Blocks
  <1>11. QED
    BY <1>6, <1>9, <1>10 DEF Blocks

LEMMA KeptBlocks ==
  ASSUME Blocks, UNCHANGED <<top, frames, sema, c>>
  PROVE  Blocks'
  <1>1. Extra' = Extra /\ InFunction' = InFunction
    BY DEF Extra, InFunction
  <1>2. FileScope(InFunction)' = FileScope(InFunction)
    BY <1>1, FileScopeKept
  <1>3. QED
    BY <1>1, <1>2 DEF Blocks, LaidOut, BlocksOf

LEMMA VisitTopBlocks ==
  ASSUME Blocks, VisitTop
  PROVE  Blocks'
  <1>1. frames' = <<>> /\ c' = c /\ frames = <<>>
    BY DEF VisitTop
  <1>2. PICK pos : LaidOut(frames, Len(frames), sema, Extra, c, Len(c), pos)
    BY DEF Blocks
  <1>3. LaidOut(frames', Len(frames'), sema', Extra', c', Len(c'), pos)
    <2>1. Len(frames) = 0 /\ \A k \in 1 .. 0 : FALSE
      BY <1>1
    <2>2. pos \in [1 .. 0 -> Nat] /\ Len(c) = 0
      BY <1>2, <2>1, Zenon DEF LaidOut
    <2>3. \A p \in 2 .. 0 : FALSE
      OBVIOUS
    <2>4. Len(frames') = 0 /\ Len(c') = 0
      BY <1>1, <2>1, <2>2
    <2>5. QED
      BY <2>1, <2>2, <2>3, <2>4, Zenon DEF LaidOut
  <1>4. QED
    BY <1>1, <1>3 DEF Blocks

-----------------------------------------------------------------------------
(* What the C finds for the name: the local declaration, or what the file  *)
(* scope has by then.                                                      *)
LEMMA CUse ==
  ASSUME Core, Blocks, frames # <<>>
  PROVE  Innermost(c) = IF IsLocal(Visible) THEN Visible ELSE FileScope(InFunction)
  <1>1. PICK n \in Nat \ {0} : n = Len(frames)
    BY DEF Core, TypeOK
  <1>2. PICK l \in Nat : l = Len(c)
    BY DEF Blocks
  <1>3. PICK pos : LaidOut(frames, n, sema, Extra, c, l, pos)
    BY <1>1, <1>2 DEF Blocks
  <1>4. /\ DOMAIN frames = 1 .. n /\ sema \in Seq(Nat) /\ c \in Seq(Nat)
        /\ Extra \in {1, 2} /\ DOMAIN sema = 1 .. n + Extra
    BY <1>1 DEF Core, TypeOK, Scoped, Extra, Blocks
  <1> DEFINE S == {k \in 1 .. n : sema[k + Extra] # 0}
  <1>5. CASE S = {}
    <2>1. \A j \in 1 .. n : sema[j + Extra] = 0
      BY <1>5
    <2>2. Innermost(c) = c[1]
      <3>1. LaidOut(frames, n, sema, Extra, c, Len(c), pos) /\ c \in Seq(Nat)
        BY <1>2, <1>3, <1>4
      <3>2. QED
        BY <2>1, <3>1, LaidNone, Zenon
    <2>3. ~IsLocal(Visible)
      <3>1. \A k \in DOMAIN sema : k > 1 => sema[k] = 0
        <4> SUFFICES ASSUME NEW k \in 1 .. n + Extra, k > 1 PROVE sema[k] = 0
          BY <1>4
        <4>1. CASE Extra = 2 /\ k = 2
          BY <4>1 DEF Core, Scoped
        <4>2. CASE ~(Extra = 2 /\ k = 2)
          <5>1. k - Extra \in 1 .. n /\ (k - Extra) + Extra = k
            BY <1>4, <4>2
          <5>2. QED
            BY <2>1, <5>1
        <4>3. QED
          BY <4>1, <4>2
      <3>2. sema[1] = Global /\ 1 \in DOMAIN sema /\ Global \in 0 .. Len(top) /\ Len(top) \in Nat
        BY <1>4, GlobalFacts DEF Core, Scoped, TypeOK
      <3>3. CASE sema[1] # 0
        <4>1. Last(sema, 1)
          BY <3>1, <3>2, <3>3 DEF Last
        <4>2. IsLocal(Visible) => Visible = Global
          BY <1>4, <3>2, <4>1, InnermostIs, UseAgrees
        <4>3. QED
          BY <3>2, <4>2 DEF IsLocal
      <3>4. CASE sema[1] = 0
        <4>1. \A k \in DOMAIN sema : sema[k] = 0
          BY <1>4, <3>1, <3>4
        <4>2. IsLocal(Visible) => Visible = 0
          BY <1>4, <4>1, InnermostNone, UseAgrees
        <4>3. QED
          BY <3>2, <4>2 DEF IsLocal
      <3>5. QED
        BY <3>3, <3>4
    <2>4. QED
      BY <2>2, <2>3 DEF Blocks
  <1>6. CASE S # {}
    <2>1. PICK k \in 1 .. n : sema[k + Extra] # 0 /\ \A j \in S : j <= k
      <3>1. \E k \in S : \A j \in S : j <= k
        BY <1>6, LastExists
      <3>2. QED
        BY <3>1
    <2>2. \A j \in 1 .. n : j > k => sema[j + Extra] = 0
      BY <2>1
    <2>3. Innermost(c) = sema[k + Extra]
      <3>1. LaidOut(frames, n, sema, Extra, c, Len(c), pos) /\ c \in Seq(Nat)
        BY <1>2, <1>3, <1>4
      <3>2. QED
        BY <2>1, <2>2, <3>1, LaidLast
    <2>4. IsLocal(sema[k + Extra])
      <3>1. [decl |-> sema[k + Extra], frame |-> frames[k].id] \in log
        BY <1>4, <2>1 DEF Core, Scoped, Holds
      <3>2. QED
        BY <3>1 DEF Core, Logged, IsLocal
    <2>5. Visible = sema[k + Extra]
      <3>1. k + Extra \in DOMAIN sema
        BY <1>4
      <3>2. \A j \in DOMAIN sema : j > k + Extra => sema[j] = 0
        <4> SUFFICES ASSUME NEW j \in 1 .. n + Extra, j > k + Extra PROVE sema[j] = 0
          BY <1>4
        <4>1. j - Extra \in 1 .. n /\ j - Extra > k /\ (j - Extra) + Extra = j
          BY <1>4
        <4>2. QED
          BY <2>2, <4>1
      <3>3. Last(sema, k + Extra)
        BY <2>1, <3>1, <3>2 DEF Last
      <3>4. Innermost(sema) = sema[k + Extra]
        BY <1>4, <3>3, InnermostIs
      <3>5. ~IsLocal(Global)
        BY GlobalFacts DEF IsLocal, Core, TypeOK
      <3>6. QED
        BY <2>4, <3>4, <3>5, UseAgrees
    <2>6. QED
      BY <2>3, <2>4, <2>5
  <1>7. QED
    BY <1>5, <1>6

-----------------------------------------------------------------------------
(* The two redeclarations C refuses.                                       *)
Twice(lg) == \E e, f \in lg : e # f /\ e.frame = f.frame

(* The innermost block has something exactly when the innermost construct  *)
(* has declared the name.                                                  *)
LEMMA LastBlock ==
  ASSUME Core, Blocks, frames # <<>>
  PROVE  c[Len(c)] # 0 <=> \E e \in log : e.frame = Frame
  <1>1. PICK n \in Nat \ {0} : n = Len(frames)
    BY DEF Core, TypeOK
  <1>2. PICK pos : LaidOut(frames, n, sema, Extra, c, Len(c), pos)
    BY <1>1 DEF Blocks
  <1>3. n \in DOMAIN frames /\ n \in 1 .. n
    BY <1>1 DEF Core, TypeOK
  <1>4. c[Len(c)] = sema[n + Extra]
    BY <1>2, <1>3 DEF LaidOut
  <1>5. Holds(log, Frame, sema[n + Extra])
    BY <1>1, <1>3 DEF Core, Scoped, Frame
  <1>6. QED
    BY <1>4, <1>5 DEF Holds

LEMMA LetRefused ==
  ASSUME Core, Blocks, RefusedExactly, NEW uses, Let(uses)
  PROVE  RefusedExactly'
  <1> DEFINE new == [decl |-> NewDecl, frame |-> Frame]
  <1>1. /\ frames # <<>> /\ log' = log \cup {new} /\ top' = top
        /\ refused' = (refused \/ c[Len(c)] # 0)
    BY DEF Let
  <1>2. c[Len(c)] # 0 <=> \E e \in log : e.frame = Frame
    BY <1>1, LastBlock
  <1>3. \A e \in log : e # new
    BY NewDeclFacts DEF Core, TypeOK, Entry
  <1>4. new.frame = Frame
    OBVIOUS
  <1> HIDE DEF new
  <1>5. Twice(log') <=> Twice(log) \/ \E e \in log : e.frame = Frame
    <2>1. ASSUME NEW e \in log, e.frame = Frame PROVE Twice(log')
      <3>1. e \in log' /\ new \in log' /\ e # new /\ e.frame = new.frame
        BY <1>1, <1>3, <1>4, <2>1
      <3>2. QED
        BY <3>1 DEF Twice
    <2>2. Twice(log) => Twice(log')
      BY <1>1 DEF Twice
    <2>3. ASSUME Twice(log') PROVE Twice(log) \/ \E e \in log : e.frame = Frame
      <3>1. PICK e \in log', f \in log' : e # f /\ e.frame = f.frame
        BY <2>3 DEF Twice
      <3>2. (e \in log \/ e = new) /\ (f \in log \/ f = new)
        BY <1>1
      <3>3. QED
        BY <1>4, <3>1, <3>2 DEF Twice
    <2>4. QED
      BY <2>1, <2>2, <2>3
  <1>6. Cardinality(Tops(FileNames))' = Cardinality(Tops(FileNames))
    BY <1>1 DEF Tops
  <1>7. (RefusedExactly <=> (refused <=> Cardinality(Tops(FileNames)) > 1 \/ Twice(log)))
    BY DEF RefusedExactly, Twice
  <1>8. (refused' <=> Cardinality(Tops(FileNames))' > 1 \/ Twice(log'))
    BY <1>1, <1>2, <1>5, <1>6, <1>7
  <1>9. QED
    BY <1>8 DEF RefusedExactly, Twice

(* The other steps add at most one declaration, to a new construct.        *)
LEMMA OtherRefused ==
  ASSUME RefusedExactly, UNCHANGED <<top, refused>>, log \subseteq log',
         \A e \in log' : e \in log \/ (\A f \in log' : f.frame = e.frame => f = e)
  PROVE  RefusedExactly'
  <1>1. Twice(log') <=> Twice(log)
    BY DEF Twice
  <1>2. Cardinality(Tops(FileNames))' = Cardinality(Tops(FileNames))
    BY DEF Tops
  <1>3. QED
    BY <1>1, <1>2 DEF RefusedExactly, Twice

LEMMA EnterRefused ==
  ASSUME Core, RefusedExactly, NEW kind, NEW declares, Enter(kind, declares)
  PROVE  RefusedExactly'
  <1> DEFINE new == [decl |-> NewDecl, frame |-> entered']
  <1>1. /\ log' = (IF declares THEN log \cup {new} ELSE log)
        /\ UNCHANGED <<top, refused>> /\ new.frame = entered + 1
    BY DEF Enter
  <1>2. \A e \in log : e.frame # new.frame
    <2>1. entered \in Nat /\ \A e \in log : e.frame \in Nat /\ e.frame <= entered
      BY DEF Core, TypeOK, Logged, Entry
    <2>2. QED
      BY <1>1, <2>1
  <1> HIDE DEF new
  <1>3. QED
    BY <1>1, <1>2, OtherRefused

LEMMA VisitTopRefused ==
  ASSUME RefusedExactly, VisitTop
  PROVE  RefusedExactly'
  <1>1. UNCHANGED <<top, refused, log>>
    BY DEF VisitTop
  <1>2. QED
    BY <1>1, OtherRefused

-----------------------------------------------------------------------------
LEMMA AtMostOne ==
  ASSUME NEW S, IsFiniteSet(S), ~(Cardinality(S) > 1), NEW a \in S, NEW b \in S
  PROVE  a = b
  <1> SUFFICES ASSUME a # b PROVE FALSE
    OBVIOUS
  <1>1. Cardinality({a, b}) = 2
    <2>1. IsFiniteSet({b}) /\ Cardinality({b}) = 1
      BY FS_Singleton
    <2>2. Cardinality({b} \cup {a}) = Cardinality({b}) + 1
      BY <2>1, FS_AddElement
    <2>3. {b} \cup {a} = {a, b}
      OBVIOUS
    <2>4. QED
      BY <2>1, <2>2, <2>3
  <1>2. Cardinality({a, b}) <= Cardinality(S) /\ Cardinality(S) \in Nat
    <2>1. {a, b} \subseteq S
      OBVIOUS
    <2>2. QED
      BY <2>1, FS_Subset, FS_CardinalityType
  <1>3. QED
    BY <1>1, <1>2

(* A program C does not refuse has one name of the file scope at most.     *)
LEMMA OneName ==
  ASSUME Core, RefusedExactly, ~refused, NEW all, NEW d, d \in Tops(IF all THEN FileNames ELSE {"type"})
  PROVE  FileScope(all) = d
  <1> DEFINE S == Tops(FileNames)
             T == Tops(IF all THEN FileNames ELSE {"type"})
  <1>1. ~(Cardinality(S) > 1)
    BY DEF RefusedExactly
  <1>2. S \in SUBSET (1 .. Len(top)) /\ Len(top) \in Nat /\ T \subseteq S
    BY TopsFacts DEF Core, Tops, FileNames, Kinds
  <1>3. IsFiniteSet(S)
    <2>1. Len(top) \in Int /\ 1 \in Int
      BY <1>2
    <2>2. IsFiniteSet(1 .. Len(top))
      BY <2>1, FS_Interval
    <2> HIDE DEF S
    <2>3. QED
      BY <1>2, <2>2, FS_Subset
  <1> HIDE DEF S
  <1>4. \A j \in T : j = d
    BY <1>1, <1>2, <1>3, AtMostOne
  <1>5. d \in T /\ T \in SUBSET Nat /\ \A j \in T : j <= d
    <2>3. d \in T
      OBVIOUS
    <2> HIDE DEF T
    <2>1. d \in T /\ T \in SUBSET Nat
      BY <1>2, <2>3
    <2>2. d \in Nat /\ d <= d
      BY <2>1
    <2>4. QED
      BY <1>4, <2>1, <2>2
  <1>6. Latest(T) = d
    BY <1>5, LatestIs
  <1>7. FileScope(all) = Latest(T)
    BY DEF FileScope
  <1>8. QED
    BY <1>6, <1>7

(* What a use means in the C is right.                                     *)
CAgreed(u) ==
  u.how \in {"read", "set", "call"} /\ ~refused /\
    (IsLocal(u.visible) \/ u.visible \in Tops(IF InFunction THEN FileNames ELSE {"type"})) =>
    u.c = u.visible

LEMMA CAgreedIs == CAgreed(last) <=> CIsLexical
  BY DEF CAgreed, CIsLexical

LEMMA CUseOK ==
  ASSUME Core, Blocks, RefusedExactly, frames # <<>>
  PROVE  /\ \A how : CAgreed(Use(how))
         /\ CAgreed([Use("set") EXCEPT !.reported = IsConst(Innermost(sema))])
         /\ CAgreed([Use("initialiser") EXCEPT !.c = NewDecl])
  <1>1. ~refused /\
          (IsLocal(Visible) \/ Visible \in Tops(IF InFunction THEN FileNames ELSE {"type"})) =>
          Innermost(c) = Visible
    BY CUse, OneName
  <1>2. \A how : Use(how).how = how /\ Use(how).visible = Visible /\ Use(how).c = Innermost(c)
    BY DEF Use
  <1>3. ASSUME NEW u, u.visible = Visible, u.c = Innermost(c) PROVE CAgreed(u)
    BY <1>1, <1>3, Zenon DEF CAgreed
  <1>4. \A how : CAgreed(Use(how))
    BY <1>2, <1>3
  <1>5. CAgreed([Use("set") EXCEPT !.reported = IsConst(Innermost(sema))])
    <2> DEFINE u == [Use("set") EXCEPT !.reported = IsConst(Innermost(sema))]
    <2>1. u.visible = Visible /\ u.c = Innermost(c)
      BY DEF Use
    <2> HIDE DEF u
    <2>2. QED
      BY <1>3, <2>1 DEF u
  <1>6. CAgreed([Use("initialiser") EXCEPT !.c = NewDecl])
    <2> DEFINE u == [Use("initialiser") EXCEPT !.c = NewDecl]
    <2>1. u.how = "initialiser"
      BY DEF Use
    <2> HIDE DEF u
    <2>2. QED
      BY <2>1 DEF CAgreed, u
  <1>7. QED
    BY <1>4, <1>5, <1>6

LEMMA CAgreedKept ==
  ASSUME NEW u, CAgreed(u), last' = u, UNCHANGED top, InFunction' = InFunction, refused => refused'
  PROVE  CIsLexical'
  <1>1. CAgreed(last)'
    BY DEF CAgreed, Tops, IsLocal
  <1>2. QED
    BY <1>1, CAgreedIs, PTL

LEMMA NoUseCAgreed ==
  ASSUME last' = NoUse
  PROVE  CIsLexical'
  <1>1. last'.how = "none"
    BY DEF NoUse
  <1>2. QED
    BY <1>1 DEF CIsLexical

CInv == Blocks /\ RefusedExactly /\ CIsLexical

LEMMA EnterInnerCInv ==
  ASSUME IInv, CInv, frames # <<>>, NEW kind \in Inner, NEW declares \in BOOLEAN, Enter(kind, declares),
         NEW uses \in BOOLEAN, MayUse(uses, "read"), sema' = Append(sema, Own(declares)),
         c' = IF kind = "for" THEN c \o <<0, Own(declares)>> ELSE Append(c, Own(declares))
  PROVE  CInv'
  <1>1. Blocks'
    BY EnterInnerBlocks DEF IInv, CInv
  <1>2. RefusedExactly'
    BY EnterRefused DEF IInv, CInv
  <1>3. CIsLexical'
    <2>1. InFunction' = InFunction /\ UNCHANGED <<top, refused>>
      BY EnterInside DEF IInv, Enter
    <2>2. CASE uses
      <3>1. last' = Use("read") /\ CAgreed(Use("read"))
        BY <2>2, CUseOK DEF MayUse, IInv, CInv
      <3>2. QED
        BY <2>1, <3>1, CAgreedKept
    <2>3. CASE ~uses
      BY <2>3, NoUseCAgreed DEF MayUse
    <2>4. QED
      BY <2>2, <2>3
  <1>4. QED
    BY <1>1, <1>2, <1>3 DEF CInv

LEMMA EnterOuterCInv ==
  ASSUME IInv, IInv', CInv, NEW kind \in Outer, NEW declares \in BOOLEAN,
         IF kind = "function" THEN EnterFunction(declares) ELSE EnterMethod(declares)
  PROVE  CInv'
  <1>1. /\ frames = <<>> /\ Enter(kind, declares) /\ last' = NoUse
        /\ sema' = (IF kind = "method" THEN sema \o <<0, Own(declares)>> ELSE Append(sema, Own(declares)))
        /\ c' = <<FileScope(kind = "function"), Own(declares)>>
    BY DEF Outer, EnterFunction, EnterMethod
  <1>2. Blocks'
    BY <1>1, EnterOuterBlocks DEF IInv
  <1>3. RefusedExactly'
    BY <1>1, EnterRefused DEF IInv, CInv
  <1>4. QED
    BY <1>1, <1>2, <1>3, NoUseCAgreed DEF CInv

LEMMA KeptCInv ==
  ASSUME CInv, UNCHANGED <<top, frames, log, sema, c, refused>>, NEW u, CAgreed(u), last' = u
  PROVE  CInv'
  <1>1. Blocks'
    BY KeptBlocks DEF CInv
  <1>2. RefusedExactly'
    BY DEF CInv, RefusedExactly, Tops
  <1>3. InFunction' = InFunction
    BY DEF InFunction
  <1>4. QED
    BY <1>1, <1>2, <1>3, CAgreedKept DEF CInv

LEMMA LetCInv ==
  ASSUME IInv, CInv, NEW uses \in BOOLEAN, Let(uses)
  PROVE  CInv'
  <1> DEFINE u == [Use("initialiser") EXCEPT !.c = NewDecl]
  <1>1. /\ frames # <<>> /\ UNCHANGED <<top, frames>> /\ (refused => refused')
        /\ last' = (IF uses THEN u ELSE NoUse)
    BY DEF Let
  <1>2. CAgreed(u)
    BY <1>1, CUseOK DEF IInv, CInv
  <1>3. InFunction' = InFunction
    BY <1>1 DEF InFunction
  <1> HIDE DEF u
  <1>4. CIsLexical'
    <2>1. CASE uses
      BY <1>1, <1>2, <1>3, <2>1, CAgreedKept
    <2>2. CASE ~uses
      BY <1>1, <2>2, NoUseCAgreed
    <2>3. QED
      BY <2>1, <2>2
  <1>5. QED
    BY <1>4, LetBlocks, LetRefused DEF IInv, CInv

LEMMA InitCInv ==
  ASSUME Init
  PROVE  CInv
  <1>1. /\ frames = <<>> /\ c = <<>> /\ last = NoUse
        /\ refused = (Cardinality(Tops(FileNames)) > 1)
        /\ log = {}
    BY DEF Init
  <1>2. Blocks
    <2>1. /\ Len(frames) = 0 /\ Len(c) = 0 /\ c \in Seq(Nat)
          /\ \A k \in 1 .. 0 : FALSE
          /\ \A p \in 2 .. 0 : FALSE
      BY <1>1
    <2>2. [k \in 1 .. 0 |-> 0] \in [1 .. 0 -> Nat]
      OBVIOUS
    <2>3. LaidOut(frames, Len(frames), sema, Extra, c, Len(c), [k \in 1 .. 0 |-> 0])
      BY <2>1, <2>2, Zenon DEF LaidOut
    <2>4. QED
      BY <1>1, <2>1, <2>3 DEF Blocks
  <1>3. RefusedExactly
    BY <1>1 DEF RefusedExactly
  <1>4. CIsLexical
    BY <1>1 DEF CIsLexical, NoUse
  <1>5. QED
    BY <1>2, <1>3, <1>4 DEF CInv

LEMMA NextCInv ==
  ASSUME IInv, IInv', CInv, [Next]_vars
  PROVE  CInv'
  <1>1. CASE UNCHANGED vars
    <2>1. UNCHANGED <<top, frames, log, sema, c, refused>> /\ last' = last
      BY <1>1 DEF vars
    <2>2. CAgreed(last)
      BY CAgreedIs DEF CInv
    <2>3. QED
      BY <2>1, <2>2, KeptCInv
  <1>2. CASE VisitTop
    <2>1. last' = NoUse
      BY <1>2 DEF VisitTop
    <2>2. QED
      BY <1>2, <2>1, VisitTopBlocks, VisitTopRefused, NoUseCAgreed DEF CInv
  <1>3. CASE Leave
    <2>1. last' = NoUse /\ UNCHANGED <<top, log, refused>>
      BY <1>3 DEF Leave
    <2>2. Blocks'
      BY <1>3, LeaveBlocks DEF IInv, CInv
    <2>3. RefusedExactly'
      BY <2>1 DEF CInv, RefusedExactly, Tops
    <2>4. QED
      BY <2>1, <2>2, <2>3, NoUseCAgreed DEF CInv
  <1>4. CASE Set
    <2> DEFINE u == [Use("set") EXCEPT !.reported = IsConst(Innermost(sema))]
    <2>1. /\ frames # <<>> /\ last' = u
          /\ UNCHANGED <<top, frames, log, sema, c, refused>>
      BY <1>4 DEF Set
    <2>2. CAgreed(u)
      BY <2>1, CUseOK DEF IInv, CInv
    <2> HIDE DEF u
    <2>3. QED
      BY <2>1, <2>2, KeptCInv
  <1>5. CASE \E how \in {"read", "call"} : Read(how)
    <2>1. PICK how \in {"read", "call"} : Read(how)
      BY <1>5
    <2>2. frames # <<>> /\ last' = Use(how) /\ UNCHANGED <<top, frames, log, sema, c, refused>>
      BY <2>1 DEF Read
    <2>3. CAgreed(Use(how))
      BY <2>2, CUseOK DEF IInv, CInv
    <2>4. QED
      BY <2>2, <2>3, KeptCInv
  <1>6. CASE \E declares \in BOOLEAN :
               EnterFunction(declares) \/ EnterMethod(declares) \/ EnterCatch(declares)
    <2>1. PICK declares \in BOOLEAN :
                 EnterFunction(declares) \/ EnterMethod(declares) \/ EnterCatch(declares)
      BY <1>6
    <2>2. CASE EnterFunction(declares)
      <3>1. "function" \in Outer
        BY DEF Outer
      <3>2. QED
        BY <2>2, <3>1, EnterOuterCInv
    <2>3. CASE EnterMethod(declares)
      <3>1. "method" \in Outer /\ "method" # "function"
        BY DEF Outer
      <3>2. QED
        BY <2>3, <3>1, EnterOuterCInv
    <2>4. CASE EnterCatch(declares)
      <3>1. /\ frames # <<>> /\ Enter("catch", declares) /\ MayUse(FALSE, "read")
            /\ sema' = Append(sema, Own(declares)) /\ c' = Append(c, Own(declares))
        BY <2>4 DEF EnterCatch, MayUse
      <3>2. "catch" \in Inner /\ "catch" # "for"
        BY DEF Inner
      <3>3. QED
        BY <3>1, <3>2, EnterInnerCInv
    <2>5. QED
      BY <2>1, <2>2, <2>3, <2>4
  <1>7. CASE \E uses \in BOOLEAN : EnterBlock(uses) \/ Let(uses)
    <2>1. PICK uses \in BOOLEAN : EnterBlock(uses) \/ Let(uses)
      BY <1>7
    <2>2. CASE EnterBlock(uses)
      <3>1. /\ frames # <<>> /\ Enter("block", FALSE) /\ MayUse(uses, "read")
            /\ sema' = Append(sema, Own(FALSE)) /\ c' = Append(c, Own(FALSE))
        BY <2>2 DEF EnterBlock, Own
      <3>2. "block" \in Inner /\ "block" # "for"
        BY DEF Inner
      <3>3. QED
        BY <3>1, <3>2, EnterInnerCInv
    <2>3. QED
      BY <2>1, <2>2, LetCInv
  <1>8. CASE \E declares, uses \in BOOLEAN : EnterFor(declares, uses)
    <2>1. PICK declares \in BOOLEAN, uses \in BOOLEAN : EnterFor(declares, uses)
      BY <1>8
    <2>2. /\ frames # <<>> /\ Enter("for", declares) /\ MayUse(uses, "read")
          /\ sema' = Append(sema, Own(declares)) /\ c' = c \o <<0, Own(declares)>>
      BY <2>1 DEF EnterFor
    <2>3. "for" \in Inner
      BY DEF Inner
    <2>4. QED
      BY <2>2, <2>3, EnterInnerCInv
  <1>9. QED
    BY <1>1, <1>2, <1>3, <1>4, <1>5, <1>6, <1>7, <1>8 DEF Next

LEMMA SpecCInv == Spec => []CInv
  <1>1. Init => CInv
    BY InitCInv
  <1>2. IInv /\ IInv' /\ CInv /\ [Next]_vars => CInv'
    BY NextCInv
  <1>3. QED
    BY <1>1, <1>2, SpecIInv, PTL DEF Spec

-----------------------------------------------------------------------------
(* In the C of a program that C accepts, a name means the declaration      *)
(* lexical scoping gives, however deep the constructs nest: the blocks     *)
(* CCodeGen opens hide and reveal it exactly as the analyser's scopes do,  *)
(* and file scope has what is left (emitBlock, visitForStmt, visitLetDecl). *)
THEOREM CAlwaysLexical == Spec => []CIsLexical
  BY SpecCInv, PTL DEF CInv

(* C refuses exactly the programs that declare the name twice in one       *)
(* construct, or twice at file scope: the redeclarations the analyser lets *)
(* pass (Scope::define, CCodeGen::visitLetDecl and generate).              *)
THEOREM RefusedAlwaysExactly == Spec => []RefusedExactly
  BY SpecCInv, PTL DEF CInv
=============================================================================
