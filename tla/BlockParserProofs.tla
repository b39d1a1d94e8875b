--------------------------- MODULE BlockParserProofs ---------------------------
(***************************************************************************)
(* Theorems about BlockParser: whatever the files are made of and however  *)
(* long they are, the parser stays within the file, and it accepts exactly *)
(* the token sequences of the grammar.                                     *)
(*                                                                         *)
(* The invariant ties the stack of open parse functions to the grammar:    *)
(* while nothing was rejected, each open function stands for a construct   *)
(* of the tokens passed (Frames), the kinds of the functions tell which    *)
(* else, catch and case these constructs have had (Says, SaysTop), and     *)
(* every token passed has its place (PlacedTo).  Once something was        *)
(* rejected or swallowed, a token without a place is known (Wrong).        *)
(***************************************************************************)
EXTENDS BlockParser, Integers, FiniteSetTheorems, WellFoundedInduction, TLAPS

-----------------------------------------------------------------------------
(* The grammar over the positions of a text t, without its end: which if   *)
(* is the link of a chain, what opens a construct, how many constructs are *)
(* open behind a token, and the construct a token stands in.               *)
LinkedIn(t, i) == t[i] = "if" /\ \E h \in 1 .. i - 1 : t[h] = "else" /\ \A k \in h + 1 .. i - 1 : t[k] = "nl"
OpensIn(t, i) == \/ t[i] \in {"fn", "macro", "type", "loop", "try", "match"}
                 \/ t[i] = "if" /\ ~LinkedIn(t, i)
Lev(t, i) == Cardinality({j \in 1 .. i : OpensIn(t, j)}) - Cardinality({j \in 1 .. i : t[j] = "end"})
Encloses(t, j, i) == OpensIn(t, j) /\ \A k \in j .. i - 1 : Lev(t, k) >= Lev(t, j)
Owns(t, o, i) ==
  /\ o \in 0 .. i - 1 /\ (o # 0 => Encloses(t, o, i))
  /\ \A j \in 1 .. i - 1 : Encloses(t, j, i) => j <= o

(* The word w as a part of construct o; newlines only between h and p; an  *)
(* else whose chain goes on before i, or was left for good.                *)
MarkAt(t, w, o, k) == t[k] = w /\ Owns(t, o, k)
Newlines(t, h, p) == \A j \in h + 1 .. p - 1 : t[j] = "nl"
Chained(t, k, i) == \E l \in k + 1 .. i - 1 : t[l] = "if" /\ Newlines(t, k, l)
Unchained(t, k) == \E m \in k + 1 .. Len(t) : t[m] \notin {"nl", "if"} /\ Newlines(t, k, m)

(* Placed of BlockParser, with the owner o given, but for modifiers and values. *)
Is(t, o, K) == o # 0 /\ t[o] \in K
InStatements(t, i, o) ==
  \/ Is(t, o, {"fn", "macro", "if", "loop", "try"})
  \/ Is(t, o, {"match"}) /\ \E k \in 1 .. i - 1 : MarkAt(t, "case", o, k)
AfterPublic(t, i) == i > 1 /\ t[i - 1] = "public"
Fits(t, i, o) ==
  \/ t[i] = "nl"
  \/ t[i] = "end" /\ o # 0
  \/ t[i] = "fn" /\ (o = 0 \/ Is(t, o, {"type"}))
  \/ t[i] \in {"type", "macro", "use"} /\ o = 0
  \/ t[i] = "let" /\ (Is(t, o, {"type"}) \/ InStatements(t, i, o))
  \/ t[i] = "const" /\ (o = 0 \/ InStatements(t, i, o))
  \/ t[i] \in Openers \cup {"return", "throw"} /\ InStatements(t, i, o)
  \/ t[i] = "else" /\ Is(t, o, {"if"}) /\ \A k \in 1 .. i - 1 : MarkAt(t, "else", o, k) => Chained(t, k, i)
  \/ t[i] = "catch" /\ Is(t, o, {"try"}) /\ ~\E k \in 1 .. i - 1 : MarkAt(t, "catch", o, k)
  \/ t[i] = "case" /\ Is(t, o, {"match"})

(* A modifier fits or not by what follows it, when that has been read.     *)
Modifiable == {"fn", "type", "macro", "use", "const"} \cup Modifiers
NextIs(t, i, m) == m \in i + 1 .. Len(t) /\ Newlines(t, i, m) /\ t[m] # "nl"
ModifierFits(t, i, o) ==
  \/ o = 0 /\ \E m \in i + 1 .. Len(t) : NextIs(t, i, m) /\ t[m] \in Modifiable
  \/ t[i] = "public" /\ Is(t, o, {"type"}) /\ i < Len(t) /\ t[i + 1] = "let"
ModifierMisfits(t, i, o) ==
  \/ o = 0 /\ \E m \in i + 1 .. Len(t) : NextIs(t, i, m) /\ t[m] \notin Modifiable
  \/ o # 0 /\ (t[o] = "type" /\ t[i] = "public" => i < Len(t) /\ t[i + 1] # "let")
PlacedIn(t, i, o)  == IF t[i] \in Modifiers THEN ModifierFits(t, i, o) ELSE Fits(t, i, o)
Misplaced(t, i, o) == IF t[i] \in Modifiers THEN ModifierMisfits(t, i, o) ELSE ~Fits(t, i, o)

(* What may lie on what in the stack.  The functions in Inner parse a part *)
(* of the construct below them; the others a construct of their own, which *)
(* its Word opens.                                                         *)
Inner == {"modified", "modifiedMember", "case"}
Sits(below, kind) ==
  /\ kind \in {"modified", "type", "macro"} => below = "program"
  /\ kind = "fn" => below \in {"program", "type"}
  /\ kind = "modifiedMember" => below = "type"
  /\ kind = "case" => below = "match"
  /\ kind \in {"then", "else", "afterElse", "loop", "try", "catch", "match"} => below \in BlockKinds
  /\ kind \in StackKinds \ {"program"}
Word(kind) ==
  CASE kind \in {"then", "else", "afterElse"} -> "if"
    [] kind \in {"try", "catch"} -> "try"
    [] kind \in {"match", "case"} -> "match"
    [] kind = "modifiedMember" -> "type"
    [] OTHER -> kind

Worded(t, kind, o) == IF kind \in {"program", "modified"} THEN o = 0 ELSE Is(t, o, {Word(kind)})

(* A parser before token p, with stack s: own[n] is the construct function *)
(* n is in.  They are the constructs that enclose p, outermost first.      *)
Frames(t, p, s, own) ==
  /\ s # <<>> /\ own \in Seq(Nat) /\ Len(own) = Len(s)
  /\ s[1] = "program"
  /\ \A n \in 2 .. Len(s) : Sits(s[n - 1], s[n]) /\ (s[n] \in Inner => own[n] = own[n - 1])
  /\ \A n \in 2 .. Len(s) : s[n] \notin Inner => Lev(t, own[n]) = Lev(t, own[n - 1]) + 1
  /\ \A m, n \in 1 .. Len(s) : m < n /\ s[n] \notin Inner => own[m] < own[n] /\ Lev(t, own[m]) < Lev(t, own[n])
  /\ \A n \in 1 .. Len(s) : own[n] < p /\ Worded(t, s[n], own[n])
  /\ \A j \in 1 .. p - 1 : Encloses(t, j, p) <=> \E n \in 1 .. Len(s) : own[n] = j
  /\ Lev(t, p - 1) = Lev(t, own[Len(s)])

(* What an open function of some kind, in construct o, says of the else,   *)
(* catch and case words that o has had before p.                           *)
Says(t, p, kind, o) ==
  /\ kind = "then" => \A k \in 1 .. p - 1 : MarkAt(t, "else", o, k) => Chained(t, k, p)
  /\ kind = "else" => \E k \in 1 .. p - 1 : MarkAt(t, "else", o, k) /\ Unchained(t, k)
  /\ kind = "afterElse" =>
       /\ \A k \in 1 .. p - 1 : MarkAt(t, "else", o, k) => Chained(t, k, p) \/ Newlines(t, k, p)
       /\ \E k \in 1 .. p - 1 : MarkAt(t, "else", o, k) /\ Newlines(t, k, p)
  /\ kind = "try" => \A k \in 1 .. p - 1 : ~MarkAt(t, "catch", o, k)
  /\ kind = "catch" => \E k \in 1 .. p - 1 : MarkAt(t, "catch", o, k)
  /\ kind = "case" => \E k \in 1 .. p - 1 : MarkAt(t, "case", o, k)
(* What the innermost one says besides, of the tokens right before p.      *)
SaysTop(t, p, kind, o) ==
  /\ kind = "match" => \/ \A k \in 1 .. p - 1 : ~MarkAt(t, "case", o, k)
                       \/ p <= Len(t) /\ t[p] \in {"case", "end", "eof"}
  /\ kind = "modified" => \E h \in 1 .. p - 1 : t[h] \in Modifiers /\ Newlines(t, h, p) /\ Owns(t, 0, h)
  /\ kind = "modifiedMember" => AfterPublic(t, p) /\ Owns(t, o, p - 1)
  /\ (\E h \in 1 .. p - 1 : t[h] = "else" /\ Newlines(t, h, p)) =>
       \/ kind = "afterElse"
       \/ kind = "else" /\ p <= Len(t) /\ t[p] \notin {"nl", "if"}
(* The modifier at i, whose place hangs on what is looked at next.           *)
Pending(t, p, kind, i, o) ==
  /\ t[i] \in Modifiers
  /\ \/ kind = "modified" /\ o = 0 /\ Newlines(t, i, p)
     \/ kind = "modifiedMember" /\ t[i] = "public" /\ Is(t, o, {"type"}) /\ i = p - 1

(* The invariant of a parser that has rejected nothing.                    *)
LastOf(s) == s[Len(s)]
PlacedTo(t, p, kind) ==
  \A i \in 1 .. p - 1 : \E o \in 0 .. i - 1 : Owns(t, o, i) /\ (PlacedIn(t, i, o) \/ Pending(t, p, kind, i, o))
Stands(t, p, s, own) ==
  /\ Frames(t, p, s, own)
  /\ \A n \in 1 .. Len(s) : Says(t, p, s[n], own[n])
  /\ SaysTop(t, p, LastOf(s), LastOf(own))
  /\ PlacedTo(t, p, LastOf(s))
(* A text with a token out of place, with a word as the value of a return  *)
(* or a throw, or that ends too early; a good one but for such values.     *)
ValueIn(t, i) == i > 1 /\ t[i - 1] \in {"return", "throw"} /\ t[i] \notin NoValue(t[i - 1])
Valued(t, n)  == \E i \in 1 .. n : ValueIn(t, i)
Wrong(t) ==
  \/ Valued(t, Len(t))
  \/ \E i \in 1 .. Len(t) : \E o \in 0 .. i - 1 : t[i] # "eof" /\ Owns(t, o, i) /\ Misplaced(t, i, o)
  \/ Len(t) > 0 /\ t[Len(t)] = "eof" /\ Lev(t, Len(t)) # 0
Right(t) ==
  /\ \A i \in 1 .. Len(t) : t[i] # "eof" => \E o \in 0 .. i - 1 : Owns(t, o, i) /\ PlacedIn(t, i, o)
  /\ Lev(t, Len(t)) = 0

-----------------------------------------------------------------------------
(* How many constructs are open after one more token, and which enclose it. *)
LEMMA CountStep ==
  ASSUME NEW S, NEW i \in Nat, S \subseteq Nat
  PROVE  /\ Cardinality({j \in 1 .. i : j \in S}) \in Nat
         /\ Cardinality({j \in 1 .. i + 1 : j \in S})
              = Cardinality({j \in 1 .. i : j \in S}) + (IF i + 1 \in S THEN 1 ELSE 0)
         /\ Cardinality({j \in 1 .. 0 : j \in S}) = 0
  <1> DEFINE C == {j \in 1 .. i : j \in S}
  <1> DEFINE D == {j \in 1 .. i + 1 : j \in S}
  <1>1. IsFiniteSet(1 .. i)
    BY FS_Interval
  <1>2. IsFiniteSet(C)
    BY <1>1, FS_Subset, Zenon
  <1>3. Cardinality(C) \in Nat
    BY <1>2, FS_CardinalityType
  <1>4. {j \in 1 .. 0 : j \in S} = {}
    OBVIOUS
  <1>5. Cardinality({j \in 1 .. 0 : j \in S}) = 0
    BY <1>4, FS_EmptySet, Zenon
  <1>6. CASE i + 1 \in S
    <2>1. D = C \cup {i + 1} /\ i + 1 \notin C
      BY <1>6
    <2>2. Cardinality(C \cup {i + 1}) = Cardinality(C) + 1
      BY <1>2, <2>1, FS_AddElement, Zenon
    <2>3. QED
      BY <1>3, <1>5, <1>6, <2>1, <2>2
  <1>7. CASE i + 1 \notin S
    <2>1. D = C
      BY <1>7
    <2>2. QED
      BY <1>3, <1>5, <1>7, <2>1
  <1>8. QED
    BY <1>6, <1>7

(* The level goes up at an opening word and down at an end.                *)
LEMMA LevStep ==
  ASSUME NEW t, NEW i \in Nat
  PROVE  /\ Lev(t, 0) = 0 /\ Lev(t, i) \in Int
         /\ Lev(t, i + 1) = Lev(t, i) + (IF OpensIn(t, i + 1) THEN 1 ELSE 0) - (IF t[i + 1] = "end" THEN 1 ELSE 0)
  <1> DEFINE O == {j \in Nat : OpensIn(t, j)}
  <1> DEFINE E == {j \in Nat : t[j] = "end"}
  <1>1. \A k \in Nat : {j \in 1 .. k : OpensIn(t, j)} = {j \in 1 .. k : j \in O}
    OBVIOUS
  <1>2. \A k \in Nat : {j \in 1 .. k : t[j] = "end"} = {j \in 1 .. k : j \in E}
    OBVIOUS
  <1>3. O \subseteq Nat /\ E \subseteq Nat /\ (i + 1 \in O <=> OpensIn(t, i + 1)) /\ (i + 1 \in E <=> t[i + 1] = "end")
    OBVIOUS
  <1>4. \A k \in Nat : Lev(t, k) = Cardinality({j \in 1 .. k : j \in O}) - Cardinality({j \in 1 .. k : j \in E})
    BY <1>1, <1>2 DEF Lev
  <1> HIDE DEF O, E
  <1>5. /\ Cardinality({j \in 1 .. i : j \in O}) \in Nat
        /\ Cardinality({j \in 1 .. i + 1 : j \in O}) = Cardinality({j \in 1 .. i : j \in O}) + (IF i + 1 \in O THEN 1 ELSE 0)
        /\ Cardinality({j \in 1 .. 0 : j \in O}) = 0
    BY <1>3, CountStep, Zenon
  <1>6. /\ Cardinality({j \in 1 .. i : j \in E}) \in Nat
        /\ Cardinality({j \in 1 .. i + 1 : j \in E}) = Cardinality({j \in 1 .. i : j \in E}) + (IF i + 1 \in E THEN 1 ELSE 0)
        /\ Cardinality({j \in 1 .. 0 : j \in E}) = 0
    BY <1>3, CountStep, Zenon
  <1>7. i + 1 \in Nat /\ 0 \in Nat
    OBVIOUS
  <1>8. /\ Lev(t, 0) = Cardinality({j \in 1 .. 0 : j \in O}) - Cardinality({j \in 1 .. 0 : j \in E})
        /\ Lev(t, i) = Cardinality({j \in 1 .. i : j \in O}) - Cardinality({j \in 1 .. i : j \in E})
        /\ Lev(t, i + 1) = Cardinality({j \in 1 .. i + 1 : j \in O}) - Cardinality({j \in 1 .. i + 1 : j \in E})
    BY <1>4, <1>7, Zenon
  <1> DEFINE o0 == Cardinality({j \in 1 .. 0 : j \in O})
  <1> DEFINE o1 == Cardinality({j \in 1 .. i : j \in O})
  <1> DEFINE o2 == Cardinality({j \in 1 .. i + 1 : j \in O})
  <1> DEFINE e0 == Cardinality({j \in 1 .. 0 : j \in E})
  <1> DEFINE e1 == Cardinality({j \in 1 .. i : j \in E})
  <1> DEFINE e2 == Cardinality({j \in 1 .. i + 1 : j \in E})
  <1>9. /\ Lev(t, 0) = o0 - e0 /\ Lev(t, i) = o1 - e1 /\ Lev(t, i + 1) = o2 - e2
        /\ o1 \in Nat /\ o2 = o1 + (IF i + 1 \in O THEN 1 ELSE 0) /\ o0 = 0
        /\ e1 \in Nat /\ e2 = e1 + (IF i + 1 \in E THEN 1 ELSE 0) /\ e0 = 0
    BY <1>5, <1>6, <1>8, Zenon
  <1> HIDE DEF o0, o1, o2, e0, e1, e2
  <1>10. QED
    BY <1>3, <1>9

LEMMA LevAt ==
  ASSUME NEW t, NEW p \in Nat, p > 0
  PROVE  /\ Lev(t, p) \in Int /\ Lev(t, p - 1) \in Int
         /\ OpensIn(t, p) => Lev(t, p) = Lev(t, p - 1) + 1
         /\ t[p] = "end" => Lev(t, p) = Lev(t, p - 1) - 1
         /\ ~OpensIn(t, p) /\ t[p] # "end" => Lev(t, p) = Lev(t, p - 1)
  <1>1. p - 1 \in Nat /\ (p - 1) + 1 = p
    OBVIOUS
  <1>2. Lev(t, p - 1) \in Int /\ Lev(t, p) \in Int
    BY <1>1, LevStep
  <1>3. Lev(t, p) = Lev(t, p - 1) + (IF OpensIn(t, p) THEN 1 ELSE 0) - (IF t[p] = "end" THEN 1 ELSE 0)
    BY <1>1, LevStep
  <1>4. OpensIn(t, p) => t[p] # "end"
    BY DEF OpensIn
  <1>5. QED
    BY <1>2, <1>3, <1>4

(* What encloses the next place.                                           *)
LEMMA EnclosesStep ==
  ASSUME NEW t, NEW p \in Nat, p > 0
  PROVE  /\ \A j \in 1 .. p - 1 : Encloses(t, j, p + 1) <=> Encloses(t, j, p) /\ Lev(t, p) >= Lev(t, j)
         /\ Encloses(t, p, p + 1) <=> OpensIn(t, p)
         /\ \A j \in 1 .. p - 1 : Encloses(t, j, p) => Lev(t, p - 1) >= Lev(t, j)
  <1>1. \A j \in 1 .. p - 1 : j .. (p + 1) - 1 = (j .. p - 1) \cup {p}
    OBVIOUS
  <1>2. p .. (p + 1) - 1 = {p} /\ Lev(t, p) \in Int
    BY LevStep
  <1>3. \A j \in 1 .. p - 1 : p - 1 \in j .. p - 1
    OBVIOUS
  <1>4. Lev(t, p) >= Lev(t, p)
    BY <1>2
  <1>5. QED
    BY <1>1, <1>2, <1>3, <1>4 DEF Encloses

(* Two texts that begin alike.                                             *)
Alike(t, u, n) == \A k \in 1 .. n : t[k] = u[k]

(* Each notion of the grammar looks at the tokens up to a place only.      *)
LEMMA OpensAlike ==
  ASSUME NEW t, NEW u, NEW n \in Nat, Alike(t, u, n)
  PROVE  \A i \in 1 .. n : (LinkedIn(t, i) <=> LinkedIn(u, i)) /\ (OpensIn(t, i) <=> OpensIn(u, i))
  <1> SUFFICES ASSUME NEW i \in 1 .. n
               PROVE  (LinkedIn(t, i) <=> LinkedIn(u, i)) /\ (OpensIn(t, i) <=> OpensIn(u, i))
    OBVIOUS
  <1>1. \A k \in 1 .. i : t[k] = u[k]
    BY DEF Alike
  <1>2. LinkedIn(t, i) <=> LinkedIn(u, i)
    BY <1>1 DEF LinkedIn
  <1>3. t[i] = u[i]
    BY <1>1
  <1>4. QED
    BY <1>2, <1>3 DEF OpensIn

LEMMA LevAlike ==
  ASSUME NEW t, NEW u, NEW n \in Nat, Alike(t, u, n)
  PROVE  /\ \A i \in 0 .. n : Lev(t, i) = Lev(u, i)
         /\ \A j \in 1 .. n : \A i \in 1 .. n + 1 : Encloses(t, j, i) <=> Encloses(u, j, i)
         /\ \A i \in 1 .. n + 1 : \A o : Owns(t, o, i) <=> Owns(u, o, i)
  <1>1. \A i \in 1 .. n : OpensIn(t, i) <=> OpensIn(u, i)
    BY OpensAlike
  <1>2. \A i \in 1 .. n : t[i] = u[i]
    BY DEF Alike
  <1>3. ASSUME NEW i \in 0 .. n
        PROVE  Lev(t, i) = Lev(u, i)
    <2>1. {j \in 1 .. i : OpensIn(t, j)} = {j \in 1 .. i : OpensIn(u, j)}
      BY <1>1
    <2>2. {j \in 1 .. i : t[j] = "end"} = {j \in 1 .. i : u[j] = "end"}
      BY <1>2
    <2>3. QED
      BY <2>1, <2>2, Zenon DEF Lev
  <1>4. ASSUME NEW j \in 1 .. n, NEW i \in 1 .. n + 1
        PROVE  Encloses(t, j, i) <=> Encloses(u, j, i)
    <2>1. \A k \in j .. i - 1 : Lev(t, k) = Lev(u, k)
      BY <1>3
    <2>2. Lev(t, j) = Lev(u, j)
      BY <1>3
    <2>3. QED
      BY <1>1, <2>1, <2>2 DEF Encloses
  <1>5. ASSUME NEW i \in 1 .. n + 1, NEW o
        PROVE  Owns(t, o, i) <=> Owns(u, o, i)
    <2>1. \A j \in 1 .. i - 1 : Encloses(t, j, i) <=> Encloses(u, j, i)
      BY <1>4
    <2>2. o \in 0 .. i - 1 /\ o # 0 => o \in 1 .. i - 1
      OBVIOUS
    <2>3. QED
      BY <2>1, <2>2 DEF Owns
  <1>6. QED
    BY <1>3, <1>4, <1>5

LEMMA MarksAlike ==
  ASSUME NEW t, NEW u, NEW n \in Nat, Alike(t, u, n)
  PROVE  /\ \A k \in 1 .. n : \A w, o : MarkAt(t, w, o, k) <=> MarkAt(u, w, o, k)
         /\ \A k \in 1 .. n : \A i \in 1 .. n + 1 : Newlines(t, k, i) <=> Newlines(u, k, i)
         /\ \A k \in 1 .. n : \A i \in 1 .. n + 1 : Chained(t, k, i) <=> Chained(u, k, i)
         /\ \A i \in 1 .. n + 1 : AfterPublic(t, i) <=> AfterPublic(u, i)
         /\ \A o \in 0 .. n : \A K : Is(t, o, K) <=> Is(u, o, K)
  <1>1. \A k \in 1 .. n : t[k] = u[k]
    BY DEF Alike
  <1>2. ASSUME NEW k \in 1 .. n, NEW w, NEW o
        PROVE  MarkAt(t, w, o, k) <=> MarkAt(u, w, o, k)
    <2>1. k \in 1 .. n + 1
      OBVIOUS
    <2>2. Owns(t, o, k) <=> Owns(u, o, k)
      BY <2>1, LevAlike, Zenon
    <2>3. QED
      BY <1>1, <2>2 DEF MarkAt
  <1>3. ASSUME NEW k \in 1 .. n, NEW i \in 1 .. n + 1
        PROVE  Newlines(t, k, i) <=> Newlines(u, k, i)
    BY <1>1 DEF Newlines
  <1>4. ASSUME NEW k \in 1 .. n, NEW i \in 1 .. n + 1
        PROVE  Chained(t, k, i) <=> Chained(u, k, i)
    <2>1. \A l \in k + 1 .. i - 1 : l \in 1 .. n /\ l \in 1 .. n + 1
      OBVIOUS
    <2>2. \A l \in k + 1 .. i - 1 : t[l] = u[l] /\ (Newlines(t, k, l) <=> Newlines(u, k, l))
      BY <1>1, <1>3, <2>1
    <2>3. QED
      BY <2>2 DEF Chained
  <1>5. ASSUME NEW i \in 1 .. n + 1
        PROVE  AfterPublic(t, i) <=> AfterPublic(u, i)
    BY <1>1 DEF AfterPublic
  <1>6. ASSUME NEW o \in 0 .. n, NEW K
        PROVE  Is(t, o, K) <=> Is(u, o, K)
    <2>1. o # 0 => o \in 1 .. n
      OBVIOUS
    <2>2. QED
      BY <1>1, <2>1 DEF Is
  <1>7. QED
    BY <1>2, <1>3, <1>4, <1>5, <1>6

LEMMA FitsAlike ==
  ASSUME NEW t, NEW u, NEW n \in Nat, Alike(t, u, n), NEW i \in 1 .. n, NEW o \in 0 .. i - 1
  PROVE  Fits(t, i, o) <=> Fits(u, i, o)
  <1>1. t[i] = u[i]
    BY DEF Alike
  <1>2. \A K : Is(t, o, K) <=> Is(u, o, K)
    <2>1. o \in 0 .. n
      OBVIOUS
    <2>2. QED
      BY <2>1, MarksAlike, Zenon
  <1>3. \A k \in 1 .. i - 1 : \A w : MarkAt(t, w, o, k) <=> MarkAt(u, w, o, k)
    <2>1. \A k \in 1 .. i - 1 : k \in 1 .. n
      OBVIOUS
    <2>2. QED
      BY <2>1, MarksAlike, Zenon
  <1>4. \A k \in 1 .. i - 1 : Chained(t, k, i) <=> Chained(u, k, i)
    <2>1. i \in 1 .. n + 1 /\ \A k \in 1 .. i - 1 : k \in 1 .. n
      OBVIOUS
    <2>2. QED
      BY <2>1, MarksAlike, Zenon
  <1>6. InStatements(t, i, o) <=> InStatements(u, i, o)
    BY <1>2, <1>3, Zenon DEF InStatements
  <1>7. QED
    BY <1>1, <1>2, <1>3, <1>4, <1>6, Zenon DEF Fits

-----------------------------------------------------------------------------
(* Sequences, and the stack against the constructs that enclose a place.   *)
FrontOf(s) == SubSeq(s, 1, Len(s) - 1)

(* The sequences that Push, Rest and Replace make.                         *)
LEMMA AppendIs ==
  ASSUME NEW V, NEW s \in Seq(V), NEW x \in V
  PROVE  /\ Append(s, x) \in Seq(V) /\ Append(s, x) # <<>> /\ Len(Append(s, x)) = Len(s) + 1
         /\ Append(s, x)[Len(s) + 1] = x
         /\ \A n \in 1 .. Len(s) : Append(s, x)[n] = s[n]
  OBVIOUS

LEMMA FrontIs ==
  ASSUME NEW V, NEW s \in Seq(V), s # <<>>
  PROVE  /\ FrontOf(s) \in Seq(V) /\ Len(FrontOf(s)) = Len(s) - 1 /\ Len(s) > 0
         /\ \A n \in 1 .. Len(s) - 1 : FrontOf(s)[n] = s[n]
         /\ s[Len(s)] \in V
  <1>1. Len(s) \in Nat /\ Len(s) > 0
    OBVIOUS
  <1> DEFINE n == Len(s) - 1
  <1>2. n \in Nat /\ n <= Len(s) /\ n + 1 = Len(s)
    BY <1>1
  <1> HIDE DEF n
  <1>3. /\ SubSeq(s, 1, n) \in Seq(V) /\ Len(SubSeq(s, 1, n)) = n
        /\ \A i \in 1 .. n : SubSeq(s, 1, n)[i] = s[i]
    BY <1>2
  <1>4. FrontOf(s) = SubSeq(s, 1, n)
    BY DEF FrontOf, n
  <1>5. n = Len(s) - 1
    BY DEF n
  <1>6. s[Len(s)] \in V
    BY <1>1
  <1>7. QED
    BY <1>1, <1>3, <1>4, <1>5, <1>6

(* What the function below another one can be.                             *)
LEMMA SitsApart ==
  ASSUME NEW below, NEW kind, Sits(below, kind)
  PROVE  /\ kind \in StackKinds \ {"program"} /\ below # "afterElse"
         /\ kind \in Inner => below \in {"program", "match", "type"}
         /\ below \in Inner => below = "case" /\ kind \notin Inner
         /\ kind = "modified" => below = "program"
         /\ kind = "case" => below = "match"
         /\ kind = "modifiedMember" => below = "type"
         /\ kind \in {"then", "else", "afterElse", "loop", "try", "catch", "match"} => below \in BlockKinds
  BY DEF Sits, Inner, BlockKinds, StackKinds

(* Where the top construct of the stack is, and that it owns the place.    *)
LEMMA TopOwns ==
  ASSUME NEW V, NEW t, NEW p \in Nat, p > 0, NEW s \in Seq(V), NEW own, Frames(t, p, s, own)
  PROVE  /\ LastOf(own) \in Nat /\ LastOf(own) < p /\ Worded(t, LastOf(s), LastOf(own))
         /\ \A n \in 1 .. Len(s) : own[n] \in Nat /\ own[n] <= LastOf(own) /\ own[n] < p
         /\ Owns(t, LastOf(own), p)
         /\ Len(s) > 0 /\ Len(own) = Len(s) /\ own[1] = 0
         /\ LastOf(own) = own[Len(s)]
  <1>1. Len(s) \in Nat /\ Len(s) > 0 /\ Len(own) = Len(s) /\ own \in Seq(Nat)
    BY DEF Frames
  <1>2. \A n \in 1 .. Len(s) : own[n] \in Nat /\ own[n] < p
    BY <1>1 DEF Frames
  <1>3. LastOf(own) = own[Len(s)] /\ LastOf(s) = s[Len(s)] /\ Len(s) \in 1 .. Len(s)
    BY <1>1 DEF LastOf
  <1>4. ASSUME NEW n \in 1 .. Len(s)
        PROVE  own[n] <= own[Len(s)]
    <2>1. CASE n = Len(s)
      BY <1>2, <2>1
    <2>2. CASE n < Len(s) /\ s[Len(s)] \notin Inner
      <3>1. own[n] < own[Len(s)]
        BY <1>3, <2>2 DEF Frames
      <3>2. QED
        BY <1>2, <1>3, <3>1
    <2>3. CASE n < Len(s) /\ s[Len(s)] \in Inner
      <3>1. Len(s) \in 2 .. Len(s) /\ Len(s) - 1 \in 1 .. Len(s)
        BY <1>1, <2>3
      <3>2. own[Len(s)] = own[Len(s) - 1] /\ Sits(s[Len(s) - 1], s[Len(s)])
        BY <2>3, <3>1 DEF Frames
      <3>3. CASE n = Len(s) - 1
        BY <1>2, <3>1, <3>2, <3>3
      <3>4. CASE n < Len(s) - 1
        <4>1. s[Len(s) - 1] \notin Inner
          <5>1. s[Len(s) - 1] \in {"program", "match", "type"}
            BY <2>3, <3>2, SitsApart
          <5>2. QED
            BY <5>1 DEF Inner
        <4>2. own[n] < own[Len(s) - 1]
          BY <3>1, <3>4, <4>1 DEF Frames
        <4>3. own[n] \in Nat /\ own[Len(s) - 1] \in Nat
          BY <1>2, <3>1
        <4>4. QED
          BY <3>2, <4>2, <4>3
      <3>5. QED
        BY <1>1, <2>3, <3>3, <3>4
    <2>4. QED
      BY <1>1, <2>1, <2>2, <2>3
  <1>5. Worded(t, LastOf(s), LastOf(own))
    BY <1>3 DEF Frames
  <1>6. own[1] = 0
    <2>1. Worded(t, s[1], own[1]) /\ s[1] = "program"
      BY <1>1 DEF Frames
    <2>2. QED
      BY <2>1 DEF Worded
  <1>7. Owns(t, LastOf(own), p)
    <2>1. LastOf(own) \in 0 .. p - 1
      BY <1>2, <1>3
    <2>2. ASSUME LastOf(own) # 0
          PROVE  Encloses(t, LastOf(own), p)
      <3>1. LastOf(own) \in 1 .. p - 1
        BY <2>1, <2>2
      <3>2. QED
        BY <1>3, <3>1 DEF Frames
    <2>3. ASSUME NEW j \in 1 .. p - 1, Encloses(t, j, p)
          PROVE  j <= LastOf(own)
      <3>1. PICK n \in 1 .. Len(s) : own[n] = j
        BY <2>3 DEF Frames
      <3>2. QED
        BY <1>3, <1>4, <3>1
    <2>4. QED
      BY <2>1, <2>2, <2>3 DEF Owns
  <1>8. QED
    BY <1>1, <1>2, <1>3, <1>4, <1>5, <1>6, <1>7

(* A place has one owner.                                                  *)
LEMMA OwnerIsOne ==
  ASSUME NEW t, NEW i \in Nat, NEW a, NEW b, Owns(t, a, i), Owns(t, b, i)
  PROVE  a = b
  <1>1. a \in Nat /\ b \in Nat /\ (a # 0 => a \in 1 .. i - 1) /\ (b # 0 => b \in 1 .. i - 1)
    BY DEF Owns
  <1>2. (a # 0 => a <= b) /\ (b # 0 => b <= a)
    BY <1>1 DEF Owns
  <1>3. QED
    BY <1>1, <1>2

(* A token that neither opens nor ends a construct.                        *)
LEMMA FramesPlain ==
  ASSUME NEW V, NEW t, NEW p \in Nat, p > 0, NEW s \in Seq(V), NEW own, Frames(t, p, s, own),
         ~OpensIn(t, p), t[p] # "end"
  PROVE  Frames(t, p + 1, s, own)
  <1>1. Lev(t, p) = Lev(t, p - 1) /\ Lev(t, p) \in Int /\ Lev(t, p - 1) \in Int
    BY LevAt
  <1>2. \A n \in 1 .. Len(s) : own[n] \in Nat /\ own[n] < p
    BY TopOwns
  <1>3. ASSUME NEW j \in 1 .. (p + 1) - 1
        PROVE  Encloses(t, j, p + 1) <=> \E n \in 1 .. Len(s) : own[n] = j
    <2>1. CASE j = p
      <3>1. ~Encloses(t, j, p + 1)
        BY <2>1, EnclosesStep
      <3>2. QED
        BY <1>2, <2>1, <3>1
    <2>2. CASE j \in 1 .. p - 1
      <3>1. Encloses(t, j, p + 1) <=> Encloses(t, j, p)
        BY <1>1, <2>2, EnclosesStep
      <3>2. QED
        BY <2>2, <3>1 DEF Frames
    <2>3. QED
      BY <2>1, <2>2
  <1>4. \A n \in 1 .. Len(s) : own[n] < p + 1
    BY <1>2
  <1>5. Lev(t, (p + 1) - 1) = Lev(t, own[Len(s)])
    BY <1>1 DEF Frames
  <1>6. QED
    BY <1>3, <1>4, <1>5 DEF Frames

(* One that opens a construct.                                             *)
LEMMA FramesPush ==
  ASSUME NEW V, NEW t, NEW p \in Nat, p > 0, NEW s \in Seq(V), NEW own, Frames(t, p, s, own),
         NEW kind \in V, OpensIn(t, p), Word(kind) = t[p], kind \notin Inner, Sits(LastOf(s), kind)
  PROVE  Frames(t, p + 1, Append(s, kind), Append(own, p))
  <1> DEFINE s2 == Append(s, kind)
  <1> DEFINE own2 == Append(own, p)
  <1>0. own \in Seq(Nat) /\ Len(own) = Len(s) /\ Len(s) \in Nat /\ Len(s) > 0 /\ LastOf(s) = s[Len(s)]
    BY DEF Frames, LastOf
  <1>s. /\ s2 # <<>> /\ Len(s2) = Len(s) + 1 /\ s2[Len(s) + 1] = kind
        /\ \A n \in 1 .. Len(s) : s2[n] = s[n]
    BY AppendIs
  <1>o. /\ own2 \in Seq(Nat) /\ Len(own2) = Len(s) + 1 /\ own2[Len(s) + 1] = p
        /\ \A n \in 1 .. Len(s) : own2[n] = own[n]
    BY <1>0, AppendIs
  <1> HIDE DEF s2, own2
  <1>1. Lev(t, p) = Lev(t, p - 1) + 1 /\ Lev(t, p) \in Int /\ Lev(t, p - 1) \in Int
    BY LevAt
  <1>2. \A n \in 1 .. Len(s) : own[n] \in Nat /\ own[n] < p
    BY TopOwns
  <1>3. Lev(t, p - 1) = Lev(t, own[Len(s)])
    BY DEF Frames
  <1>4. ASSUME NEW n \in 1 .. Len(s)
        PROVE  Lev(t, own[n]) < Lev(t, p)
    <2>1. CASE n = Len(s)
      BY <1>1, <1>3, <2>1
    <2>2. CASE n # Len(s)
      <3>0. n < Len(s) /\ Len(s) \in 1 .. Len(s) /\ Len(s) - 1 \in 1 .. Len(s)
        BY <1>0, <2>2
      <3>d. \A m \in 1 .. Len(s) : Lev(t, own[m]) \in Int
        BY <1>2, LevStep
      <3>1. CASE s[Len(s)] \notin Inner
        <4>1. Lev(t, own[n]) < Lev(t, own[Len(s)])
          BY <3>0, <3>1 DEF Frames
        <4>2. QED
          BY <1>1, <1>3, <3>0, <3>d, <4>1
      <3>2. CASE s[Len(s)] \in Inner
        <4>1. Len(s) # 1
          <5>1. s[1] = "program"
            BY DEF Frames
          <5>2. QED
            BY <3>2, <5>1 DEF Inner
        <4>2. Len(s) \in 2 .. Len(s)
          BY <1>0, <4>1
        <4>3. own[Len(s)] = own[Len(s) - 1] /\ Sits(s[Len(s) - 1], s[Len(s)])
          BY <3>2, <4>2 DEF Frames
        <4>4. s[Len(s) - 1] \notin Inner
          <5>1. s[Len(s) - 1] \in {"program", "match", "type"}
            BY <3>2, <4>3, SitsApart
          <5>2. QED
            BY <5>1 DEF Inner
        <4>5. CASE n = Len(s) - 1
          BY <1>1, <1>3, <4>3, <4>5
        <4>6. CASE n < Len(s) - 1
          <5>1. Lev(t, own[n]) < Lev(t, own[Len(s) - 1])
            BY <3>0, <4>4, <4>6 DEF Frames
          <5>2. QED
            BY <1>1, <1>3, <3>0, <3>d, <4>3, <5>1
        <4>7. QED
          BY <1>0, <3>0, <4>5, <4>6
      <3>3. QED
        BY <3>1, <3>2
    <2>3. QED
      BY <2>1, <2>2
  <1>5. s2[1] = "program"
    <2>1. 1 \in 1 .. Len(s) /\ s[1] = "program"
      BY <1>0 DEF Frames
    <2>2. QED
      BY <1>s, <2>1
  <1>6. ASSUME NEW n \in 2 .. Len(s2)
        PROVE  /\ Sits(s2[n - 1], s2[n]) /\ (s2[n] \in Inner => own2[n] = own2[n - 1])
               /\ s2[n] \notin Inner => Lev(t, own2[n]) = Lev(t, own2[n - 1]) + 1
    <2>1. CASE n = Len(s) + 1
      <3>1. n - 1 = Len(s) /\ Len(s) \in 1 .. Len(s)
        BY <1>0, <2>1
      <3>2. s2[n] = kind /\ s2[n - 1] = LastOf(s) /\ own2[n] = p /\ own2[n - 1] = own[Len(s)]
        BY <1>0, <1>s, <1>o, <2>1, <3>1
      <3>3. QED
        BY <1>1, <1>3, <3>2
    <2>2. CASE n # Len(s) + 1
      <3>1. n \in 2 .. Len(s) /\ n \in 1 .. Len(s) /\ n - 1 \in 1 .. Len(s)
        BY <1>0, <1>s, <2>2
      <3>2. s2[n] = s[n] /\ s2[n - 1] = s[n - 1] /\ own2[n] = own[n] /\ own2[n - 1] = own[n - 1]
        BY <1>s, <1>o, <3>1
      <3>3. QED
        BY <3>1, <3>2 DEF Frames
    <2>3. QED
      BY <2>1, <2>2
  <1>7. ASSUME NEW m \in 1 .. Len(s2), NEW n \in 1 .. Len(s2), m < n, s2[n] \notin Inner
        PROVE  own2[m] < own2[n] /\ Lev(t, own2[m]) < Lev(t, own2[n])
    <2>0. m \in 1 .. Len(s)
      BY <1>0, <1>s, <1>7
    <2>1. CASE n = Len(s) + 1
      <3>1. own2[n] = p /\ own2[m] = own[m]
        BY <1>o, <2>0, <2>1
      <3>2. QED
        BY <1>2, <1>4, <2>0, <3>1
    <2>2. CASE n # Len(s) + 1
      <3>1. n \in 1 .. Len(s)
        BY <1>0, <1>s, <2>2
      <3>2. s2[n] = s[n] /\ own2[n] = own[n] /\ own2[m] = own[m]
        BY <1>s, <1>o, <2>0, <3>1
      <3>3. QED
        BY <1>7, <2>0, <3>1, <3>2 DEF Frames
    <2>3. QED
      BY <2>1, <2>2
  <1>8. ASSUME NEW n \in 1 .. Len(s2)
        PROVE  own2[n] < p + 1 /\ Worded(t, s2[n], own2[n])
    <2>1. CASE n = Len(s) + 1
      <3>1. own2[n] = p /\ s2[n] = kind
        BY <1>s, <1>o, <2>1
      <3>2. kind \notin {"program", "modified"}
        BY SitsApart DEF Inner
      <3>3. QED
        BY <3>1, <3>2 DEF Worded, Is
    <2>2. CASE n # Len(s) + 1
      <3>1. n \in 1 .. Len(s)
        BY <1>0, <1>s, <2>2
      <3>2. s2[n] = s[n] /\ own2[n] = own[n]
        BY <1>s, <1>o, <3>1
      <3>3. Worded(t, s[n], own[n])
        BY <3>1 DEF Frames
      <3>4. QED
        BY <1>2, <3>1, <3>2, <3>3
    <2>3. QED
      BY <2>1, <2>2
  <1>9. ASSUME NEW j \in 1 .. (p + 1) - 1
        PROVE  Encloses(t, j, p + 1) <=> \E n \in 1 .. Len(s2) : own2[n] = j
    <2>1. CASE j = p
      <3>1. Encloses(t, j, p + 1)
        BY <2>1, EnclosesStep
      <3>2. Len(s) + 1 \in 1 .. Len(s2) /\ own2[Len(s) + 1] = j
        BY <1>0, <1>s, <1>o, <2>1
      <3>3. QED
        BY <3>1, <3>2
    <2>2. CASE j \in 1 .. p - 1
      <3>1. Encloses(t, j, p) => Lev(t, p) >= Lev(t, j)
        <4>1. Lev(t, j) \in Int
          BY <2>2, LevStep
        <4>2. Encloses(t, j, p) => Lev(t, p - 1) >= Lev(t, j)
          BY <2>2, EnclosesStep
        <4>3. QED
          BY <1>1, <4>1, <4>2
      <3>2. Encloses(t, j, p + 1) <=> Encloses(t, j, p)
        BY <2>2, <3>1, EnclosesStep
      <3>3. Encloses(t, j, p) <=> \E n \in 1 .. Len(s) : own[n] = j
        BY <2>2 DEF Frames
      <3>4. (\E n \in 1 .. Len(s) : own[n] = j) <=> \E n \in 1 .. Len(s2) : own2[n] = j
        <4>1. \A n \in 1 .. Len(s2) : n \in 1 .. Len(s) \/ n = Len(s) + 1
          BY <1>0, <1>s
        <4>2. \A n \in 1 .. Len(s) : n \in 1 .. Len(s2)
          BY <1>0, <1>s
        <4>3. j # p
          BY <2>2
        <4>4. QED
          BY <1>o, <4>1, <4>2, <4>3
      <3>5. QED
        BY <3>2, <3>3, <3>4
    <2>3. QED
      BY <2>1, <2>2
  <1>10. Lev(t, (p + 1) - 1) = Lev(t, own2[Len(s2)])
    <2>1. own2[Len(s2)] = p /\ (p + 1) - 1 = p
      BY <1>s, <1>o
    <2>2. QED
      BY <2>1
  <1>11. Len(own2) = Len(s2) /\ own2 \in Seq(Nat) /\ s2 # <<>>
    BY <1>s, <1>o
  <1>12. Frames(t, p + 1, s2, own2)
    BY <1>5, <1>6, <1>7, <1>8, <1>9, <1>10, <1>11 DEF Frames
  <1>13. QED
    BY <1>12 DEF s2, own2

-----------------------------------------------------------------------------
(* The end of the top construct.                                           *)
LEMMA FramesEnd ==
  ASSUME NEW V, NEW t, NEW p \in Nat, p > 0, NEW s \in Seq(V), NEW own, Frames(t, p, s, own),
         t[p] = "end", LastOf(s) \notin Inner \cup {"program"}
  PROVE  Frames(t, p + 1, FrontOf(s), FrontOf(own))
  <1> DEFINE s2 == FrontOf(s)
  <1> DEFINE own2 == FrontOf(own)
  <1> DEFINE l == Len(s)
  <1>0. own \in Seq(Nat) /\ Len(own) = l /\ l \in Nat /\ l > 0 /\ LastOf(s) = s[l] /\ s # <<>> /\ own # <<>>
    BY DEF Frames, LastOf
  <1>s. Len(s2) = l - 1 /\ \A n \in 1 .. l - 1 : s2[n] = s[n]
    BY <1>0, FrontIs
  <1>o. own2 \in Seq(Nat) /\ Len(own2) = l - 1 /\ \A n \in 1 .. l - 1 : own2[n] = own[n]
    BY <1>0, FrontIs
  <1> HIDE DEF s2, own2, l
  <1>1. l > 1
    <2>1. s[1] = "program"
      BY DEF Frames
    <2>2. QED
      BY <1>0, <2>1
  <1>2. \A n \in 1 .. l : own[n] \in Nat /\ own[n] < p
    BY TopOwns DEF l
  <1>2a. \A n \in 1 .. l : Lev(t, own[n]) \in Int
    BY <1>2, LevStep
  <1>3. Lev(t, p - 1) = Lev(t, own[l])
    BY DEF Frames, l
  <1>4. Lev(t, p) = Lev(t, p - 1) - 1 /\ Lev(t, p) \in Int /\ Lev(t, p - 1) \in Int
    BY LevAt
  <1>5. Lev(t, own[l]) = Lev(t, own[l - 1]) + 1
    <2>1. l \in 2 .. l /\ s[l] \notin Inner
      BY <1>0, <1>1
    <2>2. QED
      BY <2>1 DEF Frames, l
  <1>6. \A m \in 1 .. l - 1 : own[m] < own[l] /\ Lev(t, own[m]) < Lev(t, own[l])
    <2>1. l \in 1 .. l /\ s[l] \notin Inner /\ \A m \in 1 .. l - 1 : m \in 1 .. l /\ m < l
      BY <1>0, <1>1
    <2>2. QED
      BY <2>1 DEF Frames, l
  <1>7. s2 # <<>> /\ s2[1] = "program"
    <2>1. s[1] = "program" /\ 1 \in 1 .. l - 1
      BY <1>0, <1>1 DEF Frames
    <2>2. QED
      BY <1>s, <2>1
  <1>8. ASSUME NEW n \in 2 .. Len(s2)
        PROVE  /\ Sits(s2[n - 1], s2[n]) /\ (s2[n] \in Inner => own2[n] = own2[n - 1])
               /\ s2[n] \notin Inner => Lev(t, own2[n]) = Lev(t, own2[n - 1]) + 1
    <2>1. n \in 2 .. l /\ n \in 1 .. l - 1 /\ n - 1 \in 1 .. l - 1
      BY <1>0, <1>s
    <2>2. s2[n] = s[n] /\ s2[n - 1] = s[n - 1] /\ own2[n] = own[n] /\ own2[n - 1] = own[n - 1]
      BY <1>s, <1>o, <2>1
    <2>3. QED
      BY <2>1, <2>2 DEF Frames, l
  <1>9. ASSUME NEW m \in 1 .. Len(s2), NEW n \in 1 .. Len(s2), m < n, s2[n] \notin Inner
        PROVE  own2[m] < own2[n] /\ Lev(t, own2[m]) < Lev(t, own2[n])
    <2>1. m \in 1 .. l - 1 /\ n \in 1 .. l - 1 /\ m \in 1 .. l /\ n \in 1 .. l
      BY <1>0, <1>s
    <2>2. s2[n] = s[n] /\ own2[n] = own[n] /\ own2[m] = own[m]
      BY <1>s, <1>o, <2>1
    <2>3. QED
      BY <1>9, <2>1, <2>2 DEF Frames, l
  <1>10. ASSUME NEW n \in 1 .. Len(s2)
         PROVE  own2[n] < p + 1 /\ Worded(t, s2[n], own2[n])
    <2>1. n \in 1 .. l - 1 /\ n \in 1 .. l
      BY <1>0, <1>s
    <2>2. s2[n] = s[n] /\ own2[n] = own[n]
      BY <1>s, <1>o, <2>1
    <2>3. Worded(t, s[n], own[n])
      BY <2>1 DEF Frames, l
    <2>4. QED
      BY <1>2, <2>1, <2>2, <2>3
  <1>11. ASSUME NEW j \in 1 .. (p + 1) - 1
         PROVE  Encloses(t, j, p + 1) <=> \E n \in 1 .. Len(s2) : own2[n] = j
    <2>1. CASE j = p
      <3>1. ~Encloses(t, j, p + 1)
        BY <2>1, EnclosesStep DEF OpensIn
      <3>2. \A n \in 1 .. Len(s2) : own2[n] # p
        <4>0. \A n \in 1 .. l - 1 : n \in 1 .. l
          BY <1>0
        <4>1. \A n \in 1 .. l - 1 : own[n] # p
          BY <1>2, <4>0
        <4>2. QED
          BY <1>s, <1>o, <4>1
      <3>3. QED
        BY <2>1, <3>1, <3>2
    <2>2. CASE j \in 1 .. p - 1
      <3>1. Encloses(t, j, p + 1) <=> Encloses(t, j, p) /\ Lev(t, p) >= Lev(t, j)
        BY <2>2, EnclosesStep
      <3>2. Encloses(t, j, p) <=> \E n \in 1 .. l : own[n] = j
        BY <2>2 DEF Frames, l
      <3>3. \A n \in 1 .. l : Lev(t, p) >= Lev(t, own[n]) <=> n # l
        <4>1. ~(Lev(t, p) >= Lev(t, own[l]))
          BY <1>3, <1>4
        <4>2. ASSUME NEW n \in 1 .. l, n # l
              PROVE  Lev(t, p) >= Lev(t, own[n])
          <5>1. n \in 1 .. l - 1
            BY <1>0, <4>2
          <5>2. Lev(t, own[n]) < Lev(t, own[l]) /\ Lev(t, own[n]) \in Int
            BY <1>6, <1>2a, <5>1
          <5>3. QED
            BY <1>3, <1>4, <5>2
        <4>3. QED
          BY <4>1, <4>2
      <3>4. (\E n \in 1 .. Len(s2) : own2[n] = j) <=> \E n \in 1 .. l : own[n] = j /\ n # l
        <4>1. \A n \in 1 .. l : n # l => n \in 1 .. l - 1
          BY <1>0
        <4>2. \A n \in 1 .. l - 1 : n \in 1 .. l /\ n # l
          BY <1>0
        <4>3. QED
          BY <1>s, <1>o, <4>1, <4>2
      <3>5. QED
        BY <3>1, <3>2, <3>3, <3>4
    <2>3. QED
      BY <2>1, <2>2
  <1>12. Lev(t, (p + 1) - 1) = Lev(t, own2[Len(s2)])
    <2>1. Len(s2) = l - 1 /\ own2[l - 1] = own[l - 1] /\ (p + 1) - 1 = p /\ l - 1 \in 1 .. l
      BY <1>0, <1>1, <1>s, <1>o
    <2>2. Lev(t, own[l - 1]) \in Int
      BY <1>2a, <2>1
    <2>3. QED
      BY <1>3, <1>4, <1>5, <2>1, <2>2
  <1>13. Len(own2) = Len(s2)
    BY <1>s, <1>o
  <1>14. Frames(t, p + 1, s2, own2)
    BY <1>o, <1>7, <1>8, <1>9, <1>10, <1>11, <1>12, <1>13 DEF Frames
  <1>15. QED
    BY <1>14 DEF s2, own2

(* A frame for a part of the top construct, on top.                        *)
LEMMA FramesInner ==
  ASSUME NEW V, NEW t, NEW p \in Nat, p > 0, NEW s \in Seq(V), NEW own, Frames(t, p, s, own),
         NEW kind \in V, kind \in Inner, Sits(LastOf(s), kind)
  PROVE  Frames(t, p, Append(s, kind), Append(own, LastOf(own)))
  <1> DEFINE s2 == Append(s, kind)
  <1> DEFINE o == LastOf(own)
  <1> DEFINE own2 == Append(own, o)
  <1> DEFINE l == Len(s)
  <1>0. own \in Seq(Nat) /\ Len(own) = l /\ l \in Nat /\ l > 0 /\ LastOf(s) = s[l] /\ o \in Nat /\ o = own[l]
    BY DEF Frames, LastOf
  <1>s. Len(s2) = l + 1 /\ s2[l + 1] = kind /\ s2 # <<>> /\ \A n \in 1 .. l : s2[n] = s[n]
    BY <1>0, AppendIs
  <1>o. own2 \in Seq(Nat) /\ Len(own2) = l + 1 /\ own2[l + 1] = o /\ \A n \in 1 .. l : own2[n] = own[n]
    BY <1>0, AppendIs
  <1>w. o < p /\ Worded(t, LastOf(s), o)
    BY TopOwns
  <1> HIDE DEF s2, own2, l, o
  <1>1. s2[1] = "program"
    <2>1. s[1] = "program" /\ 1 \in 1 .. l
      BY <1>0 DEF Frames
    <2>2. QED
      BY <1>s, <2>1
  <1>2. ASSUME NEW n \in 2 .. Len(s2)
        PROVE  /\ Sits(s2[n - 1], s2[n]) /\ (s2[n] \in Inner => own2[n] = own2[n - 1])
               /\ s2[n] \notin Inner => Lev(t, own2[n]) = Lev(t, own2[n - 1]) + 1
    <2>1. CASE n = l + 1
      <3>1. n - 1 = l /\ l \in 1 .. l
        BY <1>0, <2>1
      <3>2. s2[n] = kind /\ s2[n - 1] = LastOf(s) /\ own2[n] = o /\ own2[n - 1] = o
        BY <1>0, <1>s, <1>o, <2>1, <3>1
      <3>3. QED
        BY <3>2
    <2>2. CASE n # l + 1
      <3>1. n \in 2 .. l /\ n \in 1 .. l /\ n - 1 \in 1 .. l
        BY <1>0, <1>s, <2>2
      <3>2. s2[n] = s[n] /\ s2[n - 1] = s[n - 1] /\ own2[n] = own[n] /\ own2[n - 1] = own[n - 1]
        BY <1>s, <1>o, <3>1
      <3>3. QED
        BY <3>1, <3>2 DEF Frames, l
    <2>3. QED
      BY <2>1, <2>2
  <1>3. ASSUME NEW m \in 1 .. Len(s2), NEW n \in 1 .. Len(s2), m < n, s2[n] \notin Inner
        PROVE  own2[m] < own2[n] /\ Lev(t, own2[m]) < Lev(t, own2[n])
    <2>1. n # l + 1
      BY <1>3, <1>s
    <2>2. m \in 1 .. l /\ n \in 1 .. l
      BY <1>0, <1>s, <1>3, <2>1
    <2>3. s2[n] = s[n] /\ own2[n] = own[n] /\ own2[m] = own[m]
      BY <1>s, <1>o, <2>2
    <2>4. QED
      BY <1>3, <2>2, <2>3 DEF Frames, l
  <1>4. ASSUME NEW n \in 1 .. Len(s2)
        PROVE  own2[n] < p /\ Worded(t, s2[n], own2[n])
    <2>1. CASE n = l + 1
      <3>1. own2[n] = o /\ s2[n] = kind
        BY <1>s, <1>o, <2>1
      <3>2. Worded(t, kind, o)
        <4>1. /\ kind = "modified" => LastOf(s) = "program"
              /\ kind = "case" => LastOf(s) = "match"
              /\ kind = "modifiedMember" => LastOf(s) = "type"
          BY SitsApart
        <4>2. QED
          BY <1>w, <4>1 DEF Worded, Word, Inner
      <3>3. QED
        BY <1>w, <3>1, <3>2
    <2>2. CASE n # l + 1
      <3>1. n \in 1 .. l
        BY <1>0, <1>s, <2>2
      <3>2. s2[n] = s[n] /\ own2[n] = own[n]
        BY <1>s, <1>o, <3>1
      <3>3. own[n] < p /\ Worded(t, s[n], own[n])
        BY <3>1 DEF Frames, l
      <3>4. QED
        BY <3>2, <3>3
    <2>3. QED
      BY <2>1, <2>2
  <1>5. ASSUME NEW j \in 1 .. p - 1
        PROVE  Encloses(t, j, p) <=> \E n \in 1 .. Len(s2) : own2[n] = j
    <2>1. Encloses(t, j, p) <=> \E n \in 1 .. l : own[n] = j
      BY DEF Frames, l
    <2>2. \A n \in 1 .. Len(s2) : n \in 1 .. l \/ n = l + 1
      BY <1>0, <1>s
    <2>3. \A n \in 1 .. l : n \in 1 .. Len(s2)
      BY <1>0, <1>s
    <2>4. l \in 1 .. l
      BY <1>0
    <2>5. QED
      BY <1>0, <1>o, <2>1, <2>2, <2>3, <2>4
  <1>6. Lev(t, p - 1) = Lev(t, own2[Len(s2)])
    <2>1. own2[Len(s2)] = own[l]
      BY <1>0, <1>s, <1>o
    <2>2. Lev(t, p - 1) = Lev(t, own[l])
      BY DEF Frames, l
    <2>3. QED
      BY <2>1, <2>2
  <1>7. Len(own2) = Len(s2)
    BY <1>s, <1>o
  <1>8. Frames(t, p, s2, own2)
    BY <1>s, <1>o, <1>1, <1>2, <1>3, <1>4, <1>5, <1>6, <1>7 DEF Frames
  <1>9. QED
    BY <1>8 DEF s2, own2, o

(* Such a frame taken off.                                                 *)
LEMMA FramesOuter ==
  ASSUME NEW t, NEW p \in Nat, p > 0, NEW s \in Seq(StackKinds), NEW own, Frames(t, p, s, own),
         LastOf(s) \in Inner
  PROVE  /\ Frames(t, p, FrontOf(s), FrontOf(own))
         /\ LastOf(FrontOf(own)) = LastOf(own)
         /\ LastOf(FrontOf(s)) = s[Len(s) - 1] /\ Len(s) > 1
         /\ Sits(s[Len(s) - 1], LastOf(s))
  <1> DEFINE s2 == FrontOf(s)
  <1> DEFINE own2 == FrontOf(own)
  <1> DEFINE l == Len(s)
  <1>0. own \in Seq(Nat) /\ Len(own) = l /\ l \in Nat /\ l > 0 /\ LastOf(s) = s[l] /\ s # <<>> /\ own # <<>>
    BY DEF Frames, LastOf
  <1>s. Len(s2) = l - 1 /\ \A n \in 1 .. l - 1 : s2[n] = s[n]
    BY <1>0, FrontIs
  <1>o. own2 \in Seq(Nat) /\ Len(own2) = l - 1 /\ \A n \in 1 .. l - 1 : own2[n] = own[n]
    BY <1>0, FrontIs
  <1>oo. LastOf(own) = own[l] /\ LastOf(own2) = own2[Len(own2)] /\ LastOf(s2) = s2[Len(s2)]
    BY <1>0 DEF LastOf
  <1> HIDE DEF s2, own2, l
  <1>1. l > 1
    <2>1. s[1] = "program"
      BY DEF Frames
    <2>2. s[l] # "program"
      BY <1>0 DEF Inner
    <2>3. l # 1
      BY <2>1, <2>2
    <2>4. QED
      BY <1>0, <2>3
  <1>2. own[l] = own[l - 1] /\ Sits(s[l - 1], s[l])
    <2>1. l \in 2 .. l /\ s[l] \in Inner
      BY <1>0, <1>1
    <2>2. QED
      BY <2>1 DEF Frames, l
  <1>3. s2 # <<>> /\ s2[1] = "program"
    <2>1. s[1] = "program" /\ 1 \in 1 .. l - 1
      BY <1>0, <1>1 DEF Frames
    <2>2. QED
      BY <1>s, <2>1
  <1>4. ASSUME NEW n \in 2 .. Len(s2)
        PROVE  /\ Sits(s2[n - 1], s2[n]) /\ (s2[n] \in Inner => own2[n] = own2[n - 1])
               /\ s2[n] \notin Inner => Lev(t, own2[n]) = Lev(t, own2[n - 1]) + 1
    <2>1. n \in 2 .. l /\ n \in 1 .. l - 1 /\ n - 1 \in 1 .. l - 1
      BY <1>0, <1>s
    <2>2. s2[n] = s[n] /\ s2[n - 1] = s[n - 1] /\ own2[n] = own[n] /\ own2[n - 1] = own[n - 1]
      BY <1>s, <1>o, <2>1
    <2>3. QED
      BY <2>1, <2>2 DEF Frames, l
  <1>5. ASSUME NEW m \in 1 .. Len(s2), NEW n \in 1 .. Len(s2), m < n, s2[n] \notin Inner
        PROVE  own2[m] < own2[n] /\ Lev(t, own2[m]) < Lev(t, own2[n])
    <2>1. m \in 1 .. l - 1 /\ n \in 1 .. l - 1 /\ m \in 1 .. l /\ n \in 1 .. l
      BY <1>0, <1>s
    <2>2. s2[n] = s[n] /\ own2[n] = own[n] /\ own2[m] = own[m]
      BY <1>s, <1>o, <2>1
    <2>3. QED
      BY <1>5, <2>1, <2>2 DEF Frames, l
  <1>6. ASSUME NEW n \in 1 .. Len(s2)
        PROVE  own2[n] < p /\ Worded(t, s2[n], own2[n])
    <2>1. n \in 1 .. l - 1 /\ n \in 1 .. l
      BY <1>0, <1>s
    <2>2. s2[n] = s[n] /\ own2[n] = own[n]
      BY <1>s, <1>o, <2>1
    <2>3. own[n] < p /\ Worded(t, s[n], own[n])
      BY <2>1 DEF Frames, l
    <2>4. QED
      BY <2>2, <2>3
  <1>7. ASSUME NEW j \in 1 .. p - 1
        PROVE  Encloses(t, j, p) <=> \E n \in 1 .. Len(s2) : own2[n] = j
    <2>1. Encloses(t, j, p) <=> \E n \in 1 .. l : own[n] = j
      BY DEF Frames, l
    <2>2. \A n \in 1 .. l : n \in 1 .. Len(s2) \/ n = l
      BY <1>0, <1>s
    <2>3. \A n \in 1 .. Len(s2) : n \in 1 .. l /\ n \in 1 .. l - 1
      BY <1>0, <1>s
    <2>4. l - 1 \in 1 .. l - 1 /\ l - 1 \in 1 .. Len(s2)
      BY <1>0, <1>1, <1>s
    <2>5. QED
      BY <1>2, <1>s, <1>o, <2>1, <2>2, <2>3, <2>4
  <1>8. own2[Len(s2)] = own[l] /\ own2[Len(own2)] = own[l] /\ s2[Len(s2)] = s[l - 1]
    <2>1. l - 1 \in 1 .. l - 1
      BY <1>0, <1>1
    <2>2. QED
      BY <1>2, <1>s, <1>o, <2>1
  <1>9. Lev(t, p - 1) = Lev(t, own2[Len(s2)])
    <2>1. Lev(t, p - 1) = Lev(t, own[l])
      BY DEF Frames, l
    <2>2. QED
      BY <1>8, <2>1
  <1>10. Len(own2) = Len(s2)
    BY <1>s, <1>o
  <1>11. Frames(t, p, s2, own2)
    BY <1>o, <1>3, <1>4, <1>5, <1>6, <1>7, <1>9, <1>10 DEF Frames
  <1>12. LastOf(own2) = LastOf(own) /\ LastOf(s2) = s[l - 1] /\ l > 1 /\ Sits(s[l - 1], LastOf(s))
    BY <1>0, <1>oo, <1>1, <1>2, <1>8
  <1>13. QED
    BY <1>11, <1>12 DEF s2, own2, l

-----------------------------------------------------------------------------
(* One block of an if or a try after another.                              *)
Switches == {"then", "else", "afterElse", "try", "catch"}

LEMMA FramesReplace ==
  ASSUME NEW V, NEW t, NEW p \in Nat, p > 0, NEW s \in Seq(V), NEW own, Frames(t, p, s, own),
         NEW kind \in V, kind \in Switches, LastOf(s) \in Switches, Word(kind) = Word(LastOf(s))
  PROVE  Frames(t, p, Append(FrontOf(s), kind), own)
  <1> DEFINE s2 == Append(FrontOf(s), kind)
  <1> DEFINE l == Len(s)
  <1>0. own \in Seq(Nat) /\ Len(own) = l /\ l \in Nat /\ l > 0 /\ LastOf(s) = s[l] /\ s # <<>>
    BY DEF Frames, LastOf
  <1>f. FrontOf(s) \in Seq(V) /\ Len(FrontOf(s)) = l - 1 /\ \A n \in 1 .. l - 1 : FrontOf(s)[n] = s[n]
    BY <1>0, FrontIs
  <1>s. Len(s2) = l /\ s2[l] = kind /\ s2 # <<>> /\ \A n \in 1 .. l - 1 : s2[n] = s[n]
    <2>1. /\ s2 # <<>> /\ Len(s2) = Len(FrontOf(s)) + 1 /\ s2[Len(FrontOf(s)) + 1] = kind
          /\ \A n \in 1 .. Len(FrontOf(s)) : s2[n] = FrontOf(s)[n]
      BY <1>f, AppendIs
    <2>2. (l - 1) + 1 = l
      BY <1>0
    <2>3. QED
      BY <1>f, <2>1, <2>2
  <1> HIDE DEF s2, l
  <1>k. kind \notin Inner /\ s[l] \notin Inner /\ s[l] # "program" /\ kind # "program" /\ kind # "modified" /\ s[l] # "modified"
    BY <1>0 DEF Switches, Inner
  <1>1. s2[1] = "program" /\ l > 1
    <2>1. s[1] = "program"
      BY DEF Frames
    <2>2. l # 1
      BY <1>k, <2>1
    <2>3. 1 \in 1 .. l - 1 /\ l > 1
      BY <1>0, <2>2
    <2>4. QED
      BY <1>s, <2>1, <2>3
  <1>2. ASSUME NEW n \in 2 .. Len(s2)
        PROVE  /\ Sits(s2[n - 1], s2[n]) /\ (s2[n] \in Inner => own[n] = own[n - 1])
               /\ s2[n] \notin Inner => Lev(t, own[n]) = Lev(t, own[n - 1]) + 1
    <2>0. n \in 2 .. l /\ n - 1 \in 1 .. l - 1
      BY <1>0, <1>s
    <2>f. /\ Sits(s[n - 1], s[n]) /\ (s[n] \in Inner => own[n] = own[n - 1])
          /\ s[n] \notin Inner => Lev(t, own[n]) = Lev(t, own[n - 1]) + 1
      BY <2>0 DEF Frames, l
    <2>b. s2[n - 1] = s[n - 1]
      BY <1>s, <2>0
    <2>1. CASE n = l
      <3>1. s2[n] = kind
        BY <1>s, <2>1
      <3>2. s[n - 1] \in BlockKinds
        BY <1>0, <2>1, <2>f, SitsApart DEF Switches
      <3>3. Sits(s[n - 1], kind)
        BY <3>2 DEF Sits, Switches, StackKinds, BlockKinds
      <3>4. QED
        BY <1>k, <2>1, <2>b, <2>f, <3>1, <3>3
    <2>2. CASE n # l
      <3>1. n \in 1 .. l - 1
        BY <1>0, <2>0, <2>2
      <3>2. s2[n] = s[n]
        BY <1>s, <3>1
      <3>3. QED
        BY <2>b, <2>f, <3>2
    <2>3. QED
      BY <2>1, <2>2
  <1>3. \A n \in 1 .. l : s2[n] \notin Inner => s[n] \notin Inner
    <2>1. \A n \in 1 .. l : n = l \/ n \in 1 .. l - 1
      BY <1>0
    <2>2. QED
      BY <1>s, <1>k, <2>1
  <1>4. ASSUME NEW m \in 1 .. Len(s2), NEW n \in 1 .. Len(s2), m < n, s2[n] \notin Inner
        PROVE  own[m] < own[n] /\ Lev(t, own[m]) < Lev(t, own[n])
    <2>1. m \in 1 .. l /\ n \in 1 .. l /\ s[n] \notin Inner
      BY <1>s, <1>3, <1>4
    <2>2. QED
      BY <1>4, <2>1 DEF Frames, l
  <1>5. ASSUME NEW n \in 1 .. Len(s2)
        PROVE  own[n] < p /\ Worded(t, s2[n], own[n])
    <2>0. n \in 1 .. l
      BY <1>s
    <2>f. own[n] < p /\ Worded(t, s[n], own[n])
      BY <2>0 DEF Frames, l
    <2>1. CASE n = l
      <3>1. s2[n] = kind
        BY <1>s, <2>1
      <3>2. Worded(t, kind, own[n])
        BY <1>0, <1>k, <2>1, <2>f DEF Worded
      <3>3. QED
        BY <2>f, <3>1, <3>2
    <2>2. CASE n # l
      <3>1. n \in 1 .. l - 1
        BY <1>0, <2>0, <2>2
      <3>2. QED
        BY <1>s, <2>f, <3>1
    <2>3. QED
      BY <2>1, <2>2
  <1>6. Frames(t, p, s2, own)
    BY <1>s, <1>1, <1>2, <1>4, <1>5 DEF Frames, l
  <1>7. QED
    BY <1>6 DEF s2

(* More text behind the place.                                             *)
LEMMA FramesAlike ==
  ASSUME NEW V, NEW t, NEW u, NEW p \in Nat, p > 0, NEW s \in Seq(V), NEW own, Frames(t, p, s, own),
         Alike(t, u, p - 1)
  PROVE  Frames(u, p, s, own)
  <1>0. p - 1 \in Nat /\ (p - 1) + 1 = p
    OBVIOUS
  <1>1. \A i \in 0 .. p - 1 : Lev(t, i) = Lev(u, i)
    BY <1>0, LevAlike
  <1>2. \A j \in 1 .. p - 1 : Encloses(t, j, p) <=> Encloses(u, j, p)
    <2>1. p \in 1 .. (p - 1) + 1
      OBVIOUS
    <2>2. QED
      BY <1>0, <2>1, LevAlike, Zenon
  <1>3. \A n \in 1 .. Len(s) : own[n] \in 0 .. p - 1
    <2>1. \A n \in 1 .. Len(s) : own[n] \in Nat /\ own[n] < p
      BY TopOwns
    <2>2. QED
      BY <2>1
  <1>4. \A n \in 1 .. Len(s) : Lev(t, own[n]) = Lev(u, own[n])
    BY <1>1, <1>3
  <1>5. \A n \in 1 .. Len(s) : Worded(u, s[n], own[n])
    <2>1. \A n \in 1 .. Len(s) : Worded(t, s[n], own[n])
      BY DEF Frames
    <2>2. \A n \in 1 .. Len(s) : \A K : Is(t, own[n], K) <=> Is(u, own[n], K)
      BY <1>0, <1>3, MarksAlike, Zenon
    <2>3. QED
      BY <2>1, <2>2 DEF Worded
  <1>6. Len(s) \in Nat /\ Len(s) > 0
    BY DEF Frames
  <1>7. \A n \in 2 .. Len(s) : n \in 1 .. Len(s) /\ n - 1 \in 1 .. Len(s)
    BY <1>6
  <1>8. \A n \in 2 .. Len(s) : s[n] \notin Inner => Lev(u, own[n]) = Lev(u, own[n - 1]) + 1
    BY <1>4, <1>7 DEF Frames
  <1>9. \A m, n \in 1 .. Len(s) : m < n /\ s[n] \notin Inner => own[m] < own[n] /\ Lev(u, own[m]) < Lev(u, own[n])
    BY <1>4 DEF Frames
  <1>10. Lev(u, p - 1) = Lev(u, own[Len(s)])
    <2>1. Lev(t, p - 1) = Lev(t, own[Len(s)])
      BY DEF Frames
    <2>2. p - 1 \in 0 .. p - 1 /\ Len(s) \in 1 .. Len(s)
      BY <1>6
    <2>3. QED
      BY <1>1, <1>4, <2>1, <2>2
  <1>11. QED
    BY <1>2, <1>5, <1>8, <1>9, <1>10 DEF Frames

-----------------------------------------------------------------------------
(* What the kinds of the stack say of the marks.                           *)
LEMMA Ranges ==
  ASSUME NEW p \in Nat, p > 0
  PROVE  /\ \A k \in 1 .. (p + 1) - 1 : k \in 1 .. p - 1 \/ k = p
         /\ \A k \in 1 .. p - 1 : k \in 1 .. (p + 1) - 1 /\ k # p
         /\ \A k \in 1 .. p - 1 : \A j \in k + 1 .. (p + 1) - 1 : j \in k + 1 .. p - 1 \/ j = p
         /\ \A k \in 1 .. p - 1 : \A j \in k + 1 .. p - 1 : j \in k + 1 .. (p + 1) - 1
         /\ \A k \in 1 .. p - 1 : p \in k + 1 .. (p + 1) - 1
         /\ p \in 1 .. (p + 1) - 1 /\ (p + 1) - 1 = p
  OBVIOUS

(* What a function says of its construct holds on, unless the token is a   *)
(* mark of that construct.                                                 *)
LEMMA SaysGoesOn ==
  ASSUME NEW t, NEW p \in Nat, p > 0, NEW kind, NEW o, Says(t, p, kind, o),
         kind = "then" => ~MarkAt(t, "else", o, p),
         kind = "try" => ~MarkAt(t, "catch", o, p),
         kind = "afterElse" => t[p] = "nl"
  PROVE  Says(t, p + 1, kind, o)
  <1>1. \A k \in 1 .. (p + 1) - 1 : k \in 1 .. p - 1 \/ k = p
    BY Ranges, Zenon
  <1>2. \A k \in 1 .. p - 1 : k \in 1 .. (p + 1) - 1
    BY Ranges, Zenon
  <1>3. \A k \in 1 .. p - 1 : Chained(t, k, p) => Chained(t, k, p + 1)
    BY Ranges, Zenon DEF Chained
  <1>4. CASE kind = "then"
    <2>1. \A k \in 1 .. (p + 1) - 1 : MarkAt(t, "else", o, k) => Chained(t, k, p + 1)
      BY <1>1, <1>3, <1>4 DEF Says
    <2>2. QED
      BY <1>4, <2>1 DEF Says
  <1>5. CASE kind = "else"
    <2>1. \E k \in 1 .. (p + 1) - 1 : MarkAt(t, "else", o, k) /\ Unchained(t, k)
      BY <1>2, <1>5 DEF Says
    <2>2. QED
      BY <1>5, <2>1 DEF Says
  <1>6. CASE kind = "afterElse"
    <2>0. t[p] = "nl"
      BY <1>6
    <2>1. \A k \in 1 .. p - 1 : Newlines(t, k, p) => Newlines(t, k, p + 1)
      <3>1. \A k \in 1 .. p - 1 : \A j \in k + 1 .. (p + 1) - 1 : j \in k + 1 .. p - 1 \/ j = p
        BY Ranges, Zenon
      <3>2. QED
        BY <2>0, <3>1 DEF Newlines
    <2>2. ~MarkAt(t, "else", o, p)
      BY <2>0 DEF MarkAt
    <2>3. \A k \in 1 .. (p + 1) - 1 : MarkAt(t, "else", o, k) => Chained(t, k, p + 1) \/ Newlines(t, k, p + 1)
      BY <1>1, <1>3, <1>6, <2>1, <2>2 DEF Says
    <2>4. \E k \in 1 .. (p + 1) - 1 : MarkAt(t, "else", o, k) /\ Newlines(t, k, p + 1)
      BY <1>2, <1>6, <2>1 DEF Says
    <2>5. QED
      BY <1>6, <2>3, <2>4 DEF Says
  <1>7. CASE kind = "try"
    <2>1. \A k \in 1 .. (p + 1) - 1 : ~MarkAt(t, "catch", o, k)
      BY <1>1, <1>7 DEF Says
    <2>2. QED
      BY <1>7, <2>1 DEF Says
  <1>8. CASE kind = "catch"
    <2>1. \E k \in 1 .. (p + 1) - 1 : MarkAt(t, "catch", o, k)
      BY <1>2, <1>8 DEF Says
    <2>2. QED
      BY <1>8, <2>1 DEF Says
  <1>9. CASE kind = "case"
    <2>1. \E k \in 1 .. (p + 1) - 1 : MarkAt(t, "case", o, k)
      BY <1>2, <1>9 DEF Says
    <2>2. QED
      BY <1>9, <2>1 DEF Says
  <1>10. CASE kind \notin {"then", "else", "afterElse", "try", "catch", "case"}
    BY <1>10 DEF Says
  <1>11. QED
    BY <1>4, <1>5, <1>6, <1>7, <1>8, <1>9, <1>10

(* The functions below the innermost say the same one token later: the     *)
(* token belongs to the innermost construct, not to theirs.                *)
LEMMA LowerSays ==
  ASSUME NEW V, NEW t, NEW p \in Nat, p > 0, NEW s \in Seq(V), NEW own, Frames(t, p, s, own),
         \A n \in 1 .. Len(s) - 1 : Says(t, p, s[n], own[n])
  PROVE  \A n \in 1 .. Len(s) - 1 : Says(t, p + 1, s[n], own[n])
  <1> SUFFICES ASSUME NEW n \in 1 .. Len(s) - 1
               PROVE  Says(t, p + 1, s[n], own[n])
    OBVIOUS
  <1> DEFINE l == Len(s)
  <1>0. l \in Nat /\ n \in 1 .. l /\ l \in 2 .. l /\ n + 1 \in 2 .. l /\ l \in 1 .. l /\ l - 1 \in 1 .. l /\ n < l
    OBVIOUS
  <1>1. Owns(t, own[l], p) /\ own[n] \in Nat /\ own[l] \in Nat
    <2>1. Owns(t, LastOf(own), p) /\ LastOf(own) = own[l]
      BY TopOwns
    <2>2. \A m \in 1 .. l : own[m] \in Nat
      BY TopOwns
    <2>3. QED
      BY <1>0, <2>1, <2>2
  <1>2. s[n] # "afterElse"
    <2>1. Sits(s[(n + 1) - 1], s[n + 1]) /\ (n + 1) - 1 = n
      BY <1>0 DEF Frames
    <2>2. QED
      BY <2>1, SitsApart
  <1>3. own[n] # own[l] \/ s[n] \in {"program", "match", "type"}
    <2>1. CASE s[l] \notin Inner
      <3>1. own[n] < own[l]
        BY <1>0, <2>1 DEF Frames
      <3>2. QED
        BY <1>1, <3>1
    <2>2. CASE s[l] \in Inner
      <3>1. own[l] = own[l - 1] /\ Sits(s[l - 1], s[l])
        BY <1>0, <2>2 DEF Frames
      <3>2. s[l - 1] \in {"program", "match", "type"}
        BY <2>2, <3>1, SitsApart
      <3>3. CASE n = l - 1
        BY <3>2, <3>3
      <3>4. CASE n # l - 1
        <4>0. s[l - 1] \notin Inner
          BY <3>2 DEF Inner
        <4>1. n < l - 1 /\ s[l - 1] \notin Inner
          BY <1>0, <3>4, <4>0
        <4>2. own[n] < own[l - 1]
          BY <1>0, <4>1 DEF Frames
        <4>3. QED
          BY <1>1, <3>1, <4>2
      <3>5. QED
        BY <3>3, <3>4
    <2>3. QED
      BY <2>1, <2>2
  <1>4. own[n] # own[l] => \A w : ~MarkAt(t, w, own[n], p)
    BY <1>1, OwnerIsOne DEF MarkAt
  <1>5. (s[n] = "then" => ~MarkAt(t, "else", own[n], p)) /\ (s[n] = "try" => ~MarkAt(t, "catch", own[n], p))
    BY <1>3, <1>4
  <1>6. Says(t, p, s[n], own[n])
    BY <1>0
  <1>7. QED
    BY <1>2, <1>5, <1>6, SaysGoesOn

LEMMA SaysAlike ==
  ASSUME NEW t, NEW u, NEW p \in Nat, p > 0, NEW kind, NEW o, Says(t, p, kind, o),
         Len(t) \in Nat, Len(u) \in Nat, Len(u) >= Len(t), p <= Len(t) + 1, Alike(t, u, Len(t))
  PROVE  Says(u, p, kind, o)
  <1> DEFINE n == Len(t)
  <1>0. n \in Nat /\ \A k \in 1 .. p - 1 : k \in 1 .. n
    OBVIOUS
  <1>00. p \in 1 .. n + 1
    OBVIOUS
  <1>1. \A k \in 1 .. p - 1 : \A w : MarkAt(t, w, o, k) <=> MarkAt(u, w, o, k)
    BY <1>0, MarksAlike, Zenon
  <1>2. \A k \in 1 .. p - 1 : Newlines(t, k, p) <=> Newlines(u, k, p)
    BY <1>0, <1>00, MarksAlike, Zenon
  <1>3. \A k \in 1 .. p - 1 : Chained(t, k, p) <=> Chained(u, k, p)
    BY <1>0, <1>00, MarksAlike, Zenon
  <1>4. \A k \in 1 .. p - 1 : Unchained(t, k) => Unchained(u, k)
    <2>1. \A k \in 1 .. p - 1 : \A m \in k + 1 .. Len(t) : m \in 1 .. n /\ m \in 1 .. n + 1 /\ m \in k + 1 .. Len(u)
      OBVIOUS
    <2>2. \A k \in 1 .. n : \A m \in 1 .. n + 1 : Newlines(t, k, m) <=> Newlines(u, k, m)
      BY <1>0, MarksAlike, Zenon
    <2>3. \A m \in 1 .. n : t[m] = u[m]
      BY DEF Alike
    <2>4. QED
      BY <1>0, <2>1, <2>2, <2>3 DEF Unchained
  <1> HIDE DEF n
  <1>5. QED
    BY <1>1, <1>2, <1>3, <1>4, Zenon DEF Says

-----------------------------------------------------------------------------
(* What a parser in the middle of a text knows of its innermost call.      *)
LEMMA StandsTop ==
  ASSUME NEW t, NEW p \in Nat, p > 0, NEW s \in Seq(StackKinds), NEW own, Stands(t, p, s, own)
  PROVE  /\ Owns(t, LastOf(own), p) /\ LastOf(own) \in 0 .. p - 1
         /\ Worded(t, LastOf(s), LastOf(own))
         /\ Says(t, p, LastOf(s), LastOf(own)) /\ SaysTop(t, p, LastOf(s), LastOf(own))
         /\ LastOf(s) \in StackKinds /\ Len(s) > 0 /\ s # <<>>
         /\ own \in Seq(Nat) /\ Len(own) = Len(s) /\ own # <<>>
         /\ Frames(t, p, s, own) /\ LastOf(own) = own[Len(s)] /\ LastOf(s) = s[Len(s)]
  <1>1. Frames(t, p, s, own) /\ SaysTop(t, p, LastOf(s), LastOf(own)) /\ \A n \in 1 .. Len(s) : Says(t, p, s[n], own[n])
    BY DEF Stands
  <1>2. /\ LastOf(own) \in Nat /\ LastOf(own) < p /\ Worded(t, LastOf(s), LastOf(own))
        /\ Owns(t, LastOf(own), p) /\ Len(s) > 0 /\ Len(own) = Len(s) /\ LastOf(own) = own[Len(s)]
    <2>1. Frames(t, p, s, own)
      BY <1>1
    <2>2. /\ LastOf(own) \in Nat /\ LastOf(own) < p /\ Worded(t, LastOf(s), LastOf(own))
          /\ Owns(t, LastOf(own), p)
      BY <2>1, TopOwns, Zenon
    <2>3. Len(own) = Len(s) /\ s # <<>>
      BY <2>1 DEF Frames
    <2>3a. LastOf(own) = own[Len(s)] /\ Len(s) > 0
      BY <2>3 DEF LastOf
    <2>4. QED
      BY <2>2, <2>3, <2>3a, Zenon
  <1>3. s # <<>> /\ own \in Seq(Nat)
    BY <1>1 DEF Frames
  <1>4. LastOf(s) = s[Len(s)] /\ Len(s) \in 1 .. Len(s)
    BY <1>2 DEF LastOf
  <1>5. LastOf(s) \in StackKinds /\ Says(t, p, LastOf(s), LastOf(own))
    BY <1>1, <1>2, <1>4
  <1>6. own # <<>> /\ LastOf(own) \in 0 .. p - 1
    BY <1>2, <1>3
  <1>7. QED
    BY <1>1, <1>2, <1>3, <1>4, <1>5, <1>6

(* In a block a statement has its place.                                   *)
LEMMA InBlock ==
  ASSUME NEW t, NEW p \in Nat, p > 0, NEW kind \in BlockKinds, NEW o, Worded(t, kind, o), Says(t, p, kind, o)
  PROVE  InStatements(t, p, o) /\ o # 0 /\ t[o] # "type"
  <1>1. kind \notin {"program", "modified"}
    BY DEF BlockKinds
  <1>2. Is(t, o, {Word(kind)}) /\ o # 0 /\ t[o] = Word(kind)
    BY <1>1 DEF Worded, Is
  <1>3. CASE kind = "case"
    <2>1. t[o] = "match"
      BY <1>2, <1>3 DEF Word
    <2>2. \E k \in 1 .. p - 1 : MarkAt(t, "case", o, k)
      BY <1>3 DEF Says
    <2>3. QED
      BY <1>2, <2>1, <2>2 DEF InStatements, Is
  <1>4. CASE kind # "case"
    <2>1. Word(kind) \in {"fn", "macro", "if", "loop", "try"}
      BY <1>4 DEF BlockKinds, Word
    <2>2. QED
      BY <1>2, <2>1 DEF InStatements, Is
  <1>5. QED
    BY <1>3, <1>4

(* What was passed stays passed.                                           *)
LEMMA PlacedNext ==
  ASSUME NEW t, NEW p \in Nat, p > 0, NEW kind, NEW kind2, PlacedTo(t, p, kind),
         NEW o \in 0 .. p - 1, Owns(t, o, p), PlacedIn(t, p, o) \/ Pending(t, p + 1, kind2, p, o),
         \A i \in 1 .. p - 1 : \A a \in 0 .. i - 1 :
            Pending(t, p, kind, i, a) => PlacedIn(t, i, a) \/ Pending(t, p + 1, kind2, i, a)
  PROVE  PlacedTo(t, p + 1, kind2)
  <1>1. ASSUME NEW i \in 1 .. (p + 1) - 1
        PROVE  \E a \in 0 .. i - 1 : Owns(t, a, i) /\ (PlacedIn(t, i, a) \/ Pending(t, p + 1, kind2, i, a))
    <2>1. CASE i = p
      BY <2>1
    <2>2. CASE i \in 1 .. p - 1
      <3>1. PICK a \in 0 .. i - 1 : Owns(t, a, i) /\ (PlacedIn(t, i, a) \/ Pending(t, p, kind, i, a))
        BY <2>2 DEF PlacedTo
      <3>2. PlacedIn(t, i, a) \/ Pending(t, p + 1, kind2, i, a)
        BY <2>2, <3>1
      <3>3. QED
        BY <3>1, <3>2
    <2>3. i = p \/ i \in 1 .. p - 1
      BY Ranges, Zenon
    <2>4. QED
      BY <2>1, <2>2, <2>3
  <1>2. QED
    BY <1>1, Zenon DEF PlacedTo

LEMMA NonePending ==
  ASSUME NEW t, NEW p, NEW kind, kind \notin {"modified", "modifiedMember"}
  PROVE  \A i, o : ~Pending(t, p, kind, i, o)
  BY DEF Pending

LEMMA PlacedNow ==
  ASSUME NEW t, NEW p \in Nat, p > 0, NEW kind, NEW kind2, PlacedTo(t, p, kind), kind \notin {"modified", "modifiedMember"}
  PROVE  PlacedTo(t, p, kind2)
  <1>1. \A i, o : ~Pending(t, p, kind, i, o)
    BY NonePending, Zenon
  <1>2. QED
    BY <1>1, Zenon DEF PlacedTo

(* Behind a token that no one waits for there is nothing more to say.      *)
LEMMA SaysTopNew ==
  ASSUME NEW t, NEW p \in Nat, p > 0, NEW kind, NEW o, t[p] \notin {"nl", "else"},
         kind \notin {"match", "modified", "modifiedMember"}
  PROVE  SaysTop(t, p + 1, kind, o)
  <1>2. \A h \in 1 .. (p + 1) - 1 : ~(t[h] = "else" /\ Newlines(t, h, p + 1))
    <2>1. \A h \in 1 .. p - 1 : p \in h + 1 .. (p + 1) - 1
      BY Ranges, Zenon
    <2>2. \A h \in 1 .. (p + 1) - 1 : h \in 1 .. p - 1 \/ h = p
      BY Ranges, Zenon
    <2>3. \A h \in 1 .. p - 1 : ~Newlines(t, h, p + 1)
      BY <2>1 DEF Newlines
    <2>4. QED
      BY <2>2, <2>3
  <1>3. QED
    BY <1>2 DEF SaysTop

LEMMA SaysFront ==
  ASSUME NEW t, NEW p, NEW s \in Seq(StackKinds), s # <<>>, NEW own \in Seq(Nat), Len(own) = Len(s),
         \A n \in 1 .. Len(s) - 1 : Says(t, p, s[n], own[n])
  PROVE  /\ \A n \in 1 .. Len(FrontOf(s)) : Says(t, p, FrontOf(s)[n], FrontOf(own)[n])
         /\ \A n \in 1 .. Len(FrontOf(s)) : Says(t, p, FrontOf(s)[n], own[n])
         /\ Len(FrontOf(own)) = Len(FrontOf(s)) /\ FrontOf(s) \in Seq(StackKinds) /\ FrontOf(own) \in Seq(Nat)
         /\ Len(FrontOf(s)) = Len(s) - 1
  <1>0. own # <<>>
    OBVIOUS
  <1>1. FrontOf(s) \in Seq(StackKinds) /\ Len(FrontOf(s)) = Len(s) - 1 /\ \A n \in 1 .. Len(s) - 1 : FrontOf(s)[n] = s[n]
    BY FrontIs
  <1>2. FrontOf(own) \in Seq(Nat) /\ Len(FrontOf(own)) = Len(s) - 1 /\ \A n \in 1 .. Len(s) - 1 : FrontOf(own)[n] = own[n]
    BY <1>0, FrontIs
  <1>3. QED
    BY <1>1, <1>2

-----------------------------------------------------------------------------
(* Stands, without what it says of the innermost call.                     *)
Basis(t, p, s, own) ==
  /\ Frames(t, p, s, own)
  /\ \A n \in 1 .. Len(s) - 1 : Says(t, p, s[n], own[n])
  /\ PlacedTo(t, p, "program")

(* From the invariant to its basis, and back.                              *)
LEMMA BasisOf ==
  ASSUME NEW t, NEW p \in Nat, p > 0, NEW s \in Seq(StackKinds), NEW own, Stands(t, p, s, own),
         LastOf(s) \notin {"modified", "modifiedMember"}
  PROVE  Basis(t, p, s, own)
  <1>1. PlacedTo(t, p, "program")
    BY PlacedNow DEF Stands
  <1>2. \A n \in 1 .. Len(s) - 1 : n \in 1 .. Len(s)
    <2>1. Len(s) \in Nat
      OBVIOUS
    <2>2. QED
      BY <2>1
  <1>3. QED
    BY <1>1, <1>2 DEF Stands, Basis

LEMMA StandsOf ==
  ASSUME NEW t, NEW p \in Nat, p > 0, NEW s \in Seq(StackKinds), NEW own, Basis(t, p, s, own),
         Says(t, p, LastOf(s), LastOf(own)), SaysTop(t, p, LastOf(s), LastOf(own))
  PROVE  Stands(t, p, s, own)
  <1>0. Frames(t, p, s, own)
    BY DEF Basis
  <1>1. PlacedTo(t, p, LastOf(s))
    BY PlacedNow DEF Basis
  <1>2. LastOf(s) = s[Len(s)] /\ LastOf(own) = own[Len(s)]
    <2>1. Len(own) = Len(s)
      BY <1>0 DEF Frames
    <2>2. QED
      BY <2>1 DEF LastOf
  <1>3. \A n \in 1 .. Len(s) : n \in 1 .. Len(s) - 1 \/ n = Len(s)
    OBVIOUS
  <1>4. \A n \in 1 .. Len(s) : Says(t, p, s[n], own[n])
    BY <1>2, <1>3 DEF Basis
  <1>5. QED
    BY <1>0, <1>1, <1>4 DEF Stands

LEMMA BasisTop ==
  ASSUME NEW t, NEW p \in Nat, p > 0, NEW s \in Seq(StackKinds), NEW own, Basis(t, p, s, own)
  PROVE  /\ Owns(t, LastOf(own), p) /\ LastOf(own) \in 0 .. p - 1
         /\ Worded(t, LastOf(s), LastOf(own))
         /\ LastOf(s) \in StackKinds /\ Len(s) > 0 /\ s # <<>>
         /\ own \in Seq(Nat) /\ Len(own) = Len(s) /\ own # <<>>
         /\ Frames(t, p, s, own) /\ LastOf(own) = own[Len(s)] /\ LastOf(s) = s[Len(s)]
  <1>1. Frames(t, p, s, own)
    BY DEF Basis
  <1>2. /\ LastOf(own) \in Nat /\ LastOf(own) < p /\ Worded(t, LastOf(s), LastOf(own))
        /\ Owns(t, LastOf(own), p)
    BY <1>1, TopOwns, Zenon
  <1>3. Len(own) = Len(s) /\ s # <<>> /\ own \in Seq(Nat)
    BY <1>1 DEF Frames
  <1>4. LastOf(own) = own[Len(s)] /\ LastOf(s) = s[Len(s)] /\ Len(s) > 0 /\ own # <<>> /\ Len(s) \in 1 .. Len(s)
    BY <1>3 DEF LastOf
  <1>5. LastOf(own) \in 0 .. p - 1
    BY <1>2
  <1>6. LastOf(s) \in StackKinds
    BY <1>4
  <1>7. QED
    BY <1>1, <1>2, <1>3, <1>4, <1>5, <1>6

LEMMA PlacedHere ==
  ASSUME NEW t, NEW p \in Nat, p > 0, PlacedTo(t, p, "program"),
         NEW o \in 0 .. p - 1, Owns(t, o, p), PlacedIn(t, p, o)
  PROVE  PlacedTo(t, p + 1, "program")
  <1>1. \A i \in 1 .. p - 1 : \A a \in 0 .. i - 1 : ~Pending(t, p, "program", i, a)
    BY NonePending, Zenon
  <1>2. QED
    BY <1>1, PlacedNext

(* The basis, over a token that neither opens nor ends a construct, that   *)
(* opens one, that ends one; and with a part of one taken for another.     *)
LEMMA BasisPlain ==
  ASSUME NEW t, NEW p \in Nat, p > 0, NEW s \in Seq(StackKinds), NEW own, Basis(t, p, s, own),
         ~OpensIn(t, p), t[p] # "end", PlacedIn(t, p, LastOf(own))
  PROVE  Basis(t, p + 1, s, own)
  <1>1. Frames(t, p, s, own) /\ PlacedTo(t, p, "program")
    BY DEF Basis
  <1>2. Owns(t, LastOf(own), p) /\ LastOf(own) \in 0 .. p - 1
    BY BasisTop
  <1>3. Frames(t, p + 1, s, own)
    BY <1>1, FramesPlain
  <1>4. PlacedTo(t, p + 1, "program")
    BY <1>1, <1>2, PlacedHere
  <1>5. \A n \in 1 .. Len(s) - 1 : Says(t, p + 1, s[n], own[n])
    BY LowerSays DEF Basis
  <1>6. QED
    BY <1>3, <1>4, <1>5 DEF Basis

LEMMA BasisPush ==
  ASSUME NEW t, NEW p \in Nat, p > 0, NEW s \in Seq(StackKinds), NEW own, Basis(t, p, s, own),
         NEW kind \in StackKinds, OpensIn(t, p), Word(kind) = t[p], kind \notin Inner, Sits(LastOf(s), kind),
         PlacedIn(t, p, LastOf(own)), Says(t, p + 1, LastOf(s), LastOf(own))
  PROVE  /\ Basis(t, p + 1, Append(s, kind), Append(own, p)) /\ Append(s, kind) \in Seq(StackKinds)
         /\ LastOf(Append(s, kind)) = kind /\ LastOf(Append(own, p)) = p
  <1>1. Frames(t, p, s, own) /\ PlacedTo(t, p, "program")
    BY DEF Basis
  <1>2. /\ Owns(t, LastOf(own), p) /\ LastOf(own) \in 0 .. p - 1 /\ Len(own) = Len(s) /\ own \in Seq(Nat)
        /\ LastOf(s) = s[Len(s)] /\ LastOf(own) = own[Len(s)]
    BY BasisTop
  <1>3. Frames(t, p + 1, Append(s, kind), Append(own, p))
    BY <1>1, FramesPush
  <1>4. PlacedTo(t, p + 1, "program")
    BY <1>1, <1>2, PlacedHere
  <1>5. \A n \in 1 .. Len(s) - 1 : Says(t, p + 1, s[n], own[n])
    BY LowerSays DEF Basis
  <1>6. \A n \in 1 .. Len(s) : n \in 1 .. Len(s) - 1 \/ n = Len(s)
    OBVIOUS
  <1>7. \A n \in 1 .. Len(s) : Says(t, p + 1, s[n], own[n])
    BY <1>2, <1>5, <1>6
  <1>8. /\ Len(Append(s, kind)) = Len(s) + 1 /\ Append(s, kind)[Len(s) + 1] = kind
        /\ \A n \in 1 .. Len(s) : Append(s, kind)[n] = s[n]
        /\ Append(s, kind) \in Seq(StackKinds)
    BY AppendIs
  <1>9. /\ Len(Append(own, p)) = Len(s) + 1 /\ Append(own, p)[Len(s) + 1] = p
        /\ \A n \in 1 .. Len(s) : Append(own, p)[n] = own[n]
    BY <1>2, AppendIs
  <1>10. \A n \in 1 .. Len(Append(s, kind)) - 1 : Says(t, p + 1, Append(s, kind)[n], Append(own, p)[n])
    BY <1>7, <1>8, <1>9
  <1>11. LastOf(Append(s, kind)) = kind /\ LastOf(Append(own, p)) = p
    BY <1>8, <1>9 DEF LastOf
  <1>12. QED
    BY <1>3, <1>4, <1>8, <1>10, <1>11 DEF Basis

LEMMA BasisEnd ==
  ASSUME NEW t, NEW p \in Nat, p > 0, NEW s \in Seq(StackKinds), NEW own, Basis(t, p, s, own),
         t[p] = "end", LastOf(s) \notin Inner \cup {"program"}, PlacedIn(t, p, LastOf(own))
  PROVE  /\ Basis(t, p + 1, FrontOf(s), FrontOf(own)) /\ FrontOf(s) \in Seq(StackKinds)
         /\ Says(t, p + 1, LastOf(FrontOf(s)), LastOf(FrontOf(own)))
         /\ Sits(LastOf(FrontOf(s)), LastOf(s))
  <1>1. Frames(t, p, s, own) /\ PlacedTo(t, p, "program")
    BY DEF Basis
  <1>2. /\ Owns(t, LastOf(own), p) /\ LastOf(own) \in 0 .. p - 1 /\ Len(own) = Len(s) /\ own \in Seq(Nat)
        /\ LastOf(s) = s[Len(s)] /\ Len(s) > 0 /\ s # <<>> /\ own # <<>>
    BY BasisTop
  <1>3. Frames(t, p + 1, FrontOf(s), FrontOf(own))
    BY <1>1, FramesEnd
  <1>4. PlacedTo(t, p + 1, "program")
    BY <1>1, <1>2, PlacedHere
  <1>5. \A n \in 1 .. Len(s) - 1 : Says(t, p + 1, s[n], own[n])
    BY LowerSays DEF Basis
  <1>6. /\ FrontOf(s) \in Seq(StackKinds) /\ Len(FrontOf(s)) = Len(s) - 1
        /\ \A n \in 1 .. Len(s) - 1 : FrontOf(s)[n] = s[n]
    BY <1>2, FrontIs
  <1>7. Len(FrontOf(own)) = Len(s) - 1 /\ \A n \in 1 .. Len(s) - 1 : FrontOf(own)[n] = own[n]
    BY <1>2, FrontIs
  <1>8. \A n \in 1 .. Len(FrontOf(s)) : Says(t, p + 1, FrontOf(s)[n], FrontOf(own)[n])
    BY <1>5, <1>6, <1>7
  <1>9. Len(FrontOf(s)) > 0 /\ Len(FrontOf(s)) \in Nat
    <2>1. FrontOf(s) # <<>>
      BY <1>3 DEF Frames
    <2>2. QED
      BY <1>6, <2>1
  <1>10. LastOf(FrontOf(s)) = FrontOf(s)[Len(FrontOf(s))] /\ LastOf(FrontOf(own)) = FrontOf(own)[Len(FrontOf(s))]
    BY <1>6, <1>7 DEF LastOf
  <1>11. Says(t, p + 1, LastOf(FrontOf(s)), LastOf(FrontOf(own)))
    BY <1>8, <1>9, <1>10
  <1>12. Sits(LastOf(FrontOf(s)), LastOf(s))
    <2>1. Len(s) - 1 \in 1 .. Len(s) - 1 /\ Len(s) \in 2 .. Len(s)
      BY <1>6, <1>9
    <2>2. LastOf(FrontOf(s)) = s[Len(s) - 1]
      BY <1>6, <1>10, <2>1
    <2>3. Sits(s[Len(s) - 1], s[Len(s)])
      BY <1>1, <2>1 DEF Frames
    <2>4. QED
      BY <1>2, <2>2, <2>3
  <1>13. \A n \in 1 .. Len(FrontOf(s)) - 1 : n \in 1 .. Len(FrontOf(s))
    BY <1>9
  <1>14. QED
    BY <1>3, <1>4, <1>6, <1>8, <1>11, <1>12, <1>13 DEF Basis

LEMMA BasisReplace ==
  ASSUME NEW t, NEW p \in Nat, p > 0, NEW s \in Seq(StackKinds), NEW own, Basis(t, p, s, own),
         NEW kind \in StackKinds, kind \in Switches, LastOf(s) \in Switches, Word(kind) = Word(LastOf(s))
  PROVE  /\ Basis(t, p, Append(FrontOf(s), kind), own) /\ Append(FrontOf(s), kind) \in Seq(StackKinds)
         /\ LastOf(Append(FrontOf(s), kind)) = kind
  <1>1. Frames(t, p, s, own) /\ PlacedTo(t, p, "program")
    BY DEF Basis
  <1>2. s # <<>> /\ Len(s) > 0
    BY BasisTop
  <1>3. Frames(t, p, Append(FrontOf(s), kind), own)
    BY <1>1, FramesReplace
  <1> DEFINE f == FrontOf(s)
  <1> DEFINE s2 == Append(f, kind)
  <1>4. f \in Seq(StackKinds) /\ Len(f) = Len(s) - 1 /\ \A n \in 1 .. Len(s) - 1 : f[n] = s[n]
    BY <1>2, FrontIs
  <1> HIDE DEF f
  <1>5. s2 \in Seq(StackKinds) /\ Len(s2) = Len(f) + 1 /\ s2[Len(f) + 1] = kind /\ \A n \in 1 .. Len(f) : s2[n] = f[n]
    BY <1>4, AppendIs
  <1> HIDE DEF s2
  <1>6. Len(s2) = Len(s) /\ \A n \in 1 .. Len(s) - 1 : s2[n] = s[n]
    BY <1>4, <1>5
  <1>7. \A n \in 1 .. Len(s2) - 1 : Says(t, p, s2[n], own[n])
    BY <1>6 DEF Basis
  <1>8. LastOf(s2) = kind
    BY <1>4, <1>5 DEF LastOf
  <1>9. Frames(t, p, s2, own)
    BY <1>3 DEF s2, f
  <1>10. Basis(t, p, s2, own)
    BY <1>1, <1>7, <1>9 DEF Basis
  <1>11. QED
    BY <1>5, <1>8, <1>10 DEF s2, f

LEMMA BasisInner ==
  ASSUME NEW t, NEW p \in Nat, p > 0, NEW s \in Seq(StackKinds), NEW own, Basis(t, p, s, own),
         NEW kind \in StackKinds, kind \in Inner, Sits(LastOf(s), kind), Says(t, p, LastOf(s), LastOf(own))
  PROVE  /\ Basis(t, p, Append(s, kind), Append(own, LastOf(own))) /\ Append(s, kind) \in Seq(StackKinds)
         /\ LastOf(Append(s, kind)) = kind /\ LastOf(Append(own, LastOf(own))) = LastOf(own)
  <1>1. Frames(t, p, s, own) /\ PlacedTo(t, p, "program")
    BY DEF Basis
  <1>2. /\ LastOf(own) \in 0 .. p - 1 /\ Len(own) = Len(s) /\ own \in Seq(Nat)
        /\ LastOf(s) = s[Len(s)] /\ LastOf(own) = own[Len(s)]
    BY BasisTop
  <1>2a. LastOf(own) \in Nat
    BY <1>2
  <1>3. Frames(t, p, Append(s, kind), Append(own, LastOf(own)))
    BY <1>1, FramesInner
  <1>6. \A n \in 1 .. Len(s) : n \in 1 .. Len(s) - 1 \/ n = Len(s)
    OBVIOUS
  <1>7. \A n \in 1 .. Len(s) : Says(t, p, s[n], own[n])
    BY <1>2, <1>6 DEF Basis
  <1>8. /\ Len(Append(s, kind)) = Len(s) + 1 /\ Append(s, kind)[Len(s) + 1] = kind
        /\ \A n \in 1 .. Len(s) : Append(s, kind)[n] = s[n]
        /\ Append(s, kind) \in Seq(StackKinds)
    BY AppendIs
  <1> DEFINE own2 == Append(own, LastOf(own))
  <1>9. /\ Len(own2) = Len(s) + 1 /\ own2[Len(s) + 1] = LastOf(own)
        /\ \A n \in 1 .. Len(s) : own2[n] = own[n]
    BY <1>2, <1>2a, AppendIs
  <1> HIDE DEF own2
  <1>10. \A n \in 1 .. Len(Append(s, kind)) - 1 : Says(t, p, Append(s, kind)[n], own2[n])
    BY <1>7, <1>8, <1>9
  <1>11. LastOf(Append(s, kind)) = kind /\ LastOf(own2) = LastOf(own)
    BY <1>8, <1>9 DEF LastOf
  <1>12. Frames(t, p, Append(s, kind), own2)
    BY <1>3 DEF own2
  <1>13. Basis(t, p, Append(s, kind), own2)
    BY <1>1, <1>10, <1>12 DEF Basis
  <1>14. QED
    BY <1>8, <1>11, <1>13 DEF own2

-----------------------------------------------------------------------------
(* The moves of the parser, one lemma for each.                            *)
LEMMA SaysNothing ==
  ASSUME NEW t, NEW p, NEW kind, NEW o, kind \notin {"then", "else", "afterElse", "try", "catch", "case"}
  PROVE  Says(t, p, kind, o)
  BY DEF Says

(* An if that starts a statement is no link of a chain.                    *)
LEMMA NotChained ==
  ASSUME NEW t, NEW p, NEW kind, NEW o, SaysTop(t, p, kind, o), kind # "afterElse", t[p] \in {"nl", "if"}
  PROVE  \A h \in 1 .. p - 1 : ~(t[h] = "else" /\ Newlines(t, h, p))
  BY DEF SaysTop

LEMMA OpenerOpens ==
  ASSUME NEW t, NEW p \in Nat, p > 0, NEW kind, NEW o, SaysTop(t, p, kind, o), kind # "afterElse", t[p] \in Openers
  PROVE  OpensIn(t, p)
  <1>1. CASE t[p] = "if"
    <2>1. ~LinkedIn(t, p)
      BY <1>1, NotChained DEF LinkedIn, Newlines
    <2>2. QED
      BY <1>1, <2>1 DEF OpensIn
  <1>2. CASE t[p] # "if"
    BY <1>2 DEF OpensIn, Openers
  <1>3. QED
    BY <1>1, <1>2

LEMMA NoMarks ==
  ASSUME NEW t, NEW p \in Nat, p > 0
  PROVE  \A k \in 1 .. (p + 1) - 1 : \A w : ~MarkAt(t, w, p, k)
  <1>1. \A k \in 1 .. (p + 1) - 1 : ~(p \in 0 .. k - 1)
    OBVIOUS
  <1>2. QED
    BY <1>1 DEF MarkAt, Owns

(* A new construct has had no marks.                                       *)
LEMMA NewFrame ==
  ASSUME NEW t, NEW p \in Nat, p > 0, NEW kind \in {"fn", "macro", "type", "then", "loop", "try", "match"},
         t[p] \notin {"nl", "else"}
  PROVE  Says(t, p + 1, kind, p) /\ SaysTop(t, p + 1, kind, p)
  <1>1. \A k \in 1 .. (p + 1) - 1 : \A w : ~MarkAt(t, w, p, k)
    BY NoMarks, Zenon
  <1>2. Says(t, p + 1, kind, p)
    BY <1>1 DEF Says
  <1>3. CASE kind # "match"
    <2>1. kind \notin {"match", "modified", "modifiedMember"}
      BY <1>3
    <2>2. QED
      BY <1>2, <2>1, SaysTopNew
  <1>4. CASE kind = "match"
    <2>1. SaysTop(t, p + 1, "fn", p)
      BY SaysTopNew
    <2>2. SaysTop(t, p + 1, "match", p)
      BY <1>1, <2>1 DEF SaysTop
    <2>3. QED
      BY <1>2, <1>4, <2>2
  <1>5. QED
    BY <1>3, <1>4

LEMMA PushGoes ==
  ASSUME NEW t, NEW p \in Nat, p > 0, NEW s \in Seq(StackKinds), NEW own, Basis(t, p, s, own),
         NEW kind \in {"fn", "macro", "type", "then", "loop", "try", "match"},
         OpensIn(t, p), Word(kind) = t[p], Sits(LastOf(s), kind),
         PlacedIn(t, p, LastOf(own)), Says(t, p + 1, LastOf(s), LastOf(own))
  PROVE  Append(s, kind) \in Seq(StackKinds) /\ \E own2 : Stands(t, p + 1, Append(s, kind), own2)
  <1>1. kind \in StackKinds /\ kind \notin Inner
    BY DEF StackKinds, BlockKinds, Inner
  <1>2. t[p] \notin {"nl", "else"}
    BY DEF OpensIn
  <1>3. Says(t, p + 1, kind, p) /\ SaysTop(t, p + 1, kind, p)
    BY <1>2, NewFrame
  <1>4. /\ Basis(t, p + 1, Append(s, kind), Append(own, p)) /\ Append(s, kind) \in Seq(StackKinds)
        /\ LastOf(Append(s, kind)) = kind /\ LastOf(Append(own, p)) = p
    BY <1>1, BasisPush
  <1>5. p + 1 \in Nat /\ p + 1 > 0
    OBVIOUS
  <1>6. Stands(t, p + 1, Append(s, kind), Append(own, p))
    BY <1>3, <1>4, <1>5, StandsOf
  <1>7. QED
    BY <1>4, <1>6

(* A statement with a block of its own, a simple statement, a field, a     *)
(* method and the end of a construct.                                      *)
LEMMA OpenerGoes ==
  ASSUME NEW t, NEW p \in Nat, p > 0, NEW s \in Seq(StackKinds), NEW own, Stands(t, p, s, own),
         LastOf(s) \in BlockKinds, t[p] \in Openers
  PROVE  Append(s, First(t[p])) \in Seq(StackKinds) /\ \E own2 : Stands(t, p + 1, Append(s, First(t[p])), own2)
  <1> DEFINE k == LastOf(s)
  <1> DEFINE o == LastOf(own)
  <1>1. k \notin {"modified", "modifiedMember"} /\ k # "afterElse"
    BY DEF BlockKinds
  <1>2. Basis(t, p, s, own)
    BY <1>1, BasisOf
  <1>3. Worded(t, k, o) /\ Says(t, p, k, o) /\ SaysTop(t, p, k, o)
    BY StandsTop
  <1>4. OpensIn(t, p)
    BY <1>1, <1>3, OpenerOpens
  <1>5. InStatements(t, p, o)
    BY <1>3, InBlock
  <1>6. PlacedIn(t, p, o)
    BY <1>5 DEF PlacedIn, Fits, Openers, Modifiers
  <1>7. Says(t, p + 1, k, o)
    <2>1. ~MarkAt(t, "else", o, p) /\ ~MarkAt(t, "catch", o, p)
      BY DEF MarkAt, Openers
    <2>2. QED
      BY <1>1, <1>3, <2>1, SaysGoesOn
  <1>8. First(t[p]) \in {"fn", "macro", "type", "then", "loop", "try", "match"} /\ Word(First(t[p])) = t[p]
    BY DEF First, Openers, Word
  <1>9. Sits(k, First(t[p]))
    BY DEF First, Openers, Sits, StackKinds, BlockKinds
  <1>10. QED
    BY <1>2, <1>4, <1>6, <1>7, <1>8, <1>9, PushGoes

LEMMA StaysGoes ==
  ASSUME NEW t, NEW p \in Nat, p > 0, NEW s \in Seq(StackKinds), NEW own, Stands(t, p, s, own),
         LastOf(s) \notin {"modified", "modifiedMember", "match", "afterElse"},
         ~OpensIn(t, p), t[p] \notin {"end", "nl", "else", "catch"}, PlacedIn(t, p, LastOf(own))
  PROVE  Stands(t, p + 1, s, own)
  <1> DEFINE k == LastOf(s)
  <1> DEFINE o == LastOf(own)
  <1>1. Basis(t, p, s, own)
    BY BasisOf
  <1>2. Basis(t, p + 1, s, own)
    BY <1>1, BasisPlain
  <1>3. Says(t, p, k, o)
    BY StandsTop
  <1>4. Says(t, p + 1, k, o)
    BY <1>3, SaysGoesOn DEF MarkAt
  <1>5. SaysTop(t, p + 1, k, o)
    BY SaysTopNew
  <1>6. p + 1 \in Nat /\ p + 1 > 0
    OBVIOUS
  <1>7. QED
    BY <1>2, <1>4, <1>5, <1>6, StandsOf

LEMMA SimpleGoes ==
  ASSUME NEW t, NEW p \in Nat, p > 0, NEW s \in Seq(StackKinds), NEW own, Stands(t, p, s, own),
         LastOf(s) \in BlockKinds, t[p] \in Simple
  PROVE  Stands(t, p + 1, s, own)
  <1>1. LastOf(s) \notin {"modified", "modifiedMember", "match", "afterElse"}
    BY DEF BlockKinds
  <1>2. InStatements(t, p, LastOf(own))
    BY StandsTop, InBlock
  <1>3. PlacedIn(t, p, LastOf(own))
    BY <1>2 DEF PlacedIn, Fits, Modifiers, Simple
  <1>4. ~OpensIn(t, p) /\ t[p] \notin {"end", "nl", "else", "catch"}
    BY DEF OpensIn, Simple
  <1>5. QED
    BY <1>1, <1>3, <1>4, StaysGoes

LEMMA FieldGoes ==
  ASSUME NEW t, NEW p \in Nat, p > 0, NEW s \in Seq(StackKinds), NEW own, Stands(t, p, s, own),
         LastOf(s) = "type", t[p] = "let"
  PROVE  Stands(t, p + 1, s, own)
  <1>1. Worded(t, "type", LastOf(own))
    BY StandsTop
  <1>2. Is(t, LastOf(own), {"type"})
    BY <1>1 DEF Worded, Word
  <1>3. PlacedIn(t, p, LastOf(own))
    BY <1>2 DEF PlacedIn, Fits, Modifiers
  <1>4. ~OpensIn(t, p) /\ t[p] \notin {"end", "nl", "else", "catch"}
    BY DEF OpensIn
  <1>5. QED
    BY <1>3, <1>4, StaysGoes

LEMMA MethodGoes ==
  ASSUME NEW t, NEW p \in Nat, p > 0, NEW s \in Seq(StackKinds), NEW own, Stands(t, p, s, own),
         LastOf(s) = "type", t[p] = "fn"
  PROVE  Append(s, "fn") \in Seq(StackKinds) /\ \E own2 : Stands(t, p + 1, Append(s, "fn"), own2)
  <1>1. Worded(t, "type", LastOf(own))
    BY StandsTop
  <1>2. Is(t, LastOf(own), {"type"})
    BY <1>1 DEF Worded, Word
  <1>4. PlacedIn(t, p, LastOf(own))
    BY <1>2 DEF PlacedIn, Fits, Modifiers
  <1>5. OpensIn(t, p) /\ Word("fn") = t[p]
    BY DEF OpensIn, Word
  <1>6. Sits(LastOf(s), "fn")
    BY DEF Sits, StackKinds, BlockKinds
  <1>7. Says(t, p + 1, LastOf(s), LastOf(own))
    BY SaysNothing
  <1>8. Basis(t, p, s, own)
    BY BasisOf
  <1>9. QED
    BY <1>4, <1>5, <1>6, <1>7, <1>8, PushGoes

LEMMA EndGoes ==
  ASSUME NEW t, NEW p \in Nat, p > 0, NEW s \in Seq(StackKinds), NEW own, Stands(t, p, s, own),
         LastOf(s) \in Closed, t[p] = "end"
  PROVE  FrontOf(s) \in Seq(StackKinds) /\ FrontOf(s) # <<>> /\ \E own2 : Stands(t, p + 1, FrontOf(s), own2)
  <1>1. LastOf(s) \notin {"modified", "modifiedMember"} /\ LastOf(s) \notin Inner \cup {"program"}
    BY DEF Closed, BlockKinds, Inner
  <1>2. Basis(t, p, s, own)
    BY <1>1, BasisOf
  <1>3. PlacedIn(t, p, LastOf(own))
    <2>1. Worded(t, LastOf(s), LastOf(own))
      BY StandsTop
    <2>2. LastOf(own) # 0
      BY <1>1, <2>1 DEF Worded, Is, Inner
    <2>3. QED
      BY <2>2 DEF PlacedIn, Fits, Modifiers
  <1>4. /\ Basis(t, p + 1, FrontOf(s), FrontOf(own)) /\ FrontOf(s) \in Seq(StackKinds)
        /\ Says(t, p + 1, LastOf(FrontOf(s)), LastOf(FrontOf(own)))
        /\ Sits(LastOf(FrontOf(s)), LastOf(s))
    BY <1>1, <1>2, <1>3, BasisEnd
  <1>5. LastOf(FrontOf(s)) \notin {"match", "modified", "modifiedMember"}
    BY <1>4 DEF Sits, Closed, BlockKinds
  <1>6. SaysTop(t, p + 1, LastOf(FrontOf(s)), LastOf(FrontOf(own)))
    BY <1>5, SaysTopNew
  <1>7. p + 1 \in Nat /\ p + 1 > 0
    OBVIOUS
  <1>8. Stands(t, p + 1, FrontOf(s), FrontOf(own))
    BY <1>4, <1>6, <1>7, StandsOf
  <1>9. FrontOf(s) # <<>>
    BY <1>4 DEF Basis, Frames
  <1>10. QED
    BY <1>4, <1>8, <1>9

-----------------------------------------------------------------------------
(* Newlines, and the parts of a construct after the first.                 *)
LEMMA MoreNewlines ==
  ASSUME NEW t, NEW p \in Nat, p > 0
  PROVE  /\ \A h \in 1 .. p - 1 : Newlines(t, h, p + 1) <=> Newlines(t, h, p) /\ t[p] = "nl"
         /\ Newlines(t, p, p + 1)
  <1>1. \A h \in 1 .. p - 1 : \A j \in h + 1 .. (p + 1) - 1 : j \in h + 1 .. p - 1 \/ j = p
    BY Ranges, Zenon
  <1>2. \A h \in 1 .. p - 1 : \A j \in h + 1 .. p - 1 : j \in h + 1 .. (p + 1) - 1
    BY Ranges, Zenon
  <1>3. \A h \in 1 .. p - 1 : p \in h + 1 .. (p + 1) - 1
    BY Ranges, Zenon
  <1>4. \A j : j \notin p + 1 .. (p + 1) - 1
    OBVIOUS
  <1>5. QED
    BY <1>1, <1>2, <1>3, <1>4, Zenon DEF Newlines

(* A newline changes nothing but the place.                                *)
LEMMA NewlineGoes ==
  ASSUME NEW t, NEW p \in Nat, p > 0, NEW s \in Seq(StackKinds), NEW own, Stands(t, p, s, own),
         LastOf(s) # "modifiedMember", t[p] = "nl"
  PROVE  Stands(t, p + 1, s, own)
  <1> DEFINE k == LastOf(s)
  <1> DEFINE o == LastOf(own)
  <1>1. /\ Worded(t, k, o) /\ Says(t, p, k, o) /\ SaysTop(t, p, k, o) /\ Owns(t, o, p) /\ o \in 0 .. p - 1
        /\ Frames(t, p, s, own) /\ k = s[Len(s)] /\ o = own[Len(s)] /\ Len(s) > 0
    BY StandsTop, Zenon
  <1>2. ~OpensIn(t, p) /\ t[p] # "end"
    BY DEF OpensIn
  <1>3. Frames(t, p + 1, s, own)
    BY <1>1, <1>2, FramesPlain
  <1>4. Says(t, p + 1, k, o)
    <2>1. ~MarkAt(t, "else", o, p) /\ ~MarkAt(t, "catch", o, p)
      BY DEF MarkAt
    <2>2. QED
      BY <1>1, <2>1, SaysGoesOn
  <1>5. \A n \in 1 .. Len(s) : Says(t, p + 1, s[n], own[n])
    <2>0. \A n \in 1 .. Len(s) : n \in 1 .. Len(s) - 1 \/ n = Len(s)
      OBVIOUS
    <2>1. \A n \in 1 .. Len(s) - 1 : n \in 1 .. Len(s)
      OBVIOUS
    <2>2. \A n \in 1 .. Len(s) - 1 : Says(t, p, s[n], own[n])
      BY <2>1 DEF Stands
    <2>3. \A n \in 1 .. Len(s) - 1 : Says(t, p + 1, s[n], own[n])
      BY <1>1, <2>2, LowerSays
    <2>4. QED
      BY <1>1, <1>4, <2>0, <2>3
  <1>6. SaysTop(t, p + 1, k, o)
    <2>2. k = "match" => \A h \in 1 .. (p + 1) - 1 : ~MarkAt(t, "case", o, h)
      <3>1. k = "match" => \A h \in 1 .. p - 1 : ~MarkAt(t, "case", o, h)
        BY <1>1 DEF SaysTop
      <3>2. ~MarkAt(t, "case", o, p)
        BY DEF MarkAt
      <3>3. \A h \in 1 .. (p + 1) - 1 : h \in 1 .. p - 1 \/ h = p
        BY Ranges, Zenon
      <3>4. QED
        BY <3>1, <3>2, <3>3
    <2>3. k = "modified" => \E h \in 1 .. (p + 1) - 1 : t[h] \in Modifiers /\ Newlines(t, h, p + 1) /\ Owns(t, 0, h)
      <3>1. k = "modified" => \E h \in 1 .. p - 1 : t[h] \in Modifiers /\ Newlines(t, h, p) /\ Owns(t, 0, h)
        BY <1>1 DEF SaysTop
      <3>2. \A h \in 1 .. p - 1 : h \in 1 .. (p + 1) - 1
        BY Ranges, Zenon
      <3>3. \A h \in 1 .. p - 1 : Newlines(t, h, p) => Newlines(t, h, p + 1)
        BY MoreNewlines
      <3>4. QED
        BY <3>1, <3>2, <3>3
    <2>4. (\E h \in 1 .. (p + 1) - 1 : t[h] = "else" /\ Newlines(t, h, p + 1)) => k = "afterElse"
      <3>1. (\E h \in 1 .. p - 1 : t[h] = "else" /\ Newlines(t, h, p)) => k = "afterElse"
        BY <1>1 DEF SaysTop
      <3>2. \A h \in 1 .. (p + 1) - 1 : h \in 1 .. p - 1 \/ h = p
        BY Ranges, Zenon
      <3>3. \A h \in 1 .. p - 1 : Newlines(t, h, p + 1) => Newlines(t, h, p)
        BY MoreNewlines
      <3>4. QED
        BY <3>1, <3>2, <3>3
    <2>5. QED
      BY <2>2, <2>3, <2>4 DEF SaysTop
  <1>7. PlacedIn(t, p, o)
    BY DEF PlacedIn, Fits, Modifiers
  <1>8. \A i \in 1 .. p - 1 : \A a \in 0 .. i - 1 : Pending(t, p, k, i, a) => Pending(t, p + 1, k, i, a)
    <2>1. \A h \in 1 .. p - 1 : Newlines(t, h, p) => Newlines(t, h, p + 1)
      BY MoreNewlines
    <2>2. QED
      BY <2>1 DEF Pending
  <1>9. PlacedTo(t, p + 1, k)
    BY <1>1, <1>7, <1>8, PlacedNext DEF Stands
  <1>10. QED
    BY <1>3, <1>5, <1>6, <1>9 DEF Stands

(* An if: to its else, and from there to the next block.                   *)
LEMMA ElseGoes ==
  ASSUME NEW t, NEW p \in Nat, p > 0, NEW s \in Seq(StackKinds), NEW own, Stands(t, p, s, own),
         LastOf(s) = "then", t[p] = "else"
  PROVE  /\ Append(FrontOf(s), "afterElse") \in Seq(StackKinds)
         /\ \E own2 : Stands(t, p + 1, Append(FrontOf(s), "afterElse"), own2)
  <1> DEFINE o == LastOf(own)
  <1> DEFINE s2 == Append(FrontOf(s), "afterElse")
  <1>1. Worded(t, "then", o) /\ Says(t, p, "then", o) /\ Owns(t, o, p)
    BY StandsTop
  <1>2. Is(t, o, {"if"})
    BY <1>1 DEF Worded, Word
  <1>3. \A k \in 1 .. p - 1 : MarkAt(t, "else", o, k) => Chained(t, k, p)
    BY <1>1 DEF Says
  <1>4. PlacedIn(t, p, o)
    BY <1>2, <1>3 DEF PlacedIn, Fits, Modifiers
  <1>5. Basis(t, p, s, own)
    BY BasisOf
  <1>6. Basis(t, p + 1, s, own)
    BY <1>4, <1>5, BasisPlain DEF OpensIn
  <1>7. p + 1 \in Nat /\ p + 1 > 0
    OBVIOUS
  <1>8. "afterElse" \in StackKinds /\ "afterElse" \in Switches /\ LastOf(s) \in Switches /\ Word("afterElse") = Word(LastOf(s))
    BY DEF StackKinds, Switches, Word
  <1>9. Basis(t, p + 1, s2, own) /\ s2 \in Seq(StackKinds) /\ LastOf(s2) = "afterElse"
    BY <1>6, <1>7, <1>8, BasisReplace
  <1> HIDE DEF s2
  <1>10. Says(t, p + 1, "afterElse", o)
    <2>1. \A k \in 1 .. p - 1 : Chained(t, k, p) => Chained(t, k, p + 1)
      BY Ranges, Zenon DEF Chained
    <2>2. Newlines(t, p, p + 1)
      BY MoreNewlines
    <2>3. \A k \in 1 .. (p + 1) - 1 : k \in 1 .. p - 1 \/ k = p
      BY Ranges, Zenon
    <2>4. p \in 1 .. (p + 1) - 1
      BY Ranges, Zenon
    <2>5. MarkAt(t, "else", o, p)
      BY <1>1 DEF MarkAt
    <2>6. QED
      BY <1>3, <2>1, <2>2, <2>3, <2>4, <2>5 DEF Says
  <1>11. SaysTop(t, p + 1, "afterElse", o)
    BY DEF SaysTop
  <1>12. Stands(t, p + 1, s2, own)
    BY <1>7, <1>9, <1>10, <1>11, StandsOf
  <1>13. QED
    BY <1>9, <1>12 DEF s2

(* After else, an if is a link of the chain and anything else a block.     *)
LEMMA ChainGoes ==
  ASSUME NEW t, NEW p \in Nat, p > 0, NEW s \in Seq(StackKinds), NEW own, Stands(t, p, s, own),
         LastOf(s) = "afterElse", t[p] = "if"
  PROVE  /\ Append(FrontOf(s), "then") \in Seq(StackKinds)
         /\ \E own2 : Stands(t, p + 1, Append(FrontOf(s), "then"), own2)
  <1> DEFINE o == LastOf(own)
  <1> DEFINE s2 == Append(FrontOf(s), "then")
  <1>1. Worded(t, "afterElse", o) /\ Says(t, p, "afterElse", o) /\ Owns(t, o, p)
    BY StandsTop
  <1>2. Is(t, o, {"if"})
    BY <1>1 DEF Worded, Word
  <1>3. /\ \A k \in 1 .. p - 1 : MarkAt(t, "else", o, k) => Chained(t, k, p) \/ Newlines(t, k, p)
        /\ \E k \in 1 .. p - 1 : MarkAt(t, "else", o, k) /\ Newlines(t, k, p)
    BY <1>1 DEF Says
  <1>4. PlacedIn(t, p, o)
    BY <1>2 DEF PlacedIn, Fits, InStatements, Openers, Is, Modifiers
  <1>5. Basis(t, p, s, own)
    BY BasisOf
  <1>l. LinkedIn(t, p)
    BY <1>3 DEF LinkedIn, MarkAt, Newlines
  <1>6. Basis(t, p + 1, s, own)
    BY <1>4, <1>5, <1>l, BasisPlain DEF OpensIn
  <1>7. p + 1 \in Nat /\ p + 1 > 0
    OBVIOUS
  <1>8. "then" \in StackKinds /\ "then" \in Switches /\ LastOf(s) \in Switches /\ Word("then") = Word(LastOf(s))
    BY DEF StackKinds, BlockKinds, Switches, Word
  <1>9. Basis(t, p + 1, s2, own) /\ s2 \in Seq(StackKinds) /\ LastOf(s2) = "then"
    BY <1>6, <1>7, <1>8, BasisReplace
  <1> HIDE DEF s2
  <1>10. Says(t, p + 1, "then", o)
    <2>1. \A k \in 1 .. p - 1 : Chained(t, k, p) => Chained(t, k, p + 1)
      BY Ranges, Zenon DEF Chained
    <2>2. \A k \in 1 .. p - 1 : Newlines(t, k, p) => Chained(t, k, p + 1)
      BY Ranges, Zenon DEF Chained
    <2>3. \A k \in 1 .. (p + 1) - 1 : k \in 1 .. p - 1 \/ k = p
      BY Ranges, Zenon
    <2>5. ~MarkAt(t, "else", o, p)
      BY DEF MarkAt
    <2>6. QED
      BY <1>3, <2>1, <2>2, <2>3, <2>5 DEF Says
  <1>11. SaysTop(t, p + 1, "then", o)
    BY SaysTopNew
  <1>12. Stands(t, p + 1, s2, own)
    BY <1>7, <1>9, <1>10, <1>11, StandsOf
  <1>13. QED
    BY <1>9, <1>12 DEF s2

LEMMA PlainElseGoes ==
  ASSUME NEW t, NEW p \in Nat, p > 0, NEW s \in Seq(StackKinds), NEW own, Stands(t, p, s, own),
         LastOf(s) = "afterElse", t[p] \notin {"nl", "if"}, p <= Len(t), Len(t) \in Nat
  PROVE  /\ Append(FrontOf(s), "else") \in Seq(StackKinds)
         /\ \E own2 : Stands(t, p, Append(FrontOf(s), "else"), own2)
  <1> DEFINE o == LastOf(own)
  <1> DEFINE s2 == Append(FrontOf(s), "else")
  <1>1. Says(t, p, "afterElse", o) /\ SaysTop(t, p, "afterElse", o)
    BY StandsTop
  <1>2. PICK k \in 1 .. p - 1 : MarkAt(t, "else", o, k) /\ Newlines(t, k, p)
    BY <1>1 DEF Says
  <1>3. p \in k + 1 .. Len(t)
    OBVIOUS
  <1>4. Unchained(t, k)
    BY <1>2, <1>3 DEF Unchained
  <1>5. Basis(t, p, s, own)
    BY BasisOf
  <1>8. "else" \in StackKinds /\ "else" \in Switches /\ LastOf(s) \in Switches /\ Word("else") = Word(LastOf(s))
    BY DEF StackKinds, BlockKinds, Switches, Word
  <1>9. Basis(t, p, s2, own) /\ s2 \in Seq(StackKinds) /\ LastOf(s2) = "else"
    BY <1>5, <1>8, BasisReplace
  <1> HIDE DEF s2
  <1>10. Says(t, p, "else", o)
    BY <1>2, <1>4 DEF Says
  <1>11. SaysTop(t, p, "else", o)
    BY <1>1 DEF SaysTop
  <1>12. Stands(t, p, s2, own)
    BY <1>9, <1>10, <1>11, StandsOf
  <1>13. QED
    BY <1>9, <1>12 DEF s2

(* A catch, once.                                                          *)
LEMMA CatchGoes ==
  ASSUME NEW t, NEW p \in Nat, p > 0, NEW s \in Seq(StackKinds), NEW own, Stands(t, p, s, own),
         LastOf(s) = "try", t[p] = "catch"
  PROVE  /\ Append(FrontOf(s), "catch") \in Seq(StackKinds)
         /\ \E own2 : Stands(t, p + 1, Append(FrontOf(s), "catch"), own2)
  <1> DEFINE o == LastOf(own)
  <1> DEFINE s2 == Append(FrontOf(s), "catch")
  <1>1. Worded(t, "try", o) /\ Says(t, p, "try", o) /\ Owns(t, o, p)
    BY StandsTop
  <1>2. Is(t, o, {"try"})
    BY <1>1 DEF Worded, Word
  <1>3. \A k \in 1 .. p - 1 : ~MarkAt(t, "catch", o, k)
    BY <1>1 DEF Says
  <1>4. PlacedIn(t, p, o)
    BY <1>2, <1>3 DEF PlacedIn, Fits, Modifiers
  <1>5. Basis(t, p, s, own)
    BY BasisOf
  <1>6. Basis(t, p + 1, s, own)
    BY <1>4, <1>5, BasisPlain DEF OpensIn
  <1>7. p + 1 \in Nat /\ p + 1 > 0
    OBVIOUS
  <1>8. "catch" \in StackKinds /\ "catch" \in Switches /\ LastOf(s) \in Switches /\ Word("catch") = Word(LastOf(s))
    BY DEF StackKinds, BlockKinds, Switches, Word
  <1>9. Basis(t, p + 1, s2, own) /\ s2 \in Seq(StackKinds) /\ LastOf(s2) = "catch"
    BY <1>6, <1>7, <1>8, BasisReplace
  <1> HIDE DEF s2
  <1>10. Says(t, p + 1, "catch", o)
    <2>4. p \in 1 .. (p + 1) - 1
      BY Ranges, Zenon
    <2>5. MarkAt(t, "catch", o, p)
      BY <1>1 DEF MarkAt
    <2>6. QED
      BY <2>4, <2>5 DEF Says
  <1>11. SaysTop(t, p + 1, "catch", o)
    BY SaysTopNew
  <1>12. Stands(t, p + 1, s2, own)
    BY <1>7, <1>9, <1>10, <1>11, StandsOf
  <1>13. QED
    BY <1>9, <1>12 DEF s2

(* The cases of a match.                                                   *)
LEMMA CaseGoes ==
  ASSUME NEW t, NEW p \in Nat, p > 0, NEW s \in Seq(StackKinds), NEW own, Stands(t, p, s, own),
         LastOf(s) = "match", t[p] = "case"
  PROVE  Append(s, "case") \in Seq(StackKinds) /\ \E own2 : Stands(t, p + 1, Append(s, "case"), own2)
  <1> DEFINE o == LastOf(own)
  <1> DEFINE s2 == Append(s, "case")
  <1> DEFINE own2 == Append(own, o)
  <1>1. Worded(t, "match", o) /\ Owns(t, o, p)
    BY StandsTop
  <1>2. Is(t, o, {"match"})
    BY <1>1 DEF Worded, Word
  <1>4. PlacedIn(t, p, o)
    BY <1>2 DEF PlacedIn, Fits, Modifiers
  <1>5. Basis(t, p, s, own)
    BY BasisOf
  <1>6. Basis(t, p + 1, s, own)
    BY <1>4, <1>5, BasisPlain DEF OpensIn
  <1>7. p + 1 \in Nat /\ p + 1 > 0
    OBVIOUS
  <1>8. "case" \in StackKinds /\ "case" \in Inner /\ Sits(LastOf(s), "case")
    BY DEF StackKinds, BlockKinds, Inner, Sits
  <1>8a. Says(t, p + 1, LastOf(s), LastOf(own))
    BY SaysNothing
  <1>9. Basis(t, p + 1, s2, own2) /\ s2 \in Seq(StackKinds) /\ LastOf(s2) = "case" /\ LastOf(own2) = o
    BY <1>6, <1>7, <1>8, <1>8a, BasisInner
  <1> HIDE DEF s2, own2
  <1>10. Says(t, p + 1, "case", o)
    <2>4. p \in 1 .. (p + 1) - 1
      BY Ranges, Zenon
    <2>5. MarkAt(t, "case", o, p)
      BY <1>1 DEF MarkAt
    <2>6. QED
      BY <2>4, <2>5 DEF Says
  <1>11. SaysTop(t, p + 1, "case", o)
    BY SaysTopNew
  <1>12. Stands(t, p + 1, s2, own2)
    BY <1>7, <1>9, <1>10, <1>11, StandsOf
  <1>13. QED
    BY <1>9, <1>12 DEF s2

-----------------------------------------------------------------------------
(* The frame below a part of a construct is the innermost again.           *)
LEMMA OuterFrames ==
  ASSUME NEW t, NEW p \in Nat, p > 0, NEW s \in Seq(StackKinds), NEW own, Stands(t, p, s, own),
         LastOf(s) \in Inner
  PROVE  /\ Frames(t, p, FrontOf(s), FrontOf(own)) /\ FrontOf(s) \in Seq(StackKinds) /\ FrontOf(s) # <<>>
         /\ \A n \in 1 .. Len(FrontOf(s)) : Says(t, p, FrontOf(s)[n], FrontOf(own)[n])
         /\ LastOf(FrontOf(own)) = LastOf(own) /\ Sits(LastOf(FrontOf(s)), LastOf(s))
         /\ \A n \in 1 .. Len(FrontOf(s)) - 1 : Says(t, p, FrontOf(s)[n], FrontOf(own)[n])
  <1>1. /\ Len(s) > 0 /\ s # <<>> /\ own \in Seq(Nat) /\ Len(own) = Len(s) /\ own # <<>> /\ Frames(t, p, s, own)
    BY StandsTop
  <1>1f. Frames(t, p, s, own)
    BY <1>1
  <1>2. /\ Frames(t, p, FrontOf(s), FrontOf(own)) /\ LastOf(FrontOf(own)) = LastOf(own)
        /\ LastOf(FrontOf(s)) = s[Len(s) - 1] /\ Len(s) > 1 /\ Sits(s[Len(s) - 1], LastOf(s))
    BY <1>1f, FramesOuter
  <1>3. FrontOf(s) # <<>>
    BY <1>2 DEF Frames
  <1>4. \A n \in 1 .. Len(s) - 1 : n \in 1 .. Len(s)
    OBVIOUS
  <1>5. \A n \in 1 .. Len(s) - 1 : Says(t, p, s[n], own[n])
    BY <1>4 DEF Stands
  <1>6. /\ \A n \in 1 .. Len(FrontOf(s)) : Says(t, p, FrontOf(s)[n], FrontOf(own)[n])
        /\ FrontOf(s) \in Seq(StackKinds) /\ Len(FrontOf(s)) = Len(s) - 1
    <2>1. /\ \A n \in 1 .. Len(FrontOf(s)) : Says(t, p, FrontOf(s)[n], FrontOf(own)[n])
          /\ \A n \in 1 .. Len(FrontOf(s)) : Says(t, p, FrontOf(s)[n], own[n])
          /\ Len(FrontOf(own)) = Len(FrontOf(s)) /\ FrontOf(s) \in Seq(StackKinds) /\ FrontOf(own) \in Seq(Nat)
          /\ Len(FrontOf(s)) = Len(s) - 1
      BY <1>1, <1>5, SaysFront
    <2>2. QED
      BY <2>1
  <1>7. \A n \in 1 .. Len(FrontOf(s)) - 1 : n \in 1 .. Len(FrontOf(s))
    BY <1>1, <1>6
  <1>8. QED
    BY <1>2, <1>3, <1>6, <1>7

LEMMA CaseEndsGoes ==
  ASSUME NEW t, NEW p \in Nat, p > 0, NEW s \in Seq(StackKinds), NEW own, Stands(t, p, s, own),
         LastOf(s) = "case", t[p] \in {"case", "end", "eof"}, p <= Len(t)
  PROVE  FrontOf(s) \in Seq(StackKinds) /\ FrontOf(s) # <<>> /\ \E own2 : Stands(t, p, FrontOf(s), own2)
  <1>0. LastOf(s) \in Inner
    BY DEF Inner
  <1>1. /\ Frames(t, p, FrontOf(s), FrontOf(own)) /\ FrontOf(s) \in Seq(StackKinds) /\ FrontOf(s) # <<>>
        /\ \A n \in 1 .. Len(FrontOf(s)) : Says(t, p, FrontOf(s)[n], FrontOf(own)[n])
        /\ LastOf(FrontOf(own)) = LastOf(own) /\ Sits(LastOf(FrontOf(s)), LastOf(s))
    BY <1>0, OuterFrames
  <1>2. LastOf(FrontOf(s)) = "match"
    BY <1>1, SitsApart
  <1>3. SaysTop(t, p, "case", LastOf(own))
    BY StandsTop
  <1>4. SaysTop(t, p, "match", LastOf(own))
    BY <1>3 DEF SaysTop
  <1>5. PlacedTo(t, p, "match")
    BY PlacedNow DEF Stands
  <1>6. Stands(t, p, FrontOf(s), FrontOf(own))
    BY <1>1, <1>2, <1>4, <1>5 DEF Stands
  <1>7. QED
    BY <1>1, <1>6

(* A modifier, at the top level and in a type.                             *)
LEMMA ModifierGoes ==
  ASSUME NEW t, NEW p \in Nat, p > 0, NEW s \in Seq(StackKinds), NEW own, Basis(t, p, s, own),
         t[p] \in Modifiers, NEW kind \in {"modified", "modifiedMember"}, Sits(LastOf(s), kind),
         kind = "modifiedMember" => t[p] = "public"
  PROVE  Append(s, kind) \in Seq(StackKinds) /\ \E own2 : Stands(t, p + 1, Append(s, kind), own2)
  <1> DEFINE o == LastOf(own)
  <1> DEFINE s2 == Append(s, kind)
  <1> DEFINE own2 == Append(own, o)
  <1>1. Worded(t, LastOf(s), o) /\ Owns(t, o, p) /\ o \in 0 .. p - 1 /\ Frames(t, p, s, own)
    BY BasisTop
  <1>1a. /\ own \in Seq(Nat) /\ Len(own) = Len(s) /\ LastOf(own) = own[Len(s)] /\ LastOf(s) = s[Len(s)] /\ Len(s) > 0
    BY BasisTop
  <1>1b. o \in Nat
    BY <1>1
  <1>2. /\ kind = "modified" => LastOf(s) = "program" /\ o = 0
        /\ kind = "modifiedMember" => LastOf(s) = "type" /\ Is(t, o, {"type"})
    <2>1. (kind = "modified" => LastOf(s) = "program") /\ (kind = "modifiedMember" => LastOf(s) = "type")
      BY SitsApart
    <2>2. QED
      BY <1>1, <2>1 DEF Worded, Word
  <1>3. ~OpensIn(t, p) /\ t[p] # "end"
    BY DEF OpensIn, Modifiers
  <1>4. Frames(t, p + 1, s, own)
    BY <1>1, <1>3, FramesPlain
  <1>5. p + 1 \in Nat /\ p + 1 > 0 /\ p \in 1 .. (p + 1) - 1 /\ (p + 1) - 1 = p /\ p + 1 > 1
    OBVIOUS
  <1>6. kind \in StackKinds /\ kind \in Inner
    BY DEF StackKinds, Inner
  <1>7. Frames(t, p + 1, s2, own2)
    BY <1>4, <1>5, <1>6, FramesInner
  <1>8. Says(t, p + 1, LastOf(s), o) /\ Says(t, p + 1, kind, o)
    <2>1. LastOf(s) \in {"program", "type"}
      BY <1>2
    <2>2. QED
      BY <2>1, SaysNothing
  <1>9. \A n \in 1 .. Len(s) : Says(t, p + 1, s[n], own[n])
    <2>1. \A n \in 1 .. Len(s) - 1 : Says(t, p + 1, s[n], own[n])
      BY <1>1, LowerSays DEF Basis
    <2>2. \A n \in 1 .. Len(s) : n \in 1 .. Len(s) - 1 \/ n = Len(s)
      OBVIOUS
    <2>3. QED
      BY <1>1a, <1>8, <2>1, <2>2
  <1>10. /\ \A n \in 1 .. Len(s2) : Says(t, p + 1, s2[n], own2[n])
         /\ LastOf(s2) = kind /\ LastOf(own2) = o
    <2> HIDE DEF o
    <2>1. own \in Seq(Nat) /\ Len(own) = Len(s) /\ o \in Nat /\ kind \in StackKinds
      BY <1>1a, <1>1b, <1>6
    <2>2. Says(t, p + 1, kind, o) /\ \A n \in 1 .. Len(s) : Says(t, p + 1, s[n], own[n])
      BY <1>8, <1>9
    <2>3. /\ Len(s2) = Len(s) + 1 /\ s2[Len(s) + 1] = kind /\ Len(s) \in Nat
          /\ \A n \in 1 .. Len(s) : s2[n] = s[n]
      BY <2>1, AppendIs
    <2>4. /\ Len(own2) = Len(s) + 1 /\ own2[Len(s) + 1] = o
          /\ \A n \in 1 .. Len(s) : own2[n] = own[n]
      BY <2>1, AppendIs
    <2> HIDE DEF s2, own2
    <2>5. \A n \in 1 .. Len(s) + 1 : n \in 1 .. Len(s) \/ n = Len(s) + 1
      BY <2>3
    <2>6. \A n \in 1 .. Len(s2) : Says(t, p + 1, s2[n], own2[n])
      BY <2>2, <2>3, <2>4, <2>5
    <2>7. LastOf(s2) = kind /\ LastOf(own2) = o
      BY <2>3, <2>4 DEF LastOf
    <2>8. QED
      BY <2>6, <2>7
  <1>11. s2 \in Seq(StackKinds)
    BY <1>6, AppendIs
  <1> HIDE DEF s2, own2
  <1>12. Newlines(t, p, p + 1)
    BY MoreNewlines
  <1>13. Pending(t, p + 1, kind, p, o)
    BY <1>2, <1>5, <1>12 DEF Pending
  <1>14. PlacedTo(t, p + 1, kind)
    <2>1. \A i \in 1 .. p - 1 : \A a \in 0 .. i - 1 : ~Pending(t, p, "program", i, a)
      BY NonePending, Zenon
    <2>2. PlacedTo(t, p, "program")
      BY DEF Basis
    <2>3. QED
      BY <1>1, <1>13, <2>1, <2>2, PlacedNext
  <1>15. SaysTop(t, p + 1, kind, o)
    <2>1. \A h \in 1 .. (p + 1) - 1 : ~(t[h] = "else" /\ Newlines(t, h, p + 1))
      <3>1. \A h \in 1 .. (p + 1) - 1 : h \in 1 .. p - 1 \/ h = p
        BY Ranges, Zenon
      <3>2. \A h \in 1 .. p - 1 : ~Newlines(t, h, p + 1)
        BY MoreNewlines DEF Modifiers
      <3>3. t[p] # "else"
        BY DEF Modifiers
      <3>4. QED
        BY <3>1, <3>2, <3>3
    <2>2. kind = "modifiedMember" => AfterPublic(t, p + 1)
      BY <1>5 DEF AfterPublic
    <2>3. Owns(t, o, (p + 1) - 1)
      BY <1>1, <1>5
    <2>4. kind = "modified" => \E h \in 1 .. (p + 1) - 1 : t[h] \in Modifiers /\ Newlines(t, h, p + 1) /\ Owns(t, 0, h)
      BY <1>1, <1>2, <1>5, <1>12
    <2>5. QED
      BY <2>1, <2>2, <2>3, <2>4 DEF SaysTop
  <1>16. Stands(t, p + 1, s2, own2)
    BY <1>7, <1>10, <1>14, <1>15 DEF Stands
  <1>17. QED
    BY <1>11, <1>16 DEF s2

(* What follows a modifier at the top level, when it is a declaration.     *)
LEMMA ModifiedBasis ==
  ASSUME NEW t, NEW p \in Nat, p > 0, NEW s \in Seq(StackKinds), NEW own, Stands(t, p, s, own),
         LastOf(s) = "modified", t[p] \in Modifiable, Len(t) \in Nat, p <= Len(t)
  PROVE  /\ Basis(t, p, FrontOf(s), FrontOf(own)) /\ FrontOf(s) \in Seq(StackKinds)
         /\ LastOf(FrontOf(s)) = "program"
  <1>0. LastOf(s) \in Inner
    BY DEF Inner
  <1>1. /\ Frames(t, p, FrontOf(s), FrontOf(own)) /\ FrontOf(s) \in Seq(StackKinds)
        /\ \A n \in 1 .. Len(FrontOf(s)) - 1 : Says(t, p, FrontOf(s)[n], FrontOf(own)[n])
        /\ Sits(LastOf(FrontOf(s)), LastOf(s))
    BY <1>0, OuterFrames
  <1>2. LastOf(FrontOf(s)) = "program"
    BY <1>1, SitsApart
  <1>3. t[p] # "nl"
    BY DEF Modifiable, Modifiers
  <1>4. ASSUME NEW i \in 1 .. p - 1, NEW o \in 0 .. i - 1, Pending(t, p, "modified", i, o)
        PROVE  PlacedIn(t, i, o)
    <2>1. t[i] \in Modifiers /\ o = 0 /\ Newlines(t, i, p)
      BY <1>4 DEF Pending
    <2>2. p \in i + 1 .. Len(t)
      OBVIOUS
    <2>3. NextIs(t, i, p)
      BY <1>3, <2>1, <2>2 DEF NextIs
    <2>4. QED
      BY <2>1, <2>2, <2>3 DEF PlacedIn, ModifierFits, Modifiers
  <1>5. PlacedTo(t, p, "modified")
    BY DEF Stands
  <1>6. PlacedTo(t, p, "program")
    BY <1>4, <1>5 DEF PlacedTo
  <1>7. QED
    BY <1>1, <1>2, <1>6 DEF Basis

LEMMA TopPlaced ==
  ASSUME NEW t, NEW p \in Nat, p > 0, NEW s \in Seq(StackKinds), NEW own, Basis(t, p, s, own), LastOf(s) = "program",
         t[p] \in {"fn", "macro", "type", "const", "use"}
  PROVE  PlacedIn(t, p, LastOf(own)) /\ LastOf(own) = 0
  <1>1. Worded(t, "program", LastOf(own))
    BY BasisTop
  <1>2. LastOf(own) = 0
    BY <1>1 DEF Worded
  <1>3. QED
    BY <1>2 DEF PlacedIn, Fits, Modifiers

(* A declaration of the top level.                                         *)
LEMMA DeclGoes ==
  ASSUME NEW t, NEW p \in Nat, p > 0, NEW s \in Seq(StackKinds), NEW own, Basis(t, p, s, own), LastOf(s) = "program",
         t[p] \in {"fn", "macro", "type"}
  PROVE  Append(s, t[p]) \in Seq(StackKinds) /\ \E own2 : Stands(t, p + 1, Append(s, t[p]), own2)
  <1>1. PlacedIn(t, p, LastOf(own))
    BY TopPlaced
  <1>2. OpensIn(t, p) /\ Word(t[p]) = t[p] /\ Sits(LastOf(s), t[p])
    BY DEF OpensIn, Word, Sits, StackKinds, BlockKinds
  <1>3. Says(t, p + 1, LastOf(s), LastOf(own))
    BY SaysNothing
  <1>4. t[p] \in {"fn", "macro", "type", "then", "loop", "try", "match"}
    OBVIOUS
  <1>5. QED
    BY <1>1, <1>2, <1>3, <1>4, PushGoes

LEMMA ConstGoes ==
  ASSUME NEW t, NEW p \in Nat, p > 0, NEW s \in Seq(StackKinds), NEW own, Basis(t, p, s, own), LastOf(s) = "program",
         t[p] \in {"const", "use"}
  PROVE  \E own2 : Stands(t, p + 1, s, own2)
  <1>1. PlacedIn(t, p, LastOf(own))
    BY TopPlaced
  <1>2. Basis(t, p + 1, s, own)
    BY <1>1, BasisPlain DEF OpensIn
  <1>3. Says(t, p + 1, LastOf(s), LastOf(own))
    BY SaysNothing
  <1>4. SaysTop(t, p + 1, LastOf(s), LastOf(own))
    BY SaysTopNew
  <1>5. p + 1 \in Nat /\ p + 1 > 0
    OBVIOUS
  <1>6. Stands(t, p + 1, s, own)
    BY <1>2, <1>3, <1>4, <1>5, StandsOf
  <1>7. QED
    BY <1>6

(* The field after a modifier.                                             *)
LEMMA ModifiedFieldGoes ==
  ASSUME NEW t, NEW p \in Nat, p > 0, NEW s \in Seq(StackKinds), NEW own, Stands(t, p, s, own),
         LastOf(s) = "modifiedMember", t[p] = "let", Len(t) \in Nat, p <= Len(t)
  PROVE  FrontOf(s) \in Seq(StackKinds) /\ FrontOf(s) # <<>> /\ \E own2 : Stands(t, p + 1, FrontOf(s), own2)
  <1> DEFINE o == LastOf(own)
  <1> DEFINE s2 == FrontOf(s)
  <1> DEFINE own2 == FrontOf(own)
  <1>0. LastOf(s) \in Inner
    BY DEF Inner
  <1>1. /\ Frames(t, p, s2, own2) /\ s2 \in Seq(StackKinds) /\ s2 # <<>>
        /\ \A n \in 1 .. Len(s2) - 1 : Says(t, p, s2[n], own2[n])
        /\ LastOf(own2) = o /\ Sits(LastOf(s2), LastOf(s))
    BY <1>0, OuterFrames
  <1> HIDE DEF s2, own2
  <1>2. LastOf(s2) = "type"
    BY <1>1, SitsApart
  <1>3. Worded(t, "modifiedMember", o) /\ Owns(t, o, p) /\ o \in 0 .. p - 1
    BY StandsTop
  <1>4. Is(t, o, {"type"})
    BY <1>3 DEF Worded, Word
  <1>5. PlacedIn(t, p, o)
    BY <1>4 DEF PlacedIn, Fits, Modifiers
  <1>6. ASSUME NEW i \in 1 .. p - 1, NEW a \in 0 .. i - 1, Pending(t, p, "modifiedMember", i, a)
        PROVE  PlacedIn(t, i, a)
    <2>1. t[i] = "public" /\ Is(t, a, {"type"}) /\ i = p - 1
      BY <1>6 DEF Pending
    <2>2. i < Len(t) /\ i + 1 = p
      BY <2>1
    <2>3. QED
      BY <2>1, <2>2 DEF PlacedIn, ModifierFits, Modifiers
  <1>7. PlacedTo(t, p, "modifiedMember")
    BY DEF Stands
  <1>8. PlacedTo(t, p, "program")
    BY <1>6, <1>7 DEF PlacedTo
  <1>9. Basis(t, p, s2, own2)
    BY <1>1, <1>8 DEF Basis
  <1>10. Basis(t, p + 1, s2, own2)
    BY <1>1, <1>5, <1>9, BasisPlain DEF OpensIn
  <1>11. Says(t, p + 1, LastOf(s2), LastOf(own2))
    BY <1>2, SaysNothing
  <1>12. SaysTop(t, p + 1, LastOf(s2), LastOf(own2))
    BY <1>2, SaysTopNew
  <1>13. p + 1 \in Nat /\ p + 1 > 0
    OBVIOUS
  <1>14. Stands(t, p + 1, s2, own2)
    BY <1>1, <1>10, <1>11, <1>12, <1>13, StandsOf
  <1>15. QED
    BY <1>1, <1>14 DEF s2

-----------------------------------------------------------------------------
(* What the parser rejects or swallows has no place in the grammar.        *)
LEMMA WrongHere ==
  ASSUME NEW t, NEW p \in Nat, p > 0, NEW s \in Seq(StackKinds), NEW own, Stands(t, p, s, own),
         Len(t) \in Nat, p <= Len(t), t[p] # "eof", Misplaced(t, p, LastOf(own))
  PROVE  Wrong(t)
  <1>1. Owns(t, LastOf(own), p) /\ LastOf(own) \in 0 .. p - 1
    BY StandsTop
  <1>2. p \in 1 .. Len(t)
    OBVIOUS
  <1>3. QED
    BY <1>1, <1>2 DEF Wrong

(* An else whose chain was left, by a line that holds no if.               *)
LEMMA LeftChain ==
  ASSUME NEW t, NEW p \in Nat, NEW k \in 1 .. p - 1, Unchained(t, k), Len(t) \in Nat
  PROVE  ~Chained(t, k, p)
  <1>1. PICK m \in k + 1 .. Len(t) : t[m] \notin {"nl", "if"} /\ Newlines(t, k, m)
    BY DEF Unchained
  <1>2. ASSUME NEW l \in k + 1 .. p - 1, t[l] = "if", Newlines(t, k, l)
        PROVE  FALSE
    <2>1. l < m => l \in k + 1 .. m - 1
      OBVIOUS
    <2>2. m < l => m \in k + 1 .. l - 1
      OBVIOUS
    <2>3. l < m \/ m < l \/ l = m
      OBVIOUS
    <2>4. CASE l < m
      BY <1>1, <1>2, <2>1, <2>4 DEF Newlines
    <2>5. CASE m < l
      BY <1>1, <1>2, <2>2, <2>5 DEF Newlines
    <2>6. CASE l = m
      BY <1>1, <1>2, <2>6
    <2>7. QED
      BY <2>3, <2>4, <2>5, <2>6
  <1>3. QED
    BY <1>2 DEF Chained

(* A keyword that starts no statement of a block.                          *)
LEMMA SwallowedWrong ==
  ASSUME NEW t, NEW p \in Nat, p > 0, NEW s \in Seq(StackKinds), NEW own, Stands(t, p, s, own),
         Len(t) \in Nat, p <= Len(t), LastOf(s) \in BlockKinds,
         t[p] \notin Terminators(LastOf(s)) \cup {"nl", "eof"} \cup Simple \cup Openers
  PROVE  Wrong(t)
  <1> DEFINE o == LastOf(own)
  <1> DEFINE kind == LastOf(s)
  <1>1. Worded(t, kind, o) /\ Says(t, p, kind, o) /\ o \in 0 .. p - 1
    BY StandsTop
  <1>2. o # 0 /\ t[o] # "type"
    BY <1>1, InBlock
  <1> HIDE DEF o, kind
  <1>3. t[o] = Word(kind) /\ kind \in BlockKinds /\ t[p] \notin Terminators(kind)
    BY <1>1 DEF Worded, BlockKinds, Is, kind
  <1>4. t[p] \notin {"end", "nl", "eof", "let", "const", "return", "throw"} \cup Openers
    BY <1>3 DEF Terminators, BlockKinds, Simple
  <1>5. t[p] = "else" => ~(Is(t, o, {"if"}) /\ \A k \in 1 .. p - 1 : MarkAt(t, "else", o, k) => Chained(t, k, p))
    <2>1. SUFFICES ASSUME t[p] = "else", t[o] = "if"
                   PROVE  \E k \in 1 .. p - 1 : MarkAt(t, "else", o, k) /\ ~Chained(t, k, p)
      BY DEF Is
    <2>2. kind = "else"
      BY <1>3, <2>1 DEF Word, BlockKinds, Terminators
    <2>3. \E k \in 1 .. p - 1 : MarkAt(t, "else", o, k) /\ Unchained(t, k)
      BY <1>1, <2>2 DEF Says
    <2>4. QED
      BY <2>3, LeftChain
  <1>6. t[p] = "catch" => ~(Is(t, o, {"try"}) /\ ~\E k \in 1 .. p - 1 : MarkAt(t, "catch", o, k))
    <2>1. SUFFICES ASSUME t[p] = "catch", t[o] = "try"
                   PROVE  \E k \in 1 .. p - 1 : MarkAt(t, "catch", o, k)
      BY DEF Is
    <2>2. kind = "catch"
      BY <1>3, <2>1 DEF Word, BlockKinds, Terminators
    <2>3. QED
      BY <1>1, <2>2 DEF Says
  <1>7. t[p] = "case" => ~Is(t, o, {"match"})
    BY <1>3 DEF Word, BlockKinds, Terminators, Is
  <1>8. Misplaced(t, p, o)
    <2>1. CASE t[p] \in Modifiers
      BY <1>2, <2>1 DEF Misplaced, ModifierMisfits, Modifiers
    <2>2. CASE t[p] \notin Modifiers
      <3>1. ~Is(t, o, {"type"})
        BY <1>2 DEF Is
      <3>2. ~Fits(t, p, o)
        BY <1>2, <1>4, <1>5, <1>6, <1>7, <3>1 DEF Fits
      <3>3. QED
        BY <2>2, <3>2 DEF Misplaced, Modifiers
    <2>3. QED
      BY <2>1, <2>2
  <1>9. QED
    BY <1>4, <1>8, WrongHere DEF o

(* Anything but a case between the cases of a match.                       *)
LEMMA NotACaseWrong ==
  ASSUME NEW t, NEW p \in Nat, p > 0, NEW s \in Seq(StackKinds), NEW own, Stands(t, p, s, own),
         Len(t) \in Nat, p <= Len(t), LastOf(s) = "match", t[p] \notin {"nl", "case", "end", "eof"}
  PROVE  Wrong(t)
  <1> DEFINE o == LastOf(own)
  <1>1. Worded(t, "match", o) /\ SaysTop(t, p, "match", o)
    BY StandsTop
  <1> HIDE DEF o
  <1>2. o # 0 /\ t[o] = "match"
    BY <1>1 DEF Worded, Word, Is
  <1>3. \A k \in 1 .. p - 1 : ~MarkAt(t, "case", o, k)
    BY <1>1 DEF SaysTop
  <1>4. ~InStatements(t, p, o)
    BY <1>2, <1>3 DEF InStatements, Is
  <1>5. ~Is(t, o, {"type"}) /\ ~Is(t, o, {"if"}) /\ ~Is(t, o, {"try"})
    BY <1>2 DEF Is
  <1>6. ~Fits(t, p, o)
    BY <1>2, <1>4, <1>5 DEF Fits
  <1>7. Misplaced(t, p, o)
    BY <1>2, <1>6 DEF Misplaced, ModifierMisfits, Modifiers
  <1>8. QED
    BY <1>7, WrongHere DEF o

(* Anything but a method, a field or a modifier in a type.                 *)
LEMMA MemberWrong ==
  ASSUME NEW t, NEW p \in Nat, p > 0, NEW s \in Seq(StackKinds), NEW own, Stands(t, p, s, own),
         Len(t) \in Nat, p <= Len(t), LastOf(s) = "type",
         t[p] \notin {"nl", "end", "eof", "fn", "let", "public"}
  PROVE  Wrong(t)
  <1> DEFINE o == LastOf(own)
  <1>1. Worded(t, "type", o)
    BY StandsTop
  <1> HIDE DEF o
  <1>2. o # 0 /\ t[o] = "type"
    BY <1>1 DEF Worded, Word, Is
  <1>4. ~InStatements(t, p, o)
    BY <1>2 DEF InStatements, Is
  <1>5. ~Is(t, o, {"match"}) /\ ~Is(t, o, {"if"}) /\ ~Is(t, o, {"try"})
    BY <1>2 DEF Is
  <1>6. ~Fits(t, p, o)
    BY <1>2, <1>4, <1>5 DEF Fits
  <1>7. Misplaced(t, p, o)
    BY <1>2, <1>6 DEF Misplaced, ModifierMisfits, Modifiers
  <1>8. QED
    BY <1>7, WrongHere DEF o

(* Anything but a field after a modifier of a type, a newline included.    *)
LEMMA ModifiedMemberWrong ==
  ASSUME NEW t, NEW p \in Nat, p > 0, NEW s \in Seq(StackKinds), NEW own, Stands(t, p, s, own),
         Len(t) \in Nat, p <= Len(t), LastOf(s) = "modifiedMember", t[p] # "let"
  PROVE  Wrong(t)
  <1> DEFINE o == LastOf(own)
  <1>1. Worded(t, "modifiedMember", o) /\ SaysTop(t, p, "modifiedMember", o)
    BY StandsTop
  <1> HIDE DEF o
  <1>2. o # 0 /\ t[o] = "type"
    BY <1>1 DEF Worded, Word, Is
  <1>3. AfterPublic(t, p) /\ Owns(t, o, p - 1)
    BY <1>1 DEF SaysTop
  <1>4. p > 1 /\ t[p - 1] = "public"
    BY <1>3 DEF AfterPublic
  <1>5. (p - 1) + 1 = p /\ p - 1 < Len(t) /\ p - 1 \in 1 .. Len(t)
    BY <1>4
  <1>6. Misplaced(t, p - 1, o)
    BY <1>2, <1>4, <1>5 DEF Misplaced, ModifierMisfits, Modifiers
  <1>7. o \in 0 .. (p - 1) - 1
    BY <1>3 DEF Owns
  <1>8. QED
    BY <1>3, <1>4, <1>5, <1>6, <1>7 DEF Wrong

(* Anything but a declaration at the top level.                            *)
LEMMA TopDeclWrong ==
  ASSUME NEW t, NEW p \in Nat, p > 0, NEW s \in Seq(StackKinds), NEW own, Stands(t, p, s, own),
         Len(t) \in Nat, p <= Len(t), LastOf(s) = "program",
         t[p] \notin {"nl", "eof"} \cup Modifiable
  PROVE  Wrong(t)
  <1> DEFINE o == LastOf(own)
  <1>1. Worded(t, "program", o)
    BY StandsTop
  <1> HIDE DEF o
  <1>2. o = 0
    BY <1>1 DEF Worded
  <1>3. ~InStatements(t, p, o) /\ \A K : ~Is(t, o, K)
    BY <1>2 DEF InStatements, Is
  <1>4. ~Fits(t, p, o)
    BY <1>2, <1>3 DEF Fits, Modifiable, Modifiers
  <1>5. Misplaced(t, p, o)
    BY <1>4 DEF Misplaced, Modifiable, Modifiers
  <1>6. QED
    BY <1>5, WrongHere DEF o

(* A modifier with no declaration after it.                                *)
LEMMA ModifiedWrong ==
  ASSUME NEW t, NEW p \in Nat, p > 0, NEW s \in Seq(StackKinds), NEW own, Stands(t, p, s, own),
         Len(t) \in Nat, p <= Len(t), LastOf(s) = "modified", t[p] \notin {"nl"} \cup Modifiable
  PROVE  Wrong(t)
  <1>1. SaysTop(t, p, "modified", LastOf(own))
    BY StandsTop
  <1>2. PICK h \in 1 .. p - 1 : t[h] \in Modifiers /\ Newlines(t, h, p) /\ Owns(t, 0, h)
    BY <1>1 DEF SaysTop
  <1>3. p \in h + 1 .. Len(t) /\ h \in 1 .. Len(t) /\ 0 \in 0 .. h - 1
    OBVIOUS
  <1>4. NextIs(t, h, p) /\ t[p] \notin Modifiable
    BY <1>2, <1>3 DEF NextIs
  <1>5. Misplaced(t, h, 0)
    BY <1>2, <1>3, <1>4 DEF Misplaced, ModifierMisfits, Modifiers
  <1>6. QED
    BY <1>2, <1>3, <1>5 DEF Wrong, Modifiers

-----------------------------------------------------------------------------
(* The end of the file: with a construct open it comes too early, at the   *)
(* top level all that was read is well formed.                             *)
LEMMA EndWrong ==
  ASSUME NEW t, NEW p \in Nat, p > 0, NEW s \in Seq(StackKinds), NEW own, Stands(t, p, s, own),
         Len(t) \in Nat, p = Len(t), LastOf(s) \in Closed, t[p] = "eof"
  PROVE  Wrong(t)
  <1>1. Frames(t, p, s, own) /\ Len(s) > 0 /\ LastOf(s) = s[Len(s)] /\ Len(s) \in Nat
    BY StandsTop
  <1>2. LastOf(s) # "program" /\ LastOf(s) \notin Inner
    BY DEF Closed, BlockKinds, Inner
  <1>3. s[1] = "program"
    BY <1>1 DEF Frames
  <1>4. Len(s) > 1 /\ 1 \in 1 .. Len(s) /\ Len(s) \in 1 .. Len(s)
    BY <1>1, <1>2, <1>3
  <1>5. Lev(t, own[1]) < Lev(t, own[Len(s)])
    BY <1>1, <1>2, <1>4 DEF Frames
  <1>6. own[1] = 0
    <2>1. Worded(t, s[1], own[1])
      BY <1>1, <1>4 DEF Frames
    <2>2. QED
      BY <1>3, <2>1 DEF Worded
  <1>7. Lev(t, p - 1) = Lev(t, own[Len(s)])
    BY <1>1 DEF Frames
  <1>8. Lev(t, 0) = 0
    BY LevStep
  <1>9. ~OpensIn(t, p) /\ t[p] # "end"
    BY DEF OpensIn
  <1>10. Lev(t, p) = Lev(t, p - 1) /\ Lev(t, p) \in Int
    BY <1>9, LevAt
  <1>11. Lev(t, Len(t)) # 0
    BY <1>5, <1>6, <1>7, <1>8, <1>10
  <1>12. QED
    BY <1>11 DEF Wrong

LEMMA OnlyOne ==
  ASSUME NEW l \in Nat, l > 0, l \notin 2 .. l
  PROVE  l = 1
  OBVIOUS

(* At the top level the end of the file makes it a good one.               *)
LEMMA EndRight ==
  ASSUME NEW t, NEW p \in Nat, p > 0, NEW s \in Seq(StackKinds), NEW own, Stands(t, p, s, own),
         Len(t) \in Nat, p = Len(t), LastOf(s) = "program", t[p] = "eof"
  PROVE  Right(t) /\ FrontOf(s) = <<>>
  <1>1. Frames(t, p, s, own) /\ Len(s) > 0 /\ LastOf(s) = s[Len(s)] /\ Len(s) \in Nat /\ LastOf(own) = own[Len(s)]
    BY StandsTop
  <1>2. LastOf(own) = 0
    <2>1. Worded(t, "program", LastOf(own))
      BY StandsTop
    <2>2. QED
      BY <2>1 DEF Worded
  <1>3. Lev(t, p - 1) = Lev(t, own[Len(s)])
    BY <1>1 DEF Frames
  <1>4. Lev(t, 0) = 0
    BY LevStep
  <1>5. ~OpensIn(t, p) /\ t[p] # "end"
    BY DEF OpensIn
  <1>6. Lev(t, p) = Lev(t, p - 1)
    BY <1>5, LevAt
  <1>7. Lev(t, Len(t)) = 0
    BY <1>1, <1>2, <1>3, <1>4, <1>6
  <1>8. \A i, a : ~Pending(t, p, "program", i, a)
    BY NonePending
  <1>9. \A i \in 1 .. p - 1 : \E a \in 0 .. i - 1 : Owns(t, a, i) /\ PlacedIn(t, i, a)
    BY <1>8 DEF Stands, PlacedTo
  <1>10. \A i \in 1 .. Len(t) : i \in 1 .. p - 1 \/ i = p
    OBVIOUS
  <1>11. Right(t)
    BY <1>7, <1>9, <1>10 DEF Right
  <1>12. Len(s) = 1
    <2>1. \A n \in 2 .. Len(s) : Sits(s[n - 1], s[n])
      BY <1>1 DEF Frames
    <2>2. \A n \in 2 .. Len(s) : s[n] # "program"
      BY <2>1, SitsApart
    <2>3. Len(s) \notin 2 .. Len(s)
      BY <1>1, <2>2
    <2>4. Len(s) \in Nat /\ Len(s) > 0
      BY <1>1
    <2>5. QED
      BY <2>3, <2>4, OnlyOne, Zenon
  <1>13. FrontOf(s) = <<>>
    BY <1>12 DEF FrontOf
  <1>14. QED
    BY <1>11, <1>13

-----------------------------------------------------------------------------
(* One more token is read: nothing said of those before it changes.        *)
Grows(t, u) == Len(t) \in Nat /\ Len(u) \in Nat /\ Len(u) >= Len(t) /\ Alike(t, u, Len(t))

(* Whether a token fits is settled: more tokens do not change it.          *)
LEMMA ModifierGrows ==
  ASSUME NEW t, NEW u, Grows(t, u), NEW i \in 1 .. Len(t), NEW o \in 0 .. i - 1
  PROVE  /\ ModifierFits(t, i, o) => ModifierFits(u, i, o)
         /\ ModifierMisfits(t, i, o) => ModifierMisfits(u, i, o)
  <1> DEFINE n == Len(t)
  <1>1. n \in Nat /\ Alike(t, u, n) /\ Len(u) \in Nat /\ Len(u) >= n
    BY DEF Grows
  <1> HIDE DEF n
  <1>2. i \in 1 .. n /\ o \in 0 .. n /\ i \in Nat
    BY <1>1 DEF n
  <1>0. t[i] = u[i]
    BY <1>1, <1>2 DEF Alike
  <1>3. \A m \in i + 1 .. n : t[m] = u[m] /\ m \in i + 1 .. Len(u) /\ m \in 1 .. n + 1
    <2>1. \A m \in i + 1 .. n : m \in 1 .. n /\ m \in i + 1 .. Len(u) /\ m \in 1 .. n + 1
      BY <1>1, <1>2
    <2>2. QED
      BY <1>1, <2>1 DEF Alike
  <1>4. \A m \in 1 .. n + 1 : Newlines(t, i, m) <=> Newlines(u, i, m)
    BY <1>1, <1>2, MarksAlike
  <1>5. \A m \in i + 1 .. n : NextIs(t, i, m) => NextIs(u, i, m) /\ m \in i + 1 .. Len(u) /\ t[m] = u[m]
    BY <1>3, <1>4 DEF NextIs
  <1>6. \A K : Is(t, o, K) <=> Is(u, o, K)
    BY <1>1, <1>2, MarksAlike
  <1>7. o # 0 => t[o] = u[o]
    <2>1. o # 0 => o \in 1 .. n
      BY <1>1, <1>2
    <2>2. QED
      BY <1>1, <2>1 DEF Alike
  <1>8. i < n => i < Len(u) /\ t[i + 1] = u[i + 1]
    <2>1. i < n => i < Len(u) /\ i + 1 \in 1 .. n
      BY <1>1, <1>2
    <2>2. QED
      BY <1>1, <2>1 DEF Alike
  <1>9. ModifierFits(t, i, o) => ModifierFits(u, i, o)
    <2>1. SUFFICES ASSUME ModifierFits(t, i, o) PROVE ModifierFits(u, i, o)
      OBVIOUS
    <2>2. CASE o = 0 /\ \E m \in i + 1 .. n : NextIs(t, i, m) /\ t[m] \in Modifiable
      BY <1>5, <2>2 DEF ModifierFits, Modifiers
    <2>3. CASE t[i] = "public" /\ Is(t, o, {"type"}) /\ i < n /\ t[i + 1] = "let"
      BY <1>0, <1>6, <1>8, <2>3 DEF ModifierFits, Modifiers
    <2>4. QED
      BY <2>1, <2>2, <2>3 DEF ModifierFits, n, Modifiers
  <1>10. ModifierMisfits(t, i, o) => ModifierMisfits(u, i, o)
    <2>1. SUFFICES ASSUME ModifierMisfits(t, i, o) PROVE ModifierMisfits(u, i, o)
      OBVIOUS
    <2>2. CASE o = 0 /\ \E m \in i + 1 .. n : NextIs(t, i, m) /\ t[m] \notin Modifiable
      BY <1>5, <2>2 DEF ModifierMisfits, Modifiers
    <2>3. CASE o # 0 /\ (t[o] = "type" /\ t[i] = "public" => i < n /\ t[i + 1] # "let")
      BY <1>0, <1>7, <1>8, <2>3 DEF ModifierMisfits, Modifiers
    <2>4. QED
      BY <2>1, <2>2, <2>3 DEF ModifierMisfits, n, Modifiers
  <1>11. QED
    BY <1>9, <1>10

LEMMA PlacedGrows ==
  ASSUME NEW t, NEW u, Grows(t, u), NEW i \in 1 .. Len(t), NEW o \in 0 .. i - 1
  PROVE  /\ PlacedIn(t, i, o) => PlacedIn(u, i, o)
         /\ Misplaced(t, i, o) => Misplaced(u, i, o)
         /\ Owns(t, o, i) <=> Owns(u, o, i)
         /\ t[i] = u[i]
  <1>1. Len(t) \in Nat /\ Alike(t, u, Len(t))
    BY DEF Grows
  <1>2. t[i] = u[i]
    BY <1>1 DEF Alike
  <1>3. Fits(t, i, o) <=> Fits(u, i, o)
    BY <1>1, FitsAlike
  <1>4. i \in 1 .. Len(t) + 1
    BY <1>1
  <1>5. Owns(t, o, i) <=> Owns(u, o, i)
    BY <1>1, <1>4, LevAlike
  <1>6. /\ ModifierFits(t, i, o) => ModifierFits(u, i, o)
        /\ ModifierMisfits(t, i, o) => ModifierMisfits(u, i, o)
    BY ModifierGrows
  <1>7. QED
    BY <1>2, <1>3, <1>5, <1>6 DEF PlacedIn, Misplaced, Modifiers

(* So is whether a word is the value of a return or a throw.               *)
LEMMA ValuedGrows ==
  ASSUME NEW t, NEW u, Grows(t, u)
  PROVE  /\ Valued(t, Len(t)) <=> Valued(u, Len(t))
         /\ Valued(t, Len(t)) => Valued(u, Len(u))
  <1>1. Len(t) \in Nat /\ Len(u) \in Nat /\ Len(u) >= Len(t) /\ \A k \in 1 .. Len(t) : t[k] = u[k]
    BY DEF Grows, Alike
  <1>2. \A i \in 1 .. Len(t) : (i > 1 => i - 1 \in 1 .. Len(t)) /\ i \in 1 .. Len(u)
    BY <1>1
  <1>3. \A i \in 1 .. Len(t) : ValueIn(t, i) <=> ValueIn(u, i)
    BY <1>1, <1>2, Zenon DEF ValueIn
  <1>4. QED
    BY <1>2, <1>3, Zenon DEF Valued

LEMMA WrongGrows ==
  ASSUME NEW t, NEW u, Grows(t, u), Wrong(t), Len(t) > 0 => t[Len(t)] # "eof"
  PROVE  Wrong(u)
  <1>1. CASE Valued(t, Len(t))
    BY <1>1, ValuedGrows DEF Wrong
  <1>2. CASE \E i \in 1 .. Len(t) : \E o \in 0 .. i - 1 : t[i] # "eof" /\ Owns(t, o, i) /\ Misplaced(t, i, o)
    <2>1. PICK i \in 1 .. Len(t) : \E o \in 0 .. i - 1 : t[i] # "eof" /\ Owns(t, o, i) /\ Misplaced(t, i, o)
      BY <1>2
    <2>2. PICK o \in 0 .. i - 1 : t[i] # "eof" /\ Owns(t, o, i) /\ Misplaced(t, i, o)
      BY <2>1
    <2>3. Owns(u, o, i) /\ Misplaced(u, i, o) /\ u[i] # "eof"
      BY <2>2, PlacedGrows
    <2>4. i \in 1 .. Len(u)
      BY DEF Grows
    <2>5. QED
      BY <2>3, <2>4 DEF Wrong
  <1>3. QED
    BY <1>1, <1>2 DEF Wrong

LEMMA SaysTopGrows ==
  ASSUME NEW t, NEW u, Grows(t, u), NEW kind, NEW o, SaysTop(t, Len(t) + 1, kind, o)
  PROVE  SaysTop(u, Len(t) + 1, kind, o)
  <1> DEFINE n == Len(t)
  <1> DEFINE p == n + 1
  <1>1. n \in Nat /\ Alike(t, u, n) /\ SaysTop(t, p, kind, o) /\ ~(p <= Len(t))
    BY DEF Grows
  <1>a. p - 1 = n /\ p \in 1 .. n + 1 /\ n \in 0 .. n /\ \A k \in 1 .. p - 1 : k \in 1 .. n /\ k \in 1 .. n + 1
    BY <1>1
  <1> HIDE DEF n, p
  <1>2. \A k \in 1 .. p - 1 : t[k] = u[k]
    BY <1>1, <1>a DEF Alike
  <1>3. \A k \in 1 .. p - 1 : \A w : MarkAt(t, w, o, k) <=> MarkAt(u, w, o, k)
    BY <1>1, <1>a, MarksAlike
  <1>4. \A k \in 1 .. p - 1 : Newlines(t, k, p) <=> Newlines(u, k, p)
    BY <1>1, <1>a, MarksAlike
  <1>5. \A k \in 1 .. p - 1 : \A a : Owns(t, a, k) <=> Owns(u, a, k)
    BY <1>1, <1>a, LevAlike
  <1>6. AfterPublic(t, p) <=> AfterPublic(u, p)
    BY <1>1, <1>a, MarksAlike
  <1>7. AfterPublic(t, p) => p - 1 \in 1 .. p - 1
    BY <1>1, <1>a DEF AfterPublic
  <1>8. kind = "match" => \A k \in 1 .. p - 1 : ~MarkAt(u, "case", o, k)
    BY <1>1, <1>3 DEF SaysTop
  <1>9. kind = "modified" => \E h \in 1 .. p - 1 : u[h] \in Modifiers /\ Newlines(u, h, p) /\ Owns(u, 0, h)
    BY <1>1, <1>2, <1>4, <1>5 DEF SaysTop
  <1>11. kind = "modifiedMember" => AfterPublic(u, p) /\ Owns(u, o, p - 1)
    BY <1>1, <1>5, <1>6, <1>7 DEF SaysTop
  <1>12. (\E h \in 1 .. p - 1 : u[h] = "else" /\ Newlines(u, h, p)) => kind = "afterElse"
    BY <1>1, <1>2, <1>4 DEF SaysTop
  <1>13. SaysTop(u, p, kind, o)
    BY <1>8, <1>9, <1>11, <1>12 DEF SaysTop
  <1>14. QED
    BY <1>13 DEF n, p

LEMMA PlacedToGrows ==
  ASSUME NEW t, NEW u, Grows(t, u), NEW kind, PlacedTo(t, Len(t) + 1, kind)
  PROVE  PlacedTo(u, Len(t) + 1, kind)
  <1> DEFINE n == Len(t)
  <1> DEFINE p == n + 1
  <1>1. n \in Nat /\ Alike(t, u, n) /\ PlacedTo(t, p, kind)
    BY DEF Grows
  <1>a. p \in 1 .. n + 1 /\ p - 1 = n /\ \A i \in 1 .. p - 1 : i \in 1 .. n
    BY <1>1
  <1> HIDE DEF p
  <1>2. ASSUME NEW i \in 1 .. p - 1, NEW o \in 0 .. i - 1, Owns(t, o, i), PlacedIn(t, i, o) \/ Pending(t, p, kind, i, o)
        PROVE  Owns(u, o, i) /\ (PlacedIn(u, i, o) \/ Pending(u, p, kind, i, o))
    <2>1. i \in 1 .. n /\ o \in 0 .. n
      BY <1>1, <1>a
    <2>2. /\ PlacedIn(t, i, o) => PlacedIn(u, i, o)
          /\ Owns(t, o, i) <=> Owns(u, o, i)
          /\ t[i] = u[i]
      BY <2>1, PlacedGrows
    <2>3. Newlines(t, i, p) <=> Newlines(u, i, p)
      BY <1>1, <1>a, <2>1, MarksAlike
    <2>4. \A K : Is(t, o, K) <=> Is(u, o, K)
      BY <1>1, <2>1, MarksAlike
    <2>5. Pending(t, p, kind, i, o) => Pending(u, p, kind, i, o)
      BY <2>2, <2>3, <2>4 DEF Pending
    <2>6. QED
      BY <1>2, <2>2, <2>5
  <1>3. PlacedTo(u, p, kind)
    BY <1>1, <1>2 DEF PlacedTo
  <1>4. QED
    BY <1>3 DEF p

(* A Read keeps the invariant.                                             *)
LEMMA ReadGoes ==
  ASSUME NEW t, NEW u, Grows(t, u), NEW s \in Seq(StackKinds), NEW own, Stands(t, Len(t) + 1, s, own)
  PROVE  Stands(u, Len(t) + 1, s, own)
  <1> DEFINE n == Len(t)
  <1> DEFINE p == n + 1
  <1>1. n \in Nat /\ Alike(t, u, n) /\ Len(u) \in Nat /\ Len(u) >= n
    BY DEF Grows
  <1>2. p \in Nat /\ p > 0 /\ p - 1 = n /\ p <= n + 1
    BY <1>1
  <1>3. Frames(t, p, s, own) /\ SaysTop(t, p, LastOf(s), LastOf(own)) /\ PlacedTo(t, p, LastOf(s))
    BY DEF Stands
  <1>4. \A m \in 1 .. Len(s) : Says(t, p, s[m], own[m])
    BY DEF Stands
  <1>5. SaysTop(u, p, LastOf(s), LastOf(own))
    BY <1>3, SaysTopGrows
  <1>6. PlacedTo(u, p, LastOf(s))
    BY <1>3, PlacedToGrows
  <1> HIDE DEF p
  <1>7. Alike(t, u, p - 1)
    BY <1>1, <1>2
  <1>8. Frames(u, p, s, own)
    BY <1>2, <1>3, <1>7, FramesAlike
  <1>9. \A m \in 1 .. Len(s) : Says(u, p, s[m], own[m])
    BY <1>1, <1>2, <1>4, SaysAlike
  <1>10. Stands(u, p, s, own)
    BY <1>5, <1>6, <1>8, <1>9 DEF Stands
  <1>11. QED
    BY <1>10 DEF p

-----------------------------------------------------------------------------
(* A nonempty set of positions has a first and a last one.                 *)
LEMMA LeastIs ==
  ASSUME NEW S \in SUBSET Nat, S # {}
  PROVE  Least(S) \in S /\ \A j \in S : j >= Least(S)
  <1> DEFINE R == OpToRel(<, Nat)
  <1>1. IsWellFoundedOn(R, Nat)
    BY NatLessThanWellFounded
  <1>2. \A x, y \in Nat : y < x => <<y, x>> \in R
    BY DEF OpToRel
  <1> HIDE DEF R
  <1>3. PICK k \in S : \A y \in S : ~(<<y, k>> \in R)
    BY <1>1, WFMin
  <1>4. \A y \in S : y \in Nat /\ k \in Nat /\ ~(y < k)
    BY <1>2, <1>3
  <1>5. \E l \in S : \A y \in S : y >= l
    BY <1>4
  <1>6. QED
    BY <1>5 DEF Least

LEMMA GreatestIs ==
  ASSUME NEW n \in Nat, NEW S \in SUBSET (1 .. n), S # {}
  PROVE  Greatest(S) \in S /\ \A j \in S : j <= Greatest(S)
  <1> DEFINE R == OpToRel(<, Nat)
             T == {n - k : k \in S}
  <1>1. IsWellFoundedOn(R, Nat)
    BY NatLessThanWellFounded
  <1>2. \A k \in S : k \in Nat /\ n - k \in Nat
    OBVIOUS
  <1>3. T \subseteq Nat /\ T # {}
    BY <1>2
  <1>4. \A x, y \in Nat : y < x => <<y, x>> \in R
    BY DEF OpToRel
  <1> HIDE DEF R
  <1>5. \E x \in T : \A y \in T : ~(<<y, x>> \in R)
    BY <1>1, <1>3, WFMin
  <1>6. PICK k \in S : \A y \in T : ~(<<y, n - k>> \in R)
    BY <1>5
  <1>7. \A j \in S : ~(n - j < n - k)
    BY <1>2, <1>4, <1>6
  <1>8. \E l \in S : \A j \in S : j <= l
    BY <1>2, <1>7
  <1>9. QED
    BY <1>8 DEF Greatest

-----------------------------------------------------------------------------
(* The grammar of a file that was read to its end.                         *)
Ended ==
  /\ Len(tokens) \in Nat /\ Len(tokens) > 0 /\ DOMAIN tokens = 1 .. Len(tokens)
  /\ tokens[Len(tokens)] = "eof"
  /\ \A i \in 1 .. Len(tokens) - 1 : tokens[i] # "eof"

LEMMA UpTo ==
  ASSUME NEW n \in Nat, n > 0
  PROVE  /\ \A i \in 1 .. n : i \in 1 .. n - 1 \/ i = n
         /\ \A i \in 1 .. n - 1 : i \in 1 .. n /\ i # n
         /\ \A i \in 1 .. n : \A k \in 1 .. i - 1 : k \in 1 .. n - 1
         /\ \A i \in 0 .. n : \A k \in 1 .. i : k \in 1 .. n /\ k <= i
         /\ \A i \in 0 .. n : \A k \in 1 .. n : k <= i => k \in 1 .. i
         /\ \A i \in 1 .. n : \A k \in 1 .. n : k < i => k \in 1 .. i - 1
         /\ \A i \in 1 .. n : 0 \in 0 .. i - 1
  OBVIOUS

(* Each notion of BlockParser is the one above.                            *)
LEMMA TextIs ==
  ASSUME Ended
  PROVE  /\ Text = 1 .. Len(tokens) - 1
         /\ \A i \in 1 .. Len(tokens) : \A k \in 1 .. i - 1 : k \in Text
         /\ \A i \in 1 .. Len(tokens) : i \in Text \/ i = Len(tokens)
  <1>0. Len(tokens) \in Nat /\ Len(tokens) > 0
    BY DEF Ended
  <1>1. \A i \in 1 .. Len(tokens) : i \in 1 .. Len(tokens) - 1 \/ i = Len(tokens)
    BY <1>0, UpTo, Zenon
  <1>2. \A i \in 1 .. Len(tokens) - 1 : i \in 1 .. Len(tokens)
    BY <1>0, UpTo, Zenon
  <1>3. Text = 1 .. Len(tokens) - 1
    BY <1>1, <1>2 DEF Ended, Text
  <1>4. \A i \in 1 .. Len(tokens) : \A k \in 1 .. i - 1 : k \in 1 .. Len(tokens) - 1
    BY <1>0, UpTo, Zenon
  <1>5. QED
    BY <1>1, <1>3, <1>4

LEMMA LinkedIs ==
  ASSUME Ended, NEW i \in 1 .. Len(tokens)
  PROVE  Linked(i, Quirks) <=> LinkedIn(tokens, i)
  <1> DEFINE before == Words(1 .. i - 1)
  <1>1. before = {j \in 1 .. i - 1 : tokens[j] # "nl"}
    BY TextIs DEF Words
  <1>2. Linked(i, Quirks) <=> tokens[i] = "if" /\ before # {} /\ tokens[Greatest(before)] = "else"
    BY DEF Linked, Quirks
  <1>3. i - 1 \in Nat /\ before \in SUBSET (1 .. i - 1)
    BY <1>1 DEF Ended
  <1>4. before # {} => Greatest(before) \in before /\ \A j \in before : j <= Greatest(before)
    BY <1>3, GreatestIs
  <1> HIDE DEF before
  <1>5. ASSUME Linked(i, Quirks) PROVE LinkedIn(tokens, i)
    <2> DEFINE h == Greatest(before)
    <2>1. h \in before /\ (\A j \in before : j <= h) /\ tokens[h] = "else" /\ tokens[i] = "if"
      BY <1>2, <1>4, <1>5
    <2> HIDE DEF h
    <2>2. h \in 1 .. i - 1
      BY <1>3, <2>1
    <2>3. \A k \in h + 1 .. i - 1 : k \in 1 .. i - 1 /\ ~(k <= h)
      BY <1>3, <2>2
    <2>4. \A k \in h + 1 .. i - 1 : tokens[k] = "nl"
      BY <1>1, <2>1, <2>3
    <2>5. QED
      BY <2>1, <2>2, <2>4 DEF LinkedIn
  <1>6. ASSUME LinkedIn(tokens, i) PROVE Linked(i, Quirks)
    <2>1. PICK h \in 1 .. i - 1 : tokens[h] = "else" /\ \A k \in h + 1 .. i - 1 : tokens[k] = "nl"
      BY <1>6 DEF LinkedIn
    <2>2. h \in before
      BY <1>1, <2>1
    <2> DEFINE g == Greatest(before)
    <2>3. g \in before /\ h <= g
      BY <1>4, <2>2
    <2> HIDE DEF g
    <2>4. g \in 1 .. i - 1 /\ tokens[g] # "nl"
      BY <1>1, <2>3
    <2>5. g # h => g \in h + 1 .. i - 1
      BY <2>3, <2>4
    <2>6. g = h
      BY <2>1, <2>4, <2>5
    <2>7. tokens[i] = "if"
      BY <1>6 DEF LinkedIn
    <2>8. QED
      BY <1>2, <2>1, <2>2, <2>6, <2>7 DEF g
  <1>7. QED
    BY <1>5, <1>6

LEMMA OpensIs ==
  ASSUME Ended, NEW i \in 1 .. Len(tokens)
  PROVE  (Opens(i, Quirks) <=> OpensIn(tokens, i)) /\ (OpensIn(tokens, i) => i \in Text)
  <1>1. Linked(i, Quirks) <=> LinkedIn(tokens, i)
    BY LinkedIs
  <1>2. i = Len(tokens) => ~OpensIn(tokens, i)
    BY DEF OpensIn, Ended
  <1>3. i \in Text \/ i = Len(tokens)
    BY TextIs
  <1>4. QED
    BY <1>1, <1>2, <1>3 DEF Opens, OpensIn

LEMMA DepthIs ==
  ASSUME Ended, NEW i \in 0 .. Len(tokens)
  PROVE  /\ Depth(i, Quirks)[1] \in Nat /\ Depth(i, Quirks)[2] \in Nat
         /\ Lev(tokens, i) = Depth(i, Quirks)[1] - Depth(i, Quirks)[2]
  <1> DEFINE A == {j \in Text : j <= i /\ Opens(j, Quirks)}
             B == {j \in Text : j <= i /\ tokens[j] = "end"}
             C == {j \in 1 .. i : OpensIn(tokens, j)}
             D == {j \in 1 .. i : tokens[j] = "end"}
  <1>0. Len(tokens) \in Nat /\ Len(tokens) > 0
    BY DEF Ended
  <1>1. \A j \in 1 .. i : j \in 1 .. Len(tokens) /\ j <= i
    BY <1>0, UpTo, Zenon
  <1>2. \A j \in Text : j \in 1 .. Len(tokens) /\ (j <= i => j \in 1 .. i)
    <2>1. \A j \in Text : j \in 1 .. Len(tokens)
      BY <1>0, TextIs, UpTo, Zenon
    <2>2. QED
      BY <1>0, <2>1, UpTo, Zenon
  <1>3. A = C
    BY <1>1, <1>2, OpensIs
  <1>4. \A j \in 1 .. Len(tokens) : tokens[j] = "end" => j \in Text
    BY TextIs DEF Ended
  <1>5. B = D
    BY <1>1, <1>2, <1>4
  <1>6. i \in Int /\ 1 \in Int
    BY DEF Ended
  <1>7. IsFiniteSet(1 .. i)
    BY <1>6, FS_Interval
  <1>8. IsFiniteSet(C) /\ IsFiniteSet(D)
    BY <1>7, FS_Subset
  <1>9. Cardinality(C) \in Nat /\ Cardinality(D) \in Nat
    BY <1>8, FS_CardinalityType
  <1>10. Depth(i, Quirks) = <<Cardinality(A), Cardinality(B)>>
    BY DEF Depth
  <1>11. Lev(tokens, i) = Cardinality(C) - Cardinality(D)
    BY DEF Lev
  <1> HIDE DEF A, B, C, D
  <1>12. Depth(i, Quirks)[1] = Cardinality(C) /\ Depth(i, Quirks)[2] = Cardinality(D)
    <2>1. Depth(i, Quirks) = <<Cardinality(C), Cardinality(D)>>
      BY <1>3, <1>5, <1>10, Zenon
    <2> DEFINE d == Depth(i, Quirks)
    <2>2. d = <<Cardinality(C), Cardinality(D)>>
      BY <2>1
    <2> HIDE DEF d
    <2>3. d[1] = Cardinality(C) /\ d[2] = Cardinality(D)
      BY <2>2
    <2>4. QED
      BY <2>3 DEF d
  <1>13. QED
    BY <1>9, <1>11, <1>12

LEMMA DeeperIs ==
  ASSUME Ended, NEW a \in 0 .. Len(tokens), NEW b \in 0 .. Len(tokens)
  PROVE  Deeper(Depth(a, Quirks), Depth(b, Quirks)) <=> Lev(tokens, a) >= Lev(tokens, b)
  <1> DEFINE da == Depth(a, Quirks)
             db == Depth(b, Quirks)
  <1>1. da[1] \in Nat /\ da[2] \in Nat /\ Lev(tokens, a) = da[1] - da[2]
    BY DepthIs
  <1>2. db[1] \in Nat /\ db[2] \in Nat /\ Lev(tokens, b) = db[1] - db[2]
    BY DepthIs
  <1> HIDE DEF da, db
  <1>3. Deeper(da, db) <=> Lev(tokens, a) >= Lev(tokens, b)
    BY <1>1, <1>2 DEF Deeper
  <1>4. QED
    BY <1>3 DEF da, db

LEMMA OwnerIs ==
  ASSUME Ended, NEW i \in 1 .. Len(tokens)
  PROVE  Owns(tokens, Owner(i, Quirks), i) /\ Owner(i, Quirks) \in 0 .. i - 1
  <1> DEFINE open == {j \in Text : /\ j < i /\ Opens(j, Quirks)
                                   /\ \A k \in j .. i - 1 : Deeper(Depth(k, Quirks), Depth(j, Quirks))}
             encl == {j \in 1 .. i - 1 : Encloses(tokens, j, i)}
  <1>1. Owner(i, Quirks) = IF open = {} THEN 0 ELSE Greatest(open)
    BY DEF Owner
  <1>2. i - 1 \in Nat /\ \A j \in 1 .. i - 1 : j \in 1 .. Len(tokens) /\ j < i /\ j \in 0 .. Len(tokens)
    BY DEF Ended
  <1>3. \A j \in Text : j < i => j \in 1 .. i - 1
    <2>1. Len(tokens) \in Nat /\ Len(tokens) > 0
      BY DEF Ended
    <2>2. \A j \in Text : j \in 1 .. Len(tokens)
      BY <2>1, TextIs, UpTo, Zenon
    <2>3. QED
      BY <2>1, <2>2, UpTo, Zenon
  <1>4. \A j \in 1 .. i - 1 : \A k \in j .. i - 1 : k \in 0 .. Len(tokens)
    BY DEF Ended
  <1>5. \A j \in 1 .. i - 1 : \A k \in j .. i - 1 :
          Deeper(Depth(k, Quirks), Depth(j, Quirks)) <=> Lev(tokens, k) >= Lev(tokens, j)
    BY <1>2, <1>4, DeeperIs
  <1>6. \A j \in 1 .. i - 1 : (Opens(j, Quirks) <=> OpensIn(tokens, j)) /\ (OpensIn(tokens, j) => j \in Text)
    BY <1>2, OpensIs
  <1>7. open = encl
    BY <1>2, <1>3, <1>5, <1>6 DEF Encloses
  <1>8. encl # {} => Greatest(encl) \in encl /\ \A j \in encl : j <= Greatest(encl)
    BY <1>2, GreatestIs
  <1> HIDE DEF open
  <1>9. CASE encl = {}
    <2>1. \A j \in 1 .. i - 1 : ~Encloses(tokens, j, i)
      BY <1>9
    <2>2. Owner(i, Quirks) = 0
      BY <1>1, <1>7, <1>9
    <2>3. 0 \in 0 .. i - 1
      BY <1>2
    <2>4. QED
      BY <2>1, <2>2, <2>3 DEF Owns
  <1>10. CASE encl # {}
    <2> DEFINE o == Greatest(encl)
    <2>1. o \in 1 .. i - 1 /\ Encloses(tokens, o, i) /\ \A j \in 1 .. i - 1 : Encloses(tokens, j, i) => j <= o
      BY <1>8, <1>10
    <2>2. Owner(i, Quirks) = o
      BY <1>1, <1>7, <1>10
    <2> HIDE DEF o
    <2>3. o \in 0 .. i - 1
      BY <1>2, <2>1
    <2>4. QED
      BY <2>1, <2>2, <2>3 DEF Owns
  <1>11. QED
    BY <1>9, <1>10

-----------------------------------------------------------------------------
(* The marks of a construct.                                               *)
LEMMA MarksIs ==
  ASSUME Ended, NEW i \in 1 .. Len(tokens), NEW o, NEW w
  PROVE  \A k : (k \in Text /\ k < i /\ tokens[k] = w /\ Owner(k, Quirks) = o)
                  <=> (k \in 1 .. i - 1 /\ MarkAt(tokens, w, o, k))
  <1>0. Len(tokens) \in Nat /\ Len(tokens) > 0
    BY DEF Ended
  <1>1. ASSUME NEW k \in Text, k < i, Owner(k, Quirks) = o
        PROVE  k \in 1 .. i - 1 /\ Owns(tokens, o, k)
    <2>1. k \in 1 .. Len(tokens)
      BY <1>0, TextIs, UpTo, Zenon
    <2>2. k \in 1 .. i - 1
      BY <1>0, <1>1, <2>1, UpTo, Zenon
    <2>3. QED
      BY <1>1, <2>1, <2>2, OwnerIs
  <1>2. ASSUME NEW k \in 1 .. i - 1, Owns(tokens, o, k)
        PROVE  k \in Text /\ k < i /\ Owner(k, Quirks) = o
    <2>1. k \in Text
      BY TextIs
    <2>2. k < i /\ k \in Nat
      BY <1>0
    <2>3. k \in 1 .. Len(tokens)
      BY <1>0, <2>1, TextIs, UpTo, Zenon
    <2>4. Owns(tokens, Owner(k, Quirks), k)
      BY <2>3, OwnerIs
    <2>5. Owner(k, Quirks) = o
      BY <1>2, <2>2, <2>4, OwnerIsOne, Zenon
    <2>6. QED
      BY <2>1, <2>2, <2>5
  <1>3. QED
    BY <1>1, <1>2 DEF MarkAt

(* An else may follow another one in the same if when the chain goes on.   *)
LEMMA ChainIs ==
  ASSUME Ended, NEW i \in Text, tokens[i] = "else", NEW k \in 1 .. i - 1, tokens[k] = "else"
  PROVE  Chained(tokens, k, i) <=>
           \E l \in Text : /\ l > k /\ Linked(l, Quirks)
                           /\ \A m \in Words(k + 1 .. l - 1) : FALSE
  <1>0. Len(tokens) \in Nat /\ Len(tokens) > 0
    BY DEF Ended
  <1>1. \A l \in Text : l \in 1 .. Len(tokens)
    BY <1>0, TextIs, UpTo, Zenon
  <1>2. i \in 1 .. Len(tokens) /\ i \in Nat /\ k \in Nat /\ k < i
    <2>1. i \in 1 .. Len(tokens)
      BY <1>1
    <2>2. QED
      BY <1>0, <2>1
  <1>3. ASSUME NEW l \in Text, l > k, Linked(l, Quirks), \A m \in Words(k + 1 .. l - 1) : FALSE
        PROVE  Chained(tokens, k, i)
    <2>1. l \in 1 .. Len(tokens) /\ LinkedIn(tokens, l)
      BY <1>1, <1>3, LinkedIs
    <2>2. tokens[l] = "if"
      BY <2>1 DEF LinkedIn
    <2>3. \A m \in k + 1 .. l - 1 : m \in 1 .. l - 1
      BY <1>2
    <2>4. \A m \in k + 1 .. l - 1 : tokens[m] = "nl"
      BY <1>3, <2>1, <2>3, TextIs DEF Words
    <2>5. l # i
      BY <2>2
    <2>6. ~(i < l)
      <3>1. i < l => i \in k + 1 .. l - 1
        BY <1>0, <1>2, <2>1
      <3>2. QED
        BY <2>4, <3>1
    <2>7. l \in k + 1 .. i - 1
      BY <1>0, <1>2, <1>3, <2>1, <2>5, <2>6
    <2>8. QED
      BY <2>2, <2>4, <2>7 DEF Chained, Newlines
  <1>4. ASSUME NEW l \in k + 1 .. i - 1, tokens[l] = "if", Newlines(tokens, k, l)
        PROVE  /\ l \in Text /\ l > k /\ Linked(l, Quirks)
               /\ \A m \in Words(k + 1 .. l - 1) : FALSE
    <2>1. l \in 1 .. i - 1 /\ l > k /\ k \in 1 .. l - 1
      BY <1>2
    <2>2. l \in Text
      BY <1>2, <2>1, TextIs
    <2>3. LinkedIn(tokens, l)
      BY <1>4, <2>1 DEF LinkedIn, Newlines
    <2>4. Linked(l, Quirks)
      BY <1>1, <2>2, <2>3, LinkedIs
    <2>5. \A m \in Words(k + 1 .. l - 1) : m \in k + 1 .. l - 1 /\ tokens[m] # "nl"
      BY DEF Words
    <2>6. \A m \in Words(k + 1 .. l - 1) : FALSE
      BY <1>4, <2>5 DEF Newlines
    <2>7. QED
      BY <2>1, <2>2, <2>4, <2>6
  <1>5. QED
    BY <1>3, <1>4 DEF Chained

(* What follows an access modifier.                                        *)
After(S) == IF S = {} THEN "eof" ELSE tokens[Least(S)]

LEMMA AfterIs ==
  ASSUME Ended, NEW i \in Text
  PROVE  /\ i < Len(tokens) /\ After({k \in Text : k > i}) = tokens[i + 1]
         /\ \A m \in i + 1 .. Len(tokens) : NextIs(tokens, i, m) => After(Words({k \in Text : k > i})) = tokens[m]
  <1> DEFINE n == Len(tokens)
             S == {k \in Text : k > i}
  <1>0. n \in Nat /\ n > 0 /\ tokens[n] = "eof"
    BY DEF Ended
  <1>1. Text = 1 .. n - 1
    BY TextIs
  <1> HIDE DEF n
  <1>2. i \in Nat /\ i \in 1 .. n /\ i < n /\ S \in SUBSET Nat /\ S = i + 1 .. n - 1
    BY <1>0, <1>1
  <1> HIDE DEF S
  <1>3. After(S) = tokens[i + 1]
    <2>1. CASE S = {}
      <3>1. i + 1 = n
        BY <1>0, <1>2, <2>1
      <3>2. QED
        BY <1>0, <2>1, <3>1 DEF After
    <2>2. CASE S # {}
      <3> DEFINE l == Least(S)
      <3>1. l \in S /\ \A j \in S : j >= l
        BY <1>2, <2>2, LeastIs
      <3> HIDE DEF l
      <3>2. i + 1 \in S /\ l \in i + 1 .. n - 1
        BY <1>0, <1>2, <2>2, <3>1
      <3>3. l = i + 1
        BY <1>2, <3>1, <3>2
      <3>4. QED
        BY <2>2, <3>3 DEF After, l
    <2>3. QED
      BY <2>1, <2>2
  <1>4. ASSUME NEW m \in i + 1 .. n, NextIs(tokens, i, m)
        PROVE  After(Words(S)) = tokens[m]
    <2>1. tokens[m] # "nl" /\ \A j \in i + 1 .. m - 1 : tokens[j] = "nl"
      BY <1>4 DEF NextIs, Newlines
    <2>2. \A j : j \in Words(S) <=> j \in S /\ j \in Text /\ tokens[j] # "nl"
      BY DEF Words
    <2>3. \A j \in S : j \in Text /\ j \in i + 1 .. n - 1 /\ j \in Nat
      BY <1>1, <1>2
    <2>4. \A j \in Words(S) : j \in Nat /\ j >= m /\ j \in i + 1 .. n - 1
      <3>1. SUFFICES ASSUME NEW j \in Words(S) PROVE j \in Nat /\ j >= m /\ j \in i + 1 .. n - 1
        OBVIOUS
      <3>2. j \in i + 1 .. n - 1 /\ tokens[j] # "nl" /\ j \in Nat
        BY <2>2, <2>3
      <3>3. j < m => j \in i + 1 .. m - 1
        BY <1>0, <1>2, <3>2
      <3>4. QED
        BY <1>0, <1>2, <2>1, <3>2, <3>3
    <2>5. CASE m = n
      <3>1. \A j \in Words(S) : FALSE
        BY <1>0, <2>4, <2>5
      <3>2. Words(S) = {}
        BY <3>1
      <3>3. QED
        BY <1>0, <2>5, <3>2 DEF After
    <2>6. CASE m # n
      <3>1. m \in i + 1 .. n - 1
        BY <1>0, <1>2, <2>6
      <3>2. m \in Words(S)
        BY <1>2, <2>1, <2>2, <2>3, <3>1
      <3> DEFINE l == Least(Words(S))
      <3>3. Words(S) \in SUBSET Nat /\ Words(S) # {}
        BY <2>4, <3>2
      <3>4. l \in Words(S) /\ \A j \in Words(S) : j >= l
        BY <3>3, LeastIs
      <3> HIDE DEF l
      <3>5. l = m
        <4>1. l \in Nat /\ m \in Nat /\ l >= m /\ m >= l
          BY <2>4, <3>2, <3>4
        <4>2. QED
          BY <4>1
      <3>6. QED
        BY <3>3, <3>5 DEF After, l
    <2>7. QED
      BY <2>5, <2>6
  <1>5. QED
    BY <1>2, <1>3, <1>4 DEF S, n

(* The place of a token, alternative by alternative.                       *)
LEMMA PlacedIs ==
  ASSUME Ended, NEW i \in Text, NEW o, o = Owner(i, Quirks)
  PROVE  /\ PlacedIn(tokens, i, o) /\ ~ValueIn(tokens, i) => Placed(i, Quirks)
         /\ Misplaced(tokens, i, o) \/ ValueIn(tokens, i) => ~Placed(i, Quirks)
  <1> DEFINE in(kinds) == o # 0 /\ tokens[o] \in kinds
             marks(t)  == {k \in Text : k < i /\ tokens[k] = t /\ Owner(k, Quirks) = o}
             after(S)  == IF S = {} THEN "eof" ELSE tokens[Least(S)]
             statement == in({"fn", "macro", "if", "loop", "try"}) \/ (in({"match"}) /\ marks("case") # {})
             word      == tokens[i]
             chained   == \A k \in marks("else") :
                            \E l \in Text : /\ l > k /\ Linked(l, Quirks)
                                            /\ \A m \in Words(k + 1 .. l - 1) : FALSE
             top       == after(Words({k \in Text : k > i})) \in {"fn", "type", "macro", "use", "const"} \cup Modifiers
             field     == after({k \in Text : k > i}) = "let"
             rightly   ==
               \/ word = "nl"
               \/ word = "end" /\ o # 0
               \/ word = "fn" /\ (o = 0 \/ in({"type"}))
               \/ word \in {"type", "macro", "use"} /\ o = 0
               \/ word = "let" /\ (in({"type"}) \/ statement)
               \/ word = "const" /\ (o = 0 \/ statement)
               \/ word \in Openers \cup {"return", "throw"} /\ statement
               \/ word = "else" /\ in({"if"}) /\ chained
               \/ word = "catch" /\ in({"try"}) /\ marks("catch") = {}
               \/ word = "case" /\ in({"match"})
               \/ word \in Modifiers /\ o = 0 /\ top
               \/ word = "public" /\ in({"type"}) /\ field
  <1>1. Placed(i, Quirks) <=> ~ValueIn(tokens, i) /\ rightly
    BY DEF Placed, Quirks, ValueIn, AsValue
  <1>0. i \in 1 .. Len(tokens)
    BY TextIs, UpTo, Zenon DEF Ended
  <1>2. \A K : in(K) <=> Is(tokens, o, K)
    BY DEF Is
  <1>3. \A w : \A k : k \in marks(w) <=> k \in 1 .. i - 1 /\ MarkAt(tokens, w, o, k)
    BY <1>0, MarksIs
  <1>4. statement <=> InStatements(tokens, i, o)
    BY <1>2, <1>3 DEF InStatements
  <1>6. word = "else" => (chained <=> \A k \in 1 .. i - 1 : MarkAt(tokens, "else", o, k) => Chained(tokens, k, i))
    <2>1. SUFFICES ASSUME word = "else"
                   PROVE  chained <=> \A k \in 1 .. i - 1 : MarkAt(tokens, "else", o, k) => Chained(tokens, k, i)
      OBVIOUS
    <2>2. \A k \in marks("else") : k \in 1 .. i - 1 /\ tokens[k] = "else"
      BY <1>3
    <2>3. \A k \in marks("else") : Chained(tokens, k, i) <=>
              \E l \in Text : /\ l > k /\ Linked(l, Quirks)
                              /\ \A m \in Words(k + 1 .. l - 1) : FALSE
      BY <2>1, <2>2, ChainIs
    <2> HIDE DEF marks
    <2>4. QED
      BY <1>3, <2>3
  <1>7. marks("catch") = {} <=> ~\E k \in 1 .. i - 1 : MarkAt(tokens, "catch", o, k)
    BY <1>3
  <1>8. /\ i < Len(tokens) /\ after({k \in Text : k > i}) = tokens[i + 1]
        /\ \A m \in i + 1 .. Len(tokens) : NextIs(tokens, i, m) => after(Words({k \in Text : k > i})) = tokens[m]
    BY AfterIs DEF After
  <1>9. field <=> tokens[i + 1] = "let"
    BY <1>8
  <1>10. \A m \in i + 1 .. Len(tokens) : NextIs(tokens, i, m) => (top <=> tokens[m] \in Modifiable)
    BY <1>8 DEF Modifiable, Modifiers
  <1> HIDE DEF in, marks, after, statement, chained, top, field
  <1>11. word \notin Modifiers => (rightly <=> Fits(tokens, i, o))
    BY <1>2, <1>4, <1>6, <1>7 DEF Fits, Modifiers
  <1>12. word \in Modifiers =>
           (rightly <=> (o = 0 /\ top) \/ (word = "public" /\ Is(tokens, o, {"type"}) /\ field))
    BY <1>2 DEF Openers, Modifiers
  <1> HIDE DEF rightly
  <1>13. ModifierFits(tokens, i, o) => (o = 0 /\ top) \/ (word = "public" /\ Is(tokens, o, {"type"}) /\ field)
    BY <1>9, <1>10 DEF ModifierFits
  <1>14. ModifierMisfits(tokens, i, o) => ~((o = 0 /\ top) \/ (word = "public" /\ Is(tokens, o, {"type"}) /\ field))
    BY <1>9, <1>10 DEF ModifierMisfits, Is
  <1>15. PlacedIn(tokens, i, o) => rightly
    BY <1>11, <1>12, <1>13 DEF PlacedIn
  <1>16. Misplaced(tokens, i, o) => ~rightly
    BY <1>11, <1>12, <1>14 DEF Misplaced
  <1>17. QED
    BY <1>1, <1>15, <1>16

-----------------------------------------------------------------------------
(* A good text is well formed, a wrong one is not.                         *)
LEMMA RightWell ==
  ASSUME Ended, Right(tokens), ~Valued(tokens, Len(tokens))
  PROVE  WellFormed(Quirks)
  <1>0. Len(tokens) \in Nat /\ Len(tokens) > 0
    BY DEF Ended
  <1>1. ASSUME NEW i \in Text PROVE Placed(i, Quirks)
    <2>1. i \in 1 .. Len(tokens) /\ i \in 1 .. Len(tokens) - 1
      BY <1>0, TextIs, UpTo, Zenon
    <2>2. tokens[i] # "eof"
      BY <2>1 DEF Ended
    <2>3. PICK o \in 0 .. i - 1 : Owns(tokens, o, i) /\ PlacedIn(tokens, i, o)
      BY <2>1, <2>2 DEF Right
    <2>4. Owns(tokens, Owner(i, Quirks), i) /\ i \in Nat
      <3>1. Owns(tokens, Owner(i, Quirks), i)
        BY <2>1, OwnerIs
      <3>2. i \in Nat
        BY <1>0, <2>1
      <3>3. QED
        BY <3>1, <3>2
    <2>5. o = Owner(i, Quirks)
      BY <2>3, <2>4, OwnerIsOne, Zenon
    <2>6. ~ValueIn(tokens, i)
      BY <2>1 DEF Valued
    <2>7. QED
      BY <2>3, <2>5, <2>6, PlacedIs
  <1> DEFINE d == Depth(Len(tokens), Quirks)
  <1>2. Len(tokens) \in 0 .. Len(tokens)
    BY <1>0
  <1>3. d[1] \in Nat /\ d[2] \in Nat /\ Lev(tokens, Len(tokens)) = d[1] - d[2]
    BY <1>2, DepthIs
  <1>4. Lev(tokens, Len(tokens)) = 0
    BY DEF Right
  <1> HIDE DEF d
  <1>5. d[1] = d[2]
    BY <1>3, <1>4
  <1>6. QED
    BY <1>1, <1>5 DEF WellFormed, d

LEMMA WrongIll ==
  ASSUME Ended, Wrong(tokens)
  PROVE  ~WellFormed(Quirks)
  <1>0. Len(tokens) \in Nat /\ Len(tokens) > 0
    BY DEF Ended
  <1>1. CASE \E i \in 1 .. Len(tokens) : \E o \in 0 .. i - 1 :
               tokens[i] # "eof" /\ Owns(tokens, o, i) /\ Misplaced(tokens, i, o)
    <2>1. PICK i \in 1 .. Len(tokens) : \E o \in 0 .. i - 1 :
               tokens[i] # "eof" /\ Owns(tokens, o, i) /\ Misplaced(tokens, i, o)
      BY <1>1
    <2>2. PICK o \in 0 .. i - 1 : tokens[i] # "eof" /\ Owns(tokens, o, i) /\ Misplaced(tokens, i, o)
      BY <2>1
    <2>3. i \in Text
      BY <2>2, TextIs DEF Ended
    <2>4. Owns(tokens, Owner(i, Quirks), i) /\ i \in Nat
      <3>1. Owns(tokens, Owner(i, Quirks), i)
        BY OwnerIs
      <3>2. i \in Nat
        BY <1>0
      <3>3. QED
        BY <3>1, <3>2
    <2>5. o = Owner(i, Quirks)
      BY <2>2, <2>4, OwnerIsOne, Zenon
    <2>6. ~Placed(i, Quirks)
      BY <2>2, <2>3, <2>5, PlacedIs
    <2>7. QED
      BY <2>3, <2>6 DEF WellFormed
  <1>2. CASE Lev(tokens, Len(tokens)) # 0
    <2> DEFINE d == Depth(Len(tokens), Quirks)
    <2>1. Len(tokens) \in 0 .. Len(tokens)
      BY <1>0
    <2>2. d[1] \in Nat /\ d[2] \in Nat /\ Lev(tokens, Len(tokens)) = d[1] - d[2]
      BY <2>1, DepthIs
    <2> HIDE DEF d
    <2>3. d[1] # d[2]
      BY <1>2, <2>2
    <2>4. QED
      BY <2>3 DEF WellFormed, d
  <1>3. CASE Valued(tokens, Len(tokens))
    <2>1. PICK i \in 1 .. Len(tokens) : ValueIn(tokens, i)
      BY <1>3 DEF Valued
    <2>2. tokens[i] # "eof"
      BY <2>1 DEF ValueIn, NoValue
    <2>3. i \in Text
      BY <2>2, TextIs DEF Ended
    <2>4. ~Placed(i, Quirks)
      BY <2>1, <2>3, PlacedIs
    <2>5. QED
      BY <2>3, <2>4 DEF WellFormed
  <1>4. QED
    BY <1>1, <1>2, <1>3 DEF Wrong

-----------------------------------------------------------------------------
(* The parser never looks past the end of the file, and only the return of *)
(* parseProgram empties the stack.                                         *)
Based(s) == s # <<>> => s[1] = "program" /\ \A n \in 2 .. Len(s) : s[n] # "program"
ReadOK ==
  /\ Len(tokens) = file.max + 1 => tokens[Len(tokens)] = "eof"
  /\ pos = Len(tokens) + 1 /\ Len(tokens) > 0 => tokens[Len(tokens)] # "eof"
  /\ stack = <<>> => pos = Len(tokens) /\ tokens[pos] = "eof"
  /\ Based(stack)

(* What the parse functions make of the stack leaves parseProgram at its   *)
(* bottom.                                                                 *)
LEMMA StackFacts ==
  ASSUME NEW s \in Seq(StackKinds), s # <<>>, Based(s)
  PROVE  /\ Len(s) \in Nat /\ Len(s) > 0 /\ LastOf(s) \in StackKinds
         /\ \A kind \in StackKinds \ {"program"} :
              Append(s, kind) \in Seq(StackKinds) /\ Append(s, kind) # <<>> /\ Based(Append(s, kind))
         /\ FrontOf(s) \in Seq(StackKinds) /\ Based(FrontOf(s))
         /\ LastOf(s) # "program" => FrontOf(s) # <<>>
         /\ \A kind \in StackKinds \ {"program"} :
              LastOf(s) # "program" =>
                Append(FrontOf(s), kind) \in Seq(StackKinds) /\ Append(FrontOf(s), kind) # <<>>
                /\ Based(Append(FrontOf(s), kind))
  <1> DEFINE f == FrontOf(s)
  <1>1. /\ f \in Seq(StackKinds) /\ Len(f) = Len(s) - 1 /\ Len(s) > 0
        /\ \A n \in 1 .. Len(s) - 1 : f[n] = s[n]
        /\ s[Len(s)] \in StackKinds
    BY FrontIs
  <1>2. Len(s) \in Nat /\ LastOf(s) \in StackKinds
    BY <1>1 DEF LastOf
  <1>3. s[1] = "program" /\ \A n \in 2 .. Len(s) : s[n] # "program"
    BY DEF Based
  <1>4. ASSUME NEW r \in Seq(StackKinds), r # <<>>, Based(r), NEW kind \in StackKinds \ {"program"}
        PROVE  Append(r, kind) \in Seq(StackKinds) /\ Append(r, kind) # <<>> /\ Based(Append(r, kind))
    <2> DEFINE a == Append(r, kind)
    <2>1. /\ a \in Seq(StackKinds) /\ a # <<>> /\ Len(a) = Len(r) + 1 /\ a[Len(r) + 1] = kind
          /\ \A n \in 1 .. Len(r) : a[n] = r[n]
      BY AppendIs
    <2>2. r[1] = "program" /\ (\A n \in 2 .. Len(r) : r[n] # "program") /\ Len(r) \in Nat /\ Len(r) > 0
      BY <1>4 DEF Based
    <2> HIDE DEF a
    <2>3. 1 \in 1 .. Len(r) /\ \A n \in 2 .. Len(a) : n = Len(r) + 1 \/ (n \in 2 .. Len(r) /\ n \in 1 .. Len(r))
      BY <2>1, <2>2
    <2>4. Based(a)
      BY <2>1, <2>2, <2>3 DEF Based
    <2>5. QED
      BY <2>1, <2>4 DEF a
  <1> HIDE DEF f
  <1>5. f # <<>> => 1 \in 1 .. Len(s) - 1 /\ Len(f) > 0
    BY <1>1, <1>2
  <1>6. \A n \in 2 .. Len(f) : n \in 2 .. Len(s) /\ n \in 1 .. Len(s) - 1
    BY <1>1, <1>2
  <1>7. Based(f)
    BY <1>1, <1>3, <1>5, <1>6 DEF Based
  <1>8. LastOf(s) # "program" => f # <<>>
    <2>1. LastOf(s) # "program" => Len(s) # 1
      BY <1>3 DEF LastOf
    <2>2. Len(s) # 1 => Len(f) > 0
      BY <1>1, <1>2
    <2>3. Len(f) > 0 => f # <<>>
      BY <1>1
    <2>4. QED
      BY <2>1, <2>2, <2>3
  <1>9. QED
    BY <1>1, <1>2, <1>4, <1>7, <1>8 DEF f

LEMMA Places ==
  ASSUME NEW n \in Nat, NEW p \in Nat, p > 0, p <= n
  PROVE  /\ p \in 1 .. n /\ (p # n => p \in 1 .. n - 1) /\ p # n + 1
         /\ p \in 1 .. n + 1 /\ p + 1 \in 1 .. n + 1 /\ (p + 1 = n + 1 => p = n)
  OBVIOUS

(* What type and bounds give in each state.                                *)
LEMMA StateFacts ==
  ASSUME TypeOK, ReadOK
  PROVE  /\ Len(tokens) \in Nat /\ DOMAIN tokens = 1 .. Len(tokens)
         /\ pos \in Nat /\ pos > 0 /\ pos <= Len(tokens) + 1
         /\ stack \in Seq(StackKinds) /\ Based(stack)
         /\ pos <= Len(tokens) => pos \in DOMAIN tokens
         /\ pos <= Len(tokens) /\ tokens[pos] = "eof" => pos = Len(tokens)
         /\ Rest = FrontOf(stack) /\ Top = LastOf(stack)
         /\ file.max \in Nat
  <1>1. tokens \in Seq(file.tokens \cup {"eof"}) /\ pos \in 1 .. Len(tokens) + 1 /\ file \in Files
    BY DEF TypeOK
  <1>2. Len(tokens) \in Nat /\ DOMAIN tokens = 1 .. Len(tokens)
    BY <1>1
  <1>3. pos \in Nat /\ pos > 0 /\ pos <= Len(tokens) + 1
    BY <1>1, <1>2
  <1>4. pos <= Len(tokens) => pos \in 1 .. Len(tokens) /\ (pos # Len(tokens) => pos \in 1 .. Len(tokens) - 1)
    BY <1>2, <1>3, Places, Zenon
  <1>5. \A i \in 1 .. Len(tokens) - 1 : tokens[i] # "eof"
    BY DEF TypeOK
  <1>6. Rest = FrontOf(stack) /\ Top = LastOf(stack)
    BY DEF Rest, Top, FrontOf, LastOf
  <1>7. file.max \in Nat
    BY <1>1, FilesAssumption
  <1>8. stack \in Seq(StackKinds) /\ Based(stack)
    BY DEF TypeOK, ReadOK
  <1>9. pos <= Len(tokens) /\ tokens[pos] = "eof" => pos = Len(tokens)
    BY <1>4, <1>5
  <1>10. QED
    BY <1>2, <1>3, <1>4, <1>6, <1>7, <1>8, <1>9

(* What every step but a Read leaves as it was.                            *)
LEMMA StepKeeps ==
  ASSUME TypeOK, ReadOK, pos <= Len(tokens), file' = file, tokens' = tokens,
         pos' = pos \/ (pos' = pos + 1 /\ tokens[pos] # "eof"),
         stack' \in Seq(StackKinds), Based(stack'), stack' = <<>> => pos' = pos /\ tokens[pos] = "eof",
         errorAt' \subseteq errorAt \cup {pos}, swallowed' \subseteq swallowed \cup {pos}
  PROVE  TypeOK' /\ ReadOK'
  <1>1. /\ Len(tokens) \in Nat /\ DOMAIN tokens = 1 .. Len(tokens) /\ pos \in Nat /\ pos > 0
        /\ pos \in DOMAIN tokens /\ (tokens[pos] = "eof" => pos = Len(tokens))
    BY StateFacts
  <1>2. pos' \in 1 .. Len(tokens) + 1 /\ (pos' = Len(tokens) + 1 => tokens[Len(tokens)] # "eof")
    <2>1. CASE pos' = pos
      <3>1. pos' \in 1 .. Len(tokens) + 1 /\ pos' # Len(tokens) + 1
        BY <1>1, <2>1, Places, Zenon
      <3>2. QED
        BY <3>1
    <2>2. CASE pos' = pos + 1 /\ tokens[pos] # "eof"
      <3>1. pos' \in 1 .. Len(tokens) + 1 /\ (pos' = Len(tokens) + 1 => pos = Len(tokens))
        BY <1>1, <2>2, Places, Zenon
      <3>2. QED
        BY <2>2, <3>1
    <2>3. QED
      BY <2>1, <2>2
  <1>3. errorAt' \subseteq DOMAIN tokens /\ swallowed' \subseteq DOMAIN tokens
    BY <1>1 DEF TypeOK
  <1>4. TypeOK'
    BY <1>2, <1>3 DEF TypeOK
  <1>5. stack' = <<>> => pos' = Len(tokens) /\ tokens[pos'] = "eof"
    BY <1>1
  <1>6. ReadOK'
    BY <1>2, <1>5 DEF ReadOK
  <1>7. QED
    BY <1>4, <1>6

(* A Read puts the end of the file last.                                   *)
LEMMA ReadKeeps ==
  ASSUME TypeOK, ReadOK, Read
  PROVE  /\ TypeOK' /\ ReadOK'
         /\ Grows(tokens, tokens') /\ pos = Len(tokens) + 1 /\ (Len(tokens) > 0 => tokens[Len(tokens)] # "eof")
  <1> DEFINE n == Len(tokens)
             W == file.tokens \cup {"eof"}
  <1>1. n \in Nat /\ pos \in Nat /\ pos > 0 /\ pos <= n + 1 /\ file.max \in Nat /\ DOMAIN tokens = 1 .. n
    BY StateFacts
  <1>2. stack # <<>> /\ pos > n /\ UNCHANGED <<file, pos, stack, errorAt, swallowed>>
    BY DEF Read
  <1>3. PICK x \in {"eof"} \cup (IF n < file.max THEN file.tokens ELSE {}) : tokens' = Append(tokens, x)
    BY DEF Read
  <1>4. x \in W /\ (n < file.max \/ x = "eof") /\ tokens \in Seq(W)
    BY DEF TypeOK
  <1> HIDE DEF n, W
  <1>5. /\ tokens' \in Seq(W) /\ tokens' # <<>> /\ Len(tokens') = n + 1
        /\ tokens'[n + 1] = x /\ \A i \in 1 .. n : tokens'[i] = tokens[i]
    BY <1>3, <1>4, AppendIs DEF n
  <1>6. pos = n + 1
    BY <1>1, <1>2
  <1>7. n > 0 => tokens[n] # "eof"
    BY <1>6 DEF ReadOK, n
  <1>8. n # file.max + 1 /\ n <= file.max + 1
    <2>1. n <= file.max + 1
      BY DEF TypeOK, n
    <2>2. n = file.max + 1 => tokens[n] = "eof"
      BY DEF ReadOK, n
    <2>3. n = file.max + 1 => n > 0
      BY <1>1
    <2>4. QED
      BY <1>7, <2>1, <2>2, <2>3
  <1>9. \A i \in 1 .. n : tokens[i] # "eof"
    <2>1. \A i \in 1 .. n : (i \in 1 .. n - 1 \/ i = n) /\ n > 0
      BY <1>1
    <2>2. \A i \in 1 .. n - 1 : tokens[i] # "eof"
      BY DEF TypeOK, n
    <2>3. QED
      BY <1>7, <2>1, <2>2
  <1>10. (n + 1) - 1 = n /\ n + 1 <= file.max + 1 /\ (n + 1 = file.max + 1 => ~(n < file.max))
    BY <1>1, <1>8
  <1>11. \A i \in 1 .. Len(tokens') - 1 : tokens'[i] # "eof"
    BY <1>5, <1>9, <1>10
  <1>12. pos' \in 1 .. Len(tokens') + 1 /\ pos' # Len(tokens') + 1
    BY <1>1, <1>2, <1>5, <1>6
  <1>13. DOMAIN tokens' = 1 .. n + 1 /\ DOMAIN tokens \subseteq DOMAIN tokens'
    BY <1>1, <1>5
  <1>14. errorAt' \subseteq DOMAIN tokens' /\ swallowed' \subseteq DOMAIN tokens'
    BY <1>2, <1>13 DEF TypeOK
  <1>15. TypeOK'
    <2>1. file' = file /\ file \in Files /\ stack' = stack /\ stack \in Seq(StackKinds)
      BY <1>2 DEF TypeOK
    <2>2. Len(tokens') <= file'.max + 1
      BY <1>5, <1>10, <2>1
    <2>3. tokens' \in Seq(file'.tokens \cup {"eof"})
      BY <1>5, <2>1 DEF W
    <2>4. pos' \in 1 .. Len(tokens') + 1
      BY <1>12
    <2>5. QED
      BY <1>11, <1>14, <2>1, <2>2, <2>3, <2>4 DEF TypeOK
  <1>16. ReadOK'
    <2>1. Len(tokens') = file'.max + 1 => tokens'[Len(tokens')] = "eof"
      BY <1>2, <1>4, <1>5, <1>10
    <2>2. stack' # <<>> /\ Based(stack')
      BY <1>2 DEF ReadOK
    <2>3. QED
      BY <1>12, <2>1, <2>2 DEF ReadOK
  <1>17. Grows(tokens, tokens')
    <2>1. n + 1 \in Nat /\ n + 1 >= n
      BY <1>1
    <2>2. Alike(tokens, tokens', n)
      BY <1>5 DEF Alike
    <2>3. QED
      BY <1>1, <1>5, <2>1, <2>2 DEF Grows, n
  <1>18. QED
    BY <1>6, <1>7, <1>15, <1>16, <1>17 DEF n

-----------------------------------------------------------------------------
(* A step of the parser, and what it leaves when all went well before.     *)
Moves ==
  /\ stack # <<>> /\ pos <= Len(tokens) /\ file' = file /\ tokens' = tokens
  /\ pos' = pos \/ (pos' = pos + 1 /\ tokens[pos] # "eof")
  /\ stack' \in Seq(StackKinds) /\ Based(stack')
  /\ stack' = <<>> => pos' = pos /\ tokens[pos] = "eof"
  /\ errorAt \subseteq errorAt' /\ errorAt' \subseteq errorAt \cup {pos}
  /\ swallowed \subseteq swallowed' /\ swallowed' \subseteq swallowed \cup {pos}

Outcome ==
  \/ /\ Fine
     /\ \/ stack' # <<>> /\ \E own : Stands(tokens, pos', stack', own)
        \/ stack' = <<>> /\ Right(tokens)
  \/ Wrong(tokens) /\ (pos \in errorAt' \/ pos \in swallowed')

Standing(own) == TypeOK /\ ReadOK /\ stack # <<>> /\ Stands(tokens, pos, stack, own)

(* The parts that the actions share.                                       *)
LEMMA AdvanceIs ==
  ASSUME Advance
  PROVE  /\ pos' = pos \/ (pos' = pos + 1 /\ tokens[pos] # "eof")
         /\ tokens[pos] # "eof" => pos' = pos + 1
  BY DEF Advance, Token

LEMMA FineIs ==
  ASSUME Fine
  PROVE  /\ errorAt \subseteq errorAt' /\ errorAt' \subseteq errorAt \cup {pos}
         /\ swallowed \subseteq swallowed' /\ swallowed' \subseteq swallowed \cup {pos}
  BY DEF Fine

LEMMA ReportIs ==
  ASSUME ReportError
  PROVE  /\ errorAt \subseteq errorAt' /\ errorAt' \subseteq errorAt \cup {pos} /\ pos \in errorAt'
         /\ swallowed \subseteq swallowed' /\ swallowed' \subseteq swallowed \cup {pos}
  BY DEF ReportError

LEMMA SwallowIs ==
  ASSUME Swallow
  PROVE  /\ errorAt \subseteq errorAt' /\ errorAt' \subseteq errorAt \cup {pos}
         /\ swallowed \subseteq swallowed' /\ swallowed' \subseteq swallowed \cup {pos} /\ pos \in swallowed'
  BY DEF Swallow

LEMMA AtIs ==
  ASSUME TypeOK, ReadOK, NEW K, At(K)
  PROVE  /\ stack # <<>> /\ pos <= Len(tokens) /\ LastOf(stack) \in K /\ Top = LastOf(stack) /\ Rest = FrontOf(stack)
         /\ stack \in Seq(StackKinds) /\ Based(stack)
         /\ Len(tokens) \in Nat /\ pos \in Nat /\ pos > 0
         /\ LastOf(stack) \in StackKinds
         /\ tokens[pos] = "eof" => pos = Len(tokens)
  <1>1. stack # <<>> /\ pos <= Len(tokens) /\ Top \in K
    BY DEF At
  <1>2. /\ Len(tokens) \in Nat /\ pos \in Nat /\ pos > 0 /\ stack \in Seq(StackKinds) /\ Based(stack)
        /\ Rest = FrontOf(stack) /\ Top = LastOf(stack)
        /\ pos <= Len(tokens) /\ tokens[pos] = "eof" => pos = Len(tokens)
    BY StateFacts
  <1>3. LastOf(stack) \in StackKinds
    BY <1>1, <1>2, StackFacts
  <1>4. QED
    BY <1>1, <1>2, <1>3

-----------------------------------------------------------------------------
(* Every step, one by one: what it does to the state, and to what the      *)
(* invariant says of it.                                                   *)
LEMMA NewlineMoves ==
  ASSUME TypeOK, ReadOK, SkipNewline
  PROVE  Moves
  <1>1. At({Top} \ {"modifiedMember"}) /\ Advance /\ Fine /\ file' = file /\ tokens' = tokens /\ stack' = stack
    BY DEF SkipNewline
  <1>2. stack # <<>> /\ pos <= Len(tokens) /\ stack \in Seq(StackKinds) /\ Based(stack)
    BY <1>1, AtIs
  <1>3. QED
    BY <1>1, <1>2, AdvanceIs, FineIs DEF Moves

LEMMA NewlineOutcome ==
  ASSUME NEW own, Standing(own), SkipNewline
  PROVE  Outcome
  <1>1. At({Top} \ {"modifiedMember"}) /\ Advance /\ Fine /\ stack' = stack /\ tokens[pos] = "nl"
    BY DEF SkipNewline, Token
  <1>2. /\ stack # <<>> /\ stack \in Seq(StackKinds) /\ pos \in Nat /\ pos > 0 /\ Top = LastOf(stack)
        /\ LastOf(stack) \in {Top} \ {"modifiedMember"}
    BY <1>1, AtIs DEF Standing
  <1>3. pos' = pos + 1
    BY <1>1, AdvanceIs
  <1>4. Stands(tokens, pos, stack, own)
    BY DEF Standing
  <1>5. Stands(tokens, pos + 1, stack, own)
    BY <1>1, <1>2, <1>4, NewlineGoes
  <1>6. QED
    BY <1>1, <1>2, <1>3, <1>5 DEF Outcome

(* parseStmt.                                                              *)
LEMMA StatementMoves ==
  ASSUME TypeOK, ReadOK, Statement
  PROVE  Moves
  <1>1. At(BlockKinds) /\ Advance /\ file' = file /\ tokens' = tokens
    BY DEF Statement
  <1>2. stack # <<>> /\ pos <= Len(tokens) /\ stack \in Seq(StackKinds) /\ Based(stack)
    BY <1>1, AtIs
  <1>3. tokens[pos] \in Openers => stack' = Append(stack, First(tokens[pos])) /\ Fine
    BY DEF Statement, Token, Push
  <1>4. tokens[pos] \notin Openers =>
          /\ stack' = stack
          /\ IF tokens[pos] \in Simple THEN Fine ELSE Swallow
    BY DEF Statement, Token
  <1>5. CASE tokens[pos] \in Openers
    <2>1. First(tokens[pos]) \in StackKinds \ {"program"}
      BY <1>5 DEF First, Openers, StackKinds, BlockKinds
    <2>2. stack' \in Seq(StackKinds) /\ stack' # <<>> /\ Based(stack')
      BY <1>2, <1>3, <1>5, <2>1, StackFacts
    <2>3. QED
      BY <1>1, <1>2, <1>3, <1>5, <2>2, AdvanceIs, FineIs DEF Moves
  <1>6. CASE tokens[pos] \notin Openers
    <2>1. /\ errorAt \subseteq errorAt' /\ errorAt' \subseteq errorAt \cup {pos}
          /\ swallowed \subseteq swallowed' /\ swallowed' \subseteq swallowed \cup {pos}
      BY <1>4, <1>6, FineIs, SwallowIs
    <2>2. QED
      BY <1>1, <1>2, <1>4, <1>6, <2>1, AdvanceIs DEF Moves
  <1>7. QED
    BY <1>5, <1>6

LEMMA StatementOutcome ==
  ASSUME NEW own, Standing(own), Statement
  PROVE  Outcome
  <1>1. At(BlockKinds) /\ Advance /\ Stands(tokens, pos, stack, own) /\ TypeOK /\ ReadOK
    BY DEF Statement, Standing
  <1>2. /\ stack # <<>> /\ pos <= Len(tokens) /\ stack \in Seq(StackKinds) /\ pos \in Nat /\ pos > 0 /\ Len(tokens) \in Nat
        /\ LastOf(stack) \in BlockKinds /\ Top = LastOf(stack)
    BY <1>1, AtIs
  <1>3. tokens[pos] \notin Terminators(LastOf(stack)) \cup {"nl", "eof"}
    BY <1>2 DEF Statement, Token
  <1>4. tokens[pos] \in Openers => stack' = Append(stack, First(tokens[pos])) /\ Fine
    BY DEF Statement, Token, Push
  <1>5. tokens[pos] \notin Openers =>
          /\ stack' = stack
          /\ IF tokens[pos] \in Simple THEN Fine ELSE Swallow
    BY DEF Statement, Token
  <1>6. pos' = pos + 1
    BY <1>1, <1>3, AdvanceIs
  <1>7. CASE tokens[pos] \in Openers
    <2>1. Append(stack, First(tokens[pos])) \in Seq(StackKinds)
          /\ \E own2 : Stands(tokens, pos + 1, Append(stack, First(tokens[pos])), own2)
      BY <1>1, <1>2, <1>7, OpenerGoes
    <2>2. First(tokens[pos]) \in StackKinds
      BY <1>7 DEF First, Openers, StackKinds, BlockKinds
    <2>3. Append(stack, First(tokens[pos])) # <<>>
      BY <1>2, <2>2, AppendIs
    <2>4. QED
      BY <1>4, <1>6, <1>7, <2>1, <2>3 DEF Outcome
  <1>8. CASE tokens[pos] \in Simple
    <2>1. tokens[pos] \notin Openers
      BY <1>8 DEF Openers, Simple
    <2>2. Stands(tokens, pos + 1, stack, own)
      BY <1>1, <1>2, <1>8, SimpleGoes
    <2>3. stack' = stack /\ Fine
      BY <1>5, <1>8, <2>1
    <2>4. QED
      BY <1>2, <1>6, <2>2, <2>3 DEF Outcome
  <1>9. CASE tokens[pos] \notin Simple \cup Openers
    <2>1. tokens[pos] \notin Terminators(LastOf(stack)) \cup {"nl", "eof"} \cup Simple \cup Openers
      BY <1>3, <1>9
    <2>2. Wrong(tokens)
      BY <1>1, <1>2, <2>1, SwallowedWrong
    <2>3. pos \in swallowed'
      BY <1>5, <1>9, SwallowIs
    <2>4. QED
      BY <2>2, <2>3 DEF Outcome
  <1>10. QED
    BY <1>7, <1>8, <1>9

(* The value of a return or a throw.                                       *)
LEMMA ValueMoves ==
  ASSUME TypeOK, ReadOK, Value
  PROVE  Moves
  <1>1. stack # <<>> /\ pos <= Len(tokens) /\ Advance /\ Swallow /\ file' = file /\ tokens' = tokens /\ stack' = stack
    BY DEF Value
  <1>2. stack \in Seq(StackKinds) /\ Based(stack)
    BY StateFacts
  <1>3. QED
    BY <1>1, <1>2, AdvanceIs, SwallowIs DEF Moves

LEMMA ValueOutcome ==
  ASSUME NEW own, Standing(own), Value
  PROVE  Outcome
  <1>1. pos <= Len(tokens) /\ IsValue /\ Swallow
    BY DEF Value
  <1>2. Len(tokens) \in Nat /\ pos \in Nat /\ pos > 0
    BY StateFacts DEF Standing
  <1>3. ValueIn(tokens, pos)
    BY <1>1 DEF IsValue, ValueIn, Token
  <1>4. pos \in 1 .. Len(tokens)
    BY <1>1, <1>2
  <1>5. Wrong(tokens)
    BY <1>3, <1>4, Zenon DEF Wrong, Valued
  <1>6. QED
    BY <1>1, <1>5, SwallowIs DEF Outcome

(* expect(KW_END).                                                         *)
LEMMA EndMoves ==
  ASSUME TypeOK, ReadOK, End
  PROVE  Moves
  <1>1. At(Closed) /\ Advance /\ Fine /\ file' = file /\ tokens' = tokens /\ stack' = Rest
    BY DEF End
  <1>2. /\ stack # <<>> /\ pos <= Len(tokens) /\ stack \in Seq(StackKinds) /\ Based(stack)
        /\ LastOf(stack) \in Closed /\ Rest = FrontOf(stack)
    BY <1>1, AtIs
  <1>3. LastOf(stack) # "program"
    BY <1>2 DEF Closed, BlockKinds
  <1>4. stack' \in Seq(StackKinds) /\ stack' # <<>> /\ Based(stack')
    BY <1>1, <1>2, <1>3, StackFacts
  <1>5. QED
    BY <1>1, <1>2, <1>4, AdvanceIs, FineIs DEF Moves

LEMMA EndOutcome ==
  ASSUME NEW own, Standing(own), End
  PROVE  Outcome
  <1>1. At(Closed) /\ Advance /\ Fine /\ stack' = Rest /\ tokens[pos] = "end"
    BY DEF End, Token
  <1>2. TypeOK /\ ReadOK /\ Stands(tokens, pos, stack, own)
    BY DEF Standing
  <1>3. /\ stack \in Seq(StackKinds) /\ pos \in Nat /\ pos > 0 /\ LastOf(stack) \in Closed /\ Rest = FrontOf(stack)
    BY <1>1, <1>2, AtIs
  <1>4. FrontOf(stack) # <<>> /\ \E own2 : Stands(tokens, pos + 1, FrontOf(stack), own2)
    BY <1>1, <1>2, <1>3, EndGoes
  <1>5. pos' = pos + 1
    BY <1>1, AdvanceIs
  <1>6. QED
    BY <1>1, <1>3, <1>4, <1>5 DEF Outcome

-----------------------------------------------------------------------------
(* The next part of an if or a try takes the place of the last.            *)
LEMMA ReplaceMoves ==
  ASSUME TypeOK, ReadOK, NEW kind \in StackKinds, kind # "program", At({kind}),
         NEW next \in StackKinds, next # "program", stack' = Replace(next),
         pos' = pos \/ (pos' = pos + 1 /\ tokens[pos] # "eof"), Fine, file' = file, tokens' = tokens
  PROVE  Moves
  <1>1. /\ stack # <<>> /\ pos <= Len(tokens) /\ stack \in Seq(StackKinds) /\ Based(stack)
        /\ LastOf(stack) = kind /\ Rest = FrontOf(stack)
    BY AtIs
  <1>2. stack' = Append(FrontOf(stack), next)
    BY <1>1 DEF Replace
  <1>3. stack' \in Seq(StackKinds) /\ stack' # <<>> /\ Based(stack')
    BY <1>1, <1>2, StackFacts
  <1>4. QED
    BY <1>1, <1>3, FineIs DEF Moves

(* else, else if and catch.                                                *)
LEMMA ElseMoves ==
  ASSUME TypeOK, ReadOK, Else \/ AfterElse \/ Catch
  PROVE  Moves
  <1>0. {"then", "afterElse", "try", "else", "catch"} \subseteq StackKinds \ {"program"}
    BY DEF StackKinds, BlockKinds
  <1>1. CASE Else
    <2>1. /\ At({"then"}) /\ stack' = Replace("afterElse") /\ Advance /\ Fine /\ file' = file /\ tokens' = tokens
      BY <1>1 DEF Else
    <2>2. QED
      BY <1>0, <2>1, AdvanceIs, ReplaceMoves
  <1>2. CASE AfterElse
    <2>1. /\ At({"afterElse"}) /\ Fine /\ file' = file /\ tokens' = tokens
          /\ \/ Advance /\ stack' = Replace("then")
             \/ pos' = pos /\ stack' = Replace("else")
      BY <1>2 DEF AfterElse
    <2>2. QED
      BY <1>0, <2>1, AdvanceIs, ReplaceMoves
  <1>3. CASE Catch
    <2>1. /\ At({"try"}) /\ stack' = Replace("catch") /\ Advance /\ Fine /\ file' = file /\ tokens' = tokens
      BY <1>3 DEF Catch
    <2>2. QED
      BY <1>0, <2>1, AdvanceIs, ReplaceMoves
  <1>4. QED
    BY <1>1, <1>2, <1>3

LEMMA ElseOutcome ==
  ASSUME NEW own, Standing(own), Else \/ AfterElse \/ Catch
  PROVE  Outcome
  <1>0. TypeOK /\ ReadOK /\ Stands(tokens, pos, stack, own)
    BY DEF Standing
  <1>1. ASSUME NEW kind, NEW p, Append(FrontOf(stack), kind) \in Seq(StackKinds), kind \in StackKinds,
               \E own2 : Stands(tokens, p, Append(FrontOf(stack), kind), own2),
               stack' = Replace(kind), pos' = p, Fine, Rest = FrontOf(stack)
        PROVE  Outcome
    <2>1. stack' = Append(FrontOf(stack), kind)
      BY <1>1 DEF Replace
    <2>2. PICK own2 : Stands(tokens, pos', stack', own2)
      BY <1>1, <2>1
    <2>3. stack' # <<>>
      BY <2>2 DEF Stands, Frames
    <2>4. QED
      BY <1>1, <2>2, <2>3 DEF Outcome
  <1>2. {"then", "afterElse", "else", "catch"} \subseteq StackKinds
    BY DEF StackKinds, BlockKinds
  <1>3. CASE Else
    <2>1. /\ At({"then"}) /\ stack' = Replace("afterElse") /\ Advance /\ Fine /\ tokens[pos] = "else"
      BY <1>3 DEF Else, Token
    <2>2. /\ stack \in Seq(StackKinds) /\ pos \in Nat /\ pos > 0 /\ LastOf(stack) = "then" /\ Rest = FrontOf(stack)
      BY <1>0, <2>1, AtIs
    <2>3. pos' = pos + 1
      BY <2>1, AdvanceIs
    <2>4. /\ Append(FrontOf(stack), "afterElse") \in Seq(StackKinds)
          /\ \E own2 : Stands(tokens, pos + 1, Append(FrontOf(stack), "afterElse"), own2)
      BY <1>0, <2>1, <2>2, ElseGoes
    <2>5. QED
      BY <1>1, <1>2, <2>1, <2>2, <2>3, <2>4
  <1>4. CASE AfterElse
    <2>1. At({"afterElse"}) /\ Fine /\ tokens[pos] # "nl"
      BY <1>4 DEF AfterElse, Token
    <2>2. /\ stack \in Seq(StackKinds) /\ pos \in Nat /\ pos > 0 /\ LastOf(stack) = "afterElse" /\ Rest = FrontOf(stack)
          /\ pos <= Len(tokens) /\ Len(tokens) \in Nat
      BY <1>0, <2>1, AtIs
    <2>3. CASE tokens[pos] = "if"
      <3>1. Advance /\ stack' = Replace("then")
        BY <1>4, <2>3 DEF AfterElse, Token
      <3>2. pos' = pos + 1
        BY <2>3, <3>1, AdvanceIs
      <3>3. /\ Append(FrontOf(stack), "then") \in Seq(StackKinds)
            /\ \E own2 : Stands(tokens, pos + 1, Append(FrontOf(stack), "then"), own2)
        BY <1>0, <2>2, <2>3, ChainGoes
      <3>4. QED
        BY <1>1, <1>2, <2>1, <2>2, <3>1, <3>2, <3>3
    <2>4. CASE tokens[pos] # "if"
      <3>1. pos' = pos /\ stack' = Replace("else")
        BY <1>4, <2>4 DEF AfterElse, Token
      <3>2. tokens[pos] \notin {"nl", "if"}
        BY <2>1, <2>4
      <3>3. /\ Append(FrontOf(stack), "else") \in Seq(StackKinds)
            /\ \E own2 : Stands(tokens, pos, Append(FrontOf(stack), "else"), own2)
        BY <1>0, <2>2, <3>2, PlainElseGoes
      <3>4. QED
        BY <1>1, <1>2, <2>1, <2>2, <3>1, <3>3
    <2>5. QED
      BY <2>3, <2>4
  <1>5. CASE Catch
    <2>1. /\ At({"try"}) /\ stack' = Replace("catch") /\ Advance /\ Fine /\ tokens[pos] = "catch"
      BY <1>5 DEF Catch, Token
    <2>2. /\ stack \in Seq(StackKinds) /\ pos \in Nat /\ pos > 0 /\ LastOf(stack) = "try" /\ Rest = FrontOf(stack)
      BY <1>0, <2>1, AtIs
    <2>3. pos' = pos + 1
      BY <2>1, AdvanceIs
    <2>4. /\ Append(FrontOf(stack), "catch") \in Seq(StackKinds)
          /\ \E own2 : Stands(tokens, pos + 1, Append(FrontOf(stack), "catch"), own2)
      BY <1>0, <2>1, <2>2, CatchGoes
    <2>5. QED
      BY <1>1, <1>2, <2>1, <2>2, <2>3, <2>4
  <1>6. QED
    BY <1>3, <1>4, <1>5

-----------------------------------------------------------------------------
(* match and its cases                                                     *)
LEMMA CaseMoves ==
  ASSUME TypeOK, ReadOK, Case \/ CaseEnds \/ NotACase
  PROVE  Moves
  <1>1. CASE Case
    <2>1. At({"match"}) /\ Advance /\ Fine /\ file' = file /\ tokens' = tokens /\ stack' = Append(stack, "case")
      BY <1>1 DEF Case, Push
    <2>2. stack # <<>> /\ pos <= Len(tokens) /\ stack \in Seq(StackKinds) /\ Based(stack)
      BY <2>1, AtIs
    <2>3. "case" \in StackKinds \ {"program"}
      BY DEF StackKinds, BlockKinds
    <2>4. stack' \in Seq(StackKinds) /\ stack' # <<>> /\ Based(stack')
      BY <2>1, <2>2, <2>3, StackFacts
    <2>5. QED
      BY <2>1, <2>2, <2>4, AdvanceIs, FineIs DEF Moves
  <1>2. CASE CaseEnds
    <2>1. At({"case"}) /\ Fine /\ file' = file /\ tokens' = tokens /\ pos' = pos /\ stack' = Rest
      BY <1>2 DEF CaseEnds
    <2>2. /\ stack # <<>> /\ pos <= Len(tokens) /\ stack \in Seq(StackKinds) /\ Based(stack)
          /\ LastOf(stack) = "case" /\ Rest = FrontOf(stack)
      BY <2>1, AtIs
    <2>3. stack' \in Seq(StackKinds) /\ stack' # <<>> /\ Based(stack')
      BY <2>1, <2>2, StackFacts
    <2>4. QED
      BY <2>1, <2>2, <2>3, FineIs DEF Moves
  <1>3. CASE NotACase
    <2>1. At({"match"}) /\ Advance /\ ReportError /\ file' = file /\ tokens' = tokens /\ stack' = stack
      BY <1>3 DEF NotACase
    <2>2. stack # <<>> /\ pos <= Len(tokens) /\ stack \in Seq(StackKinds) /\ Based(stack)
      BY <2>1, AtIs
    <2>3. QED
      BY <2>1, <2>2, AdvanceIs, ReportIs DEF Moves
  <1>4. QED
    BY <1>1, <1>2, <1>3

LEMMA CaseOutcome ==
  ASSUME NEW own, Standing(own), Case \/ CaseEnds \/ NotACase
  PROVE  Outcome
  <1>0. TypeOK /\ ReadOK /\ Stands(tokens, pos, stack, own)
    BY DEF Standing
  <1>1. CASE Case
    <2>1. At({"match"}) /\ Advance /\ Fine /\ stack' = Append(stack, "case") /\ tokens[pos] = "case"
      BY <1>1 DEF Case, Push, Token
    <2>2. stack \in Seq(StackKinds) /\ LastOf(stack) = "match" /\ pos \in Nat /\ pos > 0
      BY <1>0, <2>1, AtIs
    <2>3. \E own2 : Stands(tokens, pos + 1, Append(stack, "case"), own2)
      BY <1>0, <2>1, <2>2, CaseGoes
    <2>4. pos' = pos + 1
      BY <2>1, AdvanceIs
    <2>5. stack' # <<>>
      BY <2>1, <2>3 DEF Stands, Frames
    <2>6. QED
      BY <2>1, <2>3, <2>4, <2>5 DEF Outcome
  <1>2. CASE CaseEnds
    <2>1. At({"case"}) /\ Fine /\ pos' = pos /\ stack' = Rest /\ tokens[pos] \in {"case", "end", "eof"}
      BY <1>2 DEF CaseEnds, Terminators, Token
    <2>2. /\ stack \in Seq(StackKinds) /\ LastOf(stack) = "case" /\ pos \in Nat /\ pos > 0 /\ pos <= Len(tokens)
          /\ Rest = FrontOf(stack)
      BY <1>0, <2>1, AtIs
    <2>3. FrontOf(stack) # <<>> /\ \E own2 : Stands(tokens, pos, FrontOf(stack), own2)
      BY <1>0, <2>1, <2>2, CaseEndsGoes
    <2>4. QED
      BY <2>1, <2>2, <2>3 DEF Outcome
  <1>3. CASE NotACase
    <2>1. At({"match"}) /\ ReportError /\ tokens[pos] \notin {"nl", "case", "end", "eof"}
      BY <1>3 DEF NotACase, Token
    <2>2. /\ stack \in Seq(StackKinds) /\ LastOf(stack) = "match" /\ pos \in Nat /\ pos > 0 /\ pos <= Len(tokens)
          /\ Len(tokens) \in Nat
      BY <1>0, <2>1, AtIs
    <2>3. Wrong(tokens)
      BY <1>0, <2>1, <2>2, NotACaseWrong
    <2>4. QED
      BY <2>1, <2>3, ReportIs DEF Outcome
  <1>4. QED
    BY <1>1, <1>2, <1>3

-----------------------------------------------------------------------------
(* The members of a type.                                                  *)
LEMMA MemberIs ==
  ASSUME Member
  PROVE  /\ At({"type"}) /\ tokens[pos] \notin {"nl", "end", "eof"} /\ Advance /\ file' = file /\ tokens' = tokens
         /\ tokens[pos] = "fn" => stack' = Append(stack, "fn") /\ Fine
         /\ tokens[pos] = "let" => stack' = stack /\ Fine
         /\ tokens[pos] = "public" => stack' = Append(stack, "modifiedMember") /\ Fine
         /\ tokens[pos] \notin {"fn", "let", "public"} => stack' = stack /\ ReportError
  BY DEF Member, Token, Push

LEMMA MemberMoves ==
  ASSUME TypeOK, ReadOK, Member
  PROVE  Moves
  <1>1. At({"type"}) /\ Advance /\ file' = file /\ tokens' = tokens
    BY MemberIs
  <1>2. stack # <<>> /\ pos <= Len(tokens) /\ stack \in Seq(StackKinds) /\ Based(stack)
    BY <1>1, AtIs
  <1>3. \/ stack' = stack
        \/ \E kind \in {"fn", "modifiedMember"} : stack' = Append(stack, kind)
    BY MemberIs
  <1>4. Fine \/ ReportError
    BY MemberIs
  <1>5. {"fn", "modifiedMember"} \subseteq StackKinds \ {"program"}
    BY DEF StackKinds, BlockKinds
  <1>6. \A kind \in {"fn", "modifiedMember"} :
          Append(stack, kind) \in Seq(StackKinds) /\ Append(stack, kind) # <<>> /\ Based(Append(stack, kind))
    BY <1>2, <1>5, StackFacts
  <1>7. stack' \in Seq(StackKinds) /\ stack' # <<>> /\ Based(stack')
    BY <1>2, <1>3, <1>6
  <1>8. /\ errorAt \subseteq errorAt' /\ errorAt' \subseteq errorAt \cup {pos}
        /\ swallowed \subseteq swallowed' /\ swallowed' \subseteq swallowed \cup {pos}
    BY <1>4, FineIs, ReportIs
  <1>9. QED
    BY <1>1, <1>2, <1>7, <1>8, AdvanceIs DEF Moves

LEMMA MemberOutcome ==
  ASSUME NEW own, Standing(own), Member
  PROVE  Outcome
  <1>0. TypeOK /\ ReadOK /\ Stands(tokens, pos, stack, own)
    BY DEF Standing
  <1>1. At({"type"}) /\ Advance /\ tokens[pos] \notin {"nl", "end", "eof"}
    BY MemberIs
  <1>2. /\ stack # <<>> /\ stack \in Seq(StackKinds) /\ LastOf(stack) = "type" /\ pos \in Nat /\ pos > 0
        /\ pos <= Len(tokens) /\ Len(tokens) \in Nat
    BY <1>0, <1>1, AtIs
  <1>3. pos' = pos + 1
    BY <1>1, AdvanceIs
  <1>4. CASE tokens[pos] = "fn"
    <2>1. stack' = Append(stack, "fn") /\ Fine
      BY <1>4, MemberIs
    <2>2. \E own2 : Stands(tokens, pos + 1, Append(stack, "fn"), own2)
      BY <1>0, <1>2, <1>4, MethodGoes
    <2>3. stack' # <<>>
      BY <2>1, <2>2 DEF Stands, Frames
    <2>4. QED
      BY <1>3, <2>1, <2>2, <2>3 DEF Outcome
  <1>5. CASE tokens[pos] = "let"
    <2>1. stack' = stack /\ Fine
      BY <1>5, MemberIs
    <2>2. Stands(tokens, pos + 1, stack, own)
      BY <1>0, <1>2, <1>5, FieldGoes
    <2>3. QED
      BY <1>2, <1>3, <2>1, <2>2 DEF Outcome
  <1>6. CASE tokens[pos] = "public"
    <2>1. stack' = Append(stack, "modifiedMember") /\ Fine
      BY <1>6, MemberIs
    <2>2. Basis(tokens, pos, stack, own)
      BY <1>0, <1>2, BasisOf
    <2>3. Sits(LastOf(stack), "modifiedMember")
      BY <1>2 DEF Sits, StackKinds
    <2>3a. tokens[pos] \in Modifiers
      BY <1>6 DEF Modifiers
    <2>4. \E own2 : Stands(tokens, pos + 1, Append(stack, "modifiedMember"), own2)
      BY <1>2, <1>6, <2>2, <2>3, <2>3a, ModifierGoes
    <2>5. stack' # <<>>
      BY <2>1, <2>4 DEF Stands, Frames
    <2>6. QED
      BY <1>3, <2>1, <2>4, <2>5 DEF Outcome
  <1>7. CASE tokens[pos] \notin {"fn", "let", "public"}
    <2>1. ReportError
      BY <1>7, MemberIs
    <2>2. tokens[pos] \notin {"nl", "end", "eof", "fn", "let", "public"}
      BY <1>1, <1>7
    <2>3. Wrong(tokens)
      BY <1>0, <1>2, <2>2, MemberWrong
    <2>4. QED
      BY <2>1, <2>3, ReportIs DEF Outcome
  <1>8. QED
    BY <1>4, <1>5, <1>6, <1>7

(* The field after a modifier.                                             *)
LEMMA ModifiedMemberMoves ==
  ASSUME TypeOK, ReadOK, ModifiedMember
  PROVE  Moves
  <1>1. At({"modifiedMember"}) /\ Advance /\ (Fine \/ ReportError) /\ file' = file /\ tokens' = tokens /\ stack' = Rest
    BY DEF ModifiedMember
  <1>2. /\ stack # <<>> /\ pos <= Len(tokens) /\ stack \in Seq(StackKinds) /\ Based(stack)
        /\ LastOf(stack) = "modifiedMember" /\ Rest = FrontOf(stack)
    BY <1>1, AtIs
  <1>3. stack' \in Seq(StackKinds) /\ stack' # <<>> /\ Based(stack')
    BY <1>1, <1>2, StackFacts
  <1>4. /\ errorAt \subseteq errorAt' /\ errorAt' \subseteq errorAt \cup {pos}
        /\ swallowed \subseteq swallowed' /\ swallowed' \subseteq swallowed \cup {pos}
    BY <1>1, FineIs, ReportIs
  <1>5. QED
    BY <1>1, <1>2, <1>3, <1>4, AdvanceIs DEF Moves

LEMMA ModifiedMemberOutcome ==
  ASSUME NEW own, Standing(own), ModifiedMember
  PROVE  Outcome
  <1>0. TypeOK /\ ReadOK /\ Stands(tokens, pos, stack, own)
    BY DEF Standing
  <1>1. /\ At({"modifiedMember"}) /\ Advance /\ stack' = Rest
        /\ tokens[pos] = "let" => Fine
        /\ tokens[pos] # "let" => ReportError
    BY DEF ModifiedMember, Token
  <1>2. /\ stack \in Seq(StackKinds) /\ LastOf(stack) = "modifiedMember" /\ pos \in Nat /\ pos > 0
        /\ pos <= Len(tokens) /\ Len(tokens) \in Nat /\ Rest = FrontOf(stack)
    BY <1>0, <1>1, AtIs
  <1>3. CASE tokens[pos] = "let"
    <2>1. pos' = pos + 1
      BY <1>1, <1>3, AdvanceIs
    <2>2. FrontOf(stack) # <<>> /\ \E own2 : Stands(tokens, pos + 1, FrontOf(stack), own2)
      BY <1>0, <1>2, <1>3, ModifiedFieldGoes
    <2>3. QED
      BY <1>1, <1>2, <1>3, <2>1, <2>2 DEF Outcome
  <1>4. CASE tokens[pos] # "let"
    <2>1. Wrong(tokens)
      BY <1>0, <1>2, <1>4, ModifiedMemberWrong
    <2>2. QED
      BY <1>1, <1>4, <2>1, ReportIs DEF Outcome
  <1>5. QED
    BY <1>3, <1>4

-----------------------------------------------------------------------------
(* The top level.                                                          *)
Below == IF LastOf(stack) = "modified" THEN FrontOf(stack) ELSE stack

LEMMA TopDeclIs ==
  ASSUME TypeOK, ReadOK, TopDecl
  PROVE  /\ At({"program", "modified"}) /\ tokens[pos] # "nl" /\ (tokens[pos] = "eof" => LastOf(stack) = "modified")
         /\ Advance /\ file' = file /\ tokens' = tokens
         /\ tokens[pos] \in {"fn", "macro", "type"} => stack' = Append(Below, tokens[pos]) /\ Fine
         /\ tokens[pos] \in Modifiers => stack' = Append(Below, "modified") /\ Fine
         /\ tokens[pos] \in {"const", "use"} => stack' = Below /\ Fine
         /\ tokens[pos] \notin Modifiable => stack' = Below /\ ReportError
  <1>1. At({"program", "modified"})
    BY DEF TopDecl
  <1>2. Top = LastOf(stack) /\ Rest = FrontOf(stack)
    BY <1>1, AtIs
  <1>3. /\ tokens[pos] \in {"fn", "macro", "type"} => stack' = Append(Below, tokens[pos]) /\ Fine
        /\ tokens[pos] \in Modifiers => stack' = Append(Below, "modified") /\ Fine
        /\ tokens[pos] \in {"const", "use"} => stack' = Below /\ Fine
        /\ tokens[pos] \notin Modifiable => stack' = Below /\ ReportError
    BY <1>2 DEF TopDecl, Token, Below, Modifiable, Modifiers
  <1>4. /\ tokens[pos] # "nl" /\ (tokens[pos] = "eof" => LastOf(stack) = "modified")
        /\ Advance /\ file' = file /\ tokens' = tokens
    BY <1>2 DEF TopDecl, Token
  <1>5. QED
    BY <1>1, <1>3, <1>4

LEMMA BelowIs ==
  ASSUME TypeOK, ReadOK, At({"program", "modified"})
  PROVE  /\ Below \in Seq(StackKinds) /\ Below # <<>> /\ Based(Below)
         /\ LastOf(stack) = "program" => Below = stack
         /\ LastOf(stack) = "modified" => Below = FrontOf(stack)
  <1>1. /\ stack # <<>> /\ stack \in Seq(StackKinds) /\ Based(stack) /\ LastOf(stack) \in {"program", "modified"}
    BY AtIs
  <1>2. LastOf(stack) = "modified" => FrontOf(stack) \in Seq(StackKinds) /\ FrontOf(stack) # <<>> /\ Based(FrontOf(stack))
    BY <1>1, StackFacts
  <1>3. QED
    BY <1>1, <1>2 DEF Below

LEMMA TopDeclMoves ==
  ASSUME TypeOK, ReadOK, TopDecl
  PROVE  Moves
  <1>1. At({"program", "modified"}) /\ Advance /\ file' = file /\ tokens' = tokens
    BY TopDeclIs
  <1>2. stack # <<>> /\ pos <= Len(tokens)
    BY <1>1, AtIs
  <1>3. Below \in Seq(StackKinds) /\ Below # <<>> /\ Based(Below)
    BY <1>1, BelowIs
  <1>4. \/ stack' = Below
        \/ \E kind \in {"fn", "macro", "type", "modified"} : stack' = Append(Below, kind)
    BY TopDeclIs DEF Modifiable, Modifiers
  <1>5. Fine \/ ReportError
    BY TopDeclIs DEF Modifiable, Modifiers
  <1>6. {"fn", "macro", "type", "modified"} \subseteq StackKinds \ {"program"}
    BY DEF StackKinds, BlockKinds
  <1>7. \A kind \in {"fn", "macro", "type", "modified"} :
          Append(Below, kind) \in Seq(StackKinds) /\ Append(Below, kind) # <<>> /\ Based(Append(Below, kind))
    BY <1>3, <1>6, StackFacts
  <1>8. stack' \in Seq(StackKinds) /\ stack' # <<>> /\ Based(stack')
    BY <1>3, <1>4, <1>7
  <1>9. /\ errorAt \subseteq errorAt' /\ errorAt' \subseteq errorAt \cup {pos}
        /\ swallowed \subseteq swallowed' /\ swallowed' \subseteq swallowed \cup {pos}
    BY <1>5, FineIs, ReportIs
  <1>10. QED
    BY <1>1, <1>2, <1>8, <1>9, AdvanceIs DEF Moves

LEMMA TopDeclOutcome ==
  ASSUME NEW own, Standing(own), TopDecl
  PROVE  Outcome
  <1>0. TypeOK /\ ReadOK /\ Stands(tokens, pos, stack, own)
    BY DEF Standing
  <1>1. At({"program", "modified"}) /\ Advance /\ tokens[pos] # "nl" /\ (tokens[pos] = "eof" => LastOf(stack) = "modified")
    BY <1>0, TopDeclIs
  <1>2. /\ stack # <<>> /\ stack \in Seq(StackKinds) /\ pos \in Nat /\ pos > 0
        /\ LastOf(stack) \in {"program", "modified"} /\ pos <= Len(tokens) /\ Len(tokens) \in Nat
    BY <1>0, <1>1, AtIs
  <1>3. /\ Below \in Seq(StackKinds) /\ Below # <<>>
        /\ LastOf(stack) = "program" => Below = stack
        /\ LastOf(stack) = "modified" => Below = FrontOf(stack)
    BY <1>0, <1>1, BelowIs
  <1>4. CASE tokens[pos] \in Modifiable
    <2>1. PICK base : Basis(tokens, pos, Below, base) /\ LastOf(Below) = "program"
      <3>1. CASE LastOf(stack) = "program"
        BY <1>0, <1>2, <1>3, <3>1, BasisOf
      <3>2. CASE LastOf(stack) = "modified"
        <4>1. Basis(tokens, pos, FrontOf(stack), FrontOf(own)) /\ LastOf(FrontOf(stack)) = "program"
          BY <1>0, <1>2, <1>4, <3>2, ModifiedBasis
        <4>2. QED
          BY <1>3, <3>2, <4>1
      <3>3. QED
        BY <1>2, <3>1, <3>2
    <2>2. pos' = pos + 1
      BY <1>1, <1>4, AdvanceIs DEF Modifiable, Modifiers
    <2>3. CASE tokens[pos] \in {"fn", "macro", "type"}
      <3>1. stack' = Append(Below, tokens[pos]) /\ Fine
        BY <1>0, <2>3, TopDeclIs
      <3>2. \E own2 : Stands(tokens, pos + 1, Append(Below, tokens[pos]), own2)
        BY <1>2, <1>3, <2>1, <2>3, DeclGoes
      <3>3. stack' # <<>>
        BY <3>1, <3>2 DEF Stands, Frames
      <3>4. QED
        BY <2>2, <3>1, <3>2, <3>3 DEF Outcome
    <2>4. CASE tokens[pos] \in Modifiers
      <3>1. stack' = Append(Below, "modified") /\ Fine
        BY <1>0, <2>4, TopDeclIs
      <3>2. Sits(LastOf(Below), "modified")
        BY <2>1 DEF Sits, StackKinds
      <3>3. \E own2 : Stands(tokens, pos + 1, Append(Below, "modified"), own2)
        BY <1>2, <1>3, <2>1, <2>4, <3>2, ModifierGoes
      <3>4. stack' # <<>>
        BY <3>1, <3>3 DEF Stands, Frames
      <3>5. QED
        BY <2>2, <3>1, <3>3, <3>4 DEF Outcome
    <2>5. CASE tokens[pos] \in {"const", "use"}
      <3>1. stack' = Below /\ Fine
        BY <1>0, <2>5, TopDeclIs
      <3>2. \E own2 : Stands(tokens, pos + 1, Below, own2)
        BY <1>2, <1>3, <2>1, <2>5, ConstGoes
      <3>3. QED
        BY <1>3, <2>2, <3>1, <3>2 DEF Outcome
    <2>6. QED
      BY <1>4, <2>3, <2>4, <2>5 DEF Modifiable, Modifiers
  <1>5. CASE tokens[pos] \notin Modifiable
    <2>1. ReportError
      BY <1>0, <1>5, TopDeclIs
    <2>2. CASE LastOf(stack) = "program"
      <3>1. tokens[pos] \notin {"nl", "eof"} \cup Modifiable
        BY <1>1, <1>5, <2>2
      <3>2. Wrong(tokens)
        BY <1>0, <1>2, <2>2, <3>1, TopDeclWrong
      <3>3. QED
        BY <2>1, <3>2, ReportIs DEF Outcome
    <2>3. CASE LastOf(stack) = "modified"
      <3>1. tokens[pos] \notin {"nl"} \cup Modifiable
        BY <1>1, <1>5
      <3>2. Wrong(tokens)
        BY <1>0, <1>2, <2>3, <3>1, ModifiedWrong
      <3>3. QED
        BY <2>1, <3>2, ReportIs DEF Outcome
    <2>4. QED
      BY <1>2, <2>2, <2>3
  <1>6. QED
    BY <1>4, <1>5

-----------------------------------------------------------------------------
(* The end of the file.                                                    *)
LEMMA EndOfFileIs ==
  ASSUME TypeOK, ReadOK, EndOfFile
  PROVE  /\ At(Closed \cup {"program"}) /\ tokens[pos] = "eof" /\ stack' = FrontOf(stack)
         /\ pos' = pos /\ file' = file /\ tokens' = tokens
         /\ LastOf(stack) = "program" => Fine
         /\ LastOf(stack) # "program" => ReportError
  <1>1. At(Closed \cup {"program"})
    BY DEF EndOfFile
  <1>2. Top = LastOf(stack) /\ Rest = FrontOf(stack)
    BY <1>1, AtIs
  <1>3. QED
    BY <1>1, <1>2 DEF EndOfFile, Token

LEMMA EndOfFileMoves ==
  ASSUME TypeOK, ReadOK, EndOfFile
  PROVE  Moves
  <1>1. /\ At(Closed \cup {"program"}) /\ (Fine \/ ReportError) /\ file' = file /\ tokens' = tokens
        /\ pos' = pos /\ stack' = FrontOf(stack) /\ tokens[pos] = "eof"
    BY EndOfFileIs
  <1>2. stack # <<>> /\ pos <= Len(tokens) /\ stack \in Seq(StackKinds) /\ Based(stack)
    BY <1>1, AtIs
  <1>3. stack' \in Seq(StackKinds) /\ Based(stack')
    BY <1>1, <1>2, StackFacts
  <1>4. /\ errorAt \subseteq errorAt' /\ errorAt' \subseteq errorAt \cup {pos}
        /\ swallowed \subseteq swallowed' /\ swallowed' \subseteq swallowed \cup {pos}
    BY <1>1, FineIs, ReportIs
  <1>5. QED
    BY <1>1, <1>2, <1>3, <1>4 DEF Moves

LEMMA EndOfFileOutcome ==
  ASSUME NEW own, Standing(own), EndOfFile
  PROVE  Outcome
  <1>0. TypeOK /\ ReadOK /\ Stands(tokens, pos, stack, own)
    BY DEF Standing
  <1>1. /\ At(Closed \cup {"program"}) /\ tokens[pos] = "eof" /\ stack' = FrontOf(stack)
        /\ LastOf(stack) = "program" => Fine
        /\ LastOf(stack) # "program" => ReportError
    BY <1>0, EndOfFileIs
  <1>2. /\ stack \in Seq(StackKinds) /\ pos \in Nat /\ pos > 0
        /\ LastOf(stack) \in Closed \cup {"program"} /\ Len(tokens) \in Nat /\ pos = Len(tokens)
    BY <1>0, <1>1, AtIs
  <1>3. CASE LastOf(stack) = "program"
    <2>1. Right(tokens) /\ FrontOf(stack) = <<>>
      BY <1>0, <1>1, <1>2, <1>3, EndRight
    <2>2. QED
      BY <1>1, <1>3, <2>1 DEF Outcome
  <1>4. CASE LastOf(stack) # "program"
    <2>1. LastOf(stack) \in Closed
      BY <1>2, <1>4
    <2>2. Wrong(tokens)
      BY <1>0, <1>1, <1>2, <2>1, EndWrong
    <2>3. QED
      BY <1>1, <1>4, <2>2, ReportIs DEF Outcome
  <1>5. QED
    BY <1>3, <1>4

-----------------------------------------------------------------------------
(* Every step together: the type of the state, and the grammar.            *)
LEMMA StepMoves ==
  ASSUME TypeOK, ReadOK, Next, ~Read
  PROVE  Moves
  <1>1. CASE SkipNewline
    BY <1>1, NewlineMoves
  <1>2. CASE Statement
    BY <1>2, StatementMoves
  <1>2v. CASE Value
    BY <1>2v, ValueMoves
  <1>3. CASE End
    BY <1>3, EndMoves
  <1>4. CASE Else \/ AfterElse \/ Catch
    BY <1>4, ElseMoves
  <1>5. CASE Case \/ CaseEnds \/ NotACase
    BY <1>5, CaseMoves
  <1>6. CASE Member
    BY <1>6, MemberMoves
  <1>7. CASE ModifiedMember
    BY <1>7, ModifiedMemberMoves
  <1>8. CASE TopDecl
    BY <1>8, TopDeclMoves
  <1>9. CASE EndOfFile
    BY <1>9, EndOfFileMoves
  <1>10. QED
    BY <1>1, <1>2, <1>2v, <1>3, <1>4, <1>5, <1>6, <1>7, <1>8, <1>9 DEF Next

LEMMA StepOutcome ==
  ASSUME NEW own, Standing(own), Next, ~Read
  PROVE  Outcome
  <1>1. CASE SkipNewline
    BY <1>1, NewlineOutcome
  <1>2. CASE Statement
    BY <1>2, StatementOutcome
  <1>2v. CASE Value
    BY <1>2v, ValueOutcome
  <1>3. CASE End
    BY <1>3, EndOutcome
  <1>4. CASE Else \/ AfterElse \/ Catch
    BY <1>4, ElseOutcome
  <1>5. CASE Case \/ CaseEnds \/ NotACase
    BY <1>5, CaseOutcome
  <1>6. CASE Member
    BY <1>6, MemberOutcome
  <1>7. CASE ModifiedMember
    BY <1>7, ModifiedMemberOutcome
  <1>8. CASE TopDecl
    BY <1>8, TopDeclOutcome
  <1>9. CASE EndOfFile
    BY <1>9, EndOfFileOutcome
  <1>10. QED
    BY <1>1, <1>2, <1>2v, <1>3, <1>4, <1>5, <1>6, <1>7, <1>8, <1>9 DEF Next

LEMMA InitTyped ==
  ASSUME Init
  PROVE  TypeOK /\ ReadOK
  <1>1. /\ file \in Files /\ tokens = <<>> /\ pos = 1 /\ stack = <<"program">>
        /\ errorAt = {} /\ swallowed = {}
    BY DEF Init
  <1>2. file.max \in Nat
    BY <1>1, FilesAssumption
  <1>3. Len(tokens) = 0 /\ tokens \in Seq(file.tokens \cup {"eof"})
    BY <1>1
  <1>4. "program" \in StackKinds
    BY DEF StackKinds
  <1>5. stack \in Seq(StackKinds) /\ stack # <<>> /\ Len(stack) = 1 /\ stack[1] = "program"
    BY <1>1, <1>4
  <1>6. pos \in 1 .. Len(tokens) + 1 /\ Len(tokens) <= file.max + 1 /\ Len(tokens) # file.max + 1
    BY <1>1, <1>2, <1>3
  <1>7. \A i \in 1 .. Len(tokens) - 1 : FALSE
    BY <1>3
  <1>8. \A n \in 2 .. Len(stack) : FALSE
    BY <1>5
  <1>9. TypeOK
    BY <1>1, <1>3, <1>5, <1>6, <1>7 DEF TypeOK
  <1>10. ReadOK
    BY <1>3, <1>5, <1>6, <1>8 DEF ReadOK, Based
  <1>11. QED
    BY <1>9, <1>10

LEMMA NextTyped ==
  ASSUME TypeOK, ReadOK, [Next]_vars
  PROVE  TypeOK' /\ ReadOK'
  <1>1. CASE Read
    BY <1>1, ReadKeeps
  <1>2. CASE Next /\ ~Read
    BY <1>2, StepMoves, StepKeeps DEF Moves
  <1>3. CASE UNCHANGED vars
    BY <1>3 DEF TypeOK, ReadOK, vars
  <1>4. QED
    BY <1>1, <1>2, <1>3

(* Every variable keeps its type and the parser never looks past the end   *)
(* of the file: peek and advance stay on its last token.                   *)
THEOREM ParserTypeCorrect == Spec => []TypeOK
  <1>1. Init => TypeOK /\ ReadOK
    BY InitTyped
  <1>2. TypeOK /\ ReadOK /\ [Next]_vars => TypeOK' /\ ReadOK'
    BY NextTyped
  <1>3. QED
    BY <1>1, <1>2, PTL DEF Spec

-----------------------------------------------------------------------------
(* The invariant: what is known of the tokens read, while nothing was      *)
(* rejected, when parseProgram has returned, and after a rejection.  While *)
(* nothing was swallowed no return or throw has taken a value, and the     *)
(* function that looks at what follows one is the block it stands in.      *)
AfterValue == pos > 1 /\ tokens[pos - 1] \in {"return", "throw"}
Valueless ==
  /\ ~Valued(tokens, pos - 1)
  /\ AfterValue /\ stack # <<>> => LastOf(stack) \in BlockKinds \/ (pos <= Len(tokens) /\ ~ValueIn(tokens, pos))
Follows ==
  /\ Accepted => Valueless
  /\ Accepted /\ stack # <<>> => \E own : Stands(tokens, pos, stack, own)
  /\ Accepted /\ stack = <<>> => Right(tokens)
  /\ ~Accepted => Wrong(tokens)

(* At the start only parseProgram is open.                                 *)
LEMMA StandsFirst ==
  ASSUME NEW t
  PROVE  Stands(t, 1, <<"program">>, <<0>>)
  <1> DEFINE s == <<"program">>
             own == <<0>>
  <1>1. /\ s # <<>> /\ Len(s) = 1 /\ s[1] = "program" /\ LastOf(s) = "program"
        /\ own \in Seq(Nat) /\ Len(own) = 1 /\ own[1] = 0 /\ LastOf(own) = 0
    BY DEF LastOf
  <1> HIDE DEF s, own
  <1>2. \A n \in 2 .. Len(s) : FALSE
    BY <1>1
  <1>3. \A n \in 1 .. Len(s) : n = 1
    BY <1>1
  <1>4. \A j \in 1 .. 1 - 1 : FALSE
    OBVIOUS
  <1>5. \A m, n \in 1 .. Len(s) : ~(m < n)
    BY <1>3
  <1>6. Frames(t, 1, s, own)
    <2>1. \A n \in 1 .. Len(s) : own[n] < 1 /\ Worded(t, s[n], own[n])
      BY <1>1, <1>3 DEF Worded
    <2>2. Lev(t, 1 - 1) = Lev(t, own[Len(s)])
      BY <1>1
    <2>3. QED
      BY <1>1, <1>2, <1>4, <1>5, <2>1, <2>2 DEF Frames
  <1>7. \A n \in 1 .. Len(s) : Says(t, 1, s[n], own[n])
    BY <1>1, <1>3, SaysNothing
  <1>8. SaysTop(t, 1, LastOf(s), LastOf(own))
    BY <1>1, <1>4 DEF SaysTop
  <1>9. PlacedTo(t, 1, LastOf(s))
    BY <1>4 DEF PlacedTo
  <1>10. Stands(t, 1, s, own)
    BY <1>6, <1>7, <1>8, <1>9 DEF Stands
  <1>11. QED
    BY <1>10 DEF s, own

LEMMA InitFollows ==
  ASSUME Init
  PROVE  Follows
  <1>1. pos = 1 /\ stack = <<"program">> /\ errorAt = {} /\ swallowed = {}
    BY DEF Init
  <1>2. Accepted /\ stack # <<>>
    BY <1>1 DEF Accepted
  <1>3. Stands(tokens, pos, stack, <<0>>)
    BY <1>1, StandsFirst
  <1>4. Valueless
    BY <1>1 DEF Valueless, AfterValue, Valued
  <1>5. QED
    BY <1>2, <1>3, <1>4 DEF Follows

(* What is read next is no part of what the invariant says of values.      *)
LEMMA ReadValueless ==
  ASSUME TypeOK, ReadOK, Valueless, Read
  PROVE  Valueless'
  <1>1. /\ Grows(tokens, tokens') /\ pos = Len(tokens) + 1 /\ Len(tokens) \in Nat
        /\ \A k \in 1 .. Len(tokens) : tokens[k] = tokens'[k]
    BY ReadKeeps DEF Grows, Alike
  <1>2. stack # <<>> /\ stack' = stack /\ pos' = pos
    BY DEF Read
  <1>3. pos - 1 = Len(tokens) /\ ~(pos <= Len(tokens)) /\ (pos > 1 => pos - 1 \in 1 .. Len(tokens))
    BY <1>1
  <1>4. ~Valued(tokens', pos - 1)
    BY <1>1, <1>3, ValuedGrows DEF Valueless
  <1>5. AfterValue' <=> AfterValue
    BY <1>1, <1>2, <1>3 DEF AfterValue
  <1>6. AfterValue => LastOf(stack) \in BlockKinds
    BY <1>2, <1>3 DEF Valueless
  <1>7. QED
    BY <1>2, <1>4, <1>5, <1>6 DEF Valueless

(* No step but a Value takes a value, and one over a return or a throw     *)
(* stays in the block.                                                     *)
Onward ==
  /\ ~IsValue
  /\ \/ pos' = pos + 1 /\ (tokens[pos] \in {"return", "throw"} => LastOf(stack') \in BlockKinds)
     \/ pos' = pos /\ (LastOf(stack') \in BlockKinds \/ LastOf(stack) \in BlockKinds \/ tokens[pos] = "eof")

LEMMA StepOnward ==
  ASSUME TypeOK, ReadOK, Next, ~Read, Accepted, Accepted'
  PROVE  Onward
  <1>1. ~ReportError /\ ~Swallow
    BY ReportIs, SwallowIs DEF Accepted
  <1>2. CASE SkipNewline
    <2>1. At({Top} \ {"modifiedMember"}) /\ Advance /\ tokens[pos] = "nl"
      BY <1>2 DEF SkipNewline, Token
    <2>2. QED
      BY <2>1, AdvanceIs DEF Onward, At
  <1>3. CASE Statement
    <2>1. /\ At(BlockKinds) /\ Advance /\ tokens[pos] # "eof" /\ (tokens[pos] \notin Openers => stack' = stack)
      BY <1>3 DEF Statement, Token
    <2>2. LastOf(stack) \in BlockKinds
      BY <2>1, AtIs
    <2>3. QED
      BY <2>1, <2>2, AdvanceIs DEF Onward, At, Openers
  <1>4. CASE Value
    BY <1>1, <1>4 DEF Value
  <1>5. CASE End
    <2>1. At(Closed) /\ Advance /\ tokens[pos] = "end"
      BY <1>5 DEF End, Token
    <2>2. QED
      BY <2>1, AdvanceIs DEF Onward, At
  <1>6. CASE Else
    <2>1. At({"then"}) /\ Advance /\ tokens[pos] = "else"
      BY <1>6 DEF Else, Token
    <2>2. QED
      BY <2>1, AdvanceIs DEF Onward, At
  <1>7. CASE AfterElse
    <2>1. /\ At({"afterElse"})
          /\ \/ tokens[pos] = "if" /\ Advance
             \/ pos' = pos /\ stack' = Replace("else")
      BY <1>7 DEF AfterElse, Token
    <2>2. ASSUME pos' = pos, stack' = Replace("else") PROVE LastOf(stack') \in BlockKinds
      <3>1. /\ Append(FrontOf(stack), "else") \in Seq(StackKinds)
            /\ LastOf(Append(FrontOf(stack), "else")) = "else"
        <4>1. stack \in Seq(StackKinds) /\ stack # <<>> /\ "else" \in StackKinds
          BY <2>1, AtIs DEF StackKinds, BlockKinds
        <4> DEFINE f == FrontOf(stack)
                   a == Append(f, "else")
        <4>2. f \in Seq(StackKinds)
          BY <4>1, FrontIs
        <4> HIDE DEF f
        <4>3. a \in Seq(StackKinds) /\ Len(a) = Len(f) + 1 /\ a[Len(f) + 1] = "else"
          BY <4>1, <4>2, AppendIs
        <4>4. LastOf(a) = "else"
          BY <4>3, Zenon DEF LastOf
        <4>5. QED
          BY <4>3, <4>4 DEF f
      <3>2. Rest = FrontOf(stack)
        BY <2>1, AtIs
      <3>3. QED
        BY <2>2, <3>1, <3>2 DEF Replace, BlockKinds
    <2>3. QED
      BY <2>1, <2>2, AdvanceIs DEF Onward, At
  <1>8. CASE Catch
    <2>1. At({"try"}) /\ Advance /\ tokens[pos] = "catch"
      BY <1>8 DEF Catch, Token
    <2>2. QED
      BY <2>1, AdvanceIs DEF Onward, At
  <1>9. CASE Case
    <2>1. At({"match"}) /\ Advance /\ tokens[pos] = "case"
      BY <1>9 DEF Case, Token
    <2>2. QED
      BY <2>1, AdvanceIs DEF Onward, At
  <1>10. CASE CaseEnds
    <2>1. At({"case"}) /\ pos' = pos
      BY <1>10 DEF CaseEnds
    <2>2. LastOf(stack) \in BlockKinds
      BY <2>1, AtIs DEF BlockKinds
    <2>3. QED
      BY <2>1, <2>2 DEF Onward, At
  <1>11. CASE NotACase
    BY <1>1, <1>11 DEF NotACase
  <1>12. CASE Member
    <2>1. At({"type"}) /\ Advance /\ tokens[pos] \in {"fn", "let", "public"}
      BY <1>1, <1>12, MemberIs
    <2>2. QED
      BY <2>1, AdvanceIs DEF Onward, At
  <1>13. CASE ModifiedMember
    <2>1. At({"modifiedMember"}) /\ Advance /\ tokens[pos] = "let"
      BY <1>1, <1>13 DEF ModifiedMember, Token
    <2>2. QED
      BY <2>1, AdvanceIs DEF Onward, At
  <1>14. CASE TopDecl
    <2>1. At({"program", "modified"}) /\ Advance /\ tokens[pos] \in Modifiable
      BY <1>1, <1>14, TopDeclIs
    <2>2. QED
      BY <2>1, AdvanceIs DEF Onward, At, Modifiable, Modifiers
  <1>15. CASE EndOfFile
    <2>1. At(Closed \cup {"program"}) /\ tokens[pos] = "eof" /\ pos' = pos
      BY <1>15, EndOfFileIs
    <2>2. QED
      BY <2>1 DEF Onward, At
  <1>16. QED
    BY <1>2, <1>3, <1>4, <1>5, <1>6, <1>7, <1>8, <1>9, <1>10, <1>11, <1>12, <1>13, <1>14, <1>15 DEF Next

LEMMA ValuedNext ==
  ASSUME NEW t, NEW p \in Nat, p > 0, ~Valued(t, p - 1), ~ValueIn(t, p)
  PROVE  ~Valued(t, p)
  <1>1. \A i \in 1 .. p : i \in 1 .. p - 1 \/ i = p
    OBVIOUS
  <1>2. QED
    BY <1>1, Zenon DEF Valued

LEMMA StepValueless ==
  ASSUME TypeOK, ReadOK, Next, ~Read, Accepted, Accepted', Valueless, Moves
  PROVE  Valueless'
  <1>1. Onward
    BY StepOnward
  <1>2. /\ stack # <<>> /\ tokens' = tokens /\ pos <= Len(tokens) /\ pos \in Nat /\ pos > 0
        /\ Top = LastOf(stack) /\ swallowed = {}
    BY StateFacts DEF Moves, Accepted
  <1>3. ~ValueIn(tokens, pos)
    <2>1. CASE LastOf(stack) \in BlockKinds
      BY <1>1, <1>2, <2>1 DEF Onward, IsValue, ValueIn, Token
    <2>2. CASE LastOf(stack) \notin BlockKinds
      BY <1>2, <2>2 DEF Valueless, AfterValue, ValueIn
    <2>3. QED
      BY <2>1, <2>2
  <1>4. CASE pos' = pos + 1 /\ (tokens[pos] \in {"return", "throw"} => LastOf(stack') \in BlockKinds)
    <2>1. pos' - 1 = pos
      BY <1>2, <1>4
    <2>2. ~Valued(tokens, pos)
      BY <1>2, <1>3, ValuedNext DEF Valueless
    <2>3. AfterValue' => LastOf(stack') \in BlockKinds
      BY <1>2, <1>4, <2>1 DEF AfterValue
    <2>4. QED
      BY <1>2, <2>1, <2>2, <2>3 DEF Valueless
  <1>5. CASE pos' = pos
    BY <1>2, <1>3, <1>5 DEF Valueless
  <1>6. QED
    BY <1>1, <1>4, <1>5 DEF Onward

LEMMA ReadFollows ==
  ASSUME TypeOK, ReadOK, Follows, Read
  PROVE  Follows'
  <1>1. Grows(tokens, tokens') /\ pos = Len(tokens) + 1 /\ (Len(tokens) > 0 => tokens[Len(tokens)] # "eof")
    BY ReadKeeps
  <1>2. stack # <<>> /\ stack' = stack /\ pos' = pos /\ (Accepted' <=> Accepted)
    BY DEF Read, Accepted
  <1>3. stack \in Seq(StackKinds)
    BY StateFacts
  <1>4. CASE Accepted
    <2>1. PICK own : Stands(tokens, pos, stack, own)
      BY <1>2, <1>4 DEF Follows
    <2>2. Stands(tokens', pos, stack, own)
      BY <1>1, <1>3, <2>1, ReadGoes
    <2>3. Valueless'
      BY <1>4, ReadValueless DEF Follows
    <2>4. QED
      BY <1>2, <1>4, <2>2, <2>3 DEF Follows
  <1>5. CASE ~Accepted
    <2>1. Wrong(tokens')
      BY <1>1, <1>5, WrongGrows DEF Follows
    <2>2. QED
      BY <1>2, <1>5, <2>1 DEF Follows
  <1>6. QED
    BY <1>4, <1>5

LEMMA StepFollows ==
  ASSUME TypeOK, ReadOK, Follows, Next, ~Read
  PROVE  Follows'
  <1>1. Moves
    BY StepMoves
  <1>2. stack # <<>> /\ tokens' = tokens /\ errorAt \subseteq errorAt' /\ swallowed \subseteq swallowed'
    BY <1>1 DEF Moves
  <1>3. CASE Accepted
    <2>1. PICK own : Stands(tokens, pos, stack, own)
      BY <1>2, <1>3 DEF Follows
    <2>2. Outcome
      BY <1>2, <2>1, StepOutcome DEF Standing
    <2>3. CASE Fine /\ stack' # <<>> /\ \E o : Stands(tokens, pos', stack', o)
      <3>1. Accepted'
        BY <1>3, <2>3 DEF Accepted, Fine
      <3>2. QED
        BY <1>1, <1>2, <1>3, <2>3, <3>1, StepValueless DEF Follows
    <2>4. CASE Fine /\ stack' = <<>> /\ Right(tokens)
      <3>1. Accepted'
        BY <1>3, <2>4 DEF Accepted, Fine
      <3>2. QED
        BY <1>1, <1>2, <1>3, <2>4, <3>1, StepValueless DEF Follows
    <2>5. CASE Wrong(tokens) /\ (pos \in errorAt' \/ pos \in swallowed')
      <3>1. ~Accepted'
        BY <2>5 DEF Accepted
      <3>2. QED
        BY <1>2, <2>5, <3>1 DEF Follows
    <2>6. QED
      BY <2>2, <2>3, <2>4, <2>5 DEF Outcome
  <1>4. CASE ~Accepted
    <2>1. ~Accepted'
      BY <1>2, <1>4 DEF Accepted
    <2>2. Wrong(tokens')
      BY <1>2, <1>4 DEF Follows
    <2>3. QED
      BY <2>1, <2>2 DEF Follows
  <1>5. QED
    BY <1>3, <1>4

LEMMA NextFollows ==
  ASSUME TypeOK, ReadOK, Follows, [Next]_vars
  PROVE  Follows'
  <1>1. CASE Read
    BY <1>1, ReadFollows
  <1>2. CASE Next /\ ~Read
    BY <1>2, StepFollows
  <1>3. CASE UNCHANGED vars
    BY <1>3 DEF Follows, Accepted, Valueless, AfterValue, vars
  <1>4. QED
    BY <1>1, <1>2, <1>3

(* When parseProgram has returned, the invariant is the property.          *)
LEMMA FollowsAccepts ==
  ASSUME TypeOK, ReadOK, Follows
  PROVE  AcceptsGrammar
  <1>1. SUFFICES ASSUME stack = <<>> PROVE Accepted <=> WellFormed(Quirks)
    BY DEF AcceptsGrammar, Done
  <1>2. /\ Len(tokens) \in Nat /\ DOMAIN tokens = 1 .. Len(tokens) /\ pos \in Nat /\ pos > 0
        /\ pos = Len(tokens) /\ tokens[pos] = "eof"
    BY <1>1, StateFacts DEF ReadOK
  <1>3. \A i \in 1 .. Len(tokens) - 1 : tokens[i] # "eof"
    BY DEF TypeOK
  <1>4. Ended
    BY <1>2, <1>3 DEF Ended
  <1>5. CASE Accepted
    <2>1. Right(tokens)
      BY <1>1, <1>5 DEF Follows
    <2>2. ~ValueIn(tokens, pos)
      BY <1>2 DEF ValueIn, NoValue
    <2>3. ~Valued(tokens, Len(tokens))
      BY <1>2, <1>5, <2>2, ValuedNext DEF Follows, Valueless
    <2>4. QED
      BY <1>4, <1>5, <2>1, <2>3, RightWell
  <1>6. CASE ~Accepted
    <2>1. Wrong(tokens)
      BY <1>6 DEF Follows
    <2>2. QED
      BY <1>4, <1>6, <2>1, WrongIll
  <1>7. QED
    BY <1>5, <1>6

(* The parse functions accept exactly the grammar: a file whose words all  *)
(* have their place and whose constructs all end is parsed without an      *)
(* error, any other one gets an error or has a keyword taken for a name.   *)
THEOREM GrammarAlwaysAccepted == Spec => []AcceptsGrammar
  <1>1. Init => TypeOK /\ ReadOK /\ Follows
    BY InitTyped, InitFollows
  <1>2. TypeOK /\ ReadOK /\ Follows /\ [Next]_vars => TypeOK' /\ ReadOK' /\ Follows'
    BY NextTyped, NextFollows
  <1>3. TypeOK /\ ReadOK /\ Follows => AcceptsGrammar
    BY FollowsAccepts
  <1>4. QED
    BY <1>1, <1>2, <1>3, PTL DEF Spec
=============================================================================
