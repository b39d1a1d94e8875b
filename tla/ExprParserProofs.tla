--------------------------- MODULE ExprParserProofs ---------------------------
(***************************************************************************)
(* Theorems about ExprParser: for every kind of input, however long and    *)
(* however deeply nested, the expressions are accepted and nothing else,   *)
(* and the tree of each is the one its precedences ask for.                *)
(*                                                                         *)
(* The invariant gives each open call the token its expression begins at   *)
(* (own) and says what the tokens from there on, at the level of that      *)
(* token, can be: a call stands for an operand that goes on (Frame), the   *)
(* calls above it for what is inside of it or binds tighter (Sits, Pair),  *)
(* and the innermost for what was just done (Top1).  Every token passed    *)
(* has its place (AllPlaced), every await that has not ended is waited for *)
(* (Waits), and the nodes made so far reach as far as they will ever reach *)
(* (TreeSays).  When something was reported, the first token reported has  *)
(* no place (Wrong).  All of it is said of the Text, in which a keyword    *)
(* behind a dot is the name it stands for.                                 *)
(***************************************************************************)
EXTENDS ExprParser, Integers, FiniteSetTheorems, WellFoundedInduction, TLAPS

-----------------------------------------------------------------------------
(* The grammar of ExprParser over the tokens of a text t.                  *)
Opening(t, i) == t[i] \in {"(", "["}
Closing(t, i) == t[i] \in {")", "]"}
Behind(t, i)  == i > 1 /\ t[i - 1] \in {"id", ")", "]"}
Binary(t, i)  == t[i] \in Operators /\ Behind(t, i)
Prefixed(t, i) == t[i] \in Unary /\ ~Binary(t, i)
Postfixed(t, i) == t[i] \in {".", "(", "["} /\ Behind(t, i)
Awaited(t, i) == t[i] = "await"
Comma(t, i)   == t[i] = ","
Prio(t, i)    == Prec(t[i])

(* How many brackets token i is inside, a closing one counting as inside.  *)
Lev(t, i) == Cardinality({j \in 1 .. i - 1 : Opening(t, j)}) - Cardinality({j \in 1 .. i - 1 : Closing(t, j)})
Holds(t, o, i) ==
  /\ o \in 0 .. i - 1
  /\ o # 0 => Opening(t, o) /\ Lev(t, i) = Lev(t, o) + 1
  /\ \A j \in o + 1 .. i - 1 : Opening(t, j) => Lev(t, i) # Lev(t, j) + 1

(* Fits of ExprParser, with the bracket o around token i given.            *)
Has(t, i, w) == i > 0 /\ t[i] = w
IsType(t, i) == t[i] = "ref" /\ i < Len(t) /\ t[i + 1] = "<"
Place(t, i, o) ==
  \/ t[i] = "id" /\ ~Behind(t, i)
  \/ t[i] \in Unary \cup {"await", "("} /\ ~Behind(t, i) /\ ~Has(t, i - 1, ".") /\ ~IsType(t, i)
  \/ Binary(t, i) \/ Postfixed(t, i)
  \/ t[i] = ")" /\ o # 0 /\ t[o] = "(" /\ (Behind(t, i) \/ (Postfixed(t, o) /\ (o = i - 1 \/ Has(t, i - 1, ","))))
  \/ t[i] = "]" /\ o # 0 /\ t[o] = "[" /\ Behind(t, i)
  \/ t[i] = "," /\ o # 0 /\ t[o] = "(" /\ Postfixed(t, o) /\ Behind(t, i)

(* What ends the operand of i on the right, and what bounds it on the left. *)
Cap(t, i) == IF Binary(t, i) THEN Prio(t, i) ELSE IF Awaited(t, i) THEN 0 ELSE 7
Through(t, i, k) == \A m \in i + 1 .. k - 1 : Lev(t, m) = Lev(t, i) => ~Awaited(t, m)
Stop(t, i, k) ==
  /\ Lev(t, k) = Lev(t, i)
  /\ \/ Comma(t, k) \/ Closing(t, k)
     \/ Binary(t, k) /\ Prio(t, k) <= Cap(t, i) /\ Through(t, i, k)
Edge(t, k, i) ==
  \/ Opening(t, k) /\ Lev(t, i) = Lev(t, k) + 1
  \/ /\ Lev(t, k) = Lev(t, i)
     /\ \/ Comma(t, k) \/ Awaited(t, k)
        \/ Binary(t, k) /\ (Binary(t, i) => Prio(t, k) < Prio(t, i))
        \/ Prefixed(t, k) /\ ~Binary(t, i)
Reach(t, p, i, h) ==
  /\ h \in i .. p - 1
  /\ \A k \in i + 1 .. h : ~Stop(t, i, k)
  /\ h + 1 < p => Stop(t, i, h + 1)
Starts(t, i, l) ==
  /\ l \in 1 .. i
  /\ l > 1 => Edge(t, l - 1, i)
  /\ \A k \in l .. i - 1 : ~Edge(t, k, i)
Above(t, b, p) == \A k \in b .. p : Lev(t, k) >= Lev(t, b)

(* The nodes.                                                              *)
Nodal(t, i) == Binary(t, i) \/ Prefixed(t, i) \/ Awaited(t, i) \/ Postfixed(t, i)
Good(t, p, nd) ==
  /\ nd = Node(nd.at, nd.lo, nd.hi)
  /\ nd.at \in 1 .. p - 1 /\ nd.hi \in nd.at .. p - 1 /\ Nodal(t, nd.at)
  /\ IF Binary(t, nd.at) \/ Postfixed(t, nd.at) THEN Starts(t, nd.at, nd.lo) ELSE nd.lo = nd.at
  /\ IF Postfixed(t, nd.at)
     THEN IF t[nd.at] = "." THEN nd.hi = nd.at + 1
          ELSE /\ Lev(t, nd.hi + 1) = Lev(t, nd.at) /\ nd.hi > nd.at
               /\ \A k \in nd.at + 1 .. nd.hi : Lev(t, k) > Lev(t, nd.at)
     ELSE Reach(t, p, nd.at, nd.hi)
Asked(s, i) == \E n \in 1 .. Len(s) : s[n].kind # "group" /\ s[n].at = i

Leads == {".", "(", "["}
Late(t, p, i) ==
  /\ p <= Len(t) /\ Lev(t, p) = Lev(t, i) /\ t[p] \notin Leads
  /\ t[p] \in Operators => Prio(t, p) <= Cap(t, i) /\ Through(t, i, p)
After1 == {"postfix", "back"}
TreeSays(t, p, s, d, tr) ==
  /\ \A nd \in tr : /\ Good(t, p, nd)
                    /\ nd.hi = p - 1 /\ ~Postfixed(t, nd.at) => d \in After1 /\ Late(t, p, nd.at)
  /\ \A i \in 1 .. p - 1 : Nodal(t, i) => Asked(s, i) \/ \E nd \in tr : nd.at = i

(* Frames.                                                                 *)
Bracket == {"group", "args", "index"}
Begins(t, b, min) ==
  b > 1 => \/ Opening(t, b - 1)
           \/ /\ Lev(t, b - 1) = Lev(t, b)
              /\ \/ Comma(t, b - 1) \/ Awaited(t, b - 1)
                 \/ Binary(t, b - 1) /\ Prio(t, b - 1) < min
Within(t, i, p) == \A k \in i + 1 .. p - 1 : ~Stop(t, i, k)
Frame(t, p, f, b) ==
  /\ b \in 1 .. p /\ Above(t, b, p)
  /\ f.kind = "expr" => Begins(t, b, f.min)
  /\ f.kind = "expr" /\ f.at = 0 =>
       \A k \in b .. p - 1 : Lev(t, k) = Lev(t, b) =>
          ~Comma(t, k) /\ (Binary(t, k) => \E m \in b .. k - 1 : Lev(t, m) = Lev(t, b) /\ Awaited(t, m))
  /\ f.kind = "expr" /\ f.at # 0 =>
       /\ f.lo = b /\ f.at \in 1 .. p - 1 /\ Binary(t, f.at) /\ Lev(t, f.at) = Lev(t, b)
       /\ Starts(t, f.at, b) /\ Prio(t, f.at) >= f.min /\ Within(t, f.at, p)
  /\ f.kind = "prefix" => f.at = b /\ b < p /\ Prefixed(t, b) /\ Within(t, b, p)
  /\ f.kind = "await" => f.at = b /\ b < p /\ Awaited(t, b) /\ Within(t, b, p)
  /\ f.kind \in Bracket =>
       /\ f.lo = b /\ f.at \in b .. p - 1
       /\ t[f.at] = (IF f.kind = "index" THEN "[" ELSE "(")
       /\ \A k \in f.at + 1 .. p : Lev(t, k) > Lev(t, f.at)
       /\ Lev(t, f.at) = Lev(t, b)
  /\ f.kind = "group" => f.at = b /\ ~Behind(t, b)
  /\ f.kind \in {"args", "index"} => Behind(t, f.at) /\ Starts(t, f.at, b)
Floor(t, f, b) == IF f.kind \in Bracket THEN Lev(t, b) + 1 ELSE Lev(t, b)
Sits(t, f, bf, g, bg) ==
  IF g.kind = "expr"
  THEN \/ f.kind = "expr" /\ f.at # 0 /\ g.min = Prio(t, f.at) + 1
       \/ f.kind \in Bracket \cup {"await"} /\ g.min = 0
  ELSE \/ f.kind = "expr" /\ f.at = 0 /\ bf = bg
       \/ f.kind = "prefix" /\ bg = bf + 1
Pair(t, f, bf, g, bg) ==
  /\ bf <= bg /\ f.at < bg
  /\ g.kind = "expr" /\ f.kind = "expr" /\ f.at = 0 =>
       \/ Lev(t, bf) < Lev(t, bg)
       \/ \E m \in bf .. bg - 1 : Lev(t, m) = Lev(t, bf) /\ Awaited(t, m)
  /\ g.kind = "expr" /\ f.at # 0 /\ f.kind \notin Bracket =>
       \/ Lev(t, f.at) < Lev(t, bg)
       \/ ~Through(t, f.at, bg)
       \/ f.kind = "await"
       \/ f.kind = "expr" /\ Prio(t, f.at) < g.min
Frames(t, p, s, own) ==
  /\ s # <<>> /\ Len(own) = Len(s)
  /\ s[1].kind = "expr" /\ s[1].min = 0 /\ own[1] = 1
  /\ \A n \in 1 .. Len(s) : Frame(t, p, s[n], own[n])
  /\ \A n \in 2 .. Len(s) : /\ Sits(t, s[n - 1], own[n - 1], s[n], own[n])
                            /\ Lev(t, own[n]) = Floor(t, s[n - 1], own[n - 1])
  /\ \A n \in 1 .. Len(s) : \A m \in n + 1 .. Len(s) : Pair(t, s[n], own[n], s[m], own[m])
  /\ Lev(t, p) = Floor(t, s[Len(s)], own[Len(s)])

(* The top.                                                                *)
Starter(t, p) == p > 1 => t[p - 1] \in Operators \cup Unary \cup {"await", "(", "[", ","}
Pure(t, l, p) ==
  /\ l \in 1 .. p - 1
  /\ \A k \in l .. p - 1 : Lev(t, k) >= Lev(t, p)
       /\ (Lev(t, k) = Lev(t, p) => ~Binary(t, k) /\ ~Prefixed(t, k) /\ ~Comma(t, k) /\ ~Awaited(t, k))
  /\ l > 1 => \/ Opening(t, l - 1) /\ Lev(t, p) = Lev(t, l - 1) + 1
              \/ /\ Lev(t, l - 1) = Lev(t, p)
                 /\ Binary(t, l - 1) \/ Prefixed(t, l - 1) \/ Comma(t, l - 1) \/ Awaited(t, l - 1)
Top1(t, p, f, b, d, v) ==
  /\ d \in {"operand", "postfix"} => f.kind = "prefix" \/ (f.kind = "expr" /\ f.at = 0)
  /\ d = "args" => f.kind = "args"
  /\ d = "operand" => /\ ~Behind(t, p) /\ Starter(t, p)
                      /\ b = IF f.kind = "expr" THEN p ELSE p - 1
                      /\ Has(t, p - 1, ",") \/ (Has(t, p - 1, "(") /\ Postfixed(t, p - 1)) => p <= Len(t) /\ t[p] \notin {")", "eof"}
  /\ d = "args" => \/ Has(t, p - 1, "(") /\ f.at = p - 1
                   \/ Has(t, p - 1, ",") /\ Lev(t, p - 1) = Lev(t, p)
  /\ d \in After1 => /\ Behind(t, p) /\ v.hi = p - 1
                     /\ f.kind = "expr" /\ f.at = 0 => v.lo = b
                     /\ f.kind = "prefix" /\ d = "postfix" => v.lo = b + 1
  /\ d = "postfix" => Pure(t, v.lo, p) \/ (p <= Len(t) /\ t[p] \notin Leads)
  /\ d = "back" => /\ p <= Len(t) /\ t[p] \notin Leads
                   /\ f.kind = "expr" /\ f.at # 0 /\ t[p] \in Operators => Prio(t, p) <= Prio(t, f.at)
                   /\ f.kind \notin {"expr", "prefix"} => t[p] \notin Operators
Waits(t, p, s, d) ==
  \A m \in 1 .. p - 1 :
    Awaited(t, m) /\ Above(t, m, p) /\ (\A k \in m + 1 .. p - 1 : Lev(t, k) = Lev(t, m) => ~Comma(t, k)) =>
      \/ \E n \in 1 .. Len(s) : s[n].kind = "await" /\ s[n].at = m
      \/ Lev(t, m) = Lev(t, p) /\ d \in After1 /\ p <= Len(t) /\ t[p] \notin Operators \cup Leads
AllPlaced(t, p) ==
  \A i \in 1 .. p - 1 : /\ t[i] = "ref" => i < Len(t)
                        /\ \E o \in 0 .. i - 1 : Holds(t, o, i) /\ Place(t, i, o)
Stands(t, p, s, own, d, v, tr) ==
  /\ Frames(t, p, s, own)
  /\ Top1(t, p, s[Len(s)], own[Len(s)], d, v)
  /\ Waits(t, p, s, d)
  /\ AllPlaced(t, p)
  /\ TreeSays(t, p, s, d, tr)
Right(t, p, tr) ==
  /\ p \in 2 .. Len(t) /\ Behind(t, p) /\ Lev(t, p) = 0 /\ AllPlaced(t, p)
  /\ t[p] = "eof" \/ \E o \in 0 .. p - 1 : Holds(t, o, p) /\ ~Place(t, p, o)
  /\ \A nd \in tr : Good(t, p, nd)
  /\ \A i \in 1 .. p - 1 : Nodal(t, i) => \E nd \in tr : nd.at = i
Misfit(t, i) ==
  IF t[i] = "eof" THEN ~Behind(t, i) \/ Lev(t, i) # 0
  ELSE /\ \E o \in 0 .. i - 1 : Holds(t, o, i) /\ ~Place(t, i, o)
       /\ t[i] = "ref" => i < Len(t) \/ Has(t, i - 1, ".")
Wrong(t, p, E) ==
  \E i \in 1 .. Len(t) : i \in E /\ i <= p /\ (\A e \in E : i <= e) /\ Misfit(t, i)

LEMMA CountStep ==
  ASSUME NEW S, NEW i \in Nat, S \subseteq Nat
  PROVE  /\ Cardinality({j \in 1 .. i : j \in S}) \in Nat
         /\ Cardinality({j \in 1 .. i + 1 : j \in S})
              = Cardinality({j \in 1 .. i : j \in S}) + (IF i + 1 \in S THEN 1 ELSE 0)
         /\ Cardinality({j \in 1 .. 0 : j \in S}) = 0
  <1> DEFINE C == {j \in 1 .. i : j \in S}
  <1> DEFINE D == {j \in 1 .. i + 1 : j \in S}
  <1>1. IsFiniteSet(1 .. i)
    BY FS_Interval
  <1>2. IsFiniteSet(C)
    BY <1>1, FS_Subset, Zenon
  <1>3. Cardinality(C) \in Nat
    BY <1>2, FS_CardinalityType
  <1>4. {j \in 1 .. 0 : j \in S} = {}
    OBVIOUS
  <1>5. Cardinality({j \in 1 .. 0 : j \in S}) = 0
    BY <1>4, FS_EmptySet, Zenon
  <1>6. CASE i + 1 \in S
    <2>1. D = C \cup {i + 1} /\ i + 1 \notin C
      BY <1>6
    <2>2. Cardinality(C \cup {i + 1}) = Cardinality(C) + 1
      BY <1>2, <2>1, FS_AddElement, Zenon
    <2>3. QED
      BY <1>3, <1>5, <1>6, <2>1, <2>2
  <1>7. CASE i + 1 \notin S
    <2>1. D = C
      BY <1>7
    <2>2. QED
      BY <1>3, <1>5, <1>7, <2>1
  <1>8. QED
    BY <1>6, <1>7

(* The level goes up behind an opening bracket and down behind a closing one. *)
LEMMA LevStep ==
  ASSUME NEW t, NEW i \in Nat
  PROVE  /\ Lev(t, 1) = 0 /\ Lev(t, i + 1) \in Int
         /\ Lev(t, i + 2) = Lev(t, i + 1) + (IF Opening(t, i + 1) THEN 1 ELSE 0) - (IF Closing(t, i + 1) THEN 1 ELSE 0)
  <1> DEFINE O == {j \in Nat : Opening(t, j)}
  <1> DEFINE E == {j \in Nat : Closing(t, j)}
  <1>1. \A k \in Nat : {j \in 1 .. k : Opening(t, j)} = {j \in 1 .. k : j \in O}
    OBVIOUS
  <1>2. \A k \in Nat : {j \in 1 .. k : Closing(t, j)} = {j \in 1 .. k : j \in E}
    OBVIOUS
  <1>3. O \subseteq Nat /\ E \subseteq Nat /\ (i + 1 \in O <=> Opening(t, i + 1)) /\ (i + 1 \in E <=> Closing(t, i + 1))
    OBVIOUS
  <1>0. \A k \in Nat : (k + 1) - 1 = k
    OBVIOUS
  <1>4. \A k \in Nat : Lev(t, k + 1) = Cardinality({j \in 1 .. k : j \in O}) - Cardinality({j \in 1 .. k : j \in E})
    BY <1>0, <1>1, <1>2 DEF Lev
  <1> HIDE DEF O, E
  <1>5. /\ Cardinality({j \in 1 .. i : j \in O}) \in Nat
        /\ Cardinality({j \in 1 .. i + 1 : j \in O}) = Cardinality({j \in 1 .. i : j \in O}) + (IF i + 1 \in O THEN 1 ELSE 0)
        /\ Cardinality({j \in 1 .. 0 : j \in O}) = 0
    BY <1>3, CountStep, Zenon
  <1>6. /\ Cardinality({j \in 1 .. i : j \in E}) \in Nat
        /\ Cardinality({j \in 1 .. i + 1 : j \in E}) = Cardinality({j \in 1 .. i : j \in E}) + (IF i + 1 \in E THEN 1 ELSE 0)
        /\ Cardinality({j \in 1 .. 0 : j \in E}) = 0
    BY <1>3, CountStep, Zenon
  <1>7. i + 1 \in Nat /\ 0 \in Nat /\ 0 + 1 = 1 /\ (i + 1) + 1 = i + 2
    OBVIOUS
  <1>8. /\ Lev(t, 0 + 1) = Cardinality({j \in 1 .. 0 : j \in O}) - Cardinality({j \in 1 .. 0 : j \in E})
        /\ Lev(t, i + 1) = Cardinality({j \in 1 .. i : j \in O}) - Cardinality({j \in 1 .. i : j \in E})
        /\ Lev(t, (i + 1) + 1) = Cardinality({j \in 1 .. i + 1 : j \in O}) - Cardinality({j \in 1 .. i + 1 : j \in E})
    BY <1>4, <1>7, Zenon
  <1> DEFINE o0 == Cardinality({j \in 1 .. 0 : j \in O})
  <1> DEFINE o1 == Cardinality({j \in 1 .. i : j \in O})
  <1> DEFINE o2 == Cardinality({j \in 1 .. i + 1 : j \in O})
  <1> DEFINE e0 == Cardinality({j \in 1 .. 0 : j \in E})
  <1> DEFINE e1 == Cardinality({j \in 1 .. i : j \in E})
  <1> DEFINE e2 == Cardinality({j \in 1 .. i + 1 : j \in E})
  <1>9. /\ Lev(t, 1) = o0 - e0 /\ Lev(t, i + 1) = o1 - e1 /\ Lev(t, i + 2) = o2 - e2
        /\ o1 \in Nat /\ o2 = o1 + (IF i + 1 \in O THEN 1 ELSE 0) /\ o0 = 0
        /\ e1 \in Nat /\ e2 = e1 + (IF i + 1 \in E THEN 1 ELSE 0) /\ e0 = 0
    BY <1>5, <1>6, <1>7, <1>8, Zenon
  <1> HIDE DEF o0, o1, o2, e0, e1, e2
  <1>10. QED
    BY <1>3, <1>9

(* A bracket changes the level of what is behind it.                       *)
LEMMA LevAt ==
  ASSUME NEW t, NEW p \in Nat, p > 0
  PROVE  /\ Lev(t, p) \in Int /\ Lev(t, p + 1) \in Int /\ Lev(t, 1) = 0
         /\ Opening(t, p) => Lev(t, p + 1) = Lev(t, p) + 1
         /\ Closing(t, p) => Lev(t, p + 1) = Lev(t, p) - 1
         /\ ~Opening(t, p) /\ ~Closing(t, p) => Lev(t, p + 1) = Lev(t, p)
  <1> DEFINE i == p - 1
  <1>1. i \in Nat /\ i + 1 = p /\ i + 2 = p + 1
    OBVIOUS
  <1> HIDE DEF i
  <1>2. Lev(t, 1) = 0 /\ Lev(t, i + 1) \in Int
        /\ Lev(t, i + 2) = Lev(t, i + 1) + (IF Opening(t, i + 1) THEN 1 ELSE 0) - (IF Closing(t, i + 1) THEN 1 ELSE 0)
    BY <1>1, LevStep
  <1>4. ~(Opening(t, p) /\ Closing(t, p))
    BY DEF Opening, Closing
  <1>5. QED
    BY <1>1, <1>2, <1>4

(* The greatest and the least of a set.                                    *)
LEMMA LeastIs ==
  ASSUME NEW S \in SUBSET Nat, S # {}
  PROVE  Least(S) \in S /\ \A j \in S : j >= Least(S)
  <1> DEFINE R == OpToRel(<, Nat)
  <1>1. IsWellFoundedOn(R, Nat)
    BY NatLessThanWellFounded
  <1>2. \A x, y \in Nat : y < x => <<y, x>> \in R
    BY DEF OpToRel
  <1> HIDE DEF R
  <1>3. PICK k \in S : \A y \in S : ~(<<y, k>> \in R)
    BY <1>1, WFMin
  <1>4. \A y \in S : y \in Nat /\ k \in Nat /\ ~(y < k)
    BY <1>2, <1>3
  <1>5. \E l \in S : \A y \in S : y >= l
    BY <1>4
  <1>6. QED
    BY <1>5 DEF Least

(* The greatest of some positions is one of them.                          *)
LEMMA GreatestIs ==
  ASSUME NEW n \in Nat, NEW S \in SUBSET (1 .. n), S # {}
  PROVE  Greatest(S) \in S /\ \A j \in S : j <= Greatest(S)
  <1> DEFINE R == OpToRel(<, Nat)
             T == {n - k : k \in S}
  <1>1. IsWellFoundedOn(R, Nat)
    BY NatLessThanWellFounded
  <1>2. \A k \in S : k \in Nat /\ n - k \in Nat
    OBVIOUS
  <1>3. T \subseteq Nat /\ T # {}
    BY <1>2
  <1>4. \A x, y \in Nat : y < x => <<y, x>> \in R
    BY DEF OpToRel
  <1> HIDE DEF R
  <1>5. \E x \in T : \A y \in T : ~(<<y, x>> \in R)
    BY <1>1, <1>3, WFMin
  <1>6. PICK k \in S : \A y \in T : ~(<<y, n - k>> \in R)
    BY <1>5
  <1>7. \A j \in S : ~(n - j < n - k)
    BY <1>2, <1>4, <1>6
  <1>8. \E l \in S : \A j \in S : j <= l
    BY <1>2, <1>7
  <1>9. QED
    BY <1>8 DEF Greatest

(* The sequences that Append and Rest make.                                *)
FrontOf(s) == SubSeq(s, 1, Len(s) - 1)

LEMMA AppendIs ==
  ASSUME NEW V, NEW s \in Seq(V), NEW x \in V
  PROVE  /\ Append(s, x) \in Seq(V) /\ Append(s, x) # <<>> /\ Len(Append(s, x)) = Len(s) + 1
         /\ Append(s, x)[Len(s) + 1] = x
         /\ \A n \in 1 .. Len(s) : Append(s, x)[n] = s[n]
  OBVIOUS

LEMMA FrontIs ==
  ASSUME NEW V, NEW s \in Seq(V), s # <<>>
  PROVE  /\ FrontOf(s) \in Seq(V) /\ Len(FrontOf(s)) = Len(s) - 1 /\ Len(s) > 0
         /\ \A n \in 1 .. Len(s) - 1 : FrontOf(s)[n] = s[n]
         /\ s[Len(s)] \in V
  <1>1. Len(s) \in Nat /\ Len(s) > 0
    OBVIOUS
  <1> DEFINE n == Len(s) - 1
  <1>2. n \in Nat /\ n <= Len(s) /\ n + 1 = Len(s)
    BY <1>1
  <1> HIDE DEF n
  <1>3. /\ SubSeq(s, 1, n) \in Seq(V) /\ Len(SubSeq(s, 1, n)) = n
        /\ \A i \in 1 .. n : SubSeq(s, 1, n)[i] = s[i]
    BY <1>2
  <1>4. FrontOf(s) = SubSeq(s, 1, n)
    BY DEF FrontOf, n
  <1>5. n = Len(s) - 1
    BY DEF n
  <1>6. s[Len(s)] \in V
    BY <1>1
  <1>7. QED
    BY <1>1, <1>3, <1>4, <1>5, <1>6

-----------------------------------------------------------------------------
(* Words and texts.                                                        *)

(* A token has one part in an expression.                                  *)
LEMMA PrecIs ==
  ASSUME NEW w \in Operators
  PROVE  Prec(w) \in 1 .. 7
  BY DEF Operators, Prec

LEMMA Apart ==
  ASSUME NEW t, NEW i
  PROVE  /\ Binary(t, i) => ~Opening(t, i) /\ ~Closing(t, i) /\ ~Comma(t, i) /\ ~Awaited(t, i) /\ ~Prefixed(t, i) /\ ~Postfixed(t, i)
         /\ Prefixed(t, i) => ~Opening(t, i) /\ ~Closing(t, i) /\ ~Comma(t, i) /\ ~Awaited(t, i) /\ ~Postfixed(t, i)
         /\ Awaited(t, i) => ~Opening(t, i) /\ ~Closing(t, i) /\ ~Comma(t, i) /\ ~Postfixed(t, i)
         /\ Opening(t, i) => ~Closing(t, i) /\ ~Comma(t, i)
         /\ Closing(t, i) => ~Comma(t, i) /\ ~Postfixed(t, i)
         /\ Comma(t, i) => ~Postfixed(t, i)
  BY DEF Binary, Prefixed, Awaited, Opening, Closing, Comma, Postfixed, Operators, Unary

LEMMA PrioIs ==
  ASSUME NEW t, NEW i
  PROVE  /\ t[i] \in Operators => Prio(t, i) \in 1 .. 7
         /\ Binary(t, i) => Prio(t, i) \in 1 .. 7
         /\ Cap(t, i) \in 0 .. 7
         /\ Binary(t, i) => Cap(t, i) = Prio(t, i)
         /\ Prefixed(t, i) => Cap(t, i) = 7
         /\ Awaited(t, i) => Cap(t, i) = 0
  <1>1. t[i] \in Operators => Prio(t, i) \in 1 .. 7
    BY PrecIs DEF Prio
  <1>2. Binary(t, i) => Prio(t, i) \in 1 .. 7
    BY <1>1 DEF Binary
  <1>3. Cap(t, i) \in 0 .. 7
    BY <1>2 DEF Cap
  <1>4. QED
    BY <1>1, <1>2, <1>3, Apart DEF Cap

(* What a token is at a place, by what stands before it.                   *)
LEMMA Parts ==
  ASSUME NEW t, NEW p \in Nat, p > 0
  PROVE  /\ ~Behind(t, p) => ~Binary(t, p) /\ ~Postfixed(t, p)
         /\ ~Behind(t, p) /\ t[p] \in Unary => Prefixed(t, p)
         /\ Behind(t, p) /\ t[p] \in Operators => Binary(t, p)
         /\ Behind(t, p) /\ t[p] \in Leads => Postfixed(t, p)
         /\ Behind(t, p + 1) <=> t[p] \in {"id", ")", "]"}
         /\ Has(t, (p + 1) - 1, t[p])
         /\ \A w : Has(t, (p + 1) - 1, w) <=> t[p] = w
  <1>1. (p + 1) - 1 = p /\ p + 1 > 1
    OBVIOUS
  <1>2. Behind(t, p + 1) <=> t[p] \in {"id", ")", "]"}
    BY <1>1 DEF Behind
  <1>3. QED
    BY <1>1, <1>2, Zenon DEF Binary, Prefixed, Postfixed, Has, Leads

(* Two texts that begin alike.                                             *)
Alike(t, u, n) == \A k \in 1 .. n : t[k] = u[k]

LEMMA TokenAlike ==
  ASSUME NEW t, NEW u, NEW n \in Nat, Alike(t, u, n)
  PROVE  /\ \A i \in 1 .. n + 1 : Behind(t, i) <=> Behind(u, i)
         /\ \A i \in 1 .. n : /\ t[i] = u[i] /\ Prio(t, i) = Prio(u, i) /\ Cap(t, i) = Cap(u, i)
                              /\ Opening(t, i) <=> Opening(u, i)
                              /\ Closing(t, i) <=> Closing(u, i)
                              /\ Binary(t, i) <=> Binary(u, i)
                              /\ Prefixed(t, i) <=> Prefixed(u, i)
                              /\ Postfixed(t, i) <=> Postfixed(u, i)
                              /\ Awaited(t, i) <=> Awaited(u, i)
                              /\ Comma(t, i) <=> Comma(u, i)
                              /\ \A w : Has(t, i, w) <=> Has(u, i, w)
                              /\ Nodal(t, i) <=> Nodal(u, i)
  <1>1. \A i \in 1 .. n + 1 : Behind(t, i) <=> Behind(u, i)
    <2>1. \A i \in 1 .. n + 1 : i > 1 => i - 1 \in 1 .. n
      OBVIOUS
    <2>2. QED
      BY <2>1 DEF Behind, Alike
  <1>2. \A i \in 1 .. n : i \in 1 .. n + 1
    OBVIOUS
  <1>3. \A i \in 1 .. n : t[i] = u[i]
    BY DEF Alike
  <1>4. ASSUME NEW i \in 1 .. n
        PROVE  Binary(t, i) <=> Binary(u, i)
    BY <1>1, <1>2, <1>3, Zenon DEF Binary
  <1>5. ASSUME NEW i \in 1 .. n
        PROVE  /\ Prio(t, i) = Prio(u, i)
               /\ Opening(t, i) <=> Opening(u, i)
               /\ Closing(t, i) <=> Closing(u, i)
               /\ Prefixed(t, i) <=> Prefixed(u, i)
               /\ Postfixed(t, i) <=> Postfixed(u, i)
               /\ Awaited(t, i) <=> Awaited(u, i)
               /\ Comma(t, i) <=> Comma(u, i)
               /\ \A w : Has(t, i, w) <=> Has(u, i, w)
    BY <1>1, <1>2, <1>3, <1>4, Zenon DEF Prio, Opening, Closing, Prefixed, Postfixed, Awaited, Comma, Has
  <1>6. ASSUME NEW i \in 1 .. n
        PROVE  Cap(t, i) = Cap(u, i) /\ (Nodal(t, i) <=> Nodal(u, i))
    BY <1>4, <1>5, Zenon DEF Cap, Nodal
  <1>7. QED
    BY <1>1, <1>3, <1>4, <1>5, <1>6, Zenon

(* Texts that begin alike have the same levels, brackets around and        *)
(* bounds.                                                                 *)
LEMMA LevAlike ==
  ASSUME NEW t, NEW u, NEW n \in Nat, Alike(t, u, n)
  PROVE  \A i \in 1 .. n + 1 : Lev(t, i) = Lev(u, i)
  <1> SUFFICES ASSUME NEW i \in 1 .. n + 1
               PROVE  Lev(t, i) = Lev(u, i)
    OBVIOUS
  <1>1. \A j \in 1 .. i - 1 : j \in 1 .. n
    OBVIOUS
  <1>2. \A j \in 1 .. i - 1 : Opening(t, j) <=> Opening(u, j)
    BY <1>1, TokenAlike, Zenon
  <1>3. \A j \in 1 .. i - 1 : Closing(t, j) <=> Closing(u, j)
    BY <1>1, TokenAlike, Zenon
  <1>4. {j \in 1 .. i - 1 : Opening(t, j)} = {j \in 1 .. i - 1 : Opening(u, j)}
    BY <1>2
  <1>5. {j \in 1 .. i - 1 : Closing(t, j)} = {j \in 1 .. i - 1 : Closing(u, j)}
    BY <1>3
  <1>6. QED
    BY <1>4, <1>5, Zenon DEF Lev

LEMMA HoldsAlike ==
  ASSUME NEW t, NEW u, NEW n \in Nat, Alike(t, u, n)
  PROVE  \A i \in 1 .. n + 1 : \A o : Holds(t, o, i) <=> Holds(u, o, i)
  <1> SUFFICES ASSUME NEW i \in 1 .. n + 1, NEW o \in 0 .. i - 1
               PROVE  Holds(t, o, i) <=> Holds(u, o, i)
    BY DEF Holds
  <1>1. \A j \in o + 1 .. i - 1 : j \in 1 .. n /\ j \in 1 .. n + 1
    OBVIOUS
  <1>2. o # 0 => o \in 1 .. n /\ o \in 1 .. n + 1
    OBVIOUS
  <1>3. \A j \in 1 .. n : Opening(t, j) <=> Opening(u, j)
    BY TokenAlike, Zenon
  <1>4. \A j \in 1 .. n + 1 : Lev(t, j) = Lev(u, j)
    BY LevAlike
  <1>5. QED
    BY <1>1, <1>2, <1>3, <1>4, Zenon DEF Holds

(* Only of "ref" does it matter what follows.                              *)
LEMMA PlaceAlike ==
  ASSUME NEW t, NEW u, NEW n \in Nat, Alike(t, u, n), NEW i \in 1 .. n, NEW o \in 0 .. i - 1,
         IsType(t, i) <=> IsType(u, i)
  PROVE  Place(t, i, o) <=> Place(u, i, o)
  <1>1. i \in 1 .. n + 1 /\ (o # 0 => o \in 1 .. n) /\ (i - 1 > 0 => i - 1 \in 1 .. n) /\ i - 1 \in Nat
    OBVIOUS
  <1>2. t[i] = u[i] /\ (o # 0 => t[o] = u[o] /\ (Postfixed(t, o) <=> Postfixed(u, o)))
    BY <1>1, TokenAlike, Zenon
  <1>3. (Behind(t, i) <=> Behind(u, i)) /\ (Binary(t, i) <=> Binary(u, i)) /\ (Postfixed(t, i) <=> Postfixed(u, i))
    BY <1>1, TokenAlike, Zenon
  <1>4. \A w : Has(t, i - 1, w) <=> Has(u, i - 1, w)
    BY <1>1, TokenAlike DEF Has
  <1>5. QED
    BY <1>2, <1>3, <1>4, Zenon DEF Place

-----------------------------------------------------------------------------
(* What is said of a text so far read holds of every longer one: bounds,   *)
(* frames, the tree, what awaits wait for, places and the top call.        *)

LEMMA BoundsAlike ==
  ASSUME NEW t, NEW u, NEW n \in Nat, Alike(t, u, n)
  PROVE  /\ \A i \in 1 .. n : \A k \in 1 .. n + 1 : Through(t, i, k) <=> Through(u, i, k)
         /\ \A i \in 1 .. n : \A k \in 1 .. n : Stop(t, i, k) <=> Stop(u, i, k)
         /\ \A i \in 1 .. n : \A k \in 1 .. n : Edge(t, k, i) <=> Edge(u, k, i)
         /\ \A i \in 1 .. n : \A l : Starts(t, i, l) <=> Starts(u, i, l)
         /\ \A b \in 1 .. n + 1 : \A p \in 1 .. n + 1 : Above(t, b, p) <=> Above(u, b, p)
         /\ \A b \in 1 .. n + 1 : \A c : Begins(t, b, c) <=> Begins(u, b, c)
  <1>1. \A i \in 1 .. n + 1 : Lev(t, i) = Lev(u, i)
    BY LevAlike
  <1>2. \A i \in 1 .. n : /\ Prio(t, i) = Prio(u, i) /\ Cap(t, i) = Cap(u, i)
                          /\ Opening(t, i) <=> Opening(u, i)
                          /\ Closing(t, i) <=> Closing(u, i)
                          /\ Binary(t, i) <=> Binary(u, i)
                          /\ Prefixed(t, i) <=> Prefixed(u, i)
                          /\ Awaited(t, i) <=> Awaited(u, i)
                          /\ Comma(t, i) <=> Comma(u, i)
    BY TokenAlike, Zenon
  <1>3. \A i \in 1 .. n : i \in 1 .. n + 1
    OBVIOUS
  <1>4. ASSUME NEW i \in 1 .. n, NEW k \in 1 .. n + 1
        PROVE  Through(t, i, k) <=> Through(u, i, k)
    <2>1. \A m \in i + 1 .. k - 1 : m \in 1 .. n
      OBVIOUS
    <2>2. QED
      BY <1>1, <1>2, <1>3, <2>1, Zenon DEF Through
  <1>5. ASSUME NEW i \in 1 .. n, NEW k \in 1 .. n
        PROVE  (Stop(t, i, k) <=> Stop(u, i, k)) /\ (Edge(t, k, i) <=> Edge(u, k, i))
    <2>1. Through(t, i, k) <=> Through(u, i, k)
      BY <1>3, <1>4, Zenon
    <2>2. Lev(t, i) = Lev(u, i) /\ Lev(t, k) = Lev(u, k)
      BY <1>1, <1>3, Zenon
    <2>3. Stop(t, i, k) <=> Stop(u, i, k)
      BY <1>2, <2>1, <2>2, Zenon DEF Stop
    <2>4. Edge(t, k, i) <=> Edge(u, k, i)
      BY <1>2, <2>2, Zenon DEF Edge
    <2>5. QED
      BY <2>3, <2>4
  <1>6. ASSUME NEW i \in 1 .. n, NEW l
        PROVE  Starts(t, i, l) <=> Starts(u, i, l)
    <2>1. l \in 1 .. i => (l > 1 => l - 1 \in 1 .. n) /\ \A k \in l .. i - 1 : k \in 1 .. n
      OBVIOUS
    <2>2. QED
      BY <1>5, <2>1 DEF Starts
  <1>7. ASSUME NEW b \in 1 .. n + 1, NEW p \in 1 .. n + 1
        PROVE  Above(t, b, p) <=> Above(u, b, p)
    <2>1. \A k \in b .. p : k \in 1 .. n + 1
      OBVIOUS
    <2>2. QED
      BY <1>1, <2>1, Zenon DEF Above
  <1>8. ASSUME NEW b \in 1 .. n + 1, NEW c
        PROVE  Begins(t, b, c) <=> Begins(u, b, c)
    <2>1. b > 1 => b - 1 \in 1 .. n
      OBVIOUS
    <2>2. QED
      BY <1>1, <1>2, <1>3, <2>1, Zenon DEF Begins
  <1>9. QED
    BY <1>4, <1>5, <1>6, <1>7, <1>8

(* The frames of a text are those of a longer one.                         *)
Calls == [kind : {"expr", "prefix", "await", "group", "args", "index"}, at : Nat, lo : Nat, min : 0 .. 8]

(* The frames of a text are those of a longer one.                         *)
LEMMA FrameAlike ==
  ASSUME NEW t, NEW u, NEW n \in Nat, Alike(t, u, n), NEW p \in 1 .. n + 1, NEW f \in Calls, NEW b,
         Frame(t, p, f, b)
  PROVE  Frame(u, p, f, b)
  <1>1. b \in 1 .. p /\ b \in 1 .. n + 1 /\ f.at \in Nat
    BY DEF Frame, Calls
  <1>2. \A k \in b .. p - 1 : k \in 1 .. n /\ \A m \in b .. k - 1 : m \in 1 .. n
    BY <1>1
  <1>3. \A i \in 1 .. n + 1 : Lev(t, i) = Lev(u, i)
    BY LevAlike
  <1>4. \A i \in 1 .. n : i \in 1 .. n + 1 /\ (i + 1 \in 1 .. n + 1)
    OBVIOUS
  <1>5. /\ Above(t, b, p) <=> Above(u, b, p)
        /\ Begins(t, b, f.min) <=> Begins(u, b, f.min)
    BY <1>1, BoundsAlike, Zenon
  <1>6. ASSUME NEW i \in 1 .. p - 1
        PROVE  /\ Within(t, i, p) <=> Within(u, i, p)
               /\ \A l : Starts(t, i, l) <=> Starts(u, i, l)
               /\ Binary(t, i) <=> Binary(u, i)
               /\ Prefixed(t, i) <=> Prefixed(u, i)
               /\ Awaited(t, i) <=> Awaited(u, i)
               /\ Comma(t, i) <=> Comma(u, i)
               /\ Lev(t, i) = Lev(u, i) /\ Prio(t, i) = Prio(u, i) /\ t[i] = u[i]
               /\ Behind(t, i) <=> Behind(u, i)
    <2>1. i \in 1 .. n /\ i \in 1 .. n + 1 /\ \A k \in i + 1 .. p - 1 : k \in 1 .. n
      OBVIOUS
    <2>2. Within(t, i, p) <=> Within(u, i, p)
      BY <2>1, BoundsAlike, Zenon DEF Within
    <2>3. \A l : Starts(t, i, l) <=> Starts(u, i, l)
      BY <2>1, BoundsAlike, Zenon
    <2>4. QED
      BY <1>3, <2>1, <2>2, <2>3, TokenAlike, Zenon
  <1>7. \A k \in b .. p : Lev(t, k) = Lev(u, k)
    <2>1. \A k \in b .. p : k \in 1 .. n + 1
      BY <1>1
    <2>2. QED
      BY <1>3, <2>1
  <1>8. Lev(t, b) = Lev(u, b)
    BY <1>1, <1>3
  <1>9. f.kind = "expr" /\ f.at = 0 =>
          \A k \in b .. p - 1 : Lev(u, k) = Lev(u, b) =>
             ~Comma(u, k) /\ (Binary(u, k) => \E m \in b .. k - 1 : Lev(u, m) = Lev(u, b) /\ Awaited(u, m))
    <2>1. \A k \in b .. p - 1 : k \in 1 .. p - 1 /\ \A m \in b .. k - 1 : m \in 1 .. p - 1
      BY <1>1
    <2>2. QED
      BY <1>6, <1>8, <2>1, Zenon DEF Frame
  <1>10. f.kind = "expr" /\ f.at # 0 =>
          /\ f.lo = b /\ f.at \in 1 .. p - 1 /\ Binary(u, f.at) /\ Lev(u, f.at) = Lev(u, b)
          /\ Starts(u, f.at, b) /\ Prio(u, f.at) >= f.min /\ Within(u, f.at, p)
    BY <1>6, <1>8, Zenon DEF Frame
  <1>11. b < p => b \in 1 .. p - 1
    BY <1>1
  <1>12. /\ f.kind = "prefix" => f.at = b /\ b < p /\ Prefixed(u, b) /\ Within(u, b, p)
         /\ f.kind = "await" => f.at = b /\ b < p /\ Awaited(u, b) /\ Within(u, b, p)
    BY <1>6, <1>11, Zenon DEF Frame
  <1>13. ASSUME f.kind \in Bracket
         PROVE  /\ f.lo = b /\ f.at \in b .. p - 1 /\ f.at \in 1 .. p - 1
                /\ u[f.at] = (IF f.kind = "index" THEN "[" ELSE "(")
                /\ \A k \in f.at + 1 .. p : Lev(u, k) > Lev(u, f.at)
                /\ Lev(u, f.at) = Lev(u, b)
    <2>1. f.at \in b .. p - 1
      BY <1>13 DEF Frame
    <2>2. f.at \in 1 .. p - 1 /\ \A k \in f.at + 1 .. p : k \in b .. p
      BY <1>1, <2>1
    <2>3. Lev(u, f.at) = Lev(t, f.at) /\ t[f.at] = u[f.at]
      BY <1>6, <2>2
    <2>4. QED
      BY <1>7, <1>8, <1>13, <2>1, <2>2, <2>3, Zenon DEF Frame
  <1>14. /\ f.kind = "group" => f.at = b /\ ~Behind(u, b)
         /\ f.kind \in {"args", "index"} => Behind(u, f.at) /\ Starts(u, f.at, b)
    <2>1. {"args", "index"} \subseteq Bracket /\ "group" \in Bracket
      BY DEF Bracket
    <2>2. f.kind \in Bracket => f.at \in 1 .. p - 1
      BY <1>13, Zenon
    <2>3. QED
      BY <1>6, <2>1, <2>2, Zenon DEF Frame
  <1>15. QED
    BY <1>1, <1>5, <1>9, <1>10, <1>12, <1>13, <1>14, Zenon DEF Frame

LEMMA FramesAlike ==
  ASSUME NEW t, NEW u, NEW n \in Nat, Alike(t, u, n), NEW p \in 1 .. n + 1, NEW s \in Seq(Calls), NEW own,
         Frames(t, p, s, own)
  PROVE  Frames(u, p, s, own)
  <1>1. \A i \in 1 .. n + 1 : Lev(t, i) = Lev(u, i)
    BY LevAlike
  <1>2. \A k \in 1 .. Len(s) : s[k] \in Calls /\ own[k] \in 1 .. n + 1 /\ s[k].at \in Nat
    <2>1. \A k \in 1 .. Len(s) : s[k] \in Calls /\ own[k] \in 1 .. p
      BY DEF Frames, Frame
    <2>2. \A b \in 1 .. p : b \in 1 .. n + 1
      OBVIOUS
    <2>3. QED
      BY <2>1, <2>2 DEF Calls
  <1>3. \A k \in 1 .. Len(s) : Frame(u, p, s[k], own[k])
    BY <1>2, FrameAlike DEF Frames
  <1>4. \A k \in 1 .. Len(s) : Floor(t, s[k], own[k]) = Floor(u, s[k], own[k])
    BY <1>1, <1>2, Zenon DEF Floor
  <1>5. ASSUME NEW a \in 1 .. Len(s), NEW c \in a + 1 .. Len(s)
        PROVE  Pair(u, s[a], own[a], s[c], own[c])
    <2>1. c \in 1 .. Len(s)
      OBVIOUS
    <2>2. Pair(t, s[a], own[a], s[c], own[c])
      BY DEF Frames
    <2>3. own[a] \in 1 .. n + 1 /\ own[c] \in 1 .. n + 1 /\ s[a].at \in Nat /\ s[a].at < own[c] /\ own[a] <= own[c]
      BY <1>2, <2>1, <2>2 DEF Pair
    <2>4. s[a].at # 0 => s[a].at \in 1 .. n
      BY <2>3
    <2>5. \A m \in own[a] .. own[c] - 1 : m \in 1 .. n
      BY <2>3
    <2>6. s[a].at # 0 => s[a].at \in 1 .. n + 1
      BY <2>4
    <2>7. \A m \in own[a] .. own[c] - 1 : m \in 1 .. n + 1 /\ Lev(t, m) = Lev(u, m) /\ (Awaited(t, m) <=> Awaited(u, m))
      <3>1. \A m \in 1 .. n : m \in 1 .. n + 1
        OBVIOUS
      <3>2. QED
        BY <1>1, <2>5, <3>1, TokenAlike, Zenon
    <2>8. Lev(t, own[a]) = Lev(u, own[a]) /\ Lev(t, own[c]) = Lev(u, own[c])
      BY <1>1, <2>3
    <2>9. s[a].at # 0 => /\ Lev(t, s[a].at) = Lev(u, s[a].at) /\ Prio(t, s[a].at) = Prio(u, s[a].at)
                         /\ Through(t, s[a].at, own[c]) <=> Through(u, s[a].at, own[c])
      <3>1. s[a].at # 0 => Through(t, s[a].at, own[c]) <=> Through(u, s[a].at, own[c])
        BY <2>3, <2>4, BoundsAlike, Zenon
      <3>2. s[a].at # 0 => Prio(t, s[a].at) = Prio(u, s[a].at)
        <4>1. \A i \in 1 .. n : Prio(t, i) = Prio(u, i)
          BY TokenAlike, Zenon
        <4>2. QED
          BY <2>4, <4>1, Zenon
      <3>3. QED
        BY <1>1, <2>6, <3>1, <3>2, Zenon
    <2>10. QED
      BY <2>2, <2>7, <2>8, <2>9, Zenon DEF Pair
  <1>6. \A k \in 2 .. Len(s) : k \in 1 .. Len(s) /\ k - 1 \in 1 .. Len(s)
    OBVIOUS
  <1>7. s # <<>> => Len(s) \in 1 .. Len(s)
    OBVIOUS
  <1>8. \A k \in 1 .. Len(s) : Lev(t, own[k]) = Lev(u, own[k])
    BY <1>1, <1>2, Zenon
  <1>9. ASSUME NEW k \in 2 .. Len(s)
        PROVE  Sits(u, s[k - 1], own[k - 1], s[k], own[k]) /\ Lev(u, own[k]) = Floor(u, s[k - 1], own[k - 1])
    <2>1. Sits(t, s[k - 1], own[k - 1], s[k], own[k]) /\ Lev(t, own[k]) = Floor(t, s[k - 1], own[k - 1])
      BY Zenon DEF Frames
    <2>2. Frame(t, p, s[k - 1], own[k - 1])
      BY <1>6, Zenon DEF Frames
    <2>3. s[k - 1].kind = "expr" /\ s[k - 1].at # 0 => s[k - 1].at \in 1 .. n
      BY <2>2 DEF Frame
    <2>4. \A i \in 1 .. n : Prio(t, i) = Prio(u, i)
      BY TokenAlike, Zenon
    <2>5. Sits(u, s[k - 1], own[k - 1], s[k], own[k])
      BY <2>1, <2>3, <2>4, Zenon DEF Sits
    <2>6. QED
      BY <1>4, <1>6, <1>8, <2>1, <2>5, Zenon
  <1>10. Lev(u, p) = Floor(u, s[Len(s)], own[Len(s)])
    BY <1>1, <1>4, <1>7, Zenon DEF Frames
  <1>11. QED
    BY <1>3, <1>5, <1>9, <1>10, Zenon DEF Frames

(* So are its tree, ...                                                    *)
LEMMA TreeAlike ==
  ASSUME NEW t, NEW u, NEW n \in Nat, Len(t) = n, Len(u) \in Nat, Len(u) >= n, Alike(t, u, n),
         NEW p \in 1 .. n + 1, NEW s, NEW d, NEW tr, TreeSays(t, p, s, d, tr)
  PROVE  TreeSays(u, p, s, d, tr)
  <1>1. \A i \in 1 .. n + 1 : Lev(t, i) = Lev(u, i)
    BY LevAlike
  <1>2. \A i \in 1 .. p - 1 : i \in 1 .. n /\ i \in 1 .. n + 1
    OBVIOUS
  <1>3. \A i \in 1 .. p - 1 : Nodal(t, i) <=> Nodal(u, i)
    BY <1>2, TokenAlike, Zenon
  <1>4. ASSUME NEW nd \in tr
        PROVE  Good(u, p, nd) /\ (nd.hi = p - 1 /\ ~Postfixed(u, nd.at) => d \in After1 /\ Late(u, p, nd.at))
    <2> DEFINE i == nd.at
    <2> DEFINE h == nd.hi
    <2>1. Good(t, p, nd) /\ (h = p - 1 /\ ~Postfixed(t, i) => d \in After1 /\ Late(t, p, i))
      BY DEF TreeSays
    <2>2. i \in 1 .. p - 1 /\ h \in i .. p - 1
      BY <2>1 DEF Good
    <2> HIDE DEF i, h
    <2>3. i \in 1 .. n /\ i \in 1 .. n + 1
      BY <1>2, <2>2
    <2>4. /\ Binary(t, i) <=> Binary(u, i)
          /\ Postfixed(t, i) <=> Postfixed(u, i)
          /\ Nodal(t, i) <=> Nodal(u, i)
          /\ t[i] = u[i] /\ Cap(t, i) = Cap(u, i)
      BY <2>3, TokenAlike, Zenon
    <2>5. \A l : Starts(t, i, l) <=> Starts(u, i, l)
      BY <2>3, BoundsAlike, Zenon
    <2>6. Reach(t, p, i, h) <=> Reach(u, p, i, h)
      <3>1. \A k \in i + 1 .. h : k \in 1 .. n
        BY <2>2
      <3>2. h + 1 < p => h + 1 \in 1 .. n
        BY <2>2
      <3>3. \A k \in 1 .. n : Stop(t, i, k) <=> Stop(u, i, k)
        BY <2>3, BoundsAlike, Zenon
      <3>4. QED
        BY <3>1, <3>2, <3>3, Zenon DEF Reach
    <2>7. /\ h + 1 \in 1 .. n + 1
          /\ \A k \in i + 1 .. h : k \in 1 .. n + 1
      BY <2>2
    <2>8. /\ Lev(t, h + 1) = Lev(u, h + 1) /\ Lev(t, i) = Lev(u, i)
          /\ \A k \in i + 1 .. h : Lev(t, k) = Lev(u, k)
      BY <1>1, <2>3, <2>7
    <2>9. Good(u, p, nd)
      BY <2>1, <2>4, <2>5, <2>6, <2>8, Zenon DEF Good, i, h
    <2>10. Late(t, p, i) => Late(u, p, i)
      <3>1. p <= Len(t) => p \in 1 .. n /\ p <= Len(u)
        OBVIOUS
      <3>2. p \in 1 .. n => t[p] = u[p] /\ Prio(t, p) = Prio(u, p)
        BY TokenAlike, Zenon
      <3>3. Through(t, i, p) <=> Through(u, i, p)
        BY <2>3, BoundsAlike, Zenon
      <3>4. Lev(t, p) = Lev(u, p)
        BY <1>1
      <3>5. QED
        BY <2>4, <2>8, <3>1, <3>2, <3>3, <3>4, Zenon DEF Late
    <2>11. QED
      BY <2>1, <2>4, <2>9, <2>10, Zenon DEF i, h
  <1>5. QED
    BY <1>3, <1>4, Zenon DEF TreeSays

(* ... what its awaits wait for, ...                                       *)
LEMMA WaitsAlike ==
  ASSUME NEW t, NEW u, NEW n \in Nat, Len(t) = n, Len(u) \in Nat, Len(u) >= n, Alike(t, u, n),
         NEW p \in 1 .. n + 1, NEW s, NEW d, Waits(t, p, s, d)
  PROVE  Waits(u, p, s, d)
  <1> SUFFICES ASSUME NEW m \in 1 .. p - 1, Awaited(u, m), Above(u, m, p),
                      \A k \in m + 1 .. p - 1 : Lev(u, k) = Lev(u, m) => ~Comma(u, k)
               PROVE  \/ \E i \in 1 .. Len(s) : s[i].kind = "await" /\ s[i].at = m
                      \/ Lev(u, m) = Lev(u, p) /\ d \in After1 /\ p <= Len(u) /\ u[p] \notin Operators \cup Leads
    BY Zenon DEF Waits
  <1>1. m \in 1 .. n /\ m \in 1 .. n + 1 /\ \A k \in m + 1 .. p - 1 : k \in 1 .. n /\ k \in 1 .. n + 1
    OBVIOUS
  <1>2. \A i \in 1 .. n + 1 : Lev(t, i) = Lev(u, i)
    BY LevAlike
  <1>3. Awaited(t, m)
    BY <1>1, TokenAlike, Zenon
  <1>4. Above(t, m, p)
    BY <1>1, BoundsAlike, Zenon
  <1>5. \A k \in 1 .. n : Comma(t, k) <=> Comma(u, k)
    BY TokenAlike, Zenon
  <1>6. \A k \in m + 1 .. p - 1 : Lev(t, k) = Lev(t, m) => ~Comma(t, k)
    BY <1>1, <1>2, <1>5, Zenon
  <1>7. \/ \E i \in 1 .. Len(s) : s[i].kind = "await" /\ s[i].at = m
        \/ Lev(t, m) = Lev(t, p) /\ d \in After1 /\ p <= Len(t) /\ t[p] \notin Operators \cup Leads
    BY <1>3, <1>4, <1>6, Zenon DEF Waits
  <1>8. p <= Len(t) => p <= Len(u) /\ t[p] = u[p]
    BY DEF Alike
  <1>9. Lev(t, m) = Lev(u, m) /\ Lev(t, p) = Lev(u, p)
    BY <1>1, <1>2
  <1>10. QED
    BY <1>7, <1>8, <1>9, Zenon

(* ... the places of its tokens, ...                                       *)
LEMMA AllPlacedAlike ==
  ASSUME NEW t, NEW u, NEW n \in Nat, Len(t) = n, Len(u) \in Nat, Len(u) >= n, Alike(t, u, n),
         NEW p \in 1 .. n + 1, AllPlaced(t, p)
  PROVE  AllPlaced(u, p)
  <1> SUFFICES ASSUME NEW i \in 1 .. p - 1
               PROVE  /\ u[i] = "ref" => i < Len(u)
                      /\ \E o \in 0 .. i - 1 : Holds(u, o, i) /\ Place(u, i, o)
    BY DEF AllPlaced
  <1>1. i \in 1 .. n /\ i \in 1 .. n + 1
    OBVIOUS
  <1>2. t[i] = u[i] /\ (t[i] = "ref" => i < Len(t))
    BY <1>1 DEF AllPlaced, Alike
  <1>3. PICK o \in 0 .. i - 1 : Holds(t, o, i) /\ Place(t, i, o)
    BY DEF AllPlaced
  <1>4. Holds(u, o, i)
    BY <1>1, <1>3, HoldsAlike
  <1>5. IsType(t, i) <=> IsType(u, i)
    <2>1. i < Len(t) => i < Len(u) /\ i + 1 \in 1 .. n
      BY <1>1
    <2>2. i + 1 \in 1 .. n => t[i + 1] = u[i + 1]
      BY DEF Alike
    <2>3. QED
      BY <1>2, <2>1, <2>2, Zenon DEF IsType
  <1>6. Place(u, i, o)
    BY <1>1, <1>3, <1>5, PlaceAlike
  <1>7. QED
    BY <1>2, <1>4, <1>6

(* ... and what its top call is at.                                        *)
LEMMA TopAlike ==
  ASSUME NEW t, NEW u, NEW n \in Nat, Len(t) = n, Len(u) \in Nat, Len(u) >= n, Alike(t, u, n),
         NEW p \in 1 .. n + 1, NEW f \in Calls, NEW b, NEW d, NEW v,
         f.at \in 0 .. p - 1, v.lo \in Nat, Top1(t, p, f, b, d, v)
  PROVE  Top1(u, p, f, b, d, v)
  <1>1. \A i \in 1 .. n + 1 : Lev(t, i) = Lev(u, i) /\ (Behind(t, i) <=> Behind(u, i))
    BY LevAlike, TokenAlike, Zenon
  <1>2. p > 1 => p - 1 \in 1 .. n /\ p - 1 \in 1 .. n + 1
    OBVIOUS
  <1>3. p <= Len(t) => p <= Len(u) /\ t[p] = u[p] /\ Prio(t, p) = Prio(u, p)
    BY DEF Alike, Prio
  <1>4. Starter(t, p) <=> Starter(u, p)
    BY <1>2 DEF Starter, Alike
  <1>5. p > 1 => /\ t[p - 1] = u[p - 1] /\ Lev(t, p - 1) = Lev(u, p - 1)
                 /\ Postfixed(t, p - 1) <=> Postfixed(u, p - 1)
    <2>1. \A i \in 1 .. n : t[i] = u[i] /\ (Postfixed(t, i) <=> Postfixed(u, i))
      BY TokenAlike, Zenon
    <2>2. QED
      BY <1>1, <1>2, <2>1
  <1>6. \A w : Has(t, p - 1, w) <=> Has(u, p - 1, w)
    <2>1. p - 1 > 0 => p > 1
      OBVIOUS
    <2>2. QED
      BY <1>5, <2>1, Zenon DEF Has
  <1>7. Has(t, p - 1, "(") => p > 1
    BY DEF Has
  <1>8. Pure(t, v.lo, p) <=> Pure(u, v.lo, p)
    <2>1. \A l \in 1 .. p - 1 : (l > 1 => l - 1 \in 1 .. n /\ l - 1 \in 1 .. n + 1) /\ \A k \in l .. p - 1 : k \in 1 .. n /\ k \in 1 .. n + 1
      OBVIOUS
    <2>2. Lev(t, p) = Lev(u, p) /\ \A i \in 1 .. n + 1 : Lev(t, i) = Lev(u, i)
      BY <1>1
    <2>3. \A i \in 1 .. n : /\ Opening(t, i) <=> Opening(u, i)
                            /\ Binary(t, i) <=> Binary(u, i)
                            /\ Prefixed(t, i) <=> Prefixed(u, i)
                            /\ Awaited(t, i) <=> Awaited(u, i)
                            /\ Comma(t, i) <=> Comma(u, i)
      BY TokenAlike, Zenon
    <2>4. \A k \in 1 .. n : Lev(t, k) = Lev(u, k)
      BY <1>1
    <2>5. ASSUME NEW l \in 1 .. p - 1
          PROVE  Pure(t, l, p) <=> Pure(u, l, p)
      <3>1. (l > 1 => l - 1 \in 1 .. n) /\ \A k \in l .. p - 1 : k \in 1 .. n
        BY <2>1
      <3>2. QED
        BY <2>2, <2>3, <2>4, <3>1, Zenon DEF Pure
    <2>6. QED
      BY <2>5 DEF Pure
  <1>9. f.at # 0 => Prio(t, f.at) = Prio(u, f.at)
    <2>1. f.at # 0 => f.at \in 1 .. n
      OBVIOUS
    <2>2. \A i \in 1 .. n : Prio(t, i) = Prio(u, i)
      BY TokenAlike, Zenon
    <2>3. QED
      BY <2>1, <2>2
  <1>10. \A w : Has(t, p - 1, w) => p > 1
    BY DEF Has
  <1>11. /\ d \in {"operand", "postfix"} => f.kind = "prefix" \/ (f.kind = "expr" /\ f.at = 0)
         /\ d = "args" => f.kind = "args"
         /\ d = "operand" => /\ ~Behind(u, p) /\ Starter(u, p)
                             /\ b = (IF f.kind = "expr" THEN p ELSE p - 1)
                             /\ Has(u, p - 1, ",") \/ (Has(u, p - 1, "(") /\ Postfixed(u, p - 1)) => p <= Len(u) /\ u[p] \notin {")", "eof"}
    <2>1. Behind(t, p) <=> Behind(u, p)
      BY <1>1, Zenon
    <2>2. d = "operand" => (Has(u, p - 1, ",") \/ (Has(u, p - 1, "(") /\ Postfixed(u, p - 1)) => p <= Len(u) /\ u[p] \notin {")", "eof"})
      BY <1>3, <1>5, <1>6, <1>7, Zenon DEF Top1
    <2>3. QED
      BY <1>4, <2>1, <2>2, Zenon DEF Top1
  <1>12. d = "args" => \/ Has(u, p - 1, "(") /\ f.at = p - 1
                       \/ Has(u, p - 1, ",") /\ Lev(u, p - 1) = Lev(u, p)
    BY <1>1, <1>5, <1>6, <1>10, Zenon DEF Top1
  <1>13. /\ d \in After1 => /\ Behind(u, p) /\ v.hi = p - 1
                            /\ f.kind = "expr" /\ f.at = 0 => v.lo = b
                            /\ f.kind = "prefix" /\ d = "postfix" => v.lo = b + 1
         /\ d = "postfix" => Pure(u, v.lo, p) \/ (p <= Len(u) /\ u[p] \notin Leads)
    BY <1>1, <1>3, <1>8, Zenon DEF Top1
  <1>14. d = "back" => /\ p <= Len(u) /\ u[p] \notin Leads
                       /\ f.kind = "expr" /\ f.at # 0 /\ u[p] \in Operators => Prio(u, p) <= Prio(u, f.at)
                       /\ f.kind \notin {"expr", "prefix"} => u[p] \notin Operators
    BY <1>3, <1>9, Zenon DEF Top1
  <1>15. QED
    BY <1>11, <1>12, <1>13, <1>14, Zenon DEF Top1

(* The positions of a frame.                                               *)
LEMMA FrameIs ==
  ASSUME NEW t, NEW p \in Nat, p > 0, NEW f \in Calls, NEW b, Frame(t, p, f, b)
  PROVE  /\ b \in 1 .. p /\ b \in Nat /\ f.at \in 0 .. p - 1 /\ f.lo \in Nat /\ f.min \in 0 .. 8
         /\ Above(t, b, p)
         /\ f.kind \in {"expr", "prefix", "await", "group", "args", "index"}
         /\ f.kind # "expr" \/ f.at # 0 => f.at \in b .. p - 1 /\ Lev(t, f.at) = Lev(t, b)
         /\ f.kind # "expr" => f.at # 0
  <1>1. b \in 1 .. p /\ b \in Nat /\ Above(t, b, p)
    BY DEF Frame
  <1>2. f.at \in Nat /\ f.lo \in Nat /\ f.min \in 0 .. 8 /\ f.kind \in {"expr", "prefix", "await", "group", "args", "index"}
    BY DEF Calls
  <1>3. CASE f.kind = "expr" /\ f.at = 0
    BY <1>1, <1>2, <1>3
  <1>4. CASE f.kind = "expr" /\ f.at # 0
    <2>1. f.at \in 1 .. p - 1 /\ Lev(t, f.at) = Lev(t, b) /\ b \in 1 .. f.at
      BY <1>4 DEF Frame, Starts
    <2>2. QED
      BY <1>1, <1>2, <1>4, <2>1
  <1>5. CASE f.kind \in {"prefix", "await"}
    <2>1. f.at = b /\ b < p
      BY <1>5 DEF Frame
    <2>2. QED
      BY <1>1, <1>2, <1>5, <2>1
  <1>6. CASE f.kind \in Bracket
    <2>1. f.at \in b .. p - 1 /\ Lev(t, f.at) = Lev(t, b)
      BY <1>6 DEF Frame
    <2>2. QED
      BY <1>1, <1>2, <1>6, <2>1
  <1>7. QED
    BY <1>2, <1>3, <1>4, <1>5, <1>6 DEF Bracket

(* More tokens change nothing of what the parser has done.                 *)
LEMMA ReadGoes ==
  ASSUME NEW t, NEW u, NEW n \in Nat, Len(t) = n, Len(u) \in Nat, Len(u) >= n, Alike(t, u, n),
         NEW p \in 1 .. n + 1, NEW s \in Seq(Calls), NEW own, NEW d, NEW v, NEW tr,
         v.lo \in Nat, Stands(t, p, s, own, d, v, tr)
  PROVE  Stands(u, p, s, own, d, v, tr)
  <1>1. Frames(u, p, s, own)
    BY FramesAlike DEF Stands
  <1>2. TreeSays(u, p, s, d, tr)
    BY TreeAlike, Zenon DEF Stands
  <1>3. Waits(u, p, s, d)
    BY WaitsAlike, Zenon DEF Stands
  <1>4. AllPlaced(u, p)
    BY AllPlacedAlike, Zenon DEF Stands
  <1>5. s # <<>> /\ Len(s) \in 1 .. Len(s) /\ s[Len(s)] \in Calls /\ Frame(t, p, s[Len(s)], own[Len(s)])
    <2>1. s # <<>>
      BY DEF Stands, Frames
    <2>2. Len(s) \in 1 .. Len(s) /\ s[Len(s)] \in Calls
      BY <2>1
    <2>3. QED
      BY <2>1, <2>2 DEF Stands, Frames
  <1>6. s[Len(s)].at \in 0 .. p - 1
    <2> DEFINE f == s[Len(s)]
    <2>1. f \in Calls /\ Frame(t, p, f, own[Len(s)])
      BY <1>5
    <2> HIDE DEF f
    <2>2. f.at \in 0 .. p - 1
      BY <2>1, FrameIs
    <2>3. QED
      BY <2>2 DEF f
  <1>7. Top1(u, p, s[Len(s)], own[Len(s)], d, v)
    BY <1>5, <1>6, TopAlike, Zenon DEF Stands
  <1>8. QED
    BY <1>1, <1>2, <1>3, <1>4, <1>7, Zenon DEF Stands

-----------------------------------------------------------------------------
(* The stack of calls: what its frames say when a token is passed, when a  *)
(* call is pushed and when one is popped.                                  *)

Body(t, p, s, own) ==
  /\ s \in Seq(Calls) /\ own \in Seq(Nat)
  /\ s # <<>> /\ Len(own) = Len(s)
  /\ s[1].kind = "expr" /\ s[1].min = 0 /\ own[1] = 1
  /\ \A n \in 1 .. Len(s) : Frame(t, p, s[n], own[n])
  /\ \A n \in 2 .. Len(s) : /\ Sits(t, s[n - 1], own[n - 1], s[n], own[n])
                            /\ Lev(t, own[n]) = Floor(t, s[n - 1], own[n - 1])
  /\ \A n \in 1 .. Len(s) : \A m \in n + 1 .. Len(s) : Pair(t, s[n], own[n], s[m], own[m])

LEMMA BodyIs ==
  ASSUME NEW t, NEW p, NEW s \in Seq(Calls), NEW own \in Seq(Nat)
  PROVE  Frames(t, p, s, own) <=> Body(t, p, s, own) /\ Lev(t, p) = Floor(t, s[Len(s)], own[Len(s)])
  BY Zenon DEF Frames, Body

(* The top frame of a body.                                                *)
LEMMA TopIs ==
  ASSUME NEW t, NEW p \in Nat, p > 0, NEW s, NEW own, Body(t, p, s, own)
  PROVE  /\ Len(s) \in Nat /\ Len(s) > 0 /\ Len(s) \in 1 .. Len(s) /\ Len(own) = Len(s) /\ own # <<>>
         /\ s[Len(s)] \in Calls /\ own[Len(s)] \in 1 .. p /\ own[Len(s)] \in Nat
         /\ Frame(t, p, s[Len(s)], own[Len(s)])
         /\ \A n \in 1 .. Len(s) : s[n] \in Calls /\ own[n] \in Nat /\ Frame(t, p, s[n], own[n])
         /\ \A n \in 1 .. Len(s) - 1 : Pair(t, s[n], own[n], s[Len(s)], own[Len(s)])
  <1>1. s \in Seq(Calls) /\ own \in Seq(Nat) /\ s # <<>> /\ Len(own) = Len(s)
    BY DEF Body
  <1>2. Len(s) \in Nat /\ Len(s) > 0 /\ Len(s) \in 1 .. Len(s) /\ own # <<>>
    BY <1>1
  <1>3. \A n \in 1 .. Len(s) : s[n] \in Calls /\ own[n] \in Nat
    BY <1>1
  <1>4. \A n \in 1 .. Len(s) : Frame(t, p, s[n], own[n])
    BY DEF Body
  <1>5. own[Len(s)] \in 1 .. p
    BY <1>2, <1>4 DEF Frame
  <1>6. \A n \in 1 .. Len(s) - 1 : n \in 1 .. Len(s) /\ Len(s) \in n + 1 .. Len(s)
    BY <1>2
  <1>7. \A n \in 1 .. Len(s) - 1 : Pair(t, s[n], own[n], s[Len(s)], own[Len(s)])
    BY <1>6 DEF Body
  <1>8. QED
    BY <1>1, <1>2, <1>3, <1>4, <1>5, <1>7

(* A frame when one more token is read that does not end what it stands for. *)
LEMMA AboveGrows ==
  ASSUME NEW t, NEW p \in Nat, NEW b \in 1 .. p, Above(t, b, p), Lev(t, p + 1) >= Lev(t, b)
  PROVE  Above(t, b, p + 1)
  <1>1. \A k \in b .. p + 1 : k \in b .. p \/ k = p + 1
    OBVIOUS
  <1>2. QED
    BY <1>1 DEF Above

LEMMA WithinGrows ==
  ASSUME NEW t, NEW p \in Nat, NEW i \in 1 .. p - 1, Within(t, i, p), ~Stop(t, i, p)
  PROVE  Within(t, i, p + 1)
  <1>1. \A k \in i + 1 .. (p + 1) - 1 : k \in i + 1 .. p - 1 \/ k = p
    OBVIOUS
  <1>2. QED
    BY <1>1 DEF Within

LEMMA FrameGrows ==
  ASSUME NEW t, NEW p \in Nat, p > 0, NEW f \in Calls, NEW b, Frame(t, p, f, b),
         Lev(t, p + 1) >= Lev(t, b),
         f.kind \notin Bracket /\ f.at # 0 => ~Stop(t, f.at, p),
         f.kind = "expr" /\ f.at = 0 /\ Lev(t, p) = Lev(t, b) =>
           ~Comma(t, p) /\ (Binary(t, p) => \E m \in b .. p - 1 : Lev(t, m) = Lev(t, b) /\ Awaited(t, m)),
         f.kind \in Bracket => Lev(t, p + 1) > Lev(t, b)
  PROVE  Frame(t, p + 1, f, b)
  <1>1. /\ b \in 1 .. p /\ b \in Nat /\ f.at \in 0 .. p - 1 /\ Above(t, b, p)
        /\ f.kind # "expr" \/ f.at # 0 => f.at \in b .. p - 1 /\ Lev(t, f.at) = Lev(t, b)
        /\ f.kind # "expr" => f.at # 0
    BY FrameIs
  <1>2. Above(t, b, p + 1) /\ b \in 1 .. p + 1 /\ b < p + 1
    BY <1>1, AboveGrows
  <1>3. \A k \in b .. (p + 1) - 1 : k \in b .. p - 1 \/ k = p
    BY <1>1
  <1>4. f.kind = "expr" /\ f.at = 0 =>
          \A k \in b .. (p + 1) - 1 : Lev(t, k) = Lev(t, b) =>
             ~Comma(t, k) /\ (Binary(t, k) => \E m \in b .. k - 1 : Lev(t, m) = Lev(t, b) /\ Awaited(t, m))
    BY <1>3, Zenon DEF Frame
  <1>5. f.at # 0 => f.at \in 1 .. p - 1 /\ f.at \in 1 .. (p + 1) - 1
    BY <1>1
  <1>6. f.kind \notin Bracket /\ f.at # 0 /\ Within(t, f.at, p) => Within(t, f.at, p + 1)
    BY <1>5, WithinGrows, Zenon
  <1>7. {"expr", "prefix", "await"} \cap Bracket = {}
    BY DEF Bracket
  <1>8. f.kind = "expr" /\ f.at # 0 =>
          /\ f.lo = b /\ f.at \in 1 .. (p + 1) - 1 /\ Binary(t, f.at) /\ Lev(t, f.at) = Lev(t, b)
          /\ Starts(t, f.at, b) /\ Prio(t, f.at) >= f.min /\ Within(t, f.at, p + 1)
    BY <1>5, <1>6, <1>7, Zenon DEF Frame
  <1>9. /\ f.kind = "prefix" => f.at = b /\ b < p + 1 /\ Prefixed(t, b) /\ Within(t, b, p + 1)
        /\ f.kind = "await" => f.at = b /\ b < p + 1 /\ Awaited(t, b) /\ Within(t, b, p + 1)
    BY <1>1, <1>2, <1>6, <1>7, Zenon DEF Frame
  <1>10. ASSUME f.kind \in Bracket
         PROVE  /\ f.at \in b .. (p + 1) - 1
                /\ \A k \in f.at + 1 .. p + 1 : Lev(t, k) > Lev(t, f.at)
    <2>1. f.at \in b .. p - 1 /\ Lev(t, f.at) = Lev(t, b)
      BY <1>1, <1>7, <1>10, Zenon
    <2>2. \A k \in f.at + 1 .. p + 1 : k \in f.at + 1 .. p \/ k = p + 1
      BY <2>1
    <2>3. \A k \in f.at + 1 .. p : Lev(t, k) > Lev(t, f.at)
      BY <1>10 DEF Frame
    <2>4. f.at \in b .. (p + 1) - 1
      BY <2>1
    <2>5. \A k \in f.at + 1 .. p + 1 : Lev(t, k) > Lev(t, f.at)
      BY <1>10, <2>1, <2>2, <2>3
    <2>6. QED
      BY <2>4, <2>5
  <1>11. QED
    BY <1>2, <1>4, <1>8, <1>9, <1>10, Zenon DEF Frame

(* A token that is no operator, comma or closing bracket ends nothing.     *)
Quiet(t, p) == ~Binary(t, p) /\ ~Comma(t, p) /\ ~Closing(t, p)

LEMMA FrameQuiet ==
  ASSUME NEW t, NEW p \in Nat, p > 0, NEW f \in Calls, NEW b, Frame(t, p, f, b), Quiet(t, p)
  PROVE  Frame(t, p + 1, f, b)
  <1>1. Lev(t, p) \in Int /\ Lev(t, p + 1) >= Lev(t, p) /\ Lev(t, p + 1) \in Int
    BY LevAt DEF Quiet
  <1>2. b \in 1 .. p /\ Above(t, b, p) /\ (f.kind \in Bracket => f.at \in b .. p - 1 /\ Lev(t, f.at) = Lev(t, b))
    BY DEF Frame
  <1>3. Lev(t, p) >= Lev(t, b) /\ Lev(t, b) \in Int
    <2>1. p \in b .. p
      BY <1>2
    <2>2. QED
      BY <1>2, <2>1, LevAt DEF Above
  <1>4. f.kind \in Bracket => Lev(t, p) > Lev(t, b)
    <2>1. f.kind \in Bracket => p \in f.at + 1 .. p
      BY <1>2
    <2>2. f.kind \in Bracket => Lev(t, p) > Lev(t, f.at)
      BY <2>1 DEF Frame
    <2>3. QED
      BY <1>2, <2>2
  <1>5. \A i : ~Stop(t, i, p)
    BY DEF Stop, Quiet
  <1>6. Lev(t, p + 1) >= Lev(t, b)
    BY <1>1, <1>3
  <1>7. f.kind \in Bracket => Lev(t, p + 1) > Lev(t, b)
    BY <1>1, <1>3, <1>4
  <1>8. ~Comma(t, p) /\ ~Binary(t, p)
    BY DEF Quiet
  <1>9. QED
    BY <1>5, <1>6, <1>7, <1>8, FrameGrows, Zenon

LEMMA BodyGrows ==
  ASSUME NEW t, NEW p, NEW q, NEW s, NEW own, Body(t, p, s, own),
         \A n \in 1 .. Len(s) : Frame(t, q, s[n], own[n])
  PROVE  Body(t, q, s, own)
  BY Zenon DEF Body

LEMMA BodyQuiet ==
  ASSUME NEW t, NEW p \in Nat, p > 0, NEW s, NEW own, Body(t, p, s, own), Quiet(t, p)
  PROVE  Body(t, p + 1, s, own)
  <1>1. \A n \in 1 .. Len(s) : s[n] \in Calls /\ Frame(t, p, s[n], own[n])
    BY TopIs
  <1>2. \A n \in 1 .. Len(s) : Frame(t, p + 1, s[n], own[n])
    BY <1>1, FrameQuiet
  <1>3. QED
    BY <1>2, BodyGrows

Pushable(t, p, s, own, g, b) ==
  /\ Body(t, p, s, own) /\ g \in Calls /\ b \in Nat /\ Frame(t, p, g, b)
  /\ Sits(t, s[Len(s)], own[Len(s)], g, b) /\ Lev(t, b) = Floor(t, s[Len(s)], own[Len(s)])
  /\ \A n \in 1 .. Len(s) : Pair(t, s[n], own[n], g, b)
Pushed(t, p, s, own, g, b) ==
  /\ Body(t, p, Append(s, g), Append(own, b))
  /\ Append(s, g)[Len(Append(s, g))] = g /\ Append(own, b)[Len(Append(s, g))] = b
  /\ Len(Append(s, g)) = Len(s) + 1
  /\ \A n \in 1 .. Len(s) : Append(s, g)[n] = s[n] /\ Append(own, b)[n] = own[n]

(* A call on top of a stack it fits on leaves the calls below as they are. *)
LEMMA BodyPush ==
  ASSUME NEW t, NEW p \in Nat, p > 0, NEW s, NEW own, NEW g, NEW b, Pushable(t, p, s, own, g, b)
  PROVE  Pushed(t, p, s, own, g, b)
  <1> SUFFICES ASSUME Body(t, p, s, own), g \in Calls, b \in Nat, Frame(t, p, g, b),
                      Sits(t, s[Len(s)], own[Len(s)], g, b), Lev(t, b) = Floor(t, s[Len(s)], own[Len(s)]),
                      \A n \in 1 .. Len(s) : Pair(t, s[n], own[n], g, b)
               PROVE  /\ Body(t, p, Append(s, g), Append(own, b))
                      /\ Append(s, g)[Len(Append(s, g))] = g /\ Append(own, b)[Len(Append(s, g))] = b
                      /\ Len(Append(s, g)) = Len(s) + 1
                      /\ \A n \in 1 .. Len(s) : Append(s, g)[n] = s[n] /\ Append(own, b)[n] = own[n]
    BY Zenon DEF Pushable, Pushed
  <1> DEFINE S == Append(s, g)
             O == Append(own, b)
  <1>1. s \in Seq(Calls) /\ own \in Seq(Nat) /\ Len(own) = Len(s) /\ Len(s) \in Nat /\ Len(s) > 0
    <2>1. Len(s) \in Nat /\ Len(s) > 0
      BY TopIs
    <2>2. QED
      BY <2>1 DEF Body
  <1>2. S \in Seq(Calls) /\ S # <<>> /\ Len(S) = Len(s) + 1 /\ S[Len(s) + 1] = g /\ \A n \in 1 .. Len(s) : S[n] = s[n]
    BY <1>1
  <1>3. O \in Seq(Nat) /\ Len(O) = Len(own) + 1 /\ O[Len(own) + 1] = b /\ \A n \in 1 .. Len(own) : O[n] = own[n]
    BY <1>1
  <1> HIDE DEF S, O
  <1>4. O[Len(s) + 1] = b /\ \A n \in 1 .. Len(s) : O[n] = own[n]
    BY <1>1, <1>3, Zenon
  <1>5. 1 \in 1 .. Len(s)
    BY <1>1
  <1>6. S[1] = s[1] /\ O[1] = own[1]
    BY <1>2, <1>4, <1>5
  <1>7. \A n \in 1 .. Len(S) : n \in 1 .. Len(s) \/ n = Len(s) + 1
    BY <1>1, <1>2
  <1>8. \A n \in 1 .. Len(S) : Frame(t, p, S[n], O[n])
    <2>1. \A n \in 1 .. Len(s) : Frame(t, p, s[n], own[n])
      BY DEF Body
    <2>2. QED
      BY <1>2, <1>4, <1>7, <2>1, Zenon
  <1>9. ASSUME NEW n \in 2 .. Len(S)
        PROVE  Sits(t, S[n - 1], O[n - 1], S[n], O[n]) /\ Lev(t, O[n]) = Floor(t, S[n - 1], O[n - 1])
    <2>1. CASE n = Len(s) + 1
      <3>1. n - 1 = Len(s) /\ Len(s) \in 1 .. Len(s)
        BY <1>1, <2>1
      <3>2. S[n - 1] = s[Len(s)] /\ O[n - 1] = own[Len(s)] /\ S[n] = g /\ O[n] = b
        BY <1>2, <1>4, <2>1, <3>1
      <3>3. QED
        BY <3>2
    <2>2. CASE n \in 2 .. Len(s)
      <3>1. n - 1 \in 1 .. Len(s) /\ n \in 1 .. Len(s)
        BY <1>1, <2>2
      <3>2. S[n - 1] = s[n - 1] /\ O[n - 1] = own[n - 1] /\ S[n] = s[n] /\ O[n] = own[n]
        BY <1>2, <1>4, <3>1
      <3>3. Sits(t, s[n - 1], own[n - 1], s[n], own[n]) /\ Lev(t, own[n]) = Floor(t, s[n - 1], own[n - 1])
        BY <2>2 DEF Body
      <3>4. QED
        BY <3>2, <3>3
    <2>3. QED
      BY <1>1, <1>2, <2>1, <2>2
  <1>10. ASSUME NEW n \in 1 .. Len(S), NEW m \in n + 1 .. Len(S)
         PROVE  Pair(t, S[n], O[n], S[m], O[m])
    <2>1. n \in 1 .. Len(s)
      BY <1>1, <1>2
    <2>2. CASE m = Len(s) + 1
      <3>1. S[m] = g /\ O[m] = b /\ S[n] = s[n] /\ O[n] = own[n]
        BY <1>2, <1>4, <2>1, <2>2
      <3>2. QED
        BY <2>1, <3>1
    <2>3. CASE m \in n + 1 .. Len(s)
      <3>1. m \in 1 .. Len(s)
        BY <1>1, <2>3
      <3>2. S[m] = s[m] /\ O[m] = own[m] /\ S[n] = s[n] /\ O[n] = own[n]
        BY <1>2, <1>4, <2>1, <3>1
      <3>3. QED
        BY <2>1, <2>3, <3>2 DEF Body
    <2>4. QED
      BY <1>1, <1>2, <2>2, <2>3
  <1>11. Len(O) = Len(S)
    BY <1>1, <1>2, <1>3
  <1>12. s[1].kind = "expr" /\ s[1].min = 0 /\ own[1] = 1
    BY DEF Body
  <1>13. Body(t, p, S, O)
    BY <1>2, <1>3, <1>6, <1>8, <1>9, <1>10, <1>11, <1>12, Zenon DEF Body
  <1>14. QED
    BY <1>2, <1>4, <1>13, Zenon DEF S, O

BodyPops(t, p, s, own) ==
  /\ Body(t, p, FrontOf(s), FrontOf(own))
  /\ Len(FrontOf(s)) = Len(s) - 1 /\ Len(s) - 1 \in 1 .. Len(s)
  /\ \A n \in 1 .. Len(s) - 1 : FrontOf(s)[n] = s[n] /\ FrontOf(own)[n] = own[n]
  /\ Sits(t, s[Len(s) - 1], own[Len(s) - 1], s[Len(s)], own[Len(s)])
  /\ Lev(t, own[Len(s)]) = Floor(t, s[Len(s) - 1], own[Len(s) - 1])

(* The stack without its top is a stack.                                   *)
LEMMA BodyPop ==
  ASSUME NEW t, NEW p \in Nat, p > 0, NEW s, NEW own, Body(t, p, s, own), Len(s) > 1
  PROVE  BodyPops(t, p, s, own)
  <1> DEFINE S == FrontOf(s)
             O == FrontOf(own)
  <1>1. s \in Seq(Calls) /\ own \in Seq(Nat) /\ Len(own) = Len(s) /\ Len(s) \in Nat /\ own # <<>> /\ s # <<>>
    <2>1. Len(s) \in Nat /\ own # <<>>
      BY TopIs
    <2>2. QED
      BY <2>1 DEF Body
  <1>2. S \in Seq(Calls) /\ Len(S) = Len(s) - 1 /\ \A n \in 1 .. Len(s) - 1 : S[n] = s[n]
    BY <1>1, FrontIs, Zenon
  <1>3. O \in Seq(Nat) /\ Len(O) = Len(own) - 1 /\ \A n \in 1 .. Len(own) - 1 : O[n] = own[n]
    BY <1>1, FrontIs, Zenon
  <1> HIDE DEF S, O
  <1>4. \A n \in 1 .. Len(s) - 1 : O[n] = own[n]
    BY <1>1, <1>3, Zenon
  <1>5. S # <<>> /\ 1 \in 1 .. Len(s) - 1 /\ Len(O) = Len(S) /\ Len(s) - 1 \in 1 .. Len(s) /\ Len(s) \in 2 .. Len(s)
    BY <1>1, <1>2, <1>3
  <1>6. \A n \in 1 .. Len(S) : n \in 1 .. Len(s) - 1 /\ n \in 1 .. Len(s)
    BY <1>1, <1>2
  <1>7. \A n \in 1 .. Len(S) : Frame(t, p, S[n], O[n])
    <2>1. \A n \in 1 .. Len(s) : Frame(t, p, s[n], own[n])
      BY DEF Body
    <2>2. QED
      BY <1>2, <1>4, <1>6, <2>1, Zenon
  <1>8. ASSUME NEW n \in 2 .. Len(S)
        PROVE  Sits(t, S[n - 1], O[n - 1], S[n], O[n]) /\ Lev(t, O[n]) = Floor(t, S[n - 1], O[n - 1])
    <2>1. n - 1 \in 1 .. Len(s) - 1 /\ n \in 1 .. Len(s) - 1 /\ n \in 2 .. Len(s)
      BY <1>1, <1>2
    <2>2. S[n - 1] = s[n - 1] /\ O[n - 1] = own[n - 1] /\ S[n] = s[n] /\ O[n] = own[n]
      BY <1>2, <1>4, <2>1
    <2>3. Sits(t, s[n - 1], own[n - 1], s[n], own[n]) /\ Lev(t, own[n]) = Floor(t, s[n - 1], own[n - 1])
      BY <2>1 DEF Body
    <2>4. QED
      BY <2>2, <2>3
  <1>9. ASSUME NEW n \in 1 .. Len(S), NEW m \in n + 1 .. Len(S)
        PROVE  Pair(t, S[n], O[n], S[m], O[m])
    <2>1. m \in 1 .. Len(s) - 1 /\ n \in 1 .. Len(s) - 1 /\ n \in 1 .. Len(s) /\ m \in n + 1 .. Len(s)
      BY <1>1, <1>2
    <2>2. S[m] = s[m] /\ O[m] = own[m] /\ S[n] = s[n] /\ O[n] = own[n]
      BY <1>2, <1>4, <2>1
    <2>3. QED
      BY <2>1, <2>2 DEF Body
  <1>10. S[1] = s[1] /\ O[1] = own[1]
    BY <1>2, <1>4, <1>5
  <1>11. s[1].kind = "expr" /\ s[1].min = 0 /\ own[1] = 1
    BY DEF Body
  <1>12. Body(t, p, S, O)
    BY <1>2, <1>3, <1>5, <1>7, <1>8, <1>9, <1>10, <1>11, Zenon DEF Body
  <1>13. Sits(t, s[Len(s) - 1], own[Len(s) - 1], s[Len(s)], own[Len(s)]) /\ Lev(t, own[Len(s)]) = Floor(t, s[Len(s) - 1], own[Len(s) - 1])
    BY <1>5 DEF Body
  <1>14. QED
    BY <1>2, <1>4, <1>5, <1>12, <1>13, Zenon DEF S, O, BodyPops

-----------------------------------------------------------------------------
(* Places, awaits and the tree when a token is passed.                     *)

(* Every place is inside some bracket, or none.                            *)
LEMMA HoldsExists ==
  ASSUME NEW t, NEW p \in Nat, p > 0
  PROVE  \E o \in 0 .. p - 1 : Holds(t, o, p)
  <1> DEFINE S == {j \in 1 .. p - 1 : Opening(t, j) /\ Lev(t, p) = Lev(t, j) + 1}
  <1>1. CASE S = {}
    <2>1. Holds(t, 0, p)
      BY <1>1 DEF Holds
    <2>2. 0 \in 0 .. p - 1
      OBVIOUS
    <2>3. QED
      BY <2>1, <2>2
  <1>2. CASE S # {}
    <2>1. S \in SUBSET (1 .. p - 1) /\ p - 1 \in Nat
      OBVIOUS
    <2> DEFINE o == Greatest(S)
    <2> HIDE DEF S
    <2>2. o \in S /\ \A j \in S : j <= o
      BY <1>2, <2>1, GreatestIs
    <2> HIDE DEF o
    <2>3. o \in 1 .. p - 1 /\ Opening(t, o) /\ Lev(t, p) = Lev(t, o) + 1
      BY <2>2 DEF S
    <2>4. \A j \in o + 1 .. p - 1 : Opening(t, j) => Lev(t, p) # Lev(t, j) + 1
      <3>1. \A j \in o + 1 .. p - 1 : j \in 1 .. p - 1 /\ ~(j <= o)
        BY <2>3
      <3>2. QED
        BY <2>2, <3>1 DEF S
    <2>5. o \in 0 .. p - 1
      BY <2>3
    <2>6. QED
      BY <2>3, <2>4, <2>5 DEF Holds
  <1>3. QED
    BY <1>1, <1>2

(* One more token that has its place.                                      *)
LEMMA AllPlacedNext ==
  ASSUME NEW t, NEW p \in Nat, p > 0, AllPlaced(t, p), t[p] = "ref" => p < Len(t),
         \E o \in 0 .. p - 1 : Holds(t, o, p) /\ Place(t, p, o)
  PROVE  AllPlaced(t, p + 1)
  <1>1. \A i \in 1 .. (p + 1) - 1 : i \in 1 .. p - 1 \/ i = p
    OBVIOUS
  <1>2. QED
    BY <1>1, Zenon DEF AllPlaced

(* Some tokens fit whatever bracket they are in.                           *)
LEMMA PlacedAnywhere ==
  ASSUME NEW t, NEW p \in Nat, p > 0, AllPlaced(t, p), t[p] = "ref" => p < Len(t),
         \A o \in 0 .. p - 1 : Place(t, p, o)
  PROVE  AllPlaced(t, p + 1)
  BY HoldsExists, AllPlacedNext

(* What is taken behind an operand can be read as a part of the expression. *)
Taken(t, p, d) ==
  d \in After1 => Behind(t, p) /\ (t[p] \in Operators \cup Leads \/ Comma(t, p) \/ Closing(t, p))

(* One more token, as an await sees it.                                    *)
LEMMA WaitsGrow ==
  ASSUME NEW t, NEW p \in Nat, p > 0, NEW s, NEW d, NEW s2, NEW d2, Waits(t, p, s, d), Taken(t, p, d),
         \A n \in 1 .. Len(s) : s[n].kind = "await" => \E m \in 1 .. Len(s2) : s2[m].kind = "await" /\ s2[m].at = s[n].at,
         Awaited(t, p) => \E m \in 1 .. Len(s2) : s2[m].kind = "await" /\ s2[m].at = p
  PROVE  Waits(t, p + 1, s2, d2)
  <1> SUFFICES ASSUME NEW m \in 1 .. p, Awaited(t, m), Above(t, m, p + 1),
                      \A k \in m + 1 .. (p + 1) - 1 : Lev(t, k) = Lev(t, m) => ~Comma(t, k)
               PROVE  \E n \in 1 .. Len(s2) : s2[n].kind = "await" /\ s2[n].at = m
    <2>1. (p + 1) - 1 = p
      OBVIOUS
    <2>2. QED
      BY <2>1, Zenon DEF Waits
  <1>1. CASE m = p
    BY <1>1
  <1>2. CASE m # p
    <2>1. m \in 1 .. p - 1 /\ p \in m + 1 .. (p + 1) - 1 /\ p + 1 \in m .. p + 1 /\ \A k \in m .. p : k \in m .. p + 1
      BY <1>2
    <2>2. Above(t, m, p)
      BY <2>1 DEF Above
    <2>3. \A k \in m + 1 .. p - 1 : k \in m + 1 .. (p + 1) - 1
      OBVIOUS
    <2>4. \/ \E n \in 1 .. Len(s) : s[n].kind = "await" /\ s[n].at = m
          \/ Lev(t, m) = Lev(t, p) /\ d \in After1 /\ p <= Len(t) /\ t[p] \notin Operators \cup Leads
      BY <2>1, <2>2, <2>3, Zenon DEF Waits
    <2>5. Comma(t, p) => Lev(t, p) # Lev(t, m)
      BY <2>1
    <2>6. Closing(t, p) => Lev(t, p) # Lev(t, m)
      <3>1. Lev(t, p + 1) >= Lev(t, m)
        BY <2>1 DEF Above
      <3>2. m \in Nat /\ m > 0
        BY <2>1
      <3>3. Lev(t, m) \in Int
        BY <3>2, LevAt
      <3>4. QED
        BY <3>1, <3>3, LevAt
    <2>7. ~(Lev(t, m) = Lev(t, p) /\ d \in After1 /\ p <= Len(t) /\ t[p] \notin Operators \cup Leads)
      BY <2>5, <2>6, Zenon DEF Taken
    <2>8. PICK n \in 1 .. Len(s) : s[n].kind = "await" /\ s[n].at = m
      BY <2>4, <2>7
    <2>9. QED
      BY <2>8
  <1>3. QED
    BY <1>1, <1>2

LEMMA WaitsStay ==
  ASSUME NEW t, NEW p, NEW s, NEW d, NEW s2, NEW d2, Waits(t, p, s, d), d \in After1 => d2 \in After1,
         \A n \in 1 .. Len(s) : s[n].kind = "await" =>
            \/ \E m \in 1 .. Len(s2) : s2[m].kind = "await" /\ s2[m].at = s[n].at
            \/ Lev(t, s[n].at) = Lev(t, p) /\ d2 \in After1 /\ p <= Len(t) /\ t[p] \notin Operators \cup Leads
  PROVE  Waits(t, p, s2, d2)
  <1> SUFFICES ASSUME NEW m \in 1 .. p - 1, Awaited(t, m), Above(t, m, p),
                      \A k \in m + 1 .. p - 1 : Lev(t, k) = Lev(t, m) => ~Comma(t, k)
               PROVE  \/ \E n \in 1 .. Len(s2) : s2[n].kind = "await" /\ s2[n].at = m
                      \/ Lev(t, m) = Lev(t, p) /\ d2 \in After1 /\ p <= Len(t) /\ t[p] \notin Operators \cup Leads
    BY Zenon DEF Waits
  <1>1. \/ \E n \in 1 .. Len(s) : s[n].kind = "await" /\ s[n].at = m
        \/ Lev(t, m) = Lev(t, p) /\ d \in After1 /\ p <= Len(t) /\ t[p] \notin Operators \cup Leads
    BY Zenon DEF Waits
  <1>2. CASE Lev(t, m) = Lev(t, p) /\ d \in After1 /\ p <= Len(t) /\ t[p] \notin Operators \cup Leads
    BY <1>2, Zenon
  <1>3. ASSUME NEW n \in 1 .. Len(s), s[n].kind = "await", s[n].at = m
        PROVE  \/ \E k \in 1 .. Len(s2) : s2[k].kind = "await" /\ s2[k].at = m
               \/ Lev(t, m) = Lev(t, p) /\ d2 \in After1 /\ p <= Len(t) /\ t[p] \notin Operators \cup Leads
    BY <1>3
  <1>4. QED
    BY <1>1, <1>2, <1>3, Zenon

(* A node stays right when a token is passed that does not belong to it.   *)
LEMMA GoodGrows ==
  ASSUME NEW t, NEW p \in Nat, NEW q \in Nat, q >= p, p > 0, NEW nd, Good(t, p, nd),
         q > p /\ nd.hi = p - 1 /\ ~Postfixed(t, nd.at) => Stop(t, nd.at, p)
  PROVE  Good(t, q, nd)
  <1>1. nd.at \in 1 .. p - 1 /\ nd.hi \in nd.at .. p - 1 /\ Nodal(t, nd.at)
    BY DEF Good
  <1>2. nd.at \in 1 .. q - 1 /\ nd.hi \in nd.at .. q - 1
    BY <1>1
  <1>3. ASSUME ~Postfixed(t, nd.at), Reach(t, p, nd.at, nd.hi)
        PROVE  Reach(t, q, nd.at, nd.hi)
    <2>1. CASE nd.hi + 1 < p
      BY <1>2, <1>3, <2>1 DEF Reach
    <2>2. CASE nd.hi = p - 1
      <3>1. nd.hi + 1 = p
        BY <2>2
      <3>2. p < q => Stop(t, nd.at, nd.hi + 1)
        BY <1>3, <2>2, <3>1
      <3>3. QED
        BY <1>2, <1>3, <3>1, <3>2 DEF Reach
    <2>3. QED
      BY <1>1, <2>1, <2>2
  <1>4. QED
    BY <1>2, <1>3, Zenon DEF Good

(* A node whose end is here ends here, if more is taken.                   *)
LEMMA EndsHere ==
  ASSUME NEW t, NEW p, NEW s, NEW d, NEW tr, TreeSays(t, p, s, d, tr), Taken(t, p, d), NEW nd \in tr,
         nd.hi = p - 1, ~Postfixed(t, nd.at)
  PROVE  Stop(t, nd.at, p)
  <1>1. d \in After1 /\ Late(t, p, nd.at)
    BY DEF TreeSays
  <1>2. Behind(t, p) /\ (t[p] \in Operators \/ Comma(t, p) \/ Closing(t, p))
    BY <1>1, Zenon DEF Taken, Late
  <1>3. QED
    BY <1>1, <1>2, Zenon DEF Late, Stop, Binary

LEMMA TreeGrows ==
  ASSUME NEW t, NEW p \in Nat, p > 0, NEW q \in Nat, q > p, NEW s, NEW d, NEW tr, NEW s2, NEW d2, NEW new,
         TreeSays(t, p, s, d, tr), Taken(t, p, d),
         \A nd \in new : Good(t, q, nd) /\ (nd.hi = q - 1 /\ ~Postfixed(t, nd.at) => d2 \in After1 /\ Late(t, q, nd.at)),
         \A i \in 1 .. p - 1 : Asked(s, i) => Asked(s2, i) \/ \E nd \in new : nd.at = i,
         \A i \in p .. q - 1 : Nodal(t, i) => Asked(s2, i) \/ \E nd \in new : nd.at = i
  PROVE  TreeSays(t, q, s2, d2, tr \cup new)
  <1>1. ASSUME NEW nd \in tr
        PROVE  Good(t, q, nd) /\ nd.hi # q - 1
    <2>1. Good(t, p, nd)
      BY DEF TreeSays
    <2>2. nd.hi = p - 1 /\ ~Postfixed(t, nd.at) => Stop(t, nd.at, p)
      BY EndsHere, Zenon
    <2>3. Good(t, q, nd)
      BY <2>1, <2>2, GoodGrows
    <2>4. nd.at \in 1 .. p - 1 /\ nd.hi \in nd.at .. p - 1
      BY <2>1 DEF Good
    <2>5. nd.hi # q - 1
      BY <2>4
    <2>6. QED
      BY <2>3, <2>5
  <1>2. \A i \in 1 .. q - 1 : i \in 1 .. p - 1 \/ i \in p .. q - 1
    OBVIOUS
  <1>3. \A i \in 1 .. p - 1 : Nodal(t, i) => Asked(s, i) \/ \E nd \in tr : nd.at = i
    BY Zenon DEF TreeSays
  <1>4. \A i \in 1 .. q - 1 : Nodal(t, i) => Asked(s2, i) \/ \E nd \in tr \cup new : nd.at = i
    BY <1>2, <1>3, Zenon
  <1>5. QED
    BY <1>1, <1>4, Zenon DEF TreeSays

(* Nothing is passed: the same tree is right for another stack that asks   *)
(* for as much.                                                            *)
LEMMA TreeStays ==
  ASSUME NEW t, NEW p, NEW s, NEW d, NEW tr, NEW s2, NEW d2, NEW new,
         TreeSays(t, p, s, d, tr), d \in After1 => d2 \in After1,
         \A nd \in new : Good(t, p, nd) /\ (nd.hi = p - 1 /\ ~Postfixed(t, nd.at) => d2 \in After1 /\ Late(t, p, nd.at)),
         \A i \in 1 .. p - 1 : Asked(s, i) => Asked(s2, i) \/ \E nd \in new : nd.at = i
  PROVE  TreeSays(t, p, s2, d2, tr \cup new)
  BY Zenon DEF TreeSays

-----------------------------------------------------------------------------
(* Levels along the stack, and the calls that may be pushed.               *)

(* Where a frame begins is no deeper than where one above it does.         *)
LEMMA Lower ==
  ASSUME NEW t, NEW p \in Nat, p > 0, NEW s, NEW own, Body(t, p, s, own)
  PROVE  \A n \in 1 .. Len(s) : /\ Lev(t, own[n]) \in Int /\ Lev(t, own[Len(s)]) \in Int
                                /\ Lev(t, own[n]) <= Lev(t, own[Len(s)])
                                /\ own[n] <= own[Len(s)]
                                /\ n < Len(s) => s[n].at < own[Len(s)]
                                /\ s[n].at \in 0 .. p - 1
                                /\ s[n].kind # "expr" \/ s[n].at # 0 => Lev(t, s[n].at) = Lev(t, own[n])
  <1> SUFFICES ASSUME NEW n \in 1 .. Len(s)
               PROVE  /\ Lev(t, own[n]) \in Int /\ Lev(t, own[Len(s)]) \in Int
                      /\ Lev(t, own[n]) <= Lev(t, own[Len(s)])
                      /\ own[n] <= own[Len(s)]
                      /\ n < Len(s) => s[n].at < own[Len(s)]
                      /\ s[n].at \in 0 .. p - 1
                      /\ s[n].kind # "expr" \/ s[n].at # 0 => Lev(t, s[n].at) = Lev(t, own[n])
    OBVIOUS
  <1>1. /\ Len(s) \in 1 .. Len(s) /\ Len(s) \in Nat /\ s[n] \in Calls /\ own[n] \in Nat /\ Frame(t, p, s[n], own[n])
        /\ own[Len(s)] \in 1 .. p
    BY TopIs
  <1>2. own[n] \in 1 .. p /\ Above(t, own[n], p) /\ s[n].at \in 0 .. p - 1
        /\ (s[n].kind # "expr" \/ s[n].at # 0 => Lev(t, s[n].at) = Lev(t, own[n]))
    BY <1>1, FrameIs
  <1>3. Lev(t, own[n]) \in Int /\ Lev(t, own[Len(s)]) \in Int
    <2>1. own[n] \in Nat /\ own[n] > 0 /\ own[Len(s)] \in Nat /\ own[Len(s)] > 0
      BY <1>1, <1>2
    <2>2. QED
      BY <2>1, LevAt
  <1>4. CASE n = Len(s)
    BY <1>1, <1>2, <1>3, <1>4
  <1>5. CASE n # Len(s)
    <2>1. n \in 1 .. Len(s) - 1
      BY <1>1, <1>5
    <2>2. own[n] <= own[Len(s)] /\ s[n].at < own[Len(s)]
      BY <2>1, TopIs DEF Pair
    <2>3. own[Len(s)] \in own[n] .. p
      BY <1>1, <1>2, <2>2
    <2>4. Lev(t, own[Len(s)]) >= Lev(t, own[n])
      BY <1>2, <2>3 DEF Above
    <2>5. QED
      BY <1>2, <1>3, <2>2, <2>4
  <1>6. QED
    BY <1>4, <1>5

(* The bracket a place is in.                                              *)
LEMMA InnerHolds ==
  ASSUME NEW t, NEW p \in Nat, p > 0, NEW f \in Calls, NEW b, Frame(t, p, f, b), f.kind \in Bracket,
         Lev(t, p) = Floor(t, f, b)
  PROVE  /\ Holds(t, f.at, p) /\ f.at \in 1 .. p - 1 /\ f.at # 0 /\ f.at \in 0 .. p - 1
         /\ t[f.at] = (IF f.kind = "index" THEN "[" ELSE "(")
         /\ Postfixed(t, f.at) <=> f.kind # "group"
  <1>1. /\ f.at \in b .. p - 1 /\ b \in 1 .. p
        /\ t[f.at] = (IF f.kind = "index" THEN "[" ELSE "(")
        /\ \A k \in f.at + 1 .. p : Lev(t, k) > Lev(t, f.at)
        /\ Lev(t, f.at) = Lev(t, b)
    BY DEF Frame
  <1>2. f.at \in 1 .. p - 1 /\ f.at # 0 /\ f.at \in 0 .. p - 1 /\ f.at \in Nat /\ f.at > 0
    BY <1>1
  <1>3. Opening(t, f.at)
    BY <1>1, Zenon DEF Opening
  <1>4. Lev(t, p) = Lev(t, f.at) + 1 /\ Lev(t, f.at) \in Int
    BY <1>1, <1>2, LevAt DEF Floor
  <1>5. \A j \in f.at + 1 .. p - 1 : Opening(t, j) => Lev(t, p) # Lev(t, j) + 1
    <2>1. ASSUME NEW j \in f.at + 1 .. p - 1
          PROVE  Lev(t, p) # Lev(t, j) + 1
      <3>1. j \in f.at + 1 .. p /\ j \in Nat /\ j > 0
        BY <1>2
      <3>2. Lev(t, j) > Lev(t, f.at) /\ Lev(t, j) \in Int
        BY <1>1, <3>1, LevAt
      <3>3. QED
        BY <1>4, <3>2
    <2>2. QED
      BY <2>1
  <1>6. f.kind \in {"group", "args", "index"}
    BY DEF Bracket
  <1>7. Postfixed(t, f.at) <=> f.kind # "group"
    <2>1. f.kind = "group" => ~Behind(t, f.at)
      BY DEF Frame
    <2>2. f.kind \in {"args", "index"} => Behind(t, f.at)
      BY DEF Frame
    <2>3. t[f.at] \in {".", "(", "["}
      BY <1>1, Zenon
    <2>4. QED
      BY <1>6, <2>1, <2>2, <2>3, Zenon DEF Postfixed
  <1>8. QED
    BY <1>1, <1>2, <1>3, <1>4, <1>5, <1>7 DEF Holds

(* Where the operand of the top frame begins, and what stands before it.   *)
Slot(f, b) == IF f.kind = "expr" THEN b ELSE b + 1
Primary(f) == f.kind = "prefix" \/ (f.kind = "expr" /\ f.at = 0)

LEMMA SlotIs ==
  ASSUME NEW t, NEW p \in Nat, p > 0, NEW f \in Calls, NEW b, Frame(t, p, f, b), Primary(f)
  PROVE  /\ Slot(f, b) \in 1 .. p /\ Lev(t, Slot(f, b)) = Lev(t, b) /\ Floor(t, f, b) = Lev(t, b) /\ b <= Slot(f, b)
         /\ f.at < Slot(f, b)
         /\ Slot(f, b) > 1 => \/ Opening(t, Slot(f, b) - 1) /\ Lev(t, Slot(f, b)) = Lev(t, Slot(f, b) - 1) + 1
                              \/ /\ Lev(t, Slot(f, b) - 1) = Lev(t, Slot(f, b))
                                 /\ \/ Binary(t, Slot(f, b) - 1) \/ Prefixed(t, Slot(f, b) - 1)
                                    \/ Comma(t, Slot(f, b) - 1) \/ Awaited(t, Slot(f, b) - 1)
  <1>1. b \in 1 .. p /\ b \in Nat
    BY FrameIs
  <1>2. Floor(t, f, b) = Lev(t, b)
    BY DEF Floor, Bracket, Primary
  <1>3. CASE f.kind = "expr"
    <2>1. f.at = 0 /\ Slot(f, b) = b
      BY <1>3 DEF Slot, Primary
    <2>2. b > 1 => \/ Opening(t, b - 1)
                   \/ /\ Lev(t, b - 1) = Lev(t, b)
                      /\ Comma(t, b - 1) \/ Awaited(t, b - 1) \/ Binary(t, b - 1)
      BY <1>3, Zenon DEF Frame, Begins
    <2>3. b > 1 /\ Opening(t, b - 1) => Lev(t, b) = Lev(t, b - 1) + 1
      <3>1. b > 1 => b - 1 \in Nat /\ b - 1 > 0 /\ (b - 1) + 1 = b
        BY <1>1
      <3>2. QED
        BY <3>1, LevAt
    <2>4. f.at < b
      BY <1>1, <2>1
    <2>5. QED
      BY <1>1, <1>2, <2>1, <2>2, <2>3, <2>4
  <1>4. CASE f.kind = "prefix"
    <2>1. Slot(f, b) = b + 1 /\ f.at = b /\ b < p /\ Prefixed(t, b)
      BY <1>4 DEF Slot, Frame
    <2>2. Lev(t, b + 1) = Lev(t, b)
      BY <1>1, <2>1, Apart, LevAt
    <2>3. (b + 1) - 1 = b /\ b + 1 \in 1 .. p /\ b <= b + 1 /\ b < b + 1
      BY <1>1, <2>1
    <2>4. QED
      BY <1>2, <2>1, <2>2, <2>3
  <1>5. QED
    BY <1>3, <1>4 DEF Primary

(* The call for a prefix, a bracket or a postfix on the operand's frame.   *)
LEMMA PrimaryPush ==
  ASSUME NEW t, NEW p \in Nat, p > 0, NEW s, NEW own, Body(t, p, s, own), Primary(s[Len(s)]),
         NEW g \in Calls, g.kind # "expr", Frame(t, p, g, Slot(s[Len(s)], own[Len(s)]))
  PROVE  Pushed(t, p, s, own, g, Slot(s[Len(s)], own[Len(s)]))
  <1> DEFINE f == s[Len(s)]
             b == own[Len(s)]
             l == Slot(f, b)
  <1>1. f \in Calls /\ Frame(t, p, f, b) /\ Len(s) \in Nat /\ b \in Nat
    BY TopIs
  <1>2. l \in 1 .. p /\ l \in Nat /\ Lev(t, l) = Floor(t, f, b) /\ b <= l /\ f.at < l
    <2>1. l \in 1 .. p /\ Lev(t, l) = Lev(t, b) /\ Floor(t, f, b) = Lev(t, b) /\ b <= l /\ f.at < l
      BY <1>1, SlotIs
    <2>2. l \in Nat
      BY <2>1
    <2>3. QED
      BY <2>1, <2>2
  <1>3. Sits(t, f, b, g, l)
    BY DEF Sits, Slot, Primary
  <1>4. ASSUME NEW n \in 1 .. Len(s)
        PROVE  Pair(t, s[n], own[n], g, l)
    <2>1. own[n] <= b /\ (n < Len(s) => s[n].at < b) /\ s[n].at \in Nat /\ own[n] \in Nat
      <3>1. own[n] <= b /\ (n < Len(s) => s[n].at < b) /\ s[n].at \in 0 .. p - 1 /\ own[n] \in Nat
        BY Lower, TopIs
      <3>2. QED
        BY <3>1
    <2>2. own[n] <= l
      BY <1>1, <1>2, <2>1
    <2>3. s[n].at < l
      <3>1. CASE n = Len(s)
        BY <1>2, <3>1
      <3>2. CASE n # Len(s)
        BY <1>1, <1>2, <2>1, <3>2
      <3>3. QED
        BY <3>1, <3>2
    <2>4. QED
      BY <2>2, <2>3 DEF Pair
  <1> HIDE DEF f, b, l
  <1>5. Frame(t, p, g, l) /\ Sits(t, s[Len(s)], own[Len(s)], g, l) /\ Lev(t, l) = Floor(t, s[Len(s)], own[Len(s)])
    BY <1>2, <1>3 DEF f, b, l
  <1>6. Pushable(t, p, s, own, g, l)
    BY <1>2, <1>4, <1>5, Zenon DEF Pushable
  <1>7. QED
    BY <1>6, BodyPush, Zenon DEF l, f, b

(* The call for an expression inside a bracket or behind await.            *)
LEMMA OpenExpr ==
  ASSUME NEW t, NEW p \in Nat, p > 0, NEW s, NEW own, Body(t, p, s, own),
         Lev(t, p) = Floor(t, s[Len(s)], own[Len(s)]), Begins(t, p, 0),
         s[Len(s)].kind \in Bracket \/ (s[Len(s)].kind = "await" /\ s[Len(s)].at = p - 1)
  PROVE  Pushed(t, p, s, own, Expr(0), p)
  <1> DEFINE f == s[Len(s)]
             b == own[Len(s)]
             g == Expr(0)
  <1>1. f \in Calls /\ Frame(t, p, f, b) /\ Len(s) \in Nat /\ Len(s) \in 1 .. Len(s)
    BY TopIs
  <1>2. g \in Calls /\ g.kind = "expr" /\ g.at = 0 /\ g.min = 0
    BY DEF Calls, Expr
  <1>3. /\ b \in 1 .. p /\ b \in Nat /\ f.at \in b .. p - 1 /\ Lev(t, f.at) = Lev(t, b) /\ f.kind # "expr"
    BY <1>1, FrameIs DEF Bracket
  <1>4. Lev(t, p) \in Int /\ Lev(t, b) \in Int
    BY <1>3, LevAt
  <1>5. f.kind \in Bracket => Lev(t, b) < Lev(t, p)
    BY <1>4 DEF Floor
  <1>6. f.kind = "await" => Lev(t, p) = Lev(t, b) /\ f.at = p - 1 /\ b = p - 1 /\ Awaited(t, b) /\ f.kind \notin Bracket
    <2>1. f.kind = "await" => f.kind \notin Bracket /\ f.at = b /\ Awaited(t, b)
      BY <1>1 DEF Bracket, Frame
    <2>2. QED
      BY <2>1 DEF Floor, Bracket
  <1>7. f.kind \in Bracket \/ f.kind = "await"
    OBVIOUS
  <1>8. Frame(t, p, g, p)
    <2>1. p \in 1 .. p /\ Above(t, p, p)
      BY <1>4 DEF Above
    <2>2. \A k \in p .. p - 1 : FALSE
      OBVIOUS
    <2>3. g.kind \notin Bracket
      BY <1>2 DEF Bracket
    <2>4. QED
      BY <1>2, <2>1, <2>2, <2>3, Zenon DEF Frame
  <1>9. Sits(t, f, b, g, p)
    BY <1>2, <1>7 DEF Sits
  <1> HIDE DEF f, b, g
  <1>10. ASSUME NEW n \in 1 .. Len(s)
         PROVE  Pair(t, s[n], own[n], g, p)
    <2>1. /\ Lev(t, own[n]) \in Int /\ Lev(t, own[n]) <= Lev(t, b)
          /\ own[n] <= b /\ (n < Len(s) => s[n].at < b) /\ s[n].at \in 0 .. p - 1 /\ own[n] \in Nat
          /\ s[n].kind # "expr" \/ s[n].at # 0 => Lev(t, s[n].at) = Lev(t, own[n])
      BY Lower, TopIs DEF b
    <2>2. own[n] <= p /\ s[n].at < p
      BY <1>3, <2>1
    <2>3. CASE f.kind \in Bracket
      <3>1. Lev(t, own[n]) < Lev(t, p)
        BY <1>4, <1>5, <2>1, <2>3
      <3>2. s[n].at # 0 => Lev(t, s[n].at) < Lev(t, p)
        BY <2>1, <3>1
      <3>3. QED
        BY <2>2, <3>1, <3>2 DEF Pair
    <2>4. CASE f.kind = "await"
      <3>1. b \in own[n] .. p - 1 /\ Lev(t, own[n]) <= Lev(t, p)
        BY <1>3, <1>6, <2>1, <2>4
      <3>2. \/ Lev(t, own[n]) < Lev(t, p)
            \/ \E m \in own[n] .. p - 1 : Lev(t, m) = Lev(t, own[n]) /\ Awaited(t, m)
        <4>1. Lev(t, own[n]) = Lev(t, p) => Lev(t, b) = Lev(t, own[n]) /\ Awaited(t, b)
          BY <1>6, <2>4
        <4>2. QED
          BY <1>4, <2>1, <3>1, <4>1
      <3>3. CASE n = Len(s)
        <4>1. s[n].kind = "await"
          BY <2>4, <3>3 DEF f
        <4>2. QED
          BY <2>2, <4>1 DEF Pair
      <3>4. CASE n # Len(s)
        <4>1. s[n].at < b
          BY <1>1, <2>1, <3>4
        <4>2. b \in s[n].at + 1 .. p - 1
          BY <1>6, <2>1, <2>4, <4>1
        <4>3. s[n].at # 0 /\ Lev(t, own[n]) = Lev(t, p) => ~Through(t, s[n].at, p)
          BY <1>6, <2>1, <2>4, <4>2 DEF Through
        <4>4. s[n].at # 0 => Lev(t, s[n].at) < Lev(t, p) \/ ~Through(t, s[n].at, p)
          BY <1>4, <2>1, <3>1, <4>3
        <4>5. QED
          BY <2>2, <3>2, <4>4 DEF Pair
      <3>5. QED
        BY <3>3, <3>4
    <2>5. QED
      BY <1>7, <2>3, <2>4
  <1>11. Sits(t, s[Len(s)], own[Len(s)], g, p) /\ Lev(t, p) = Floor(t, s[Len(s)], own[Len(s)])
    BY <1>9 DEF f, b
  <1>12. Pushable(t, p, s, own, g, p)
    BY <1>2, <1>8, <1>10, <1>11, Zenon DEF Pushable
  <1>13. QED
    BY <1>12, BodyPush, Zenon DEF g

(* Behind an operand where an operator follows, every await is open.       *)
LEMMA NoAwaits ==
  ASSUME NEW t, NEW p \in Nat, p > 0, NEW s, NEW own, NEW d, Body(t, p, s, own), Waits(t, p, s, d),
         t[p] \in Operators,
         NEW m \in own[Len(s)] .. p - 1, Lev(t, own[Len(s)]) = Lev(t, p), Lev(t, m) = Lev(t, p),
         s[Len(s)].kind = "await" => m # s[Len(s)].at,
         \A k \in m + 1 .. p - 1 : Lev(t, k) = Lev(t, m) => ~Comma(t, k)
  PROVE  ~Awaited(t, m)
  <1> SUFFICES ASSUME Awaited(t, m) PROVE FALSE
    OBVIOUS
  <1>1. Frame(t, p, s[Len(s)], own[Len(s)]) /\ own[Len(s)] \in 1 .. p /\ Len(s) \in Nat
    BY TopIs
  <1>2. Above(t, own[Len(s)], p)
    BY <1>1 DEF Frame
  <1>3. m \in 1 .. p - 1 /\ \A k \in m .. p : k \in own[Len(s)] .. p
    BY <1>1
  <1>4. Above(t, m, p)
    BY <1>2, <1>3 DEF Above
  <1>5. PICK n \in 1 .. Len(s) : s[n].kind = "await" /\ s[n].at = m
    BY <1>3, <1>4, Zenon DEF Waits
  <1>6. CASE n = Len(s)
    BY <1>5, <1>6
  <1>7. CASE n # Len(s)
    <2>0. n < Len(s)
      BY <1>1, <1>7
    <2>4. \A k \in 1 .. Len(s) : k < Len(s) => s[k].at < own[Len(s)]
      BY Lower, Zenon
    <2>1. s[n].at < own[Len(s)]
      BY <2>0, <2>4
    <2>2. QED
      BY <1>1, <1>5, <2>1
  <1>8. QED
    BY <1>6, <1>7

-----------------------------------------------------------------------------
(* An operand: names, prefixes, groups and awaits.                         *)

Stood(t, p, s, own, d, v, tr) ==
  /\ Body(t, p, s, own)
  /\ Lev(t, p) = Floor(t, s[Len(s)], own[Len(s)])
  /\ Top1(t, p, s[Len(s)], own[Len(s)], d, v)
  /\ Waits(t, p, s, d)
  /\ AllPlaced(t, p)
  /\ TreeSays(t, p, s, d, tr)

(* The words there are.                                                    *)
LEMMA WordsApart ==
  /\ \A w \in Operators \cup Unary \cup {"await", "(", "[", ","} : w \notin {"id", ")", "]", ".", "eof"}
  /\ \A w \in Unary : w \notin {"await", "(", "[", ",", "."}
  /\ "id" \notin Operators \cup Unary \cup {"await", "(", "[", ",", ".", ")", "]", "eof"}
  /\ \A w \in Operators : w \notin {"await", "(", "[", ",", ".", "ref"}
  BY DEF Operators, Unary

(* Where the operand begins.                                               *)
LEMMA OperandAt ==
  ASSUME NEW t, NEW p \in Nat, p > 0, NEW s, NEW own, NEW v, NEW tr, Stood(t, p, s, own, "operand", v, tr)
  PROVE  /\ Slot(s[Len(s)], own[Len(s)]) = p /\ Primary(s[Len(s)]) /\ ~Behind(t, p)
         /\ p > 1 => \/ Opening(t, p - 1) /\ Lev(t, p) = Lev(t, p - 1) + 1
                     \/ /\ Lev(t, p - 1) = Lev(t, p)
                        /\ Binary(t, p - 1) \/ Prefixed(t, p - 1) \/ Comma(t, p - 1) \/ Awaited(t, p - 1)
  <1> DEFINE f == s[Len(s)]
             b == own[Len(s)]
  <1>1. f \in Calls /\ Frame(t, p, f, b)
    BY TopIs DEF Stood
  <1>2. Primary(f) /\ ~Behind(t, p) /\ b = (IF f.kind = "expr" THEN p ELSE p - 1)
    BY Zenon DEF Stood, Top1, Primary
  <1>3. Slot(f, b) = p
    BY <1>2 DEF Slot
  <1> HIDE DEF f, b
  <1>4. p > 1 => \/ Opening(t, p - 1) /\ Lev(t, p) = Lev(t, p - 1) + 1
                 \/ /\ Lev(t, p - 1) = Lev(t, p)
                    /\ Binary(t, p - 1) \/ Prefixed(t, p - 1) \/ Comma(t, p - 1) \/ Awaited(t, p - 1)
    <2>1. Slot(f, b) > 1 => \/ Opening(t, Slot(f, b) - 1) /\ Lev(t, Slot(f, b)) = Lev(t, Slot(f, b) - 1) + 1
                            \/ /\ Lev(t, Slot(f, b) - 1) = Lev(t, Slot(f, b))
                               /\ \/ Binary(t, Slot(f, b) - 1) \/ Prefixed(t, Slot(f, b) - 1)
                                  \/ Comma(t, Slot(f, b) - 1) \/ Awaited(t, Slot(f, b) - 1)
      BY <1>1, <1>2, SlotIs, Zenon
    <2>2. QED
      BY <1>3, <2>1
  <1>5. QED
    BY <1>2, <1>3, <1>4 DEF f, b

(* The tree when one more token is read.                                   *)
LEMMA TreeNext ==
  ASSUME NEW t, NEW p \in Nat, p > 0, NEW s, NEW d, NEW tr, NEW s2, NEW d2, NEW new,
         TreeSays(t, p, s, d, tr), Taken(t, p, d),
         \A nd \in new : Good(t, p + 1, nd) /\ (nd.hi = p => Postfixed(t, nd.at)),
         \A i \in 1 .. p - 1 : Asked(s, i) => Asked(s2, i) \/ \E nd \in new : nd.at = i,
         Nodal(t, p) => Asked(s2, p)
  PROVE  TreeSays(t, p + 1, s2, d2, tr \cup new)
  <1>1. p + 1 \in Nat /\ p + 1 > p /\ (p + 1) - 1 = p /\ \A i \in p .. p : i = p
    OBVIOUS
  <1> DEFINE q == p + 1
  <1> HIDE DEF q
  <1>2. q \in Nat /\ q > p /\ q - 1 = p
    BY <1>1 DEF q
  <1>3. \A nd \in new : Good(t, q, nd) /\ (nd.hi = q - 1 /\ ~Postfixed(t, nd.at) => d2 \in After1 /\ Late(t, q, nd.at))
    BY <1>2 DEF q
  <1>4. \A i \in p .. q - 1 : Nodal(t, i) => Asked(s2, i) \/ \E nd \in new : nd.at = i
    BY <1>1, <1>2
  <1>5. TreeSays(t, q, s2, d2, tr \cup new)
    BY <1>2, <1>3, <1>4, TreeGrows
  <1>6. QED
    BY <1>5 DEF q

LEMMA TreeNextBare ==
  ASSUME NEW t, NEW p \in Nat, p > 0, NEW s, NEW d, NEW tr, NEW s2, NEW d2,
         TreeSays(t, p, s, d, tr), Taken(t, p, d),
         \A i \in 1 .. p - 1 : Asked(s, i) => Asked(s2, i),
         Nodal(t, p) => Asked(s2, p)
  PROVE  TreeSays(t, p + 1, s2, d2, tr)
  <1> DEFINE new == {}
  <1>1. tr \cup new = tr /\ \A nd \in new : FALSE
    OBVIOUS
  <1> HIDE DEF new
  <1>2. \A nd \in new : Good(t, p + 1, nd) /\ (nd.hi = p => Postfixed(t, nd.at))
    BY <1>1
  <1>3. TreeSays(t, p + 1, s2, d2, tr \cup new)
    BY <1>2, TreeNext
  <1>4. QED
    BY <1>1, <1>3

(* Name, of an identifier: an operand.                                     *)
LEMMA NameGoes ==
  ASSUME NEW t, NEW p \in Nat, p > 0, NEW s, NEW own, NEW v, NEW tr, Stood(t, p, s, own, "operand", v, tr),
         t[p] = "id"
  PROVE  Stood(t, p + 1, s, own, "postfix", Span(p, p), tr)
  <1> DEFINE f == s[Len(s)]
             b == own[Len(s)]
             V == Span(p, p)
  <1>1. /\ Body(t, p, s, own) /\ Lev(t, p) = Floor(t, f, b) /\ Top1(t, p, f, b, "operand", v)
        /\ Waits(t, p, s, "operand") /\ AllPlaced(t, p) /\ TreeSays(t, p, s, "operand", tr)
    BY Zenon DEF Stood
  <1>2. Slot(f, b) = p /\ Primary(f) /\ ~Behind(t, p)
    BY OperandAt
  <1>3. Quiet(t, p) /\ ~Opening(t, p) /\ ~Prefixed(t, p) /\ ~Awaited(t, p) /\ ~Postfixed(t, p) /\ ~Nodal(t, p) /\ t[p] # "ref"
    BY Zenon, WordsApart DEF Quiet, Binary, Comma, Closing, Opening, Prefixed, Awaited, Postfixed, Nodal
  <1>4. Lev(t, p + 1) = Lev(t, p) /\ Lev(t, p) \in Int
    BY <1>3, LevAt DEF Quiet
  <1>5. Body(t, p + 1, s, own)
    BY <1>1, <1>3, BodyQuiet, Zenon
  <1>6. Lev(t, p + 1) = Floor(t, f, b)
    BY <1>1, <1>4
  <1>7. V.lo = p /\ V.hi = p
    BY DEF Span
  <1>8. Behind(t, p + 1)
    BY Parts, Zenon
  <1>9. Pure(t, p, p + 1)
    <2>1. p \in 1 .. (p + 1) - 1 /\ (\A k \in p .. (p + 1) - 1 : k = p)
      OBVIOUS
    <2>2. p > 1 => \/ Opening(t, p - 1) /\ Lev(t, p) = Lev(t, p - 1) + 1
                   \/ /\ Lev(t, p - 1) = Lev(t, p)
                      /\ Binary(t, p - 1) \/ Prefixed(t, p - 1) \/ Comma(t, p - 1) \/ Awaited(t, p - 1)
      BY OperandAt, Zenon
    <2>3. QED
      BY <1>3, <1>4, <2>1, <2>2 DEF Pure, Quiet
  <1> HIDE DEF f, b, V
  <1>10. Top1(t, p + 1, f, b, "postfix", V)
    <2>1. /\ (p + 1) - 1 = p
          /\ f.kind = "expr" /\ f.at = 0 => b = p
          /\ f.kind = "prefix" => b + 1 = p
      BY <1>2 DEF Slot
    <2>2. f.kind = "prefix" \/ (f.kind = "expr" /\ f.at = 0)
      BY <1>2 DEF Primary
    <2>3. "postfix" \notin {"args", "operand", "back"}
      OBVIOUS
    <2>4. Pure(t, V.lo, p + 1)
      BY <1>7, <1>9
    <2>5. QED
      BY <1>7, <1>8, <2>1, <2>2, <2>3, <2>4, Zenon DEF Top1
  <1>11. Waits(t, p + 1, s, "postfix")
    <2>1. Taken(t, p, "operand")
      BY DEF Taken, After1
    <2>2. QED
      BY <1>1, <1>3, <2>1, WaitsGrow
  <1>12. AllPlaced(t, p + 1)
    <2>1. \A o \in 0 .. p - 1 : Place(t, p, o)
      BY <1>2 DEF Place
    <2>2. QED
      BY <1>1, <1>3, <2>1, PlacedAnywhere, Zenon
  <1>13. TreeSays(t, p + 1, s, "postfix", tr)
    <2>1. Taken(t, p, "operand")
      BY DEF Taken, After1
    <2>2. QED
      BY <1>1, <1>3, <2>1, TreeNextBare
  <1>14. QED
    BY <1>5, <1>6, <1>10, <1>11, <1>12, <1>13, Zenon DEF Stood, f, b, V

(* A pushed call keeps what the calls below it ask for and wait for.       *)
Keeps(s, S) ==
  /\ \A i : Asked(s, i) => Asked(S, i)
  /\ \A n \in 1 .. Len(s) : s[n].kind = "await" => \E m \in 1 .. Len(S) : S[m].kind = "await" /\ S[m].at = s[n].at

Keeping(s, S, g) ==
  /\ Keeps(s, S)
  /\ g.kind # "group" => Asked(S, g.at)
  /\ g.kind = "await" => \E m \in 1 .. Len(S) : S[m].kind = "await" /\ S[m].at = g.at

LEMMA PushKeeps ==
  ASSUME NEW t, NEW p, NEW s, NEW own, NEW g, NEW b, Pushed(t, p, s, own, g, b), Len(s) \in Nat
  PROVE  Keeping(s, Append(s, g), g)
  <1> DEFINE S == Append(s, g)
  <1>1. S[Len(S)] = g /\ Len(S) = Len(s) + 1 /\ \A n \in 1 .. Len(s) : S[n] = s[n]
    BY DEF Pushed
  <1> HIDE DEF S
  <1>2. (\A n \in 1 .. Len(s) : n \in 1 .. Len(S)) /\ Len(S) \in 1 .. Len(S)
    BY <1>1
  <1>3. \A i : Asked(s, i) => Asked(S, i)
    BY <1>1, <1>2 DEF Asked
  <1>4. \A n \in 1 .. Len(s) : s[n].kind = "await" => \E m \in 1 .. Len(S) : S[m].kind = "await" /\ S[m].at = s[n].at
    BY <1>1, <1>2
  <1>5. /\ g.kind # "group" => Asked(S, g.at)
        /\ g.kind = "await" => \E m \in 1 .. Len(S) : S[m].kind = "await" /\ S[m].at = g.at
    BY <1>1, <1>2 DEF Asked
  <1>6. QED
    BY <1>3, <1>4, <1>5, Zenon DEF S, Keeps, Keeping

LEMMA KeepsBoth ==
  ASSUME NEW s, NEW S, NEW T, Keeps(s, S), Keeps(S, T)
  PROVE  Keeps(s, T)
  <1>1. \A i : Asked(s, i) => Asked(T, i)
    BY DEF Keeps
  <1>2. ASSUME NEW n \in 1 .. Len(s), s[n].kind = "await"
        PROVE  \E m \in 1 .. Len(T) : T[m].kind = "await" /\ T[m].at = s[n].at
    <2>1. PICK m \in 1 .. Len(S) : S[m].kind = "await" /\ S[m].at = s[n].at
      BY <1>2 DEF Keeps
    <2>2. PICK k \in 1 .. Len(T) : T[k].kind = "await" /\ T[k].at = S[m].at
      BY <2>1 DEF Keeps
    <2>3. QED
      BY <2>1, <2>2
  <1>3. QED
    BY <1>1, <1>2 DEF Keeps

(* A prefix, an await or a group, where an operand should be.              *)
KindOf(w) == IF w = "(" THEN "group" ELSE IF w = "await" THEN "await" ELSE "prefix"

(* A prefix, a group or an await on an expression that has no operand yet. *)
LEMMA OperandPush ==
  ASSUME NEW t, NEW p \in Nat, p > 0, NEW s, NEW own, NEW v, NEW tr, Stood(t, p, s, own, "operand", v, tr),
         t[p] \in Unary \cup {"await", "("}, ~IsType(t, p), t[p] = "ref" => p < Len(t)
  PROVE  /\ Pushed(t, p + 1, s, own, Call(KindOf(t[p]), p, p), p)
         /\ ~Behind(t, p) /\ Quiet(t, p) /\ AllPlaced(t, p + 1)
         /\ Waits(t, p + 1, Append(s, Call(KindOf(t[p]), p, p)), "operand")
         /\ TreeSays(t, p + 1, Append(s, Call(KindOf(t[p]), p, p)), "operand", tr)
         /\ Call(KindOf(t[p]), p, p) \in Calls
         /\ Lev(t, p) \in Int /\ Lev(t, p + 1) = (IF t[p] = "(" THEN Lev(t, p) + 1 ELSE Lev(t, p))
  <1> DEFINE f == s[Len(s)]
             b == own[Len(s)]
             k == KindOf(t[p])
             g == Call(k, p, p)
             S == Append(s, g)
  <1>1. /\ Body(t, p, s, own) /\ Lev(t, p) = Floor(t, f, b) /\ Top1(t, p, f, b, "operand", v)
        /\ Waits(t, p, s, "operand") /\ AllPlaced(t, p) /\ TreeSays(t, p, s, "operand", tr)
    BY Zenon DEF Stood
  <1>2. Slot(f, b) = p /\ Primary(f) /\ ~Behind(t, p)
    BY OperandAt
  <1>3. k \in {"prefix", "await", "group"} /\ (k = "group" <=> t[p] = "(") /\ (k = "await" <=> t[p] = "await")
        /\ (k = "prefix" <=> t[p] \in Unary)
    BY WordsApart, Zenon DEF KindOf
  <1>4. g = [kind |-> k, at |-> p, lo |-> p, min |-> 0] /\ g.kind = k /\ g.at = p /\ g.lo = p /\ g \in Calls
    BY <1>3 DEF Call, Calls
  <1>5. /\ ~Binary(t, p) /\ ~Postfixed(t, p)
        /\ Awaited(t, p) <=> t[p] = "await"
        /\ Opening(t, p) <=> t[p] = "("
        /\ Prefixed(t, p) <=> t[p] \in Unary
        /\ Quiet(t, p)
    BY <1>2, WordsApart, Zenon DEF Quiet, Binary, Comma, Closing, Opening, Prefixed, Awaited, Postfixed
  <1>6. Lev(t, p) \in Int /\ Lev(t, p + 1) = (IF t[p] = "(" THEN Lev(t, p) + 1 ELSE Lev(t, p))
    BY <1>5, LevAt DEF Quiet
  <1>7. Body(t, p + 1, s, own)
    BY <1>1, <1>5, BodyQuiet, Zenon
  <1> HIDE DEF k, g
  <1>8. Frame(t, p + 1, g, p)
    <2>1. p \in 1 .. p + 1 /\ p < p + 1 /\ p \in p .. (p + 1) - 1 /\ (\A i \in p .. p + 1 : i = p \/ i = p + 1)
          /\ (\A i \in p + 1 .. (p + 1) - 1 : FALSE) /\ (\A i \in p + 1 .. p + 1 : i = p + 1)
      OBVIOUS
    <2>2. Above(t, p, p + 1)
      BY <1>6, <2>1 DEF Above
    <2>3. Within(t, p, p + 1)
      BY <2>1 DEF Within
    <2>4. g.kind # "expr" /\ g.kind \notin {"args", "index"}
      BY <1>3, <1>4
    <2>5. g.kind = "prefix" => Prefixed(t, p)
      BY <1>3, <1>4, <1>5
    <2>6. g.kind = "await" => Awaited(t, p)
      BY <1>3, <1>4, <1>5
    <2>7. g.kind \in Bracket => g.kind = "group" /\ t[p] = "(" /\ g.kind # "index"
      BY <1>3, <1>4 DEF Bracket
    <2>8. t[p] = "(" => \A i \in p + 1 .. p + 1 : Lev(t, i) > Lev(t, p)
      BY <1>6, <2>1
    <2>9. QED
      BY <1>2, <1>4, <2>1, <2>2, <2>3, <2>4, <2>5, <2>6, <2>7, <2>8, Zenon DEF Frame
  <1>9. Pushed(t, p + 1, s, own, g, p)
    <2>1. p + 1 \in Nat /\ p + 1 > 0
      OBVIOUS
    <2>2. g.kind # "expr"
      BY <1>3, <1>4
    <2>3. Frame(t, p + 1, g, Slot(s[Len(s)], own[Len(s)])) /\ Primary(s[Len(s)])
      BY <1>2, <1>8 DEF f, b
    <2>4. Pushed(t, p + 1, s, own, g, Slot(s[Len(s)], own[Len(s)]))
      BY <1>4, <1>7, <2>1, <2>2, <2>3, PrimaryPush, Zenon
    <2>5. QED
      BY <1>2, <2>4 DEF f, b
  <1>10. /\ Keeps(s, S)
         /\ g.kind # "group" => Asked(S, p)
         /\ g.kind = "await" => \E m \in 1 .. Len(S) : S[m].kind = "await" /\ S[m].at = p
    <2>1. Len(s) \in Nat
      BY <1>1, TopIs
    <2>2. /\ Keeps(s, S)
          /\ g.kind # "group" => Asked(S, g.at)
          /\ g.kind = "await" => \E m \in 1 .. Len(S) : S[m].kind = "await" /\ S[m].at = g.at
      <3>1. Keeping(s, S, g)
        BY <1>9, <2>1, PushKeeps, Zenon DEF S
      <3>2. QED
        BY <3>1, Zenon DEF Keeping
    <2>3. QED
      BY <1>4, <2>2
  <1> HIDE DEF S
  <1>11. Taken(t, p, "operand")
    BY DEF Taken, After1
  <1>12. Waits(t, p + 1, S, "operand")
    <2>1. Awaited(t, p) => \E m \in 1 .. Len(S) : S[m].kind = "await" /\ S[m].at = p
      BY <1>3, <1>4, <1>5, <1>10
    <2>2. \A n \in 1 .. Len(s) : s[n].kind = "await" => \E m \in 1 .. Len(S) : S[m].kind = "await" /\ S[m].at = s[n].at
      BY <1>10, Zenon DEF Keeps
    <2>3. QED
      BY <1>1, <1>11, <2>1, <2>2, WaitsGrow
  <1>13. AllPlaced(t, p + 1)
    <2>1. ~Has(t, p - 1, ".")
      <3>1. p - 1 > 0 => p > 1
        OBVIOUS
      <3>2. p > 1 => t[p - 1] \in Operators \cup Unary \cup {"await", "(", "[", ","}
        BY <1>1 DEF Top1, Starter
      <3>3. QED
        BY <3>1, <3>2, WordsApart, Zenon DEF Has
    <2>2. \A o \in 0 .. p - 1 : Place(t, p, o)
      BY <1>2, <2>1, Zenon DEF Place
    <2>3. QED
      BY <1>1, <2>2, PlacedAnywhere, Zenon
  <1>14. TreeSays(t, p + 1, S, "operand", tr)
    <2>1. Nodal(t, p) => Asked(S, p)
      BY <1>3, <1>4, <1>5, <1>10 DEF Nodal
    <2>2. \A i \in 1 .. p - 1 : Asked(s, i) => Asked(S, i)
      BY <1>10 DEF Keeps
    <2>3. QED
      BY <1>1, <1>11, <2>1, <2>2, TreeNextBare
  <1>15. QED
    BY <1>2, <1>4, <1>5, <1>6, <1>9, <1>12, <1>13, <1>14, Zenon DEF S, g, k

LEMMA NextIs ==
  \A p \in Nat : p + 1 \in Nat /\ p + 1 > 0 /\ (p + 1) - 1 = p /\ p + 1 > p /\ p < p + 1 /\ p <= p + 1
  OBVIOUS

(* What follows a prefix, an await, a bracket, an operator or a comma.     *)
LEMMA OpensOperand ==
  ASSUME NEW t, NEW p \in Nat, p > 0, t[p] \in Operators \cup Unary \cup {"await", "(", "[", ","},
         NEW f, NEW b, NEW v,
         IF f.kind = "expr" THEN f.at = 0 /\ b = p + 1 ELSE f.kind = "prefix" /\ b = p,
         t[p] # ",", t[p] = "(" => ~Postfixed(t, p)
  PROVE  Top1(t, p + 1, f, b, "operand", v)
  <1>1. (p + 1) - 1 = p
    BY NextIs, Zenon
  <1>2. t[p] \notin {"id", ")", "]"}
    BY WordsApart, Zenon
  <1>3. ~Behind(t, p + 1)
    BY <1>2, Parts, Zenon
  <1>4. Starter(t, p + 1)
    BY <1>1 DEF Starter
  <1>5. ~Has(t, (p + 1) - 1, ",") /\ ~(Has(t, (p + 1) - 1, "(") /\ Postfixed(t, (p + 1) - 1))
    <2>1. ~Has(t, p, ",") /\ ~(Has(t, p, "(") /\ Postfixed(t, p))
      BY Zenon DEF Has
    <2>2. QED
      BY <1>1, <2>1, Zenon
  <1>6. b = (IF f.kind = "expr" THEN p + 1 ELSE (p + 1) - 1)
    BY <1>1
  <1>7. f.kind = "prefix" \/ (f.kind = "expr" /\ f.at = 0)
    OBVIOUS
  <1>8. "operand" \notin {"args", "postfix", "back"}
    OBVIOUS
  <1>9. "operand" \notin After1
    BY <1>8 DEF After1
  <1>10. QED
    BY <1>3, <1>4, <1>5, <1>6, <1>7, <1>8, <1>9, Zenon DEF Top1

(* Prefix: the operand is asked for by the prefix.                         *)
LEMMA PrefixGoes ==
  ASSUME NEW t, NEW p \in Nat, p > 0, NEW s, NEW own, NEW v, NEW tr, Stood(t, p, s, own, "operand", v, tr),
         t[p] \in Unary, ~IsType(t, p), t[p] = "ref" => p < Len(t)
  PROVE  Stood(t, p + 1, Append(s, Call("prefix", p, p)), Append(own, p), "operand", v, tr)
  <1> DEFINE g == Call("prefix", p, p)
             S == Append(s, g)
             O == Append(own, p)
  <1>1. KindOf(t[p]) = "prefix" /\ t[p] \notin {",", "(", "await"}
    BY WordsApart, Zenon DEF KindOf
  <1>2. g.kind = "prefix" /\ g.at = p
    BY DEF Call
  <1> HIDE DEF g
  <1>3. /\ Pushed(t, p + 1, s, own, g, p) /\ AllPlaced(t, p + 1)
        /\ Waits(t, p + 1, S, "operand") /\ TreeSays(t, p + 1, S, "operand", tr)
        /\ Lev(t, p + 1) = Lev(t, p)
    <2>1. t[p] \in Unary \cup {"await", "("}
      OBVIOUS
    <2>2. /\ Pushed(t, p + 1, s, own, Call(KindOf(t[p]), p, p), p) /\ AllPlaced(t, p + 1)
          /\ Waits(t, p + 1, Append(s, Call(KindOf(t[p]), p, p)), "operand")
          /\ TreeSays(t, p + 1, Append(s, Call(KindOf(t[p]), p, p)), "operand", tr)
          /\ Lev(t, p + 1) = (IF t[p] = "(" THEN Lev(t, p) + 1 ELSE Lev(t, p))
      BY <2>1, OperandPush
    <2>3. QED
      BY <1>1, <2>2 DEF g
  <1>4. Body(t, p + 1, S, O) /\ S[Len(S)] = g /\ O[Len(S)] = p
    BY <1>3 DEF Pushed
  <1> HIDE DEF S, O
  <1>5. Top1(t, p + 1, g, p, "operand", v)
    BY <1>1, <1>2, OpensOperand
  <1>6. Lev(t, p + 1) = Floor(t, g, p)
    BY <1>2, <1>3 DEF Floor, Bracket
  <1>7. QED
    BY <1>3, <1>4, <1>5, <1>6, Zenon DEF Stood, S, O, g

(* The expression in a bracket or behind await, by one more token.         *)
LEMMA OpenedGoes ==
  ASSUME NEW t, NEW p \in Nat, p > 0, NEW S, NEW O, NEW v, NEW tr, NEW d,
         Body(t, p + 1, S, O), S[Len(S)].kind \in Bracket \/ (S[Len(S)].kind = "await" /\ S[Len(S)].at = p),
         Lev(t, p + 1) = Floor(t, S[Len(S)], O[Len(S)]),
         t[p] \in {"await", "(", "["}, t[p] = "(" => ~Postfixed(t, p),
         AllPlaced(t, p + 1), Waits(t, p + 1, S, "operand"), TreeSays(t, p + 1, S, "operand", tr)
  PROVE  Stood(t, p + 1, Append(S, Expr(0)), Append(O, p + 1), "operand", v, tr)
  <1> DEFINE q == p + 1
             g == Expr(0)
             T == Append(S, g)
             P == Append(O, q)
  <1>1. q \in Nat /\ q > 0 /\ q - 1 = p
    OBVIOUS
  <1>2. g.kind = "expr" /\ g.at = 0
    BY DEF Expr
  <1> HIDE DEF q, g
  <1>3. Begins(t, q, 0)
    <2>1. Opening(t, q - 1) \/ (Lev(t, q - 1) = Lev(t, q) /\ Awaited(t, q - 1))
      <3>1. t[p] \in {"(", "["} => Opening(t, p)
        BY DEF Opening
      <3>2. t[p] = "await" => Awaited(t, p)
        BY DEF Awaited
      <3>3. Awaited(t, p) => Lev(t, p + 1) = Lev(t, p)
        BY Apart, LevAt
      <3>4. QED
        BY <1>1, <3>1, <3>2, <3>3 DEF q
    <2>2. QED
      BY <2>1, Zenon DEF Begins
  <1>4. S[Len(S)].kind \in Bracket \/ (S[Len(S)].kind = "await" /\ S[Len(S)].at = q - 1)
    BY <1>1
  <1>5. Pushed(t, q, S, O, g, q)
    <2>1. Body(t, q, S, O) /\ Lev(t, q) = Floor(t, S[Len(S)], O[Len(S)])
      BY DEF q
    <2>2. QED
      BY <1>1, <1>3, <1>4, <2>1, OpenExpr DEF g
  <1>6. Keeping(S, T, g)
    <2>1. Len(S) \in Nat
      BY TopIs
    <2>2. QED
      BY <1>5, <2>1, PushKeeps
  <1>7. Body(t, q, T, P) /\ T[Len(T)] = g /\ P[Len(T)] = q
    BY <1>5 DEF Pushed
  <1> HIDE DEF T, P
  <1>8. Waits(t, q, T, "operand")
    <2>1. \A n \in 1 .. Len(S) : S[n].kind = "await" => \E m \in 1 .. Len(T) : T[m].kind = "await" /\ T[m].at = S[n].at
      BY <1>6, Zenon DEF Keeping, Keeps
    <2>2. Waits(t, q, S, "operand")
      BY DEF q
    <2>3. QED
      BY <2>1, <2>2, WaitsStay
  <1>9. TreeSays(t, q, T, "operand", tr)
    <2>1. \A i \in 1 .. q - 1 : Asked(S, i) => Asked(T, i)
      BY <1>6, Zenon DEF Keeping, Keeps
    <2>2. TreeSays(t, q, S, "operand", tr)
      BY DEF q
    <2>3. QED
      BY <2>1, <2>2 DEF TreeSays
  <1>10. Top1(t, q, g, q, "operand", v)
    <2>1. t[p] \in Operators \cup Unary \cup {"await", "(", "[", ","} /\ t[p] # ","
      BY Zenon
    <2>2. IF g.kind = "expr" THEN g.at = 0 /\ q = p + 1 ELSE g.kind = "prefix" /\ q = p
      BY <1>2 DEF q
    <2>3. Top1(t, p + 1, g, q, "operand", v)
      BY <2>1, <2>2, OpensOperand
    <2>4. QED
      BY <2>3 DEF q
  <1>11. Lev(t, q) = Floor(t, g, q) /\ AllPlaced(t, q)
    BY <1>2 DEF Floor, Bracket, q
  <1>12. QED
    <2>1. Stood(t, q, T, P, "operand", v, tr)
      BY <1>7, <1>8, <1>9, <1>10, <1>11, Zenon DEF Stood
    <2>2. QED
      BY <2>1 DEF q, T, P, g

(* Nested: a group or an await asks for an expression.                     *)
LEMMA NestedGoes ==
  ASSUME NEW t, NEW p \in Nat, p > 0, NEW s, NEW own, NEW v, NEW tr, Stood(t, p, s, own, "operand", v, tr),
         t[p] \in {"await", "("}
  PROVE  \E O : Stood(t, p + 1, Append(Append(s, Call(IF t[p] = "(" THEN "group" ELSE "await", p, p)), Expr(0)), O, "operand", v, tr)
  <1> DEFINE k == IF t[p] = "(" THEN "group" ELSE "await"
             g == Call(k, p, p)
             S == Append(s, g)
             O == Append(own, p)
  <1>1. KindOf(t[p]) = k /\ t[p] # "ref" /\ ~IsType(t, p) /\ k \in {"group", "await"} /\ (k = "group" <=> t[p] = "(")
    BY Zenon DEF KindOf, IsType
  <1> HIDE DEF k
  <1>2. g.kind = k /\ g.at = p
    BY DEF Call
  <1> HIDE DEF g
  <1>3. /\ Pushed(t, p + 1, s, own, g, p) /\ AllPlaced(t, p + 1) /\ ~Behind(t, p)
        /\ Waits(t, p + 1, S, "operand") /\ TreeSays(t, p + 1, S, "operand", tr)
        /\ Lev(t, p) \in Int /\ Lev(t, p + 1) = (IF t[p] = "(" THEN Lev(t, p) + 1 ELSE Lev(t, p))
    <2>1. t[p] \in Unary \cup {"await", "("}
      OBVIOUS
    <2>2. /\ Pushed(t, p + 1, s, own, Call(KindOf(t[p]), p, p), p) /\ AllPlaced(t, p + 1) /\ ~Behind(t, p)
          /\ Waits(t, p + 1, Append(s, Call(KindOf(t[p]), p, p)), "operand")
          /\ TreeSays(t, p + 1, Append(s, Call(KindOf(t[p]), p, p)), "operand", tr)
          /\ Lev(t, p) \in Int /\ Lev(t, p + 1) = (IF t[p] = "(" THEN Lev(t, p) + 1 ELSE Lev(t, p))
      BY <1>1, <2>1, OperandPush
    <2>3. QED
      BY <1>1, <2>2 DEF g
  <1>4. Body(t, p + 1, S, O) /\ S[Len(S)] = g /\ O[Len(S)] = p
    BY <1>3 DEF Pushed
  <1> HIDE DEF S, O
  <1>5. Lev(t, p + 1) = Floor(t, S[Len(S)], O[Len(S)])
    <2>1. k \in Bracket <=> t[p] = "("
      BY <1>1 DEF Bracket
    <2>2. QED
      BY <1>2, <1>3, <1>4, <2>1 DEF Floor
  <1>6. S[Len(S)].kind \in Bracket \/ (S[Len(S)].kind = "await" /\ S[Len(S)].at = p)
    BY <1>1, <1>2, <1>4 DEF Bracket
  <1>7. ~Postfixed(t, p)
    BY <1>3 DEF Postfixed
  <1>8. Stood(t, p + 1, Append(S, Expr(0)), Append(O, p + 1), "operand", v, tr)
    BY <1>3, <1>4, <1>5, <1>6, <1>7, OpenedGoes
  <1>9. QED
    BY <1>8 DEF S, g, k

-----------------------------------------------------------------------------
(* After an operand: members, calls and indices.                           *)

(* A postfix has the operand before it.                                    *)
LEMMA PureStarts ==
  ASSUME NEW t, NEW p \in Nat, p > 0, NEW l, Pure(t, l, p), Postfixed(t, p)
  PROVE  Starts(t, p, l)
  <1>1. l \in 1 .. p - 1 /\ l \in 1 .. p /\ l \in Nat
    BY DEF Pure
  <1>2. ~Binary(t, p)
    BY Apart
  <1>3. l > 1 => Edge(t, l - 1, p)
    BY <1>2, Zenon DEF Pure, Edge
  <1>4. ASSUME NEW k \in l .. p - 1, Edge(t, k, p)
        PROVE  FALSE
    <2>1. /\ Lev(t, k) >= Lev(t, p)
          /\ Lev(t, k) = Lev(t, p) => ~Binary(t, k) /\ ~Prefixed(t, k) /\ ~Comma(t, k) /\ ~Awaited(t, k)
      BY DEF Pure
    <2>2. Lev(t, k) \in Int /\ Lev(t, p) \in Int
      BY <1>1, LevAt
    <2>3. Lev(t, p) # Lev(t, k) + 1
      BY <2>1, <2>2
    <2>4. QED
      BY <1>4, <2>1, <2>3, Zenon DEF Edge
  <1>5. QED
    BY <1>1, <1>3, <1>4 DEF Starts

(* What can stand behind an operand.                                       *)
LEMMA PostfixAt ==
  ASSUME NEW t, NEW p \in Nat, p > 0, NEW s, NEW own, NEW v, NEW tr, Stood(t, p, s, own, "postfix", v, tr)
  PROVE  /\ Slot(s[Len(s)], own[Len(s)]) = v.lo /\ Primary(s[Len(s)]) /\ Behind(t, p) /\ v.hi = p - 1
         /\ Lev(t, v.lo) = Lev(t, p) /\ v.lo \in 1 .. p /\ v.lo \in Nat
         /\ t[p] \in Leads => Pure(t, v.lo, p) /\ Postfixed(t, p) /\ Starts(t, p, v.lo) /\ v.lo \in 1 .. p - 1
  <1> DEFINE f == s[Len(s)]
             b == own[Len(s)]
  <1>1. f \in Calls /\ Frame(t, p, f, b)
    BY TopIs DEF Stood
  <1>2. Lev(t, p) = Floor(t, f, b) /\ Top1(t, p, f, b, "postfix", v)
    BY Zenon DEF Stood
  <1>3. "postfix" \in After1
    BY DEF After1
  <1> HIDE DEF f, b
  <1>4. Primary(f) /\ Behind(t, p) /\ v.hi = p - 1
    BY <1>2, <1>3, Zenon DEF Top1, Primary
  <1>5. Slot(f, b) = v.lo
    BY <1>2, <1>3, <1>4, Zenon DEF Top1, Primary, Slot
  <1>6. Slot(f, b) \in 1 .. p /\ Lev(t, Slot(f, b)) = Lev(t, b) /\ Floor(t, f, b) = Lev(t, b)
    BY <1>1, <1>4, SlotIs
  <1>7. ASSUME t[p] \in Leads
        PROVE  Pure(t, v.lo, p) /\ Postfixed(t, p) /\ Starts(t, p, v.lo) /\ v.lo \in 1 .. p - 1
    <2>1. Pure(t, v.lo, p)
      BY <1>2, <1>7, Zenon DEF Top1
    <2>2. Postfixed(t, p)
      BY <1>4, <1>7, Parts, Zenon
    <2>3. QED
      BY <2>1, <2>2, PureStarts DEF Pure
  <1>8. v.lo \in 1 .. p /\ Lev(t, v.lo) = Lev(t, p)
    BY <1>2, <1>5, <1>6, Zenon
  <1>9. v.lo \in Nat
    BY <1>8
  <1>10. QED
    BY <1>4, <1>5, <1>7, <1>8, <1>9, Zenon DEF f, b

(* The top frame, with its operand and more behind it.                     *)
LEMMA OperandTop ==
  ASSUME NEW t, NEW q \in Nat, q > 0, NEW f, NEW b, NEW v, Primary(f), Slot(f, b) = v.lo, Behind(t, q),
         v.hi = q - 1, Pure(t, v.lo, q) \/ (q <= Len(t) /\ t[q] \notin Leads)
  PROVE  Top1(t, q, f, b, "postfix", v)
  <1>1. /\ f.kind = "expr" /\ f.at = 0 => v.lo = b
        /\ f.kind = "prefix" => v.lo = b + 1
    BY DEF Slot
  <1>2. f.kind = "prefix" \/ (f.kind = "expr" /\ f.at = 0)
    BY Zenon DEF Primary
  <1>3. "postfix" \notin {"args", "operand", "back"}
    OBVIOUS
  <1>4. QED
    BY <1>1, <1>2, <1>3, Zenon DEF Top1

(* Member, with a name behind the dot.                                     *)
LEMMA MemberGoes ==
  ASSUME NEW t, NEW p \in Nat, p > 0, NEW s, NEW own, NEW v, NEW tr, Stood(t, p, s, own, "postfix", v, tr),
         t[p] = ".", t[p + 1] = "id"
  PROVE  Stood(t, p + 2, s, own, "postfix", Span(v.lo, p + 1), tr \cup {Node(p, v.lo, p + 1)})
  <1> DEFINE f == s[Len(s)]
             b == own[Len(s)]
             V == Span(v.lo, p + 1)
             nd == Node(p, v.lo, p + 1)
             r == p + 1
             q == p + 2
  <1>1. /\ Body(t, p, s, own) /\ Lev(t, p) = Floor(t, f, b) /\ Top1(t, p, f, b, "postfix", v)
        /\ Waits(t, p, s, "postfix") /\ AllPlaced(t, p) /\ TreeSays(t, p, s, "postfix", tr)
    BY Zenon DEF Stood
  <1>2. t[p] \in Leads
    BY DEF Leads
  <1>3. /\ Slot(f, b) = v.lo /\ Primary(f) /\ Behind(t, p) /\ Lev(t, v.lo) = Lev(t, p)
        /\ Pure(t, v.lo, p) /\ Postfixed(t, p) /\ Starts(t, p, v.lo) /\ v.lo \in 1 .. p - 1
    BY <1>2, PostfixAt
  <1>4. r \in Nat /\ r > 0 /\ r + 1 = q /\ r - 1 = p /\ q \in Nat /\ q > 0 /\ q - 1 = r /\ q > p /\ r = p + 1
    OBVIOUS
  <1>5. V.lo = v.lo /\ V.hi = r /\ nd.at = p /\ nd.lo = v.lo /\ nd.hi = r /\ nd = Node(nd.at, nd.lo, nd.hi)
    BY DEF Span, Node
  <1> HIDE DEF f, b, V, nd, r, q
  <1>6. t[r] = "id"
    BY <1>4
  <1>7. Quiet(t, p) /\ ~Opening(t, p) /\ ~Closing(t, p) /\ ~Awaited(t, p) /\ ~Binary(t, p) /\ ~Prefixed(t, p) /\ ~Comma(t, p) /\ t[p] # "ref"
    BY WordsApart, Zenon DEF Quiet, Binary, Comma, Closing, Opening, Prefixed, Awaited
  <1>8. Quiet(t, r) /\ ~Opening(t, r) /\ ~Closing(t, r) /\ ~Awaited(t, r) /\ ~Binary(t, r) /\ ~Prefixed(t, r) /\ ~Comma(t, r) /\ t[r] # "ref"
        /\ ~Nodal(t, r) /\ ~Postfixed(t, r)
    BY <1>6, WordsApart, Zenon DEF Quiet, Binary, Comma, Closing, Opening, Prefixed, Awaited, Nodal, Postfixed
  <1>9. Lev(t, p) \in Int /\ Lev(t, r) = Lev(t, p) /\ Lev(t, q) = Lev(t, p)
    <2>1. Lev(t, p) \in Int /\ Lev(t, r) = Lev(t, p)
      BY <1>4, <1>7, LevAt
    <2>2. Lev(t, q) = Lev(t, r)
      BY <1>4, <1>8, LevAt
    <2>3. QED
      BY <2>1, <2>2
  <1>10. Body(t, q, s, own)
    <2>1. Body(t, r, s, own)
      BY <1>1, <1>4, <1>7, BodyQuiet
    <2>2. QED
      BY <1>4, <1>8, <2>1, BodyQuiet
  <1>11. Lev(t, q) = Floor(t, f, b)
    BY <1>1, <1>9
  <1>12. ~Behind(t, r) /\ Behind(t, q)
    <2>1. t[p] \notin {"id", ")", "]"} /\ t[r] \in {"id", ")", "]"}
      BY <1>6, Zenon
    <2>2. (Behind(t, p + 1) <=> t[p] \in {"id", ")", "]"}) /\ (Behind(t, r + 1) <=> t[r] \in {"id", ")", "]"})
      BY <1>4, Parts, Zenon
    <2>3. QED
      BY <1>4, <2>1, <2>2, Zenon
  <1>13. Pure(t, v.lo, q)
    <2>1. v.lo \in 1 .. q - 1 /\ \A k \in v.lo .. q - 1 : k \in v.lo .. p - 1 \/ k = p \/ k = r
      BY <1>3, <1>4
    <2>2. \A k \in v.lo .. p - 1 :
             /\ Lev(t, k) >= Lev(t, q)
             /\ Lev(t, k) = Lev(t, q) => ~Binary(t, k) /\ ~Prefixed(t, k) /\ ~Comma(t, k) /\ ~Awaited(t, k)
      BY <1>3, <1>9 DEF Pure
    <2>3. Lev(t, p) >= Lev(t, q) /\ Lev(t, r) >= Lev(t, q)
      BY <1>9
    <2>4. \A k \in v.lo .. q - 1 :
             /\ Lev(t, k) >= Lev(t, q)
             /\ Lev(t, k) = Lev(t, q) => ~Binary(t, k) /\ ~Prefixed(t, k) /\ ~Comma(t, k) /\ ~Awaited(t, k)
      BY <1>7, <1>8, <2>1, <2>2, <2>3, Zenon
    <2>5. v.lo > 1 => \/ Opening(t, v.lo - 1) /\ Lev(t, q) = Lev(t, v.lo - 1) + 1
                      \/ /\ Lev(t, v.lo - 1) = Lev(t, q)
                         /\ Binary(t, v.lo - 1) \/ Prefixed(t, v.lo - 1) \/ Comma(t, v.lo - 1) \/ Awaited(t, v.lo - 1)
      BY <1>3, <1>9 DEF Pure
    <2>6. QED
      BY <2>1, <2>4, <2>5, Zenon DEF Pure
  <1>14. Top1(t, q, f, b, "postfix", V)
    BY <1>3, <1>4, <1>5, <1>12, <1>13, OperandTop
  <1>15. Taken(t, p, "postfix") /\ Taken(t, r, "operand")
    BY <1>2, <1>3 DEF Taken, After1
  <1>16. Waits(t, q, s, "postfix")
    <2>1. Waits(t, p + 1, s, "operand")
      BY <1>1, <1>7, <1>15, WaitsGrow
    <2>2. Waits(t, r, s, "operand")
      BY <1>4, <2>1
    <2>3. Waits(t, r + 1, s, "postfix")
      BY <1>4, <1>8, <1>15, <2>2, WaitsGrow
    <2>4. QED
      BY <1>4, <2>3
  <1>17. AllPlaced(t, q)
    <2>1. \A o \in 0 .. p - 1 : Place(t, p, o)
      BY <1>3 DEF Place
    <2>2. AllPlaced(t, p + 1)
      BY <1>1, <1>7, <2>1, PlacedAnywhere
    <2>3. \A o \in 0 .. r - 1 : Place(t, r, o)
      BY <1>6, <1>12 DEF Place
    <2>4. AllPlaced(t, r)
      BY <1>4, <2>2
    <2>5. AllPlaced(t, r + 1)
      BY <1>4, <1>8, <2>3, <2>4, PlacedAnywhere
    <2>6. QED
      BY <1>4, <2>5
  <1>18. Good(t, q, nd)
    <2>1. nd.at \in 1 .. q - 1 /\ nd.hi \in nd.at .. q - 1 /\ nd.hi = nd.at + 1
      BY <1>4, <1>5
    <2>2. Nodal(t, nd.at) /\ Postfixed(t, nd.at) /\ Starts(t, nd.at, nd.lo) /\ t[nd.at] = "."
      BY <1>3, <1>5 DEF Nodal
    <2>3. QED
      BY <1>5, <2>1, <2>2, Zenon DEF Good
  <1>19. TreeSays(t, q, s, "postfix", tr \cup {nd})
    <2>1. \A n \in {nd} : Good(t, q, n) /\ (n.hi = q - 1 /\ ~Postfixed(t, n.at) => "postfix" \in After1 /\ Late(t, q, n.at))
      BY <1>3, <1>5, <1>18
    <2>2. \A i \in p .. q - 1 : i = p \/ i = r
      BY <1>4
    <2>3. \A i \in p .. q - 1 : Nodal(t, i) => Asked(s, i) \/ \E n \in {nd} : n.at = i
      BY <1>5, <1>8, <2>2
    <2>4. QED
      BY <1>1, <1>4, <1>15, <2>1, <2>3, TreeGrows
  <1>20. QED
    <2>1. Stood(t, q, s, own, "postfix", V, tr \cup {nd})
      BY <1>10, <1>11, <1>14, <1>16, <1>17, <1>19, Zenon DEF Stood, f, b
    <2>2. QED
      BY <2>1 DEF q, V, nd

(* PostfixEnds: nothing more belongs to the operand.                       *)
LEMMA PostfixEndsGoes ==
  ASSUME NEW t, NEW p \in Nat, p > 0, p <= Len(t), NEW s, NEW own, NEW v, NEW tr, Stood(t, p, s, own, "postfix", v, tr),
         t[p] \notin Leads
  PROVE  Stood(t, p, s, own, "back", v, tr)
  <1> DEFINE f == s[Len(s)]
             b == own[Len(s)]
  <1>1. /\ Body(t, p, s, own) /\ Lev(t, p) = Floor(t, f, b) /\ Top1(t, p, f, b, "postfix", v)
        /\ Waits(t, p, s, "postfix") /\ AllPlaced(t, p) /\ TreeSays(t, p, s, "postfix", tr)
    BY Zenon DEF Stood
  <1> HIDE DEF f, b
  <1>2. "back" \in After1 /\ "postfix" \in After1
    BY DEF After1
  <1>3. Waits(t, p, s, "back")
    BY <1>1, <1>2 DEF Waits
  <1>4. TreeSays(t, p, s, "back", tr)
    BY <1>1, <1>2 DEF TreeSays
  <1>5. f.kind = "prefix" \/ (f.kind = "expr" /\ f.at = 0)
    BY <1>1, Zenon DEF Top1
  <1>6. Behind(t, p) /\ v.hi = p - 1 /\ (f.kind = "expr" /\ f.at = 0 => v.lo = b)
    BY <1>1, <1>2, Zenon DEF Top1
  <1>7. "back" \notin {"operand", "postfix", "args"}
    OBVIOUS
  <1>8. ~(f.kind = "expr" /\ f.at # 0) /\ f.kind \in {"expr", "prefix"}
    BY <1>5
  <1>9. Top1(t, p, f, b, "back", v)
    BY <1>6, <1>7, <1>8, Zenon DEF Top1
  <1>10. QED
    BY <1>1, <1>3, <1>4, <1>9, Zenon DEF Stood, f, b

(* A call or an index on the operand just parsed.                          *)
LEMMA BracketPush ==
  ASSUME NEW t, NEW p \in Nat, p > 0, NEW s, NEW own, NEW v, NEW tr, Stood(t, p, s, own, "postfix", v, tr),
         t[p] \in {"(", "["}, NEW k, k = (IF t[p] = "(" THEN "args" ELSE "index"), NEW d
  PROVE  LET g == Call(k, p, v.lo)
             S == Append(s, g)
         IN /\ Pushed(t, p + 1, s, own, g, v.lo) /\ AllPlaced(t, p + 1)
            /\ Waits(t, p + 1, S, d) /\ TreeSays(t, p + 1, S, d, tr)
            /\ Lev(t, p + 1) = Floor(t, g, v.lo)
  <1> DEFINE f == s[Len(s)]
             b == own[Len(s)]
             g == Call(k, p, v.lo)
             S == Append(s, g)
             q == p + 1
  <1>1. /\ Body(t, p, s, own) /\ Lev(t, p) = Floor(t, f, b) /\ Top1(t, p, f, b, "postfix", v)
        /\ Waits(t, p, s, "postfix") /\ AllPlaced(t, p) /\ TreeSays(t, p, s, "postfix", tr)
    BY Zenon DEF Stood
  <1>2. t[p] \in Leads /\ Opening(t, p)
    BY DEF Leads, Opening
  <1>3. /\ Slot(f, b) = v.lo /\ Primary(f) /\ Behind(t, p) /\ Lev(t, v.lo) = Lev(t, p)
        /\ Postfixed(t, p) /\ Starts(t, p, v.lo) /\ v.lo \in 1 .. p /\ v.lo \in Nat
    BY <1>2, PostfixAt
  <1>4. k \in {"args", "index"} /\ (k = "index" <=> t[p] = "[") /\ (k = "args" <=> t[p] = "(")
    OBVIOUS
  <1>5. g = [kind |-> k, at |-> p, lo |-> v.lo, min |-> 0] /\ g.kind = k /\ g.at = p /\ g.lo = v.lo /\ g \in Calls
    BY <1>3, <1>4 DEF Call, Calls
  <1>6. Quiet(t, p) /\ ~Awaited(t, p) /\ ~Binary(t, p) /\ ~Prefixed(t, p) /\ t[p] # "ref"
    BY WordsApart, Zenon DEF Quiet, Binary, Comma, Closing, Prefixed, Awaited
  <1>7. Lev(t, p) \in Int /\ Lev(t, q) = Lev(t, p) + 1
    BY <1>2, LevAt
  <1>8. Body(t, q, s, own)
    BY <1>1, <1>6, BodyQuiet
  <1>9. q \in Nat /\ q > 0 /\ q - 1 = p /\ p < q
    OBVIOUS
  <1> HIDE DEF f, b, g, q
  <1>10. Frame(t, q, g, v.lo)
    <2>1. v.lo \in 1 .. q /\ p \in v.lo .. q - 1 /\ (\A i \in v.lo .. q : i \in v.lo .. p \/ i = q) /\ (\A i \in p + 1 .. q : i = q)
      BY <1>3, <1>9 DEF q
    <2>2. Above(t, v.lo, q)
      <3>1. \A i \in v.lo .. p : Lev(t, i) >= Lev(t, v.lo)
        <4>1. Frame(t, p, f, b) /\ f \in Calls
          BY <1>1, TopIs DEF f, b
        <4>2. Above(t, b, p) /\ b <= v.lo /\ Lev(t, b) = Lev(t, v.lo) /\ b \in 1 .. p
          BY <1>3, <4>1, SlotIs, FrameIs
        <4>3. \A i \in v.lo .. p : i \in b .. p
          BY <1>3, <4>2
        <4>4. QED
          BY <4>2, <4>3 DEF Above
      <3>2. Lev(t, q) >= Lev(t, v.lo)
        BY <1>3, <1>7
      <3>3. QED
        BY <2>1, <3>1, <3>2 DEF Above
    <2>3. \A i \in p + 1 .. q : Lev(t, i) > Lev(t, p)
      BY <1>7, <2>1
    <2>4. g.kind \notin {"expr", "prefix", "await", "group"} /\ g.kind \in Bracket
      BY <1>4, <1>5 DEF Bracket
    <2>5. t[p] = (IF g.kind = "index" THEN "[" ELSE "(")
      BY <1>4, <1>5
    <2>6. QED
      BY <1>3, <1>5, <2>1, <2>2, <2>3, <2>4, <2>5, Zenon DEF Frame
  <1>11. Pushed(t, q, s, own, g, v.lo)
    <2>1. g.kind # "expr"
      BY <1>4, <1>5
    <2>2. Frame(t, q, g, Slot(s[Len(s)], own[Len(s)])) /\ Primary(s[Len(s)])
      BY <1>3, <1>10 DEF f, b
    <2>3. Pushed(t, q, s, own, g, Slot(s[Len(s)], own[Len(s)]))
      BY <1>5, <1>8, <1>9, <2>1, <2>2, PrimaryPush, Zenon
    <2>4. QED
      BY <1>3, <2>3 DEF f, b
  <1>12. Keeping(s, S, g)
    <2>1. Len(s) \in Nat
      BY <1>1, TopIs
    <2>2. QED
      BY <1>11, <2>1, PushKeeps, Zenon DEF S
  <1> HIDE DEF S
  <1>13. Taken(t, p, "postfix")
    BY <1>2, <1>3, Zenon DEF Taken
  <1>14. Waits(t, p + 1, S, d)
    <2>1. \A n \in 1 .. Len(s) : s[n].kind = "await" => \E m \in 1 .. Len(S) : S[m].kind = "await" /\ S[m].at = s[n].at
      BY <1>12, Zenon DEF Keeping, Keeps
    <2>2. QED
      BY <1>1, <1>6, <1>13, <2>1, WaitsGrow
  <1>15. AllPlaced(t, p + 1)
    <2>1. \A o \in 0 .. p - 1 : Place(t, p, o)
      BY <1>3 DEF Place
    <2>2. QED
      BY <1>1, <1>6, <2>1, PlacedAnywhere, Zenon
  <1>16. TreeSays(t, p + 1, S, d, tr)
    <2>1. Asked(S, p)
      <3>1. g.kind # "group" /\ g.at = p
        BY <1>4, <1>5
      <3>2. QED
        BY <1>12, <3>1 DEF Keeping
    <2>2. \A i \in 1 .. p - 1 : Asked(s, i) => Asked(S, i)
      BY <1>12, Zenon DEF Keeping, Keeps
    <2>3. QED
      BY <1>1, <1>13, <2>1, <2>2, TreeNextBare
  <1>17. Lev(t, q) = Floor(t, g, v.lo)
    <2>1. g.kind \in Bracket
      BY <1>4, <1>5 DEF Bracket
    <2>2. QED
      BY <1>3, <1>7, <2>1 DEF Floor
  <1>18. QED
    BY <1>11, <1>14, <1>15, <1>16, <1>17, Zenon DEF S, g, q

(* CallOrIndex of "(": arguments may follow.                               *)
LEMMA CallGoes ==
  ASSUME NEW t, NEW p \in Nat, p > 0, NEW s, NEW own, NEW v, NEW tr, Stood(t, p, s, own, "postfix", v, tr),
         t[p] = "("
  PROVE  \E O : Stood(t, p + 1, Append(s, Call("args", p, v.lo)), O, "args", v, tr)
  <1> DEFINE g == Call("args", p, v.lo)
             S == Append(s, g)
             O == Append(own, v.lo)
  <1>1. /\ Pushed(t, p + 1, s, own, g, v.lo) /\ AllPlaced(t, p + 1)
        /\ Waits(t, p + 1, S, "args") /\ TreeSays(t, p + 1, S, "args", tr)
        /\ Lev(t, p + 1) = Floor(t, g, v.lo)
    <2>1. t[p] \in {"(", "["} /\ "args" = (IF t[p] = "(" THEN "args" ELSE "index")
      OBVIOUS
    <2>2. QED
      BY <2>1, BracketPush
  <1>2. Body(t, p + 1, S, O) /\ S[Len(S)] = g /\ O[Len(S)] = v.lo
    BY <1>1 DEF Pushed
  <1>3. g.kind = "args" /\ g.at = p
    BY DEF Call
  <1> HIDE DEF g, S, O
  <1>4. Top1(t, p + 1, g, v.lo, "args", v)
    <2>1. (p + 1) - 1 = p
      BY NextIs, Zenon
    <2>2. Has(t, (p + 1) - 1, "(") /\ g.at = (p + 1) - 1
      BY <1>3, <2>1 DEF Has
    <2>3. "args" \notin {"operand", "postfix", "back"} /\ "args" \notin After1
      BY DEF After1
    <2>4. QED
      BY <1>3, <2>2, <2>3, Zenon DEF Top1
  <1>5. QED
    BY <1>1, <1>2, <1>4, Zenon DEF Stood, g, S, O

(* CallOrIndex of "[": an expression must.                                 *)
LEMMA IndexGoes ==
  ASSUME NEW t, NEW p \in Nat, p > 0, NEW s, NEW own, NEW v, NEW tr, Stood(t, p, s, own, "postfix", v, tr),
         t[p] = "["
  PROVE  \E O : Stood(t, p + 1, Append(Append(s, Call("index", p, v.lo)), Expr(0)), O, "operand", v, tr)
  <1> DEFINE g == Call("index", p, v.lo)
             S == Append(s, g)
             O == Append(own, v.lo)
  <1>1. /\ Pushed(t, p + 1, s, own, g, v.lo) /\ AllPlaced(t, p + 1)
        /\ Waits(t, p + 1, S, "operand") /\ TreeSays(t, p + 1, S, "operand", tr)
        /\ Lev(t, p + 1) = Floor(t, g, v.lo)
    <2>1. t[p] \in {"(", "["} /\ "index" = (IF t[p] = "(" THEN "args" ELSE "index")
      OBVIOUS
    <2>2. QED
      BY <2>1, BracketPush
  <1>2. Body(t, p + 1, S, O) /\ S[Len(S)] = g /\ O[Len(S)] = v.lo
    BY <1>1 DEF Pushed
  <1>3. g.kind \in Bracket
    BY DEF Call, Bracket
  <1> HIDE DEF g, S, O
  <1>4. S[Len(S)].kind \in Bracket /\ Lev(t, p + 1) = Floor(t, S[Len(S)], O[Len(S)]) /\ t[p] \in {"await", "(", "["} /\ t[p] # "("
    BY <1>1, <1>2, <1>3
  <1>5. Stood(t, p + 1, Append(S, Expr(0)), Append(O, p + 1), "operand", v, tr)
    BY <1>1, <1>2, <1>4, OpenedGoes
  <1>6. QED
    BY <1>5 DEF S, g

(* Argument: an expression is asked for.                                   *)
LEMMA ArgumentGoes ==
  ASSUME NEW t, NEW p \in Nat, p > 0, p <= Len(t), NEW s, NEW own, NEW v, NEW tr, Stood(t, p, s, own, "args", v, tr),
         t[p] \notin {")", "eof"}
  PROVE  \E O : Stood(t, p, Append(s, Expr(0)), O, "operand", v, tr)
  <1> DEFINE f == s[Len(s)]
             b == own[Len(s)]
             g == Expr(0)
             T == Append(s, g)
             P == Append(own, p)
  <1>1. /\ Body(t, p, s, own) /\ Lev(t, p) = Floor(t, f, b) /\ Top1(t, p, f, b, "args", v)
        /\ Waits(t, p, s, "args") /\ AllPlaced(t, p) /\ TreeSays(t, p, s, "args", tr)
    BY Zenon DEF Stood
  <1>2. g.kind = "expr" /\ g.at = 0
    BY DEF Expr
  <1>3. f.kind \in Bracket /\ f.kind = "args"
    BY <1>1 DEF Top1, Bracket
  <1> HIDE DEF f, b, g, T, P
  <1>4. \/ Has(t, p - 1, "(")
        \/ Has(t, p - 1, ",") /\ Lev(t, p - 1) = Lev(t, p)
    BY <1>1, Zenon DEF Top1
  <1>5. t[p - 1] \in {"(", ","}
    BY <1>4, Zenon DEF Has
  <1>6. Begins(t, p, 0)
    BY <1>4, Zenon DEF Begins, Has, Opening, Comma
  <1>7. Pushed(t, p, s, own, g, p)
    <2>1. s[Len(s)].kind \in Bracket /\ Lev(t, p) = Floor(t, s[Len(s)], own[Len(s)])
      BY <1>1, <1>3 DEF f, b
    <2>2. QED
      BY <1>1, <1>6, <2>1, OpenExpr DEF g
  <1>8. Keeping(s, T, g)
    <2>1. Len(s) \in Nat
      BY <1>1, TopIs
    <2>2. QED
      BY <1>7, <2>1, PushKeeps, Zenon DEF T
  <1>9. Body(t, p, T, P) /\ T[Len(T)] = g /\ P[Len(T)] = p
    BY <1>7 DEF Pushed, T, P
  <1>10. Waits(t, p, T, "operand")
    <2>1. \A n \in 1 .. Len(s) : s[n].kind = "await" => \E m \in 1 .. Len(T) : T[m].kind = "await" /\ T[m].at = s[n].at
      BY <1>8, Zenon DEF Keeping, Keeps
    <2>2. "args" \notin After1
      BY DEF After1
    <2>3. QED
      BY <1>1, <2>1, <2>2, WaitsStay
  <1>11. TreeSays(t, p, T, "operand", tr)
    <2>1. \A i \in 1 .. p - 1 : Asked(s, i) => Asked(T, i)
      BY <1>8, Zenon DEF Keeping, Keeps
    <2>2. "args" \notin After1
      BY DEF After1
    <2>3. QED
      BY <1>1, <2>1, <2>2, Zenon DEF TreeSays
  <1>12. Top1(t, p, g, p, "operand", v)
    <2>1. ~Behind(t, p)
      BY <1>5, Zenon DEF Behind
    <2>2. Starter(t, p)
      BY <1>5, Zenon DEF Starter
    <2>3. "operand" \notin {"args", "postfix", "back"} /\ "operand" \notin After1
      BY DEF After1
    <2>4. p <= Len(t) /\ t[p] \notin {")", "eof"}
      OBVIOUS
    <2>5. QED
      BY <1>2, <2>1, <2>2, <2>3, <2>4, Zenon DEF Top1
  <1>13. Lev(t, p) = Floor(t, g, p)
    BY <1>2 DEF Floor, Bracket
  <1>14. QED
    BY <1>1, <1>9, <1>10, <1>11, <1>12, <1>13, Zenon DEF Stood, T, P, g

-----------------------------------------------------------------------------
(* Arguments, and small facts of arithmetic that are cited by name.        *)

LEMMA RangeNat ==
  \A p : \A b \in 1 .. p : b \in Nat /\ b > 0
  OBVIOUS

LEMMA OneMore ==
  \A a, b, c \in Int : a = b + 1 /\ c = a => c > b /\ c >= b
  OBVIOUS

LEMMA LastOr ==
  \A n \in Nat : \A k \in 1 .. n : k \in 1 .. n - 1 \/ k = n
  OBVIOUS

Lowered(t, s, own) ==
  \A n \in 1 .. Len(s) : /\ Lev(t, own[n]) \in Int /\ Lev(t, own[Len(s)]) \in Int /\ Lev(t, own[n]) <= Lev(t, own[Len(s)])
                         /\ s[n].kind # "expr" \/ s[n].at # 0 => Lev(t, s[n].at) = Lev(t, own[n])

LEMMA LowerAll ==
  ASSUME NEW t, NEW p \in Nat, p > 0, NEW s, NEW own, Body(t, p, s, own)
  PROVE  Lowered(t, s, own)
  BY Lower DEF Lowered

(* What begins above a bracket is deeper.                                  *)
LEMMA Deeper ==
  ASSUME NEW t, NEW p \in Nat, p > 0, NEW s, NEW own, Body(t, p, s, own), NEW n \in 1 .. Len(s) - 1, s[n].kind \in Bracket
  PROVE  Lev(t, own[n]) < Lev(t, own[Len(s)])
  <1>1. Len(s) \in Nat /\ n \in 1 .. Len(s) /\ n + 1 \in 1 .. Len(s) /\ n + 1 \in 2 .. Len(s) /\ (n + 1) - 1 = n
    BY TopIs
  <1>2. Lev(t, own[n + 1]) = Floor(t, s[n], own[n])
    <2>1. \A k \in 2 .. Len(s) : Lev(t, own[k]) = Floor(t, s[k - 1], own[k - 1])
      BY DEF Body
    <2>2. Lev(t, own[n + 1]) = Floor(t, s[(n + 1) - 1], own[(n + 1) - 1])
      BY <1>1, <2>1
    <2>3. QED
      BY <1>1, <2>2
  <1>3. Lev(t, own[n + 1]) = Lev(t, own[n]) + 1
    BY <1>2 DEF Floor
  <1>4. /\ Lev(t, own[n]) \in Int /\ Lev(t, own[Len(s)]) \in Int
        /\ Lev(t, own[n + 1]) <= Lev(t, own[Len(s)])
    <2>1. \A k \in 1 .. Len(s) : /\ Lev(t, own[k]) \in Int /\ Lev(t, own[Len(s)]) \in Int
                                 /\ Lev(t, own[k]) <= Lev(t, own[Len(s)])
      BY Lower
    <2>2. QED
      BY <1>1, <2>1
  <1>5. QED
    BY <1>3, <1>4

(* The top is a bracket: what is read at its inner level ends nothing.     *)
LEMMA InnerGrows ==
  ASSUME NEW t, NEW p \in Nat, p > 0, NEW s, NEW own, Body(t, p, s, own), s[Len(s)].kind \in Bracket,
         Lev(t, p) = Floor(t, s[Len(s)], own[Len(s)]), Lev(t, p + 1) >= Lev(t, own[Len(s)])
  PROVE  /\ \A n \in 1 .. Len(s) - 1 : Frame(t, p + 1, s[n], own[n])
         /\ Lev(t, p + 1) > Lev(t, own[Len(s)]) => Frame(t, p + 1, s[Len(s)], own[Len(s)])
  <1> DEFINE B == own[Len(s)]
  <1>1. Len(s) \in Nat /\ Len(s) > 0 /\ \A n \in 1 .. Len(s) : s[n] \in Calls /\ own[n] \in Nat /\ Frame(t, p, s[n], own[n])
    BY TopIs
  <1>2. \A n \in 1 .. Len(s) : /\ Lev(t, own[n]) \in Int /\ Lev(t, B) \in Int /\ Lev(t, own[n]) <= Lev(t, B)
                               /\ s[n].kind # "expr" \/ s[n].at # 0 => Lev(t, s[n].at) = Lev(t, own[n])
    <2>1. Lowered(t, s, own)
      BY LowerAll, Zenon
    <2>2. QED
      BY <2>1 DEF Lowered, B
  <1>3. Lev(t, p) = Lev(t, B) + 1 /\ Lev(t, p + 1) \in Int
    BY LevAt DEF Floor
  <1>4. Lev(t, p + 1) >= Lev(t, B)
    OBVIOUS
  <1> HIDE DEF B
  <1>5. ASSUME NEW n \in 1 .. Len(s), s[n].kind \in Bracket => Lev(t, p + 1) > Lev(t, own[n])
        PROVE  Frame(t, p + 1, s[n], own[n])
    <2> DEFINE f == s[n]
               b == own[n]
    <2>1. f \in Calls /\ Frame(t, p, f, b) /\ Lev(t, b) \in Int /\ Lev(t, B) \in Int /\ Lev(t, b) <= Lev(t, B)
          /\ (f.kind # "expr" \/ f.at # 0 => Lev(t, f.at) = Lev(t, b))
      BY <1>1, <1>2
    <2>2. f.kind \in Bracket => Lev(t, p + 1) > Lev(t, b)
      BY <1>5
    <2> HIDE DEF f, b
    <2>3. Lev(t, p + 1) >= Lev(t, b) /\ Lev(t, p) # Lev(t, b)
      BY <1>3, <1>4, <2>1
    <2>4. f.kind \notin Bracket /\ f.at # 0 => ~Stop(t, f.at, p)
      BY <2>1, <2>3 DEF Stop
    <2>5. Frame(t, p + 1, f, b)
      BY <2>1, <2>2, <2>3, <2>4, FrameGrows
    <2>6. QED
      BY <2>5 DEF f, b
  <1>6. ASSUME NEW n \in 1 .. Len(s) - 1
        PROVE  Frame(t, p + 1, s[n], own[n])
    <2>1. n \in 1 .. Len(s)
      BY <1>1
    <2>2. s[n].kind \in Bracket => Lev(t, own[n]) < Lev(t, B)
      BY Deeper DEF B
    <2>3. s[n].kind \in Bracket => Lev(t, p + 1) > Lev(t, own[n])
      BY <1>2, <1>3, <1>4, <2>1, <2>2
    <2>4. QED
      BY <1>5, <2>1, <2>3
  <1>7. ASSUME Lev(t, p + 1) > Lev(t, B)
        PROVE  Frame(t, p + 1, s[Len(s)], own[Len(s)])
    <2>1. Len(s) \in 1 .. Len(s)
      BY <1>1
    <2>2. QED
      BY <1>5, <1>7, <2>1 DEF B
  <1>8. QED
    BY <1>6, <1>7 DEF B

(* A comma between two arguments.                                          *)
LEMMA CommaGoes ==
  ASSUME NEW t, NEW p \in Nat, p > 0, NEW s, NEW own, NEW v, NEW tr, Stood(t, p, s, own, "back", v, tr),
         s[Len(s)].kind = "args", t[p] = ","
  PROVE  Stood(t, p + 1, s, own, "args", v, tr)
  <1> DEFINE f == s[Len(s)]
             B == own[Len(s)]
  <1>1. /\ Body(t, p, s, own) /\ Lev(t, p) = Floor(t, f, B) /\ Top1(t, p, f, B, "back", v)
        /\ Waits(t, p, s, "back") /\ AllPlaced(t, p) /\ TreeSays(t, p, s, "back", tr)
    BY Zenon DEF Stood
  <1>2. f.kind \in Bracket /\ f.kind = "args" /\ f.kind # "index" /\ f.kind # "group"
    BY DEF Bracket
  <1>3. Behind(t, p)
    BY <1>1 DEF Top1, After1
  <1>4. Comma(t, p) /\ ~Opening(t, p) /\ ~Closing(t, p) /\ ~Awaited(t, p) /\ ~Nodal(t, p) /\ t[p] # "ref" /\ t[p] \notin Unary /\ t[p] \notin Operators
    BY Zenon, WordsApart DEF Comma, Opening, Closing, Awaited, Nodal, Binary, Prefixed, Postfixed, Operators, Unary
  <1>5. Lev(t, p) \in Int /\ Lev(t, p + 1) = Lev(t, p)
    BY <1>4, LevAt
  <1>6. f \in Calls /\ Frame(t, p, f, B) /\ Len(s) \in Nat /\ Len(s) > 0 /\ B \in Nat /\ B > 0
    <2>1. f \in Calls /\ Frame(t, p, f, B) /\ Len(s) \in Nat /\ Len(s) > 0 /\ B \in 1 .. p
      BY <1>1, TopIs
    <2>2. B \in Nat /\ B > 0
      BY <2>1, RangeNat, Zenon
    <2>3. QED
      BY <2>1, <2>2
  <1>7. Lev(t, p + 1) > Lev(t, B) /\ Lev(t, p + 1) >= Lev(t, B)
    <2>1. Lev(t, p) = Lev(t, B) + 1
      BY <1>1, <1>2 DEF Floor
    <2>2. Lev(t, B) \in Int
      BY <1>6, LevAt
    <2>3. QED
      <3>1. Lev(t, p + 1) \in Int
        BY <1>5
      <3>2. QED
        BY <1>5, <2>1, <2>2, <3>1, OneMore, Zenon
  <1>8. Body(t, p + 1, s, own)
    <2>1. s[Len(s)].kind \in Bracket /\ Lev(t, p) = Floor(t, s[Len(s)], own[Len(s)]) /\ Lev(t, p + 1) >= Lev(t, own[Len(s)]) /\ Lev(t, p + 1) > Lev(t, own[Len(s)])
      BY <1>1, <1>2, <1>7
    <2>2. (\A n \in 1 .. Len(s) - 1 : Frame(t, p + 1, s[n], own[n])) /\ Frame(t, p + 1, s[Len(s)], own[Len(s)])
      BY <1>1, <2>1, InnerGrows
    <2>3. \A n \in 1 .. Len(s) : n \in 1 .. Len(s) - 1 \/ n = Len(s)
      BY <1>6, LastOr, Zenon
    <2>4. \A n \in 1 .. Len(s) : Frame(t, p + 1, s[n], own[n])
      BY <2>2, <2>3, Zenon
    <2>5. QED
      BY <1>1, <2>4, BodyGrows, Zenon
  <1>9. Lev(t, p + 1) = Floor(t, f, B)
    BY <1>1, <1>5
  <1>10. Holds(t, f.at, p) /\ f.at # 0 /\ f.at \in 0 .. p - 1 /\ t[f.at] = "(" /\ Postfixed(t, f.at)
    BY <1>1, <1>2, <1>6, InnerHolds
  <1> HIDE DEF f, B
  <1>11. Top1(t, p + 1, f, B, "args", v)
    <2>1. (p + 1) - 1 = p
      BY NextIs, Zenon
    <2>2. Has(t, (p + 1) - 1, ",") /\ Lev(t, (p + 1) - 1) = Lev(t, p + 1)
      BY <1>5, <2>1 DEF Has
    <2>3. "args" \notin {"operand", "postfix", "back"} /\ "args" \notin After1
      BY DEF After1
    <2>4. QED
      BY <1>2, <2>2, <2>3, Zenon DEF Top1
  <1>12. Taken(t, p, "back")
    BY <1>3, <1>4, Zenon DEF Taken
  <1>13. Waits(t, p + 1, s, "args")
    BY <1>1, <1>4, <1>12, WaitsGrow
  <1>14. AllPlaced(t, p + 1)
    <2>1. Place(t, p, f.at)
      BY <1>3, <1>10, Zenon DEF Place
    <2>2. \E o \in 0 .. p - 1 : Holds(t, o, p) /\ Place(t, p, o)
      BY <1>10, <2>1, Zenon
    <2>3. QED
      BY <1>1, <1>4, <2>2, AllPlacedNext, Zenon
  <1>15. TreeSays(t, p + 1, s, "args", tr)
    BY <1>1, <1>4, <1>12, TreeNextBare
  <1>16. QED
    BY <1>8, <1>9, <1>11, <1>13, <1>14, <1>15, Zenon DEF Stood, f, B

-----------------------------------------------------------------------------
(* Calls that end: a prefix or an await with its operand, a bracket with   *)
(* what closes it.                                                         *)

(* The stack without its top.                                              *)
Popped(t, p, s, own) ==
  /\ Body(t, p, FrontOf(s), FrontOf(own)) /\ Len(FrontOf(s)) = Len(s) - 1
  /\ FrontOf(s)[Len(FrontOf(s))] = s[Len(s) - 1] /\ FrontOf(own)[Len(FrontOf(s))] = own[Len(s) - 1]
  /\ Sits(t, s[Len(s) - 1], own[Len(s) - 1], s[Len(s)], own[Len(s)])
  /\ Lev(t, own[Len(s)]) = Floor(t, s[Len(s) - 1], own[Len(s) - 1])
  /\ \A n \in 1 .. Len(s) - 1 : FrontOf(s)[n] = s[n] /\ FrontOf(own)[n] = own[n]
Drops(s, S) ==
  /\ \A i : Asked(s, i) => Asked(S, i) \/ (s[Len(s)].kind # "group" /\ s[Len(s)].at = i)
  /\ \A n \in 1 .. Len(s) : s[n].kind = "await" => n = Len(s) \/ \E m \in 1 .. Len(S) : S[m].kind = "await" /\ S[m].at = s[n].at

LEMMA PopIs ==
  ASSUME NEW t, NEW p \in Nat, p > 0, NEW s, NEW own, Body(t, p, s, own), Len(s) > 1
  PROVE  Popped(t, p, s, own) /\ Drops(s, FrontOf(s)) /\ Len(s) \in Nat
  <1> DEFINE S == FrontOf(s)
             O == FrontOf(own)
  <1>1. Len(s) \in Nat
    BY TopIs
  <1>2. /\ Body(t, p, S, O)
        /\ Len(S) = Len(s) - 1 /\ Len(s) - 1 \in 1 .. Len(s)
        /\ \A n \in 1 .. Len(s) - 1 : S[n] = s[n] /\ O[n] = own[n]
        /\ Sits(t, s[Len(s) - 1], own[Len(s) - 1], s[Len(s)], own[Len(s)])
        /\ Lev(t, own[Len(s)]) = Floor(t, s[Len(s) - 1], own[Len(s) - 1])
    <2>1. BodyPops(t, p, s, own)
      BY BodyPop
    <2>2. QED
      BY <2>1, Zenon DEF BodyPops
  <1> HIDE DEF S, O
  <1>3. Len(S) \in 1 .. Len(s) - 1
    BY <1>1, <1>2
  <1>4. S[Len(S)] = s[Len(s) - 1] /\ O[Len(S)] = own[Len(s) - 1]
    BY <1>2, <1>3
  <1>5. Popped(t, p, s, own)
    BY <1>2, <1>4, Zenon DEF Popped, S, O
  <1>6. \A n \in 1 .. Len(s) : n \in 1 .. Len(S) \/ n = Len(s)
    BY <1>1, <1>2
  <1>7. \A n \in 1 .. Len(S) : S[n] = s[n]
    BY <1>2
  <1>8. Drops(s, S)
    BY <1>6, <1>7, Zenon DEF Drops, Asked
  <1>9. QED
    BY <1>1, <1>5, <1>8 DEF S

LEMMA OverOne ==
  \A n \in Nat : n > 0 /\ n # 1 => n > 1
  OBVIOUS

(* Below a call that is no expression there is one.                        *)
LEMMA NotLast ==
  ASSUME NEW t, NEW p \in Nat, p > 0, NEW s, NEW own, Body(t, p, s, own), s[Len(s)].kind # "expr"
  PROVE  Len(s) > 1
  <1>1. Len(s) \in Nat /\ Len(s) > 0
    BY TopIs
  <1>2. s[1].kind = "expr"
    BY DEF Body
  <1>3. Len(s) # 1
    BY <1>2, Zenon
  <1>4. QED
    BY <1>1, <1>3, OverOne, Zenon

(* Under a call that is no expression is the frame of an operand, and it   *)
(* begins where the call does.                                             *)
LEMMA OperandBelow ==
  ASSUME NEW t, NEW f, NEW bf, NEW g, NEW bg, Sits(t, f, bf, g, bg), g.kind # "expr"
  PROVE  Primary(f) /\ Slot(f, bf) = bg
  BY DEF Sits, Primary, Slot

(* PrefixEnds: the prefix, or the await, and its operand are an operand.   *)
LEMMA PrefixEndsGoes ==
  ASSUME NEW t, NEW p \in Nat, p > 0, NEW s, NEW own, NEW v, NEW tr, Stood(t, p, s, own, "back", v, tr),
         s[Len(s)].kind \in {"prefix", "await"}
  PROVE  Stood(t, p, FrontOf(s), FrontOf(own), "postfix", Span(s[Len(s)].at, v.hi),
               tr \cup {Node(s[Len(s)].at, s[Len(s)].at, v.hi)})
  <1> DEFINE f == s[Len(s)]
             B == own[Len(s)]
             S == FrontOf(s)
             O == FrontOf(own)
             g == s[Len(s) - 1]
             c == own[Len(s) - 1]
             V == Span(f.at, v.hi)
             nd == Node(f.at, f.at, v.hi)
  <1>1. /\ Body(t, p, s, own) /\ Lev(t, p) = Floor(t, f, B) /\ Top1(t, p, f, B, "back", v)
        /\ Waits(t, p, s, "back") /\ AllPlaced(t, p) /\ TreeSays(t, p, s, "back", tr)
    BY Zenon DEF Stood
  <1>2. f.kind # "expr" /\ f.kind \notin Bracket /\ f.kind # "group" /\ f.kind \in {"prefix", "await"}
    BY DEF Bracket
  <1>3. f \in Calls /\ Frame(t, p, f, B) /\ B \in 1 .. p /\ B \in Nat
    BY <1>1, TopIs
  <1>4. Len(s) > 1
    BY <1>1, <1>2, NotLast
  <1>5. Popped(t, p, s, own) /\ Drops(s, S)
    BY <1>1, <1>4, PopIs
  <1>6. /\ Body(t, p, S, O) /\ S[Len(S)] = g /\ O[Len(S)] = c /\ Sits(t, g, c, f, B) /\ Lev(t, B) = Floor(t, g, c)
    BY <1>5 DEF Popped
  <1>7. V.lo = f.at /\ V.hi = v.hi /\ nd.at = f.at /\ nd.lo = f.at /\ nd.hi = v.hi /\ nd = Node(nd.at, nd.lo, nd.hi)
    BY DEF Span, Node
  <1> HIDE DEF f, B, S, O, g, c, V, nd
  <1>8. /\ f.at = B /\ B < p /\ Within(t, B, p)
        /\ f.kind = "prefix" => Prefixed(t, B)
        /\ f.kind = "await" => Awaited(t, B)
    BY <1>2, <1>3 DEF Frame
  <1>9. Primary(g) /\ Slot(g, c) = B
    BY <1>2, <1>6, OperandBelow
  <1>10. Lev(t, p) = Lev(t, B) /\ Lev(t, p) = Floor(t, g, c)
    BY <1>1, <1>2, <1>6 DEF Floor
  <1>11. "back" \in After1 /\ "postfix" \in After1
    BY DEF After1
  <1>12. /\ Behind(t, p) /\ v.hi = p - 1 /\ p <= Len(t) /\ t[p] \notin Leads
         /\ f.kind = "await" => t[p] \notin Operators
    <2>1. Behind(t, p) /\ v.hi = p - 1 /\ p <= Len(t) /\ t[p] \notin Leads
      BY <1>1, <1>11, Zenon DEF Top1
    <2>2. f.kind = "await" => f.kind \notin {"expr", "prefix"}
      BY <1>2
    <2>3. f.kind = "await" => t[p] \notin Operators
      BY <1>1, <2>2, Zenon DEF Top1
    <2>4. QED
      BY <2>1, <2>3
  <1>13. Top1(t, p, g, c, "postfix", V)
    BY <1>7, <1>8, <1>9, <1>12, OperandTop
  <1>14. Waits(t, p, S, "postfix")
    <2>1. \A n \in 1 .. Len(s) : s[n].kind = "await" =>
            \/ \E m \in 1 .. Len(S) : S[m].kind = "await" /\ S[m].at = s[n].at
            \/ Lev(t, s[n].at) = Lev(t, p) /\ "postfix" \in After1 /\ p <= Len(t) /\ t[p] \notin Operators \cup Leads
      <3>1. ASSUME NEW n \in 1 .. Len(s), s[n].kind = "await", n = Len(s)
            PROVE  Lev(t, s[n].at) = Lev(t, p) /\ "postfix" \in After1 /\ p <= Len(t) /\ t[p] \notin Operators \cup Leads
        <4>1. s[n] = f
          BY <3>1 DEF f
        <4>2. Lev(t, f.at) = Lev(t, p)
          BY <1>8, <1>10
        <4>3. QED
          BY <1>11, <1>12, <3>1, <4>1, <4>2
      <3>2. QED
        BY <1>5, <3>1, Zenon DEF Drops
    <2>2. QED
      BY <1>1, <1>11, <2>1, WaitsStay
  <1>15. B \in 1 .. p - 1 /\ p - 1 \in B .. p - 1
    BY <1>3, <1>8
  <1>16. ~Binary(t, B) /\ ~Postfixed(t, B) /\ Nodal(t, B)
    BY <1>2, <1>8, Apart DEF Nodal
  <1>17. Good(t, p, nd)
    <2>1. Reach(t, p, B, p - 1)
      <3>1. \A k \in B + 1 .. p - 1 : ~Stop(t, B, k)
        BY <1>8 DEF Within
      <3>2. ~((p - 1) + 1 < p)
        BY <1>15
      <3>3. QED
        BY <1>15, <3>1, <3>2, Zenon DEF Reach
    <2>2. QED
      BY <1>7, <1>8, <1>12, <1>15, <1>16, <2>1, Zenon DEF Good
  <1>18. Late(t, p, B)
    <2>1. t[p] \in Operators => f.kind = "prefix"
      BY <1>2, <1>12
    <2>2. ASSUME t[p] \in Operators
          PROVE  Prio(t, p) <= Cap(t, B) /\ Through(t, B, p)
      <3>1. Prio(t, p) \in 1 .. 7 /\ Cap(t, B) = 7
        BY <1>8, <2>1, <2>2, PrioIs
      <3>2. Prio(t, p) <= Cap(t, B)
        BY <3>1
      <3>3. ASSUME NEW m \in B + 1 .. p - 1, Lev(t, m) = Lev(t, B)
            PROVE  ~Awaited(t, m)
        <4>1. m \in B .. p - 1 /\ \A k \in m + 1 .. p - 1 : k \in B + 1 .. p - 1
          BY <1>3
        <4>2. \A k \in m + 1 .. p - 1 : Lev(t, k) = Lev(t, m) => ~Comma(t, k)
          BY <1>8, <3>3, <4>1, Zenon DEF Within, Stop
        <4>3. Lev(t, own[Len(s)]) = Lev(t, p) /\ Lev(t, m) = Lev(t, p) /\ m \in own[Len(s)] .. p - 1
          BY <1>10, <3>3, <4>1 DEF B
        <4>4. s[Len(s)].kind # "await"
          BY <2>1, <2>2 DEF f
        <4>5. QED
          BY <1>1, <2>2, <4>2, <4>3, <4>4, NoAwaits
      <3>4. QED
        BY <3>2, <3>3 DEF Through
    <2>3. QED
      BY <1>10, <1>12, <2>2, Zenon DEF Late
  <1>19. TreeSays(t, p, S, "postfix", tr \cup {nd})
    <2>1. \A n \in {nd} : Good(t, p, n) /\ (n.hi = p - 1 /\ ~Postfixed(t, n.at) => "postfix" \in After1 /\ Late(t, p, n.at))
      BY <1>7, <1>8, <1>11, <1>17, <1>18
    <2>2. \A i \in 1 .. p - 1 : Asked(s, i) => Asked(S, i) \/ \E n \in {nd} : n.at = i
      <3>1. \A i : Asked(s, i) => Asked(S, i) \/ f.at = i
        BY <1>5, Zenon DEF Drops, f
      <3>2. QED
        BY <1>7, <3>1
    <2>3. QED
      BY <1>1, <1>11, <2>1, <2>2, TreeStays
  <1>20. QED
    <2>1. Stood(t, p, S, O, "postfix", V, tr \cup {nd})
      BY <1>1, <1>6, <1>10, <1>13, <1>14, <1>19, Zenon DEF Stood
    <2>2. QED
      BY <2>1 DEF S, O, V, nd, f

(* What a closing bracket ends stands where an operand can.                *)
LEMMA ClosedPure ==
  ASSUME NEW t, NEW p \in Nat, p > 0, NEW f \in Calls, NEW b, Frame(t, p, f, b), f.kind \in Bracket,
         NEW g \in Calls, NEW c, Frame(t, p, g, c), Primary(g), Slot(g, c) = b, Lev(t, p + 1) = Lev(t, b)
  PROVE  Pure(t, b, p + 1)
  <1>1. /\ f.at \in b .. p - 1 /\ b \in 1 .. p
        /\ t[f.at] = (IF f.kind = "index" THEN "[" ELSE "(")
        /\ \A k \in f.at + 1 .. p : Lev(t, k) > Lev(t, f.at)
        /\ Lev(t, f.at) = Lev(t, b) /\ Above(t, b, p)
    BY DEF Frame
  <1>2. b \in 1 .. (p + 1) - 1 /\ \A k \in b .. (p + 1) - 1 : k \in b .. p /\ k \in Nat /\ k > 0
    BY <1>1
  <1>3. Opening(t, f.at)
    BY <1>1, Zenon DEF Opening
  <1>4. ASSUME NEW k \in b .. (p + 1) - 1
        PROVE  /\ Lev(t, k) >= Lev(t, p + 1)
               /\ Lev(t, k) = Lev(t, p + 1) => ~Binary(t, k) /\ ~Prefixed(t, k) /\ ~Comma(t, k) /\ ~Awaited(t, k)
    <2>1. Lev(t, k) >= Lev(t, p + 1)
      BY <1>1, <1>2 DEF Above
    <2>2. CASE k = f.at
      <3>1. ~Binary(t, k) /\ ~Prefixed(t, k) /\ ~Comma(t, k) /\ ~Awaited(t, k)
        BY <1>3, <2>2, Apart, Zenon
      <3>2. QED
        BY <2>1, <3>1
    <2>3. CASE k \in f.at + 1 .. p
      <3>1. Lev(t, k) > Lev(t, b)
        BY <1>1, <2>3
      <3>2. Lev(t, k) \in Int /\ Lev(t, b) \in Int
        BY <1>1, <1>2, LevAt
      <3>3. Lev(t, k) # Lev(t, p + 1)
        BY <3>1, <3>2
      <3>4. QED
        BY <2>1, <3>3
    <2>4. CASE k \in b .. f.at - 1
      <3>1. f.kind \in {"args", "index"}
        <4>1. f.kind = "group" => f.at = b
          BY DEF Frame
        <4>2. f.at # b
          BY <1>1, <2>4
        <4>3. QED
          BY <4>1, <4>2, Zenon DEF Bracket
      <3>2. Starts(t, f.at, b)
        BY <3>1 DEF Frame
      <3>3. ~Edge(t, k, f.at)
        BY <2>4, <3>2 DEF Starts
      <3>4. ~Binary(t, f.at)
        BY <1>3, Apart, Zenon
      <3>5. Lev(t, k) = Lev(t, f.at) => ~Comma(t, k) /\ ~Awaited(t, k) /\ ~Binary(t, k) /\ ~Prefixed(t, k)
        BY <3>3, <3>4, Zenon DEF Edge
      <3>6. QED
        BY <1>1, <2>1, <3>5
    <2>5. k = f.at \/ k \in f.at + 1 .. p \/ k \in b .. f.at - 1
      BY <1>1
    <2>6. QED
      BY <2>2, <2>3, <2>4, <2>5
  <1>5. b > 1 => \/ Opening(t, b - 1) /\ Lev(t, p + 1) = Lev(t, b - 1) + 1
                 \/ /\ Lev(t, b - 1) = Lev(t, p + 1)
                    /\ Binary(t, b - 1) \/ Prefixed(t, b - 1) \/ Comma(t, b - 1) \/ Awaited(t, b - 1)
    <2>1. Slot(g, c) > 1 => \/ Opening(t, Slot(g, c) - 1) /\ Lev(t, Slot(g, c)) = Lev(t, Slot(g, c) - 1) + 1
                            \/ /\ Lev(t, Slot(g, c) - 1) = Lev(t, Slot(g, c))
                               /\ \/ Binary(t, Slot(g, c) - 1) \/ Prefixed(t, Slot(g, c) - 1)
                                  \/ Comma(t, Slot(g, c) - 1) \/ Awaited(t, Slot(g, c) - 1)
      BY SlotIs, Zenon
    <2>2. QED
      BY <2>1
  <1>6. QED
    BY <1>2, <1>4, <1>5, Zenon DEF Pure

(* The node of a call or an index.                                         *)
LEMMA ClosedGood ==
  ASSUME NEW t, NEW p \in Nat, p > 0, NEW f \in Calls, NEW b, Frame(t, p, f, b), f.kind \in Bracket, f.kind # "group",
         Lev(t, p + 1) = Lev(t, b)
  PROVE  Good(t, p + 1, Node(f.at, f.lo, p)) /\ Postfixed(t, f.at)
  <1> DEFINE nd == Node(f.at, f.lo, p)
  <1>0. nd.at = f.at /\ nd.lo = f.lo /\ nd.hi = p /\ nd = Node(nd.at, nd.lo, nd.hi)
    BY DEF Node
  <1> HIDE DEF nd
  <1>1. /\ f.at \in b .. p - 1 /\ b \in 1 .. p /\ f.lo = b
        /\ t[f.at] = (IF f.kind = "index" THEN "[" ELSE "(")
        /\ \A k \in f.at + 1 .. p : Lev(t, k) > Lev(t, f.at)
        /\ Lev(t, f.at) = Lev(t, b) /\ Above(t, b, p)
    BY DEF Frame
  <1>2. f.kind \in {"args", "index"}
    BY DEF Bracket
  <1>3. Behind(t, f.at) /\ Starts(t, f.at, b)
    BY <1>2 DEF Frame
  <1>4. t[f.at] \in {".", "(", "["} /\ t[f.at] # "."
    BY <1>1, Zenon
  <1>5. Postfixed(t, f.at) /\ Nodal(t, f.at)
    BY <1>3, <1>4, Zenon DEF Postfixed, Nodal
  <1>6. f.at \in 1 .. (p + 1) - 1 /\ p \in f.at .. (p + 1) - 1 /\ p > f.at
    BY <1>1
  <1>7. QED
    BY <1>0, <1>1, <1>3, <1>4, <1>5, <1>6, Zenon DEF Good, nd

(* Close, with the right bracket: the call or group is an operand.         *)
LEMMA CloseGoes ==
  ASSUME NEW t, NEW p \in Nat, p > 0, NEW s, NEW own, NEW v, NEW tr, NEW d \in {"args", "back"}, Stood(t, p, s, own, d, v, tr),
         s[Len(s)].kind \in Bracket, t[p] = (IF s[Len(s)].kind = "index" THEN "]" ELSE ")")
  PROVE  Stood(t, p + 1, FrontOf(s), FrontOf(own), "postfix", Span(s[Len(s)].lo, p),
               IF s[Len(s)].kind = "group" THEN tr ELSE tr \cup {Node(s[Len(s)].at, s[Len(s)].lo, p)})
  <1> DEFINE f == s[Len(s)]
             B == own[Len(s)]
             S == FrontOf(s)
             O == FrontOf(own)
             g == s[Len(s) - 1]
             c == own[Len(s) - 1]
             V == Span(f.lo, p)
             nd == Node(f.at, f.lo, p)
             q == p + 1
  <1>1. /\ Body(t, p, s, own) /\ Lev(t, p) = Floor(t, f, B) /\ Top1(t, p, f, B, d, v)
        /\ Waits(t, p, s, d) /\ AllPlaced(t, p) /\ TreeSays(t, p, s, d, tr)
    BY Zenon DEF Stood
  <1>2. f.kind # "expr" /\ f.kind \in Bracket /\ f.kind # "await"
    BY DEF Bracket
  <1>3. f \in Calls /\ Frame(t, p, f, B) /\ B \in 1 .. p /\ B \in Nat
    BY <1>1, TopIs
  <1>4. Len(s) > 1
    BY <1>1, <1>2, NotLast
  <1>5. Popped(t, p, s, own) /\ Drops(s, S) /\ Len(s) \in Nat
    BY <1>1, <1>4, PopIs
  <1>6. /\ Body(t, p, S, O) /\ S[Len(S)] = g /\ O[Len(S)] = c /\ Sits(t, g, c, f, B) /\ Lev(t, B) = Floor(t, g, c)
        /\ Len(S) = Len(s) - 1 /\ \A n \in 1 .. Len(s) - 1 : S[n] = s[n] /\ O[n] = own[n]
    BY <1>5, Zenon DEF Popped
  <1>7. V.lo = f.lo /\ V.hi = p /\ nd.at = f.at /\ nd.hi = p
    BY DEF Span, Node
  <1>8. q \in Nat /\ q > 0 /\ q - 1 = p
    OBVIOUS
  <1>9. t[p] \in {")", "]"} /\ (f.kind = "index" => t[p] = "]") /\ (f.kind # "index" => t[p] = ")")
    BY Zenon
  <1> HIDE DEF f, B, S, O, g, c, V, nd, q
  <1>10. Closing(t, p) /\ ~Opening(t, p) /\ ~Comma(t, p) /\ ~Awaited(t, p) /\ ~Nodal(t, p) /\ t[p] # "ref" /\ t[p] \notin Unary /\ t[p] \notin Operators
    BY <1>9, Zenon, WordsApart DEF Comma, Opening, Closing, Awaited, Nodal, Binary, Prefixed, Postfixed, Operators, Unary
  <1>11. Lev(t, p) \in Int /\ Lev(t, B) \in Int /\ Lev(t, p + 1) = Lev(t, B)
    <2>1. Lev(t, p) \in Int /\ Lev(t, p + 1) = Lev(t, p) - 1
      BY <1>10, LevAt
    <2>2. B > 0
      BY <1>3, RangeNat, Zenon
    <2>3. Lev(t, B) \in Int
      BY <1>3, <2>2, LevAt
    <2>4. Lev(t, p) = Lev(t, B) + 1
      BY <1>1, <1>2 DEF Floor
    <2>5. QED
      BY <2>1, <2>3, <2>4
  <1>12. Body(t, q, S, O)
    <2>1. s[Len(s)].kind \in Bracket /\ Lev(t, p) = Floor(t, s[Len(s)], own[Len(s)]) /\ Lev(t, p + 1) >= Lev(t, own[Len(s)])
      BY <1>1, <1>2, <1>11 DEF f, B
    <2>2. \A n \in 1 .. Len(s) - 1 : Frame(t, p + 1, s[n], own[n])
      BY <1>1, <2>1, InnerGrows
    <2>3. \A n \in 1 .. Len(S) : Frame(t, q, S[n], O[n])
      BY <1>6, <2>2, Zenon DEF q
    <2>4. QED
      BY <1>6, <2>3, BodyGrows, Zenon
  <1>13. Primary(g) /\ Slot(g, c) = B /\ g \in Calls /\ Frame(t, p, g, c)
    <2>1. Primary(g) /\ Slot(g, c) = B
      BY <1>2, <1>6, OperandBelow
    <2>2. S[Len(S)] \in Calls /\ Frame(t, p, S[Len(S)], O[Len(S)])
      BY <1>6, TopIs
    <2>3. QED
      BY <1>6, <2>1, <2>2
  <1>14. Lev(t, q) = Floor(t, g, c)
    BY <1>6, <1>11 DEF q
  <1>15. f.lo = B /\ f.at \in B .. p - 1
    BY <1>2, <1>3 DEF Frame
  <1>16. Top1(t, q, g, c, "postfix", V)
    <2>1. Pure(t, V.lo, q)
      BY <1>2, <1>3, <1>7, <1>11, <1>13, <1>15, ClosedPure DEF q
    <2>2. Behind(t, p + 1)
      BY <1>9, Parts
    <2>3. Slot(g, c) = V.lo /\ V.hi = q - 1 /\ Behind(t, q)
      BY <1>7, <1>8, <1>13, <1>15, <2>2 DEF q
    <2>4. QED
      BY <1>8, <1>13, <2>1, <2>3, OperandTop
  <1>17. d = "back" => Behind(t, p)
    BY <1>1, Zenon DEF Top1, After1
  <1>18. Taken(t, p, d)
    <2>1. d \in After1 => d = "back"
      BY DEF After1
    <2>2. QED
      BY <1>10, <1>17, <2>1, Zenon DEF Taken
  <1>19. Waits(t, p + 1, S, "postfix")
    <2>1. \A n \in 1 .. Len(s) : s[n].kind = "await" => \E m \in 1 .. Len(S) : S[m].kind = "await" /\ S[m].at = s[n].at
      <3>1. s[Len(s)].kind # "await"
        BY <1>2 DEF f
      <3>2. QED
        BY <1>5, <3>1, Zenon DEF Drops
    <2>2. QED
      BY <1>1, <1>10, <1>18, <2>1, WaitsGrow
  <1>20. AllPlaced(t, p + 1)
    <2>1. /\ Holds(t, f.at, p) /\ f.at # 0 /\ f.at \in 0 .. p - 1
          /\ t[f.at] = (IF f.kind = "index" THEN "[" ELSE "(")
          /\ Postfixed(t, f.at) <=> f.kind # "group"
      BY <1>1, <1>2, <1>3, InnerHolds
    <2>2. d = "args" => f.kind = "args" /\ (f.at = p - 1 \/ Has(t, p - 1, ","))
      BY <1>1, Zenon DEF Top1
    <2>3. d = "args" \/ d = "back"
      OBVIOUS
    <2>4. CASE d = "back"
      <3>1. \/ t[p] = ")" /\ t[f.at] = "("
            \/ t[p] = "]" /\ t[f.at] = "["
        BY <1>9, <2>1, Zenon
      <3>2. Place(t, p, f.at)
        BY <1>17, <2>1, <2>4, <3>1, Zenon DEF Place
      <3>3. \E o \in 0 .. p - 1 : Holds(t, o, p) /\ Place(t, p, o)
        BY <2>1, <3>2, Zenon
      <3>4. QED
        BY <1>1, <1>10, <3>3, AllPlacedNext, Zenon
    <2>5. CASE d = "args"
      <3>1. Postfixed(t, f.at) /\ t[f.at] = "(" /\ t[p] = ")" /\ (f.at = p - 1 \/ Has(t, p - 1, ","))
        <4>1. f.kind = "args" /\ f.kind # "group" /\ f.kind # "index"
          BY <2>2, <2>5
        <4>2. QED
          BY <1>9, <2>1, <2>2, <2>5, <4>1, Zenon
      <3>2. Place(t, p, f.at)
        BY <2>1, <3>1, Zenon DEF Place
      <3>3. \E o \in 0 .. p - 1 : Holds(t, o, p) /\ Place(t, p, o)
        BY <2>1, <3>2, Zenon
      <3>4. QED
        BY <1>1, <1>10, <3>3, AllPlacedNext, Zenon
    <2>6. QED
      BY <2>3, <2>4, <2>5, Zenon
  <1>21. TreeSays(t, p + 1, S, "postfix", IF f.kind = "group" THEN tr ELSE tr \cup {nd})
    <2>1. \A i : Asked(s, i) => Asked(S, i) \/ (f.kind # "group" /\ f.at = i)
      BY <1>5, Zenon DEF Drops, f
    <2>2. CASE f.kind = "group"
      <3>1. \A i \in 1 .. p - 1 : Asked(s, i) => Asked(S, i)
        BY <2>1, <2>2, Zenon
      <3>2. TreeSays(t, p + 1, S, "postfix", tr)
        BY <1>1, <1>10, <1>18, <3>1, TreeNextBare
      <3>3. QED
        BY <2>2, <3>2
    <2>3. CASE f.kind # "group"
      <3>1. Good(t, p + 1, nd) /\ Postfixed(t, f.at)
        BY <1>2, <1>3, <1>11, <2>3, ClosedGood DEF nd
      <3>2. \A n \in {nd} : Good(t, p + 1, n) /\ (n.hi = p => Postfixed(t, n.at))
        BY <1>7, <3>1
      <3>3. \A i \in 1 .. p - 1 : Asked(s, i) => Asked(S, i) \/ \E n \in {nd} : n.at = i
        BY <1>7, <2>1, Zenon
      <3>4. TreeSays(t, p + 1, S, "postfix", tr \cup {nd})
        BY <1>1, <1>10, <1>18, <3>2, <3>3, TreeNext
      <3>5. QED
        BY <2>3, <3>4
    <2>4. QED
      BY <2>2, <2>3
  <1>22. QED
    <2>1. Stood(t, q, S, O, "postfix", V, IF f.kind = "group" THEN tr ELSE tr \cup {nd})
      BY <1>6, <1>12, <1>14, <1>16, <1>19, <1>20, <1>21, Zenon DEF Stood, q
    <2>2. QED
      BY <2>1 DEF S, O, V, nd, f, q

-----------------------------------------------------------------------------
(* Operators: the operand on the left, the calls that wait below, and the  *)
(* right operand.                                                          *)

(* No comma stands beside the operators of an expression.                  *)
LEMMA NoCommas ==
  ASSUME NEW t, NEW p \in Nat, p > 0, NEW f \in Calls, NEW b, Frame(t, p, f, b), f.kind = "expr"
  PROVE  \A k \in b .. p - 1 : Lev(t, k) = Lev(t, b) => ~Comma(t, k)
  <1>1. CASE f.at = 0
    BY <1>1, Zenon DEF Frame
  <1>2. CASE f.at # 0
    <2> DEFINE i == f.at
    <2>1. i \in 1 .. p - 1 /\ Binary(t, i) /\ Lev(t, i) = Lev(t, b) /\ Starts(t, i, b) /\ Within(t, i, p)
      BY <1>2, Zenon DEF Frame
    <2> HIDE DEF i
    <2>2. \A k \in b .. i - 1 : Lev(t, k) = Lev(t, i) => ~Comma(t, k)
      BY <2>1, Zenon DEF Starts, Edge
    <2>3. \A k \in i + 1 .. p - 1 : Lev(t, k) = Lev(t, i) => ~Comma(t, k)
      BY <2>1, Zenon DEF Within, Stop
    <2>4. ~Comma(t, i)
      BY <2>1, Apart
    <2>5. \A k \in b .. p - 1 : k \in b .. i - 1 \/ k = i \/ k \in i + 1 .. p - 1
      <3>1. b \in Nat
        BY FrameIs
      <3>2. QED
        BY <2>1, <3>1
    <2>6. QED
      BY <2>1, <2>2, <2>3, <2>4, <2>5, Zenon
  <1>3. QED
    BY <1>1, <1>2

(* Nor does an await, if an operator follows.                              *)
LEMMA NoAwaitsBeside ==
  ASSUME NEW t, NEW p \in Nat, p > 0, NEW s, NEW own, NEW d, Body(t, p, s, own), Waits(t, p, s, d),
         t[p] \in Operators, s[Len(s)].kind = "expr", Lev(t, own[Len(s)]) = Lev(t, p)
  PROVE  \A m \in own[Len(s)] .. p - 1 : Lev(t, m) = Lev(t, p) => ~Awaited(t, m)
  <1> SUFFICES ASSUME NEW m \in own[Len(s)] .. p - 1, Lev(t, m) = Lev(t, p)
               PROVE  ~Awaited(t, m)
    OBVIOUS
  <1>1. s[Len(s)] \in Calls /\ Frame(t, p, s[Len(s)], own[Len(s)]) /\ own[Len(s)] \in Nat
    BY TopIs
  <1>2. \A k \in own[Len(s)] .. p - 1 : Lev(t, k) = Lev(t, own[Len(s)]) => ~Comma(t, k)
    BY <1>1, NoCommas
  <1>3. \A k \in m + 1 .. p - 1 : k \in own[Len(s)] .. p - 1
    BY <1>1
  <1>4. \A k \in m + 1 .. p - 1 : Lev(t, k) = Lev(t, m) => ~Comma(t, k)
    BY <1>2, <1>3
  <1>5. s[Len(s)].kind # "await"
    OBVIOUS
  <1>6. QED
    BY <1>4, <1>5, NoAwaits

(* What is known of an expression when it, or its right operand, is parsed. *)
ExprIs(t, p, s, own, v, tr, f, b) ==
  /\ Body(t, p, s, own) /\ Waits(t, p, s, "back") /\ AllPlaced(t, p) /\ TreeSays(t, p, s, "back", tr)
  /\ f \in Calls /\ Frame(t, p, f, b) /\ b \in 1 .. p /\ b \in Nat /\ Len(s) \in Nat /\ Len(s) > 0
  /\ Lev(t, p) = Lev(t, b) /\ Lev(t, p) = Floor(t, f, b) /\ Lev(t, p) \in Int
  /\ Behind(t, p) /\ v.hi = p - 1 /\ p <= Len(t) /\ t[p] \notin Leads
  /\ f.at = 0 => v.lo = b
  /\ f.at # 0 => f.lo = b
  /\ f.at # 0 /\ t[p] \in Operators => Prio(t, p) <= Prio(t, f.at)
  /\ \A k \in b .. p - 1 : Lev(t, k) = Lev(t, b) => ~Comma(t, k) /\ (t[p] \in Operators => ~Awaited(t, k))

(* What the top expression knows when an operand has come back.            *)
LEMMA ExprBack ==
  ASSUME NEW t, NEW p \in Nat, p > 0, NEW s, NEW own, NEW v, NEW tr, Stood(t, p, s, own, "back", v, tr),
         s[Len(s)].kind = "expr", NEW f, f = s[Len(s)], NEW b, b = own[Len(s)]
  PROVE  ExprIs(t, p, s, own, v, tr, f, b)
  <1>1. /\ Body(t, p, s, own) /\ Lev(t, p) = Floor(t, f, b) /\ Top1(t, p, f, b, "back", v)
        /\ Waits(t, p, s, "back") /\ AllPlaced(t, p) /\ TreeSays(t, p, s, "back", tr)
    BY Zenon DEF Stood
  <1>2. f \in Calls /\ Frame(t, p, f, b) /\ b \in 1 .. p /\ b \in Nat /\ Len(s) \in Nat /\ Len(s) > 0
    BY <1>1, TopIs
  <1>3. Floor(t, f, b) = Lev(t, b)
    BY DEF Floor, Bracket
  <1>4. Lev(t, p) \in Int
    BY LevAt
  <1>5. "back" \in After1
    BY DEF After1
  <1>6. f.kind = "expr"
    OBVIOUS
  <1>7. /\ Behind(t, p) /\ v.hi = p - 1 /\ p <= Len(t) /\ t[p] \notin Leads
        /\ f.at = 0 => v.lo = b
        /\ f.at # 0 /\ t[p] \in Operators => Prio(t, p) <= Prio(t, f.at)
    BY <1>1, <1>5, <1>6, Zenon DEF Top1
  <1>8. f.at # 0 => f.lo = b
    BY <1>2, <1>6, Zenon DEF Frame
  <1>9. \A k \in b .. p - 1 : Lev(t, k) = Lev(t, b) => ~Comma(t, k)
    BY <1>2, <1>6, NoCommas
  <1>10. t[p] \in Operators => \A k \in b .. p - 1 : Lev(t, k) = Lev(t, p) => ~Awaited(t, k)
    <2>1. Lev(t, own[Len(s)]) = Lev(t, p)
      BY <1>1, <1>3
    <2>2. QED
      BY <1>1, <2>1, NoAwaitsBeside
  <1>11. \A k \in b .. p - 1 : Lev(t, k) = Lev(t, b) => ~Comma(t, k) /\ (t[p] \in Operators => ~Awaited(t, k))
    BY <1>1, <1>3, <1>9, <1>10, Zenon
  <1>12. QED
    BY <1>1, <1>2, <1>3, <1>4, <1>7, <1>8, <1>11, Zenon DEF ExprIs

(* The node of the operator before, once its right operand is known.       *)
LEMMA FoldTree ==
  ASSUME NEW t, NEW p \in Nat, p > 0, NEW s, NEW own, NEW v, NEW tr, Stood(t, p, s, own, "back", v, tr),
         s[Len(s)].kind = "expr", NEW s2,
         \A i \in 1 .. p - 1 : Asked(s, i) => Asked(s2, i) \/ i = s[Len(s)].at
  PROVE  TreeSays(t, p, s2, "back", IF s[Len(s)].at = 0 THEN tr ELSE tr \cup {Node(s[Len(s)].at, s[Len(s)].lo, v.hi)})
  <1> DEFINE f == s[Len(s)]
             b == own[Len(s)]
             nd == Node(f.at, f.lo, v.hi)
  <1>1. /\ Waits(t, p, s, "back") /\ AllPlaced(t, p) /\ TreeSays(t, p, s, "back", tr)
        /\ f \in Calls /\ Frame(t, p, f, b) /\ b \in 1 .. p /\ b \in Nat
        /\ Lev(t, p) = Lev(t, b) /\ Lev(t, p) \in Int
        /\ Behind(t, p) /\ v.hi = p - 1 /\ p <= Len(t) /\ t[p] \notin Leads
        /\ f.at # 0 => f.lo = b
        /\ f.at # 0 /\ t[p] \in Operators => Prio(t, p) <= Prio(t, f.at)
        /\ \A k \in b .. p - 1 : Lev(t, k) = Lev(t, b) => ~Comma(t, k) /\ (t[p] \in Operators => ~Awaited(t, k))
    <2>1. ExprIs(t, p, s, own, v, tr, f, b)
      BY ExprBack
    <2>2. QED
      BY <2>1, Zenon DEF ExprIs
  <1>2. nd.at = f.at /\ nd.lo = f.lo /\ nd.hi = v.hi /\ nd = Node(nd.at, nd.lo, nd.hi)
    BY DEF Node
  <1>3. f.kind = "expr" /\ \A i \in 1 .. p - 1 : Asked(s, i) => Asked(s2, i) \/ i = f.at
    OBVIOUS
  <1> HIDE DEF f, b, nd
  <1>4. "back" \in After1
    BY DEF After1
  <1>5. CASE f.at = 0
    <2>1. \A i \in 1 .. p - 1 : Asked(s, i) => Asked(s2, i)
      BY <1>3, <1>5
    <2>2. QED
      BY <1>1, <1>5, <2>1, Zenon DEF TreeSays, f
  <1>6. CASE f.at # 0
    <2> DEFINE i == f.at
    <2>1. i \in 1 .. p - 1 /\ Binary(t, i) /\ Lev(t, i) = Lev(t, b) /\ Starts(t, i, b) /\ Within(t, i, p) /\ f.lo = b
      BY <1>1, <1>3, <1>6, Zenon DEF Frame
    <2>2. nd.at = i
      BY <1>2
    <2>3. t[p] \in Operators => Prio(t, p) <= Prio(t, i)
      BY <1>1, <1>6
    <2> HIDE DEF i
    <2>4. Nodal(t, i) /\ ~Postfixed(t, i)
      BY <2>1, Apart, Zenon DEF Nodal
    <2>5. i \in Nat /\ b <= i /\ p - 1 \in i .. p - 1 /\ (p - 1) + 1 = p /\ ~(p < p)
      <3>1. b \in 1 .. i
        BY <2>1 DEF Starts
      <3>2. QED
        BY <2>1, <3>1
    <2>6. Reach(t, p, i, p - 1)
      BY <2>1, <2>5, Zenon DEF Reach, Within
    <2>7. Good(t, p, nd)
      BY <1>1, <1>2, <2>1, <2>2, <2>4, <2>5, <2>6, Zenon DEF Good
    <2>8. Late(t, p, i)
      <3>1. Cap(t, i) = Prio(t, i)
        BY <2>1 DEF Cap
      <3>2. t[p] \in Operators => Through(t, i, p)
        <4>1. \A m \in i + 1 .. p - 1 : m \in b .. p - 1
          BY <1>1, <2>5
        <4>2. QED
          BY <1>1, <2>1, <4>1, Zenon DEF Through
      <3>3. Lev(t, p) = Lev(t, i)
        BY <1>1, <2>1
      <3>4. t[p] \in Operators => Prio(t, p) <= Cap(t, i)
        BY <2>3, <3>1, Zenon
      <3>5. QED
        BY <1>1, <3>2, <3>3, <3>4, Zenon DEF Late
    <2>9. \A n \in {nd} : Good(t, p, n) /\ (n.hi = p - 1 /\ ~Postfixed(t, n.at) => "back" \in After1 /\ Late(t, p, n.at))
      BY <1>4, <2>2, <2>7, <2>8
    <2>10. \A j \in 1 .. p - 1 : Asked(s, j) => Asked(s2, j) \/ \E n \in {nd} : n.at = j
      BY <1>2, <1>3
    <2>11. TreeSays(t, p, s2, "back", tr \cup {nd})
      BY <1>1, <2>9, <2>10, TreeStays
    <2>12. QED
      BY <1>6, <2>11 DEF f, nd
  <1>7. QED
    BY <1>5, <1>6

LEMMA Ordered ==
  /\ \A a, b, c \in Int : a < b /\ b <= c => a < c /\ ~(c < b) /\ ~(c <= a) /\ ~(b <= a)
  /\ \A a, b \in Int : a < b <=> ~(b <= a)
  /\ \A a, b, c \in Int : a <= b /\ b <= c => a <= c
  /\ \A n : \A k \in 1 .. n : k \in Int /\ k \in Nat
  /\ \A n : \A k \in 0 .. n : k \in Int /\ k \in Nat
  OBVIOUS

(* An operator that binds has the whole expression so far on its left.     *)
LEMMA ExprStarts ==
  ASSUME NEW t, NEW p \in Nat, p > 0, NEW s, NEW own, NEW v, NEW tr, NEW f, NEW b, ExprIs(t, p, s, own, v, tr, f, b),
         f.kind = "expr", t[p] \in Operators, Prio(t, p) >= f.min
  PROVE  Binary(t, p) /\ Starts(t, p, b)
  <1>1. /\ f \in Calls /\ Frame(t, p, f, b) /\ b \in 1 .. p /\ b \in Nat
        /\ Lev(t, p) = Lev(t, b) /\ Lev(t, p) \in Int /\ Behind(t, p)
        /\ f.at # 0 => Prio(t, p) <= Prio(t, f.at)
        /\ \A k \in b .. p - 1 : Lev(t, k) = Lev(t, b) => ~Comma(t, k) /\ ~Awaited(t, k)
    BY Zenon DEF ExprIs
  <1>2. Binary(t, p)
    BY <1>1, Zenon DEF Binary
  <1>3. Prio(t, p) \in 1 .. 7 /\ f.min \in Int /\ Prio(t, p) \in Int
    <2>1. Prio(t, p) \in 1 .. 7
      BY PrioIs
    <2>2. f.min \in 0 .. 8
      BY <1>1, FrameIs
    <2>3. QED
      BY <2>1, <2>2, Ordered, Zenon
  <1>4. b > 1 => Edge(t, b - 1, p)
    <2>1. Begins(t, b, f.min)
      BY <1>1, Zenon DEF Frame
    <2>2. b > 1 => Lev(t, b - 1) \in Int /\ (Opening(t, b - 1) => Lev(t, b) = Lev(t, b - 1) + 1)
      <3>1. b > 1 => b - 1 \in Nat /\ b - 1 > 0 /\ (b - 1) + 1 = b
        BY <1>1
      <3>2. QED
        BY <3>1, LevAt
    <2>3. ASSUME b > 1, Binary(t, b - 1), Prio(t, b - 1) < f.min
          PROVE  Prio(t, b - 1) < Prio(t, p)
      <3>1. Prio(t, b - 1) \in 1 .. 7
        BY <2>3, PrioIs
      <3>2. Prio(t, b - 1) \in Int
        BY <3>1, Ordered, Zenon
      <3>3. f.min <= Prio(t, p)
        BY <1>3
      <3>4. QED
        BY <1>3, <2>3, <3>2, <3>3, Ordered, Zenon
    <2>4. QED
      BY <1>1, <2>1, <2>2, <2>3, Zenon DEF Begins, Edge
  <1>5. ASSUME NEW k \in b .. p - 1
        PROVE  ~Edge(t, k, p)
    <2>1. k \in b .. p /\ k \in Nat /\ k > 0 /\ k \in 1 .. p - 1
      BY <1>1
    <2>2. Lev(t, k) \in Int /\ Lev(t, k) >= Lev(t, b)
      BY <1>1, <2>1, FrameIs, LevAt DEF Above
    <2>3. Lev(t, p) # Lev(t, k) + 1
      BY <1>1, <2>2
    <2>4. Lev(t, k) = Lev(t, p) => ~Comma(t, k) /\ ~Awaited(t, k)
      BY <1>1
    <2>5. ASSUME Lev(t, k) = Lev(t, p), Binary(t, k), Prio(t, k) < Prio(t, p)
          PROVE  FALSE
      <3>1. CASE f.at = 0
        <4>1. PICK m \in b .. k - 1 : Lev(t, m) = Lev(t, b) /\ Awaited(t, m)
          BY <1>1, <2>5, <3>1, Zenon DEF Frame
        <4>2. m \in b .. p - 1
          BY <1>1, <2>1
        <4>3. QED
          BY <1>1, <4>1, <4>2
      <3>2. CASE f.at # 0
        <4> DEFINE i == f.at
        <4>1. i \in 1 .. p - 1 /\ Binary(t, i) /\ Lev(t, i) = Lev(t, b) /\ Starts(t, i, b) /\ Within(t, i, p) /\ Prio(t, p) <= Prio(t, i)
          BY <1>1, <3>2, Zenon DEF Frame
        <4> HIDE DEF i
        <4>2. Prio(t, i) \in 1 .. 7 /\ Prio(t, k) \in 1 .. 7 /\ Cap(t, i) = Prio(t, i)
          BY <2>5, <4>1, PrioIs
        <4>3. Prio(t, k) < Prio(t, i) /\ Prio(t, k) <= Cap(t, i)
          BY <1>3, <2>5, <4>1, <4>2
        <4>4. k \in b .. i - 1 \/ k = i \/ k \in i + 1 .. p - 1
          BY <1>1, <2>1, <4>1
        <4>5. CASE k \in b .. i - 1
          BY <1>1, <2>5, <4>1, <4>3, <4>5, Zenon DEF Starts, Edge
        <4>6. CASE k = i
          BY <4>2, <4>3, <4>6
        <4>7. CASE k \in i + 1 .. p - 1
          <5>1. \A m \in i + 1 .. k - 1 : m \in b .. p - 1
            <6>1. b \in 1 .. i
              BY <4>1 DEF Starts
            <6>2. QED
              BY <2>1, <4>1, <6>1
          <5>2. Through(t, i, k)
            BY <1>1, <4>1, <5>1, Zenon DEF Through
          <5>3. Stop(t, i, k)
            BY <1>1, <2>5, <4>1, <4>3, <5>2, Zenon DEF Stop
          <5>4. QED
            BY <4>1, <4>7, <5>3, Zenon DEF Within
        <4>8. QED
          BY <4>4, <4>5, <4>6, <4>7
      <3>3. QED
        BY <3>1, <3>2
    <2>6. QED
      BY <1>2, <2>3, <2>4, <2>5, Zenon DEF Edge
  <1>6. QED
    BY <1>1, <1>2, <1>4, <1>5, Zenon DEF Starts

(* Another frame of the same expression on top.                            *)
Swapped(s, g) == Append(FrontOf(s), g)

(* The top call replaced.                                                  *)
LEMMA SwapIs ==
  ASSUME NEW s \in Seq(Calls), s # <<>>, NEW g \in Calls
  PROVE  /\ Swapped(s, g) \in Seq(Calls) /\ Len(Swapped(s, g)) = Len(s) /\ Swapped(s, g)[Len(s)] = g
         /\ Swapped(s, g) # <<>> /\ Len(s) \in Nat /\ Len(s) > 0
         /\ \A n \in 1 .. Len(s) - 1 : Swapped(s, g)[n] = s[n]
  <1> DEFINE S == FrontOf(s)
  <1>1. S \in Seq(Calls) /\ Len(S) = Len(s) - 1 /\ Len(s) > 0 /\ \A n \in 1 .. Len(s) - 1 : S[n] = s[n]
    BY FrontIs, Zenon
  <1>2. Len(s) \in Nat
    OBVIOUS
  <1> HIDE DEF S
  <1>3. /\ Append(S, g) \in Seq(Calls) /\ Len(Append(S, g)) = Len(S) + 1 /\ Append(S, g)[Len(S) + 1] = g
        /\ \A n \in 1 .. Len(S) : Append(S, g)[n] = S[n]
    BY <1>1
  <1>4. Len(S) + 1 = Len(s)
    BY <1>1, <1>2
  <1>5. Append(S, g) # <<>>
    BY <1>1
  <1>6. \A n \in 1 .. Len(s) - 1 : Append(S, g)[n] = s[n]
    BY <1>1, <1>3
  <1>7. QED
    BY <1>1, <1>2, <1>3, <1>4, <1>5, <1>6 DEF Swapped, S

LEMMA BodySwap ==
  ASSUME NEW t, NEW p, NEW q \in Nat, q > 0, NEW s, NEW own, Body(t, p, s, own), NEW g \in Calls, s[Len(s)].kind = "expr",
         g.kind = "expr", g.min = s[Len(s)].min,
         \A n \in 1 .. Len(s) - 1 : Frame(t, q, s[n], own[n]), Frame(t, q, g, own[Len(s)])
  PROVE  Body(t, q, Swapped(s, g), own)
  <1> DEFINE S == Swapped(s, g)
             f == s[Len(s)]
  <1>1. s \in Seq(Calls) /\ own \in Seq(Nat) /\ s # <<>> /\ Len(own) = Len(s) /\ own[1] = 1 /\ s[1].kind = "expr" /\ s[1].min = 0
    BY DEF Body
  <1>2. /\ S \in Seq(Calls) /\ Len(S) = Len(s) /\ S[Len(s)] = g /\ S # <<>> /\ Len(s) \in Nat /\ Len(s) > 0
        /\ \A n \in 1 .. Len(s) - 1 : S[n] = s[n]
    BY <1>1, SwapIs
  <1>3. f.kind = "expr" /\ g.kind = "expr" /\ g.min = f.min
    OBVIOUS
  <1> HIDE DEF S, f
  <1>4. \A n \in 1 .. Len(s) : n \in 1 .. Len(s) - 1 \/ n = Len(s)
    BY <1>2, LastOr, Zenon
  <1>5. \A n \in 1 .. Len(s) : S[n].kind = s[n].kind /\ S[n].min = s[n].min
    BY <1>2, <1>3, <1>4, Zenon DEF f
  <1>6. 1 \in 1 .. Len(s)
    <2>1. \A n \in Nat : n > 0 => 1 \in 1 .. n
      OBVIOUS
    <2>2. QED
      BY <1>2, <2>1, Zenon
  <1>7. \A n \in 1 .. Len(s) : Frame(t, q, S[n], own[n])
    BY <1>2, <1>4, Zenon
  <1>8. \A n \in Nat : \A k \in 2 .. n : k - 1 \in 1 .. n - 1 /\ k \in 1 .. n
    OBVIOUS
  <1>9. ASSUME NEW n \in 2 .. Len(s)
        PROVE  Sits(t, S[n - 1], own[n - 1], S[n], own[n]) /\ Lev(t, own[n]) = Floor(t, S[n - 1], own[n - 1])
    <2>1. n - 1 \in 1 .. Len(s) - 1 /\ n \in 1 .. Len(s)
      BY <1>2, <1>8, Zenon
    <2>2. S[n - 1] = s[n - 1] /\ S[n].kind = s[n].kind /\ S[n].min = s[n].min
      BY <1>2, <1>5, <2>1, Zenon
    <2>3. Sits(t, s[n - 1], own[n - 1], s[n], own[n]) /\ Lev(t, own[n]) = Floor(t, s[n - 1], own[n - 1])
      BY Zenon DEF Body
    <2>4. QED
      BY <2>2, <2>3, Zenon DEF Sits
  <1>10. \A n \in Nat : \A k \in 1 .. n : \A m \in k + 1 .. n : k \in 1 .. n - 1 /\ m \in 1 .. n
    OBVIOUS
  <1>11. ASSUME NEW n \in 1 .. Len(s), NEW m \in n + 1 .. Len(s)
         PROVE  Pair(t, S[n], own[n], S[m], own[m])
    <2>1. n \in 1 .. Len(s) - 1 /\ m \in 1 .. Len(s)
      BY <1>2, <1>10, Zenon
    <2>2. S[n] = s[n] /\ S[m].kind = s[m].kind /\ S[m].min = s[m].min
      BY <1>2, <1>5, <2>1, Zenon
    <2>3. Pair(t, s[n], own[n], s[m], own[m])
      BY Zenon DEF Body
    <2>4. QED
      BY <2>2, <2>3, Zenon DEF Pair
  <1>12. QED
    BY <1>1, <1>2, <1>5, <1>6, <1>7, <1>9, <1>11, Zenon DEF Body, S

(* An operator that binds here ends nothing that is waiting below, ...     *)
Below(t, p, s, own, f, b) ==
  /\ Body(t, p, s, own) /\ f = s[Len(s)] /\ b = own[Len(s)] /\ f.kind = "expr" /\ f \in Calls
  /\ b \in 1 .. p /\ Lev(t, p) = Lev(t, b) /\ Lev(t, p + 1) = Lev(t, p) /\ Lev(t, p) \in Int
  /\ Binary(t, p) /\ Prio(t, p) >= f.min

BelowIs(t, p, f, b, h, c) ==
  /\ h \in Calls /\ Frame(t, p, h, c) /\ c \in 1 .. p /\ c <= b
  /\ Lev(t, c) \in Int /\ Lev(t, c) <= Lev(t, b)
  /\ h.kind # "expr" \/ h.at # 0 => Lev(t, h.at) = Lev(t, c)
  /\ h.kind \in Bracket => Lev(t, c) < Lev(t, b)
  /\ Pair(t, h, c, f, b) /\ h.at < b /\ h.at \in 0 .. p - 1

LEMMA BelowAt ==
  ASSUME NEW t, NEW p \in Nat, p > 0, NEW s, NEW own, NEW f, NEW b, Below(t, p, s, own, f, b),
         NEW n \in 1 .. Len(s) - 1
  PROVE  BelowIs(t, p, f, b, s[n], own[n])
  <1>1. Body(t, p, s, own) /\ f = s[Len(s)] /\ b = own[Len(s)]
    BY Zenon DEF Below
  <1>2. Len(s) \in Nat
    BY <1>1, TopIs
  <1>3. n \in 1 .. Len(s)
    BY <1>2
  <1>4. s[n] \in Calls /\ own[n] \in Nat /\ Frame(t, p, s[n], own[n])
    BY <1>1, <1>3, TopIs
  <1>5. own[n] \in 1 .. p /\ s[n].at \in 0 .. p - 1
    BY <1>4, FrameIs
  <1>6. /\ Lev(t, own[n]) \in Int /\ Lev(t, own[n]) <= Lev(t, b)
        /\ s[n].kind # "expr" \/ s[n].at # 0 => Lev(t, s[n].at) = Lev(t, own[n])
    <2>1. Lowered(t, s, own)
      BY <1>1, LowerAll
    <2>2. QED
      BY <1>1, <1>3, <2>1, Zenon DEF Lowered
  <1>7. Pair(t, s[n], own[n], f, b)
    BY <1>1, TopIs
  <1>8. own[n] <= b /\ s[n].at < b
    BY <1>7 DEF Pair
  <1>9. s[n].kind \in Bracket => Lev(t, own[n]) < Lev(t, b)
    BY <1>1, Deeper
  <1>10. QED
    BY <1>4, <1>5, <1>6, <1>7, <1>8, <1>9, Zenon DEF BelowIs

(* ... so the calls below wait on, ...                                     *)
LEMMA BelowGrows ==
  ASSUME NEW t, NEW p \in Nat, p > 0, NEW s, NEW own, NEW f, NEW b, Below(t, p, s, own, f, b)
  PROVE  \A n \in 1 .. Len(s) - 1 : Frame(t, p + 1, s[n], own[n])
  <1> SUFFICES ASSUME NEW n \in 1 .. Len(s) - 1
               PROVE  Frame(t, p + 1, s[n], own[n])
    OBVIOUS
  <1> DEFINE h == s[n]
             c == own[n]
  <1>1. /\ h \in Calls /\ Frame(t, p, h, c) /\ c \in 1 .. p /\ c <= b
        /\ Lev(t, c) \in Int /\ Lev(t, c) <= Lev(t, b)
        /\ h.kind # "expr" \/ h.at # 0 => Lev(t, h.at) = Lev(t, c)
        /\ h.kind \in Bracket => Lev(t, c) < Lev(t, b)
        /\ Pair(t, h, c, f, b) /\ h.at < b /\ h.at \in 0 .. p - 1
    <2>1. BelowIs(t, p, f, b, h, c)
      BY BelowAt
    <2>2. QED
      BY <2>1, Zenon DEF BelowIs
  <1>2. /\ f.kind = "expr" /\ b \in 1 .. p /\ Lev(t, p) = Lev(t, b) /\ Lev(t, p + 1) = Lev(t, p) /\ Lev(t, p) \in Int
        /\ Binary(t, p) /\ Prio(t, p) >= f.min /\ f \in Calls
    BY Zenon DEF Below
  <1> HIDE DEF h, c
  <1>3. Lev(t, p + 1) >= Lev(t, c)
    BY <1>1, <1>2
  <1>4. h.kind \in Bracket => Lev(t, p + 1) > Lev(t, c)
    BY <1>1, <1>2
  <1>5. ~Comma(t, p) /\ ~Closing(t, p) /\ Prio(t, p) \in 1 .. 7
    BY <1>2, Apart, PrioIs
  <1>6. ASSUME h.kind = "expr", h.at = 0, Lev(t, p) = Lev(t, c)
        PROVE  \E m \in c .. p - 1 : Lev(t, m) = Lev(t, c) /\ Awaited(t, m)
    <2>1. ~(Lev(t, c) < Lev(t, b))
      BY <1>1, <1>2, <1>6
    <2>2. PICK m \in c .. b - 1 : Lev(t, m) = Lev(t, c) /\ Awaited(t, m)
      BY <1>1, <1>2, <1>6, <2>1, Zenon DEF Pair
    <2>3. m \in c .. p - 1
      BY <1>1, <1>2
    <2>4. QED
      BY <2>2, <2>3
  <1>7. ASSUME h.kind \notin Bracket, h.at # 0, Stop(t, h.at, p)
        PROVE  FALSE
    <2>1. Lev(t, h.at) = Lev(t, p) /\ Prio(t, p) <= Cap(t, h.at) /\ Through(t, h.at, p)
      BY <1>5, <1>7, Zenon DEF Stop
    <2>2. ~(Lev(t, h.at) < Lev(t, b))
      BY <1>2, <2>1
    <2>3. Through(t, h.at, b)
      <3>1. \A m \in h.at + 1 .. b - 1 : m \in h.at + 1 .. p - 1
        BY <1>1, <1>2
      <3>2. QED
        BY <2>1, <3>1, Zenon DEF Through
    <2>4. h.kind = "await" \/ (h.kind = "expr" /\ Prio(t, h.at) < f.min)
      BY <1>1, <1>2, <1>7, <2>2, <2>3, Zenon DEF Pair
    <2>5. CASE h.kind = "await"
      <3>1. Awaited(t, h.at)
        BY <1>1, <2>5 DEF Frame
      <3>2. Cap(t, h.at) = 0
        BY <3>1, PrioIs
      <3>3. QED
        BY <1>5, <2>1, <3>2
    <2>6. CASE h.kind = "expr" /\ Prio(t, h.at) < f.min
      <3>1. Binary(t, h.at)
        BY <1>1, <1>7, <2>6, Zenon DEF Frame
      <3>2. Cap(t, h.at) = Prio(t, h.at) /\ Prio(t, h.at) \in 1 .. 7
        BY <3>1, PrioIs
      <3>3. f.min \in 0 .. 8
        <4>1. \A x \in Calls : x.min \in 0 .. 8
          BY DEF Calls
        <4>2. QED
          BY <1>2, <4>1
      <3>4. Prio(t, h.at) < Prio(t, p)
        BY <1>2, <1>5, <2>6, <3>2, <3>3
      <3>5. QED
        BY <1>5, <2>1, <3>2, <3>4
    <2>7. QED
      BY <2>4, <2>5, <2>6
  <1>8. Frame(t, p + 1, h, c)
    <2>1. h.kind \notin Bracket /\ h.at # 0 => ~Stop(t, h.at, p)
      BY <1>7
    <2>2. h.kind = "expr" /\ h.at = 0 /\ Lev(t, p) = Lev(t, c) =>
            ~Comma(t, p) /\ (Binary(t, p) => \E m \in c .. p - 1 : Lev(t, m) = Lev(t, c) /\ Awaited(t, m))
      BY <1>5, <1>6
    <2>3. QED
      BY <1>1, <1>3, <1>4, <2>1, <2>2, FrameGrows
  <1>9. QED
    BY <1>8 DEF h, c

(* ... and its right operand takes what binds tighter than all of them do. *)
LEMMA BelowPairs ==
  ASSUME NEW t, NEW p \in Nat, p > 0, NEW s, NEW own, NEW f, NEW b, Below(t, p, s, own, f, b),
         NEW g, g.kind = "expr", g.min = Prio(t, p) + 1
  PROVE  \A n \in 1 .. Len(s) - 1 : Pair(t, s[n], own[n], g, p + 1)
  <1> SUFFICES ASSUME NEW n \in 1 .. Len(s) - 1
               PROVE  Pair(t, s[n], own[n], g, p + 1)
    OBVIOUS
  <1> DEFINE h == s[n]
             c == own[n]
             q == p + 1
  <1>1. /\ h \in Calls /\ c \in 1 .. p /\ c <= b
        /\ Lev(t, c) \in Int /\ Lev(t, c) <= Lev(t, b)
        /\ h.kind # "expr" \/ h.at # 0 => Lev(t, h.at) = Lev(t, c)
        /\ Pair(t, h, c, f, b) /\ h.at < b /\ h.at \in 0 .. p - 1
    <2>1. BelowIs(t, p, f, b, h, c)
      BY BelowAt
    <2>2. QED
      BY <2>1, Zenon DEF BelowIs
  <1>2. /\ f.kind = "expr" /\ b \in 1 .. p /\ Lev(t, p) = Lev(t, b) /\ Lev(t, p + 1) = Lev(t, p) /\ Lev(t, p) \in Int
        /\ Binary(t, p) /\ Prio(t, p) >= f.min /\ f \in Calls
    BY Zenon DEF Below
  <1>0. g.kind = "expr" /\ g.min = Prio(t, p) + 1
    OBVIOUS
  <1> HIDE DEF h, c
  <1>3. c <= q /\ h.at < q /\ b <= p
    BY <1>1, <1>2
  <1>4. Lev(t, q) = Lev(t, b)
    BY <1>2
  <1>5. ASSUME h.kind = "expr", h.at = 0
        PROVE  \/ Lev(t, c) < Lev(t, q)
               \/ \E m \in c .. q - 1 : Lev(t, m) = Lev(t, c) /\ Awaited(t, m)
    <2>1. \A m \in c .. b - 1 : m \in c .. q - 1
      BY <1>1, <1>2
    <2>2. \/ Lev(t, c) < Lev(t, b)
          \/ \E m \in c .. b - 1 : Lev(t, m) = Lev(t, c) /\ Awaited(t, m)
      BY <1>1, <1>2, <1>5, Zenon DEF Pair
    <2>3. QED
      BY <1>4, <2>1, <2>2, Zenon
  <1>6. ASSUME h.at # 0, h.kind \notin Bracket
        PROVE  \/ Lev(t, h.at) < Lev(t, q)
               \/ ~Through(t, h.at, q)
               \/ h.kind = "await"
               \/ h.kind = "expr" /\ Prio(t, h.at) < g.min
    <2>1. \/ Lev(t, h.at) < Lev(t, b)
          \/ ~Through(t, h.at, b)
          \/ h.kind = "await"
          \/ h.kind = "expr" /\ Prio(t, h.at) < f.min
      BY <1>1, <1>2, <1>6, Zenon DEF Pair
    <2>2. \A m \in h.at + 1 .. b - 1 : m \in h.at + 1 .. q - 1
      BY <1>1, <1>2
    <2>3. ~Through(t, h.at, b) => ~Through(t, h.at, q)
      BY <2>2, Zenon DEF Through
    <2>4. ASSUME h.kind = "expr", Prio(t, h.at) < f.min
          PROVE  Prio(t, h.at) < g.min
      <3>1. Binary(t, h.at)
        <4>0. BelowIs(t, p, f, b, h, c)
          BY BelowAt DEF h, c
        <4>1. Frame(t, p, h, c)
          BY <4>0, Zenon DEF BelowIs
        <4>2. QED
          BY <1>6, <2>4, <4>1, Zenon DEF Frame
      <3>2. Prio(t, h.at) \in 1 .. 7 /\ Prio(t, p) \in 1 .. 7
        BY <1>2, <3>1, PrioIs
      <3>3. f.min \in 0 .. 8
        <4>1. \A x \in Calls : x.min \in 0 .. 8
          BY DEF Calls
        <4>2. QED
          BY <1>2, <4>1
      <3>4. QED
        BY <1>0, <1>2, <2>4, <3>2, <3>3
    <2>5. QED
      BY <1>4, <2>1, <2>3, <2>4, Zenon
  <1>7. Pair(t, h, c, g, q)
    BY <1>3, <1>5, <1>6, Zenon DEF Pair
  <1>8. QED
    BY <1>7 DEF h, c

(* The frame of an expression with the operator it has just taken.         *)
LEMMA TakesOperator ==
  ASSUME NEW t, NEW p \in Nat, p > 0, NEW s, NEW own, NEW v, NEW tr, NEW f, NEW b, ExprIs(t, p, s, own, v, tr, f, b),
         f.kind = "expr", t[p] \in Operators, Prio(t, p) >= f.min, Lev(t, p + 1) = Lev(t, p),
         NEW h \in Calls, h.kind = "expr", h.at = p, h.lo = b, h.min = f.min
  PROVE  Frame(t, p + 1, h, b)
  <1>1. /\ Frame(t, p, f, b) /\ b \in 1 .. p /\ Lev(t, p) = Lev(t, b) /\ Lev(t, p) \in Int
    BY Zenon DEF ExprIs
  <1>2. Binary(t, p) /\ Starts(t, p, b)
    BY ExprStarts
  <1>3. Begins(t, b, h.min) /\ Above(t, b, p)
    BY <1>1, Zenon DEF Frame
  <1>4. Above(t, b, p + 1)
    BY <1>1, <1>3, AboveGrows
  <1>5. Within(t, p, p + 1)
    BY DEF Within
  <1>6. b \in 1 .. p + 1 /\ p \in 1 .. (p + 1) - 1 /\ p # 0
    BY <1>1
  <1>7. h.kind \notin {"prefix", "await", "group", "args", "index"} /\ h.kind \notin Bracket
    BY DEF Bracket
  <1>8. QED
    BY <1>1, <1>2, <1>3, <1>4, <1>5, <1>6, <1>7, Zenon DEF Frame

(* Operator: its right operand is asked for.                               *)
LEMMA OperatorGoes ==
  ASSUME NEW t, NEW p \in Nat, p > 0, NEW s, NEW own, NEW v, NEW tr, Stood(t, p, s, own, "back", v, tr),
         s[Len(s)].kind = "expr", t[p] \in Operators, Prio(t, p) >= s[Len(s)].min,
         NEW h \in Calls, h.kind = "expr", h.at = p, h.min = s[Len(s)].min,
         h.lo = (IF s[Len(s)].at = 0 THEN v.lo ELSE s[Len(s)].lo)
  PROVE  \E O : Stood(t, p + 1, Append(Swapped(s, h), Expr(Prio(t, p) + 1)), O, "operand", v,
                      IF s[Len(s)].at = 0 THEN tr ELSE tr \cup {Node(s[Len(s)].at, s[Len(s)].lo, v.hi)})
  <1> DEFINE f == s[Len(s)]
             b == own[Len(s)]
             S == Swapped(s, h)
             g == Expr(Prio(t, p) + 1)
             T == Append(S, g)
             q == p + 1
             O == Append(own, q)
             tr2 == IF f.at = 0 THEN tr ELSE tr \cup {Node(f.at, f.lo, v.hi)}
  <1>1. ExprIs(t, p, s, own, v, tr, f, b)
    BY ExprBack
  <1>2. /\ Body(t, p, s, own) /\ Waits(t, p, s, "back") /\ AllPlaced(t, p)
        /\ f \in Calls /\ Frame(t, p, f, b) /\ b \in 1 .. p /\ b \in Nat /\ Len(s) \in Nat /\ Len(s) > 0
        /\ Lev(t, p) = Lev(t, b) /\ Lev(t, p) = Floor(t, f, b) /\ Lev(t, p) \in Int
        /\ Behind(t, p)
        /\ f.at = 0 => v.lo = b
        /\ f.at # 0 => f.lo = b
    BY <1>1, Zenon DEF ExprIs
  <1>3. f.kind = "expr" /\ h.lo = b /\ h.kind = "expr" /\ h.at = p /\ h.min = f.min /\ Prio(t, p) >= f.min
    BY <1>2
  <1>4. g.kind = "expr" /\ g.at = 0 /\ g.min = Prio(t, p) + 1 /\ g.lo = 0
    BY DEF Expr
  <1>5. q \in Nat /\ q > 0 /\ q - 1 = p /\ p < q
    OBVIOUS
  <1>6. Prio(t, p) \in 1 .. 7
    BY PrioIs
  <1>7. g \in Calls
    <2>1. Prio(t, p) + 1 \in 0 .. 8
      BY <1>6
    <2>2. QED
      BY <2>1 DEF Expr, Calls
  <1>8. h = s[Len(s)] => FALSE
    BY <1>2, FrameIs
  <1> HIDE DEF f, b, S, g, T, q, O, tr2
  <1>9. /\ Binary(t, p) /\ ~Closing(t, p) /\ ~Opening(t, p) /\ ~Awaited(t, p) /\ t[p] # "ref" /\ t[p] # "(" /\ t[p] # ","
    BY <1>2, Apart, WordsApart, Zenon DEF Binary
  <1>10. Lev(t, p + 1) = Lev(t, p) /\ Lev(t, q) = Lev(t, p)
    BY <1>9, LevAt DEF q
  <1>11. Below(t, p, s, own, f, b)
    BY <1>2, <1>3, <1>9, <1>10, Zenon DEF Below, f, b
  <1>12. Body(t, q, S, own)
    <2>1. Frame(t, q, h, b)
      BY <1>1, <1>3, <1>10, TakesOperator DEF q
    <2>2. \A n \in 1 .. Len(s) - 1 : Frame(t, q, s[n], own[n])
      BY <1>11, BelowGrows DEF q
    <2>3. Frame(t, q, h, own[Len(s)]) /\ s[Len(s)].kind = "expr" /\ h.min = s[Len(s)].min
      BY <1>3, <2>1 DEF f, b
    <2>4. QED
      BY <1>2, <1>5, <2>2, <2>3, BodySwap DEF S
  <1>13. /\ Len(S) = Len(s) /\ S[Len(s)] = h /\ S[Len(S)] = h
         /\ \A n \in 1 .. Len(s) - 1 : S[n] = s[n]
    <2>1. s \in Seq(Calls) /\ s # <<>>
      BY <1>2 DEF Body
    <2>2. QED
      BY <2>1, SwapIs DEF S
  <1>14. Pushable(t, q, S, own, g, q)
    <2>1. Frame(t, q, g, q)
      <3>1. q \in 1 .. q /\ Above(t, q, q) /\ \A k \in q .. q - 1 : FALSE
        <4>1. \A k \in q .. q : k = q
          BY <1>5
        <4>2. Lev(t, q) >= Lev(t, q)
          BY <1>2, <1>10
        <4>3. QED
          BY <1>5, <4>1, <4>2 DEF Above
      <3>2. Begins(t, q, g.min)
        <4>1. Prio(t, p) < g.min
          BY <1>4, <1>6
        <4>2. Lev(t, q - 1) = Lev(t, q) /\ Binary(t, q - 1) /\ Prio(t, q - 1) < g.min
          BY <1>5, <1>9, <1>10, <4>1
        <4>3. QED
          BY <4>2, Zenon DEF Begins
      <3>3. g.kind \notin {"prefix", "await", "group", "args", "index"} /\ g.kind \notin Bracket
        BY <1>4 DEF Bracket
      <3>4. QED
        BY <1>4, <3>1, <3>2, <3>3, Zenon DEF Frame
    <2>2. Sits(t, h, b, g, q)
      <3>1. h.at # 0 /\ g.min = Prio(t, h.at) + 1
        BY <1>3, <1>4
      <3>2. QED
        BY <1>3, <1>4, <3>1, Zenon DEF Sits
    <2>3. Lev(t, q) = Floor(t, h, b)
      BY <1>2, <1>3, <1>10 DEF Floor, Bracket
    <2>4. \A n \in 1 .. Len(s) - 1 : Pair(t, s[n], own[n], g, q)
      BY <1>4, <1>11, BelowPairs DEF q
    <2>5. Pair(t, h, b, g, q)
      <3>1. b <= q /\ h.at < q /\ h.at # 0 /\ Prio(t, h.at) < g.min
        BY <1>2, <1>3, <1>4, <1>5, <1>6
      <3>2. QED
        BY <1>3, <3>1, Zenon DEF Pair
    <2>6. \A n \in 1 .. Len(S) : Pair(t, S[n], own[n], g, q)
      <3>1. \A n \in 1 .. Len(S) : n \in 1 .. Len(s) - 1 \/ n = Len(s)
        BY <1>2, <1>13, LastOr, Zenon
      <3>2. QED
        BY <1>13, <2>4, <2>5, <3>1, Zenon DEF b
    <2>7. Sits(t, S[Len(S)], own[Len(S)], g, q) /\ Lev(t, q) = Floor(t, S[Len(S)], own[Len(S)])
      BY <1>13, <2>2, <2>3 DEF b
    <2>8. QED
      BY <1>5, <1>7, <1>12, <2>1, <2>6, <2>7, Zenon DEF Pushable
  <1>15. Pushed(t, q, S, own, g, q)
    BY <1>5, <1>14, BodyPush, Zenon
  <1>16. Body(t, q, T, O) /\ T[Len(T)] = g /\ O[Len(T)] = q
    BY <1>15 DEF Pushed, T, O
  <1>17. Keeping(S, T, g)
    <2>1. Len(S) \in Nat
      BY <1>2, <1>13
    <2>2. QED
      BY <1>15, <2>1, PushKeeps, Zenon DEF T
  <1>18. \A i : Asked(s, i) => Asked(T, i) \/ i = f.at
    <2>1. \A n \in 1 .. Len(s) : n \in 1 .. Len(s) - 1 \/ n = Len(s)
      BY <1>2, LastOr, Zenon
    <2>2. \A i : Asked(s, i) => Asked(S, i) \/ i = f.at
      BY <1>13, <2>1, Zenon DEF Asked, f
    <2>3. QED
      BY <1>17, <2>2, Zenon DEF Keeping, Keeps
  <1>19. Asked(T, p)
    <2>1. Len(s) \in 1 .. Len(S) /\ S[Len(s)].kind # "group" /\ S[Len(s)].at = p
      BY <1>2, <1>3, <1>13
    <2>2. Asked(S, p)
      BY <2>1, Zenon DEF Asked
    <2>3. QED
      BY <1>17, <2>2, Zenon DEF Keeping, Keeps
  <1>20. Taken(t, p, "back")
    BY <1>2, Zenon DEF Taken
  <1>21. TreeSays(t, p + 1, T, "operand", tr2)
    <2>1. \A i \in 1 .. p - 1 : Asked(s, i) => Asked(T, i) \/ i = s[Len(s)].at
      BY <1>18, Zenon DEF f
    <2>2. TreeSays(t, p, T, "back", tr2)
      BY <2>1, FoldTree DEF tr2, f
    <2>3. QED
      BY <1>19, <1>20, <2>2, TreeNextBare
  <1>22. Waits(t, p + 1, T, "operand")
    <2>1. \A n \in 1 .. Len(s) : s[n].kind = "await" => \E m \in 1 .. Len(T) : T[m].kind = "await" /\ T[m].at = s[n].at
      <3>1. \A n \in 1 .. Len(s) : n \in 1 .. Len(s) - 1 \/ n = Len(s)
        BY <1>2, LastOr, Zenon
      <3>2. s[Len(s)].kind # "await"
        BY <1>3 DEF f
      <3>3. \A n \in 1 .. Len(s) : s[n].kind = "await" => n \in 1 .. Len(S) /\ S[n] = s[n]
        BY <1>13, <3>1, <3>2, Zenon
      <3>4. QED
        BY <1>17, <3>3, Zenon DEF Keeping, Keeps
    <2>2. QED
      BY <1>2, <1>9, <1>20, <2>1, WaitsGrow
  <1>23. AllPlaced(t, p + 1)
    <2>1. \A o \in 0 .. p - 1 : Place(t, p, o)
      BY <1>9 DEF Place
    <2>2. QED
      BY <1>2, <1>9, <2>1, PlacedAnywhere, Zenon
  <1>24. Top1(t, p + 1, g, q, "operand", v)
    <2>1. t[p] \in Operators \cup Unary \cup {"await", "(", "[", ","}
      BY Zenon
    <2>2. IF g.kind = "expr" THEN g.at = 0 /\ q = p + 1 ELSE g.kind = "prefix" /\ q = p
      BY <1>4 DEF q
    <2>3. QED
      BY <1>9, <2>1, <2>2, OpensOperand
  <1>25. Lev(t, q) = Floor(t, g, q)
    BY <1>4 DEF Floor, Bracket
  <1>26. QED
    <2>1. Stood(t, q, T, O, "operand", v, tr2)
      BY <1>16, <1>21, <1>22, <1>23, <1>24, <1>25, Zenon DEF Stood, q
    <2>2. QED
      BY <2>1 DEF q, T, S, g, tr2, f

LEMMA NotOver ==
  \A a, c \in Nat : ~(a >= c + 1) => a <= c
  OBVIOUS

(* An expression ends inside another call.                                 *)
LEMMA ExprEndsGoes ==
  ASSUME NEW t, NEW p \in Nat, p > 0, NEW s, NEW own, NEW v, NEW tr, Stood(t, p, s, own, "back", v, tr),
         s[Len(s)].kind = "expr", ~(t[p] \in Operators /\ Prio(t, p) >= s[Len(s)].min), Len(s) > 1
  PROVE  Stood(t, p, FrontOf(s), FrontOf(own), "back", IF s[Len(s)].at = 0 THEN v ELSE Span(s[Len(s)].lo, v.hi),
               IF s[Len(s)].at = 0 THEN tr ELSE tr \cup {Node(s[Len(s)].at, s[Len(s)].lo, v.hi)})
  <1> DEFINE f == s[Len(s)]
             b == own[Len(s)]
             S == FrontOf(s)
             O == FrontOf(own)
             g == s[Len(s) - 1]
             c == own[Len(s) - 1]
             V == IF f.at = 0 THEN v ELSE Span(f.lo, v.hi)
             tr2 == IF f.at = 0 THEN tr ELSE tr \cup {Node(f.at, f.lo, v.hi)}
  <1>1. ExprIs(t, p, s, own, v, tr, f, b)
    BY ExprBack
  <1>2. /\ Body(t, p, s, own) /\ Waits(t, p, s, "back") /\ AllPlaced(t, p)
        /\ f \in Calls /\ Frame(t, p, f, b) /\ Lev(t, p) = Lev(t, b)
        /\ Behind(t, p) /\ v.hi = p - 1 /\ p <= Len(t) /\ t[p] \notin Leads
    BY <1>1, Zenon DEF ExprIs
  <1>3. Popped(t, p, s, own) /\ Drops(s, S)
    BY <1>2, PopIs
  <1>4. /\ Body(t, p, S, O) /\ S[Len(S)] = g /\ O[Len(S)] = c /\ Sits(t, g, c, f, b) /\ Lev(t, b) = Floor(t, g, c)
    BY <1>3 DEF Popped
  <1>5. f.kind = "expr" /\ ~(t[p] \in Operators /\ Prio(t, p) >= f.min)
    OBVIOUS
  <1>6. V.hi = p - 1
    BY <1>2 DEF Span
  <1>7. TreeSays(t, p, S, "back", tr2)
    <2>1. \A i \in 1 .. p - 1 : Asked(s, i) => Asked(S, i) \/ i = s[Len(s)].at
      BY <1>3, Zenon DEF Drops
    <2>2. QED
      BY <2>1, FoldTree
  <1> HIDE DEF f, b, S, O, g, c, V, tr2
  <1>8. \/ g.kind = "expr" /\ g.at # 0 /\ f.min = Prio(t, g.at) + 1
        \/ g.kind \in Bracket \cup {"await"} /\ f.min = 0
    BY <1>4, <1>5, Zenon DEF Sits
  <1>9. "back" \in After1
    BY DEF After1
  <1>10. t[p] \in Operators => Prio(t, p) \in 1 .. 7
    BY PrioIs
  <1>11. g.kind = "expr" /\ g.at # 0 /\ t[p] \in Operators => Prio(t, p) <= Prio(t, g.at)
    <2>1. SUFFICES ASSUME g.kind = "expr", g.at # 0, t[p] \in Operators
                   PROVE  Prio(t, p) <= Prio(t, g.at)
      OBVIOUS
    <2>2. f.min = Prio(t, g.at) + 1
      BY <1>8, <2>1 DEF Bracket
    <2>3. Prio(t, g.at) \in Nat
      <3>1. Len(S) \in 1 .. Len(S) /\ Frame(t, p, S[Len(S)], O[Len(S)])
        BY <1>4, TopIs
      <3>2. Frame(t, p, g, c)
        BY <1>4, <3>1
      <3>3. Binary(t, g.at)
        BY <2>1, <3>2, Zenon DEF Frame
      <3>4. Prio(t, g.at) \in 1 .. 7
        BY <3>3, PrioIs
      <3>5. QED
        BY <3>4
    <2>4. ~(Prio(t, p) >= Prio(t, g.at) + 1) /\ Prio(t, p) \in Nat
      BY <1>5, <1>10, <2>1, <2>2
    <2>5. QED
      BY <2>3, <2>4, NotOver, Zenon
  <1>12. g.kind \notin {"expr", "prefix"} => t[p] \notin Operators
    <2>1. f.min = 0 /\ t[p] \in Operators => FALSE
      BY <1>5, <1>10
    <2>2. QED
      BY <1>8, <2>1
  <1>13. Top1(t, p, g, c, "back", V)
    <2>1. ~(g.kind = "expr" /\ g.at = 0)
      BY <1>8 DEF Bracket
    <2>2. QED
      BY <1>2, <1>6, <1>9, <1>11, <1>12, <2>1, Zenon DEF Top1
  <1>14. Waits(t, p, S, "back")
    <2>1. s[Len(s)].kind # "await"
      OBVIOUS
    <2>2. \A n \in 1 .. Len(s) : s[n].kind = "await" => \E m \in 1 .. Len(S) : S[m].kind = "await" /\ S[m].at = s[n].at
      BY <1>3, <2>1, Zenon DEF Drops
    <2>3. QED
      BY <1>2, <2>2, WaitsStay, Zenon
  <1>15. Lev(t, p) = Floor(t, g, c)
    BY <1>2, <1>4
  <1>16. QED
    <2>1. Stood(t, p, S, O, "back", V, tr2)
      BY <1>2, <1>4, <1>7, <1>13, <1>14, <1>15, Zenon DEF Stood
    <2>2. QED
      BY <2>1 DEF S, O, V, tr2, f

-----------------------------------------------------------------------------
(* The first expression ends: everything that was passed is right.         *)

(* No bracket is open around what stands beside the first token.           *)
LEMMA NoneAround ==
  ASSUME NEW t, NEW p \in Nat, p > 0, Above(t, 1, p), Lev(t, p) = 0, NEW o, Holds(t, o, p)
  PROVE  o = 0
  <1> SUFFICES ASSUME o # 0
               PROVE  FALSE
    OBVIOUS
  <1>1. o \in 0 .. p - 1 /\ Lev(t, p) = Lev(t, o) + 1
    BY DEF Holds
  <1>2. o \in 1 .. p /\ o \in Nat /\ o > 0
    BY <1>1
  <1>3. Lev(t, o) >= Lev(t, 1) /\ Lev(t, o) \in Int
    BY <1>2, LevAt DEF Above
  <1>4. Lev(t, 1) = 0
    BY LevAt
  <1>5. QED
    BY <1>1, <1>3, <1>4

(* The whole expression ends.                                              *)
LEMMA WholeGoes ==
  ASSUME NEW t, NEW p \in Nat, p > 0, Len(t) \in Nat, NEW s, NEW own, NEW v, NEW tr, Stood(t, p, s, own, "back", v, tr),
         s[Len(s)].kind = "expr", ~(t[p] \in Operators /\ Prio(t, p) >= s[Len(s)].min), Len(s) = 1
  PROVE  Right(t, p, IF s[Len(s)].at = 0 THEN tr ELSE tr \cup {Node(s[Len(s)].at, s[Len(s)].lo, v.hi)})
  <1> DEFINE f == s[Len(s)]
             b == own[Len(s)]
             tr2 == IF f.at = 0 THEN tr ELSE tr \cup {Node(f.at, f.lo, v.hi)}
  <1>1. ExprIs(t, p, s, own, v, tr, f, b)
    BY ExprBack
  <1>2. /\ Body(t, p, s, own) /\ AllPlaced(t, p)
        /\ f \in Calls /\ Frame(t, p, f, b) /\ Lev(t, p) = Lev(t, b)
        /\ Behind(t, p) /\ p <= Len(t) /\ t[p] \notin Leads
    BY <1>1, Zenon DEF ExprIs
  <1>3. f.min = 0 /\ b = 1 /\ ~(t[p] \in Operators /\ Prio(t, p) >= f.min)
    BY <1>2, Zenon DEF Body
  <1>4. TreeSays(t, p, <<>>, "back", tr2)
    <2>1. \A i \in 1 .. p - 1 : Asked(s, i) => Asked(<<>>, i) \/ i = s[Len(s)].at
      <3>1. \A n \in 1 .. 1 : n = 1
        OBVIOUS
      <3>2. QED
        BY <3>1, Zenon DEF Asked
    <2>2. QED
      BY <2>1, FoldTree
  <1> HIDE DEF f, b, tr2
  <1>5. p \in 2 .. Len(t)
    BY <1>2 DEF Behind
  <1>6. Lev(t, p) = 0 /\ Above(t, 1, p)
    <2>1. Lev(t, 1) = 0
      BY LevAt
    <2>2. QED
      BY <1>2, <1>3, <2>1 DEF Frame
  <1>7. t[p] \notin Operators
    <2>1. t[p] \in Operators => Prio(t, p) \in 1 .. 7
      BY PrioIs
    <2>2. QED
      BY <1>3, <2>1
  <1>8. \A o \in 0 .. p - 1 : Holds(t, o, p) => ~Place(t, p, o)
    <2>1. ASSUME NEW o \in 0 .. p - 1, Holds(t, o, p)
          PROVE  ~Place(t, p, o)
      <3>1. o = 0
        BY <1>6, <2>1, NoneAround
      <3>2. ~Binary(t, p) /\ ~Postfixed(t, p)
        BY <1>2, <1>7, Zenon DEF Binary, Postfixed, Leads
      <3>3. QED
        BY <1>2, <3>1, <3>2, Zenon DEF Place
    <2>2. QED
      BY <2>1
  <1>9. \E o \in 0 .. p - 1 : Holds(t, o, p) /\ ~Place(t, p, o)
    BY <1>8, HoldsExists, Zenon
  <1>10. /\ \A nd \in tr2 : Good(t, p, nd)
         /\ \A i \in 1 .. p - 1 : Nodal(t, i) => \E nd \in tr2 : nd.at = i
    <2>1. \A i : ~Asked(<<>>, i)
      <3>1. \A n \in 1 .. Len(<<>>) : FALSE
        OBVIOUS
      <3>2. QED
        BY <3>1, Zenon DEF Asked
    <2>2. QED
      BY <1>4, <2>1, Zenon DEF TreeSays
  <1>11. QED
    <2>1. Right(t, p, tr2)
      BY <1>2, <1>5, <1>6, <1>9, <1>10, Zenon DEF Right
    <2>2. QED
      BY <2>1 DEF tr2, f

-----------------------------------------------------------------------------
(* Errors: a token at which one is reported fits no expression.            *)

(* Tokens that have no place.                                              *)
LEMMA WrongAt ==
  ASSUME NEW t, Len(t) \in Nat, NEW p \in 1 .. Len(t), NEW q \in Nat, q >= p, Misfit(t, p)
  PROVE  Wrong(t, q, {p})
  BY DEF Wrong

(* Unexpected: no expression goes on with this token.                      *)
LEMMA UnexpectedWrong ==
  ASSUME NEW t, NEW p \in Nat, p > 0, NEW s, NEW own, NEW v, NEW tr, Stood(t, p, s, own, "operand", v, tr),
         t[p] \notin {"id", "(", "ref"} \/ IsType(t, p), t[p] \notin Unary \/ IsType(t, p), t[p] # "await"
  PROVE  Misfit(t, p)
  <1>1. ~Behind(t, p)
    BY OperandAt
  <1>2. ~Binary(t, p) /\ ~Postfixed(t, p)
    BY <1>1, Parts
  <1>3. Has(t, p - 1, ",") \/ (Has(t, p - 1, "(") /\ Postfixed(t, p - 1)) => t[p] \notin {")", "eof"}
    BY Zenon DEF Stood, Top1
  <1>4. ASSUME NEW o, Place(t, p, o)
        PROVE  FALSE
    <2>1. t[p] # "id"
      BY DEF IsType
    <2>2. t[p] \in Unary \cup {"await", "("} => IsType(t, p)
      BY DEF IsType
    <2>3. t[p] = ")" /\ o # 0 /\ t[o] = "(" /\ Postfixed(t, o) /\ (o = p - 1 \/ Has(t, p - 1, ","))
      BY <1>1, <1>2, <1>4, <2>1, <2>2, Zenon DEF Place
    <2>4. o = p - 1 => p - 1 > 0
      BY <2>3
    <2>5. QED
      BY <1>3, <2>3, <2>4, Zenon DEF Has
  <1>5. \E o \in 0 .. p - 1 : Holds(t, o, p) /\ ~Place(t, p, o)
    BY <1>4, HoldsExists, Zenon
  <1>6. t[p] = "ref" => p < Len(t)
    BY DEF IsType
  <1>7. QED
    BY <1>1, <1>5, <1>6, Zenon DEF Misfit

(* Member: nor has what is not a name a place behind a dot.                *)
LEMMA MemberWrong ==
  ASSUME NEW t, NEW p \in Nat, p > 0, t[p] = ".", t[p + 1] # "id"
  PROVE  Misfit(t, p + 1)
  <1> DEFINE q == p + 1
  <1>1. q \in Nat /\ q > 0 /\ q - 1 = p
    OBVIOUS
  <1>2. ~Behind(t, q)
    BY <1>1 DEF Behind
  <1>3. Has(t, q - 1, ".")
    BY <1>1 DEF Has
  <1> HIDE DEF q
  <1>4. ~Binary(t, q) /\ ~Postfixed(t, q)
    BY <1>2, Zenon DEF Binary, Postfixed
  <1>5. ~Has(t, q - 1, ",")
    BY <1>1 DEF Has
  <1>6. ASSUME NEW o, Place(t, q, o)
        PROVE  FALSE
    <2>1. t[q] # "id"
      BY DEF q
    <2>2. ~(t[o] = "(" /\ o = q - 1)
      BY <1>1
    <2>3. QED
      BY <1>2, <1>3, <1>4, <1>5, <1>6, <2>1, <2>2, Zenon DEF Place
  <1>7. \E o \in 0 .. q - 1 : Holds(t, o, q) /\ ~Place(t, q, o)
    BY <1>1, <1>6, HoldsExists, Zenon
  <1>8. Misfit(t, q)
    BY <1>2, <1>3, <1>7, Zenon DEF Misfit
  <1>9. QED
    BY <1>8 DEF q

(* A bracket call on the stack is around the next token.                   *)
LEMMA Inside ==
  ASSUME NEW t, NEW p \in Nat, p > 0, NEW s, NEW own, Body(t, p, s, own), s[Len(s)].kind \in Bracket,
         Lev(t, p) = Floor(t, s[Len(s)], own[Len(s)])
  PROVE  Lev(t, p) # 0
  <1>1. Len(s) \in Nat /\ Len(s) > 0
    BY TopIs
  <1>2. 1 \in 1 .. Len(s)
    BY <1>1
  <1>3. Lev(t, own[1]) <= Lev(t, own[Len(s)]) /\ Lev(t, own[Len(s)]) \in Int
    BY <1>2, LowerAll DEF Lowered
  <1>4. own[1] = 1 /\ Lev(t, 1) = 0
    BY LevAt DEF Body
  <1>5. QED
    BY <1>3, <1>4 DEF Floor

(* Close: another token than the bracket that is expected has no place.    *)
LEMMA CloseWrong ==
  ASSUME NEW t, NEW p \in Nat, p > 0, NEW s, NEW own, NEW v, NEW tr, NEW d, Stood(t, p, s, own, d, v, tr),
         s[Len(s)].kind \in Bracket, t[p] # (IF s[Len(s)].kind = "index" THEN "]" ELSE ")"),
         p < Len(t) \/ t[p] = "eof",
         \/ d = "args" /\ t[p] = "eof"
         \/ d = "back" /\ (s[Len(s)].kind = "args" => t[p] # ",")
  PROVE  Misfit(t, p)
  <1> DEFINE f == s[Len(s)]
             b == own[Len(s)]
  <1>1. Body(t, p, s, own) /\ Lev(t, p) = Floor(t, f, b) /\ Top1(t, p, f, b, d, v)
    BY Zenon DEF Stood
  <1>2. f \in Calls /\ Frame(t, p, f, b)
    BY <1>1, TopIs
  <1>3. Lev(t, p) # 0
    BY <1>1, Inside
  <1>4. CASE t[p] = "eof"
    BY <1>3, <1>4, Zenon DEF Misfit
  <1>5. CASE t[p] # "eof"
    <2>1. d = "back" /\ d \in After1
      BY <1>5 DEF After1
    <2>2. f.kind \in Bracket /\ f.kind \notin {"expr", "prefix"} /\ (f.kind = "args" => t[p] # ",")
      BY <1>5 DEF Bracket
    <2> HIDE DEF f, b
    <2>3. Behind(t, p) /\ t[p] \notin Leads /\ t[p] \notin Operators
      BY <1>1, <2>1, <2>2, Zenon DEF Top1
    <2>4. /\ Holds(t, f.at, p) /\ f.at # 0 /\ f.at \in 0 .. p - 1
          /\ t[f.at] = (IF f.kind = "index" THEN "[" ELSE "(")
          /\ Postfixed(t, f.at) <=> f.kind # "group"
      BY <1>1, <1>2, <2>2, InnerHolds
    <2>5. t[p] # (IF f.kind = "index" THEN "]" ELSE ")")
      BY DEF f
    <2>6. ~Binary(t, p) /\ ~Postfixed(t, p)
      BY <2>3, Zenon DEF Binary, Postfixed, Leads
    <2>7. t[p] = "," => ~(t[f.at] = "(" /\ Postfixed(t, f.at))
      BY <2>2, <2>4 DEF Bracket
    <2>8. t[p] = ")" => t[f.at] # "("
      BY <2>4, <2>5
    <2>9. t[p] = "]" => t[f.at] # "["
      BY <2>4, <2>5
    <2>10. ~Place(t, p, f.at)
      BY <2>3, <2>6, <2>7, <2>8, <2>9, Zenon DEF Place
    <2>11. QED
      BY <1>5, <2>4, <2>10, Zenon DEF Misfit
  <1>6. QED
    BY <1>4, <1>5

(* What was wrong stays so: later errors are at later tokens, and tokens   *)
(* behind do not change what the ones before are.                          *)
LEMMA WrongStays ==
  ASSUME NEW t, Len(t) \in Nat, NEW p \in Nat, NEW E, Wrong(t, p, E), NEW q \in Nat, q >= p,
         NEW F, E \subseteq F, \A e \in F \ E : e \in Nat /\ e >= p
  PROVE  Wrong(t, q, F)
  <1>1. PICK i \in 1 .. Len(t) : i \in E /\ i <= p /\ (\A e \in E : i <= e) /\ Misfit(t, i)
    BY DEF Wrong
  <1>2. i \in Nat /\ i <= q /\ i \in F
    BY <1>1
  <1>3. \A e \in F \ E : i <= e
    BY <1>1
  <1>4. \A e \in F : i <= e
    BY <1>1, <1>3
  <1>5. QED
    BY <1>1, <1>2, <1>4, Zenon DEF Wrong

(* An error stays one when more tokens are looked at.                      *)
LEMMA MisfitAlike ==
  ASSUME NEW t, NEW u, NEW n \in Nat, Len(t) = n, Len(u) \in Nat, Len(u) >= n, Alike(t, u, n), NEW i \in 1 .. n, Misfit(t, i)
  PROVE  Misfit(u, i)
  <1>1. t[i] = u[i] /\ i \in 1 .. n + 1
    BY DEF Alike
  <1>2. Lev(t, i) = Lev(u, i) /\ (Behind(t, i) <=> Behind(u, i))
    BY <1>1, LevAlike, TokenAlike, Zenon
  <1>3. \A w : Has(t, i - 1, w) <=> Has(u, i - 1, w)
    <2>1. i - 1 > 0 => i - 1 \in 1 .. n
      OBVIOUS
    <2>2. QED
      BY <2>1 DEF Has, Alike
  <1>4. CASE t[i] = "eof"
    BY <1>1, <1>2, <1>4, Zenon DEF Misfit
  <1>5. CASE t[i] # "eof"
    <2>1. PICK o \in 0 .. i - 1 : Holds(t, o, i) /\ ~Place(t, i, o)
      BY <1>5, Zenon DEF Misfit
    <2>2. Holds(u, o, i)
      BY <1>1, <2>1, HoldsAlike
    <2>3. t[i] = "ref" => i < Len(t) \/ Has(t, i - 1, ".")
      BY <1>5, Zenon DEF Misfit
    <2>4. i < Len(t) => i < Len(u)
      OBVIOUS
    <2>5. CASE t[i] = "ref" /\ ~(i < Len(t))
      <3>1. Has(u, i - 1, ".") /\ u[i] = "ref"
        BY <1>1, <1>3, <2>3, <2>5
      <3>2. ~Binary(u, i) /\ ~Postfixed(u, i)
        BY <3>1, WordsApart DEF Binary, Postfixed, Operators
      <3>3. ~Place(u, i, o)
        BY <3>1, <3>2, Zenon DEF Place
      <3>4. QED
        BY <1>1, <1>5, <2>2, <3>1, <3>3, Zenon DEF Misfit
    <2>6. CASE ~(t[i] = "ref" /\ ~(i < Len(t)))
      <3>1. IsType(t, i) <=> IsType(u, i)
        <4>1. i < Len(t) => i + 1 \in 1 .. n
          OBVIOUS
        <4>2. i + 1 \in 1 .. n => t[i + 1] = u[i + 1]
          BY DEF Alike
        <4>3. QED
          BY <1>1, <2>4, <2>6, <4>1, <4>2, Zenon DEF IsType
      <3>2. ~Place(u, i, o)
        BY <2>1, <3>1, PlaceAlike
      <3>3. QED
        BY <1>1, <1>5, <2>2, <2>4, <2>6, <3>2, Zenon DEF Misfit
    <2>7. QED
      BY <2>5, <2>6
  <1>6. QED
    BY <1>4, <1>5

LEMMA WrongAlike ==
  ASSUME NEW t, NEW u, NEW n \in Nat, Len(t) = n, Len(u) \in Nat, Len(u) >= n, Alike(t, u, n), NEW p, NEW E, Wrong(t, p, E)
  PROVE  Wrong(u, p, E)
  <1>1. PICK i \in 1 .. n : i \in E /\ i <= p /\ (\A e \in E : i <= e) /\ Misfit(t, i)
    BY Zenon DEF Wrong
  <1>2. Misfit(u, i)
    BY <1>1, MisfitAlike
  <1>3. i \in 1 .. Len(u)
    OBVIOUS
  <1>4. QED
    BY <1>1, <1>2, <1>3, Zenon DEF Wrong

-----------------------------------------------------------------------------
(* The first state, and a token that is looked at.                         *)

(* The position: what it looks at is known, and the end is the last token. *)
Looks(t, p) == p < Len(t) \/ (p = Len(t) /\ t[p] = "eof")
Stays(t, p) ==
  /\ p \in 1 .. Len(t) + 1
  /\ \A i \in 1 .. Len(t) : t[i] = "eof" => i = Len(t) /\ p <= Len(t)

LEMMA StaysNext ==
  ASSUME NEW t, Len(t) \in Nat, NEW p, Stays(t, p), Looks(t, p), t[p] # "eof"
  PROVE  /\ p \in Nat /\ p > 0 /\ p < Len(t) /\ p \in 1 .. Len(t) /\ Stays(t, p + 1)
         /\ t[p + 1] # "eof" => Stays(t, p + 2) /\ Stays(t, (p + 1) + 1)
         /\ p + 1 \in 1 .. Len(t)
  <1>1. p \in Nat /\ p > 0 /\ p < Len(t)
    BY DEF Looks, Stays
  <1>2. p + 1 \in 1 .. Len(t) /\ p + 1 \in 1 .. Len(t) + 1
    BY <1>1
  <1>3. \A i \in 1 .. Len(t) : t[i] = "eof" => i = Len(t)
    BY Zenon DEF Stays
  <1>4. Stays(t, p + 1)
    BY <1>1, <1>2, <1>3 DEF Stays
  <1>5. ASSUME t[p + 1] # "eof"
        PROVE  Stays(t, p + 2)
    <2>1. p + 2 \in 1 .. Len(t) + 1
      BY <1>1
    <2>2. ASSUME NEW i \in 1 .. Len(t), t[i] = "eof"
          PROVE  p + 2 <= Len(t)
      <3>1. i = Len(t)
        BY <1>3, <2>2
      <3>2. p + 1 # Len(t)
        BY <1>5, <2>2, <3>1
      <3>3. QED
        BY <1>1, <3>2
    <2>3. QED
      BY <1>3, <2>1, <2>2 DEF Stays
  <1>6. (p + 1) + 1 = p + 2
    BY <1>1
  <1>7. QED
    BY <1>1, <1>2, <1>4, <1>5, <1>6

LEMMA StaysRead ==
  ASSUME NEW V, NEW t \in Seq(V), NEW x \in V, NEW p, Stays(t, p), ~Looks(t, p)
  PROVE  /\ Stays(Append(t, x), p) /\ Alike(t, Append(t, x), Len(t))
         /\ Len(Append(t, x)) \in Nat /\ Len(Append(t, x)) >= Len(t) /\ Len(t) \in Nat /\ p \in 1 .. Len(t) + 1 /\ p \in Nat
         /\ Append(t, x) \in Seq(V)
  <1> DEFINE u == Append(t, x)
  <1>1. u \in Seq(V) /\ Len(u) = Len(t) + 1 /\ u[Len(t) + 1] = x /\ \A n \in 1 .. Len(t) : u[n] = t[n]
    BY AppendIs
  <1> HIDE DEF u
  <1>2. Len(t) \in Nat /\ p \in 1 .. Len(t) + 1 /\ p \in Nat
    BY DEF Stays
  <1>3. \A i \in 1 .. Len(u) : i \in 1 .. Len(t) \/ i = Len(u)
    BY <1>1, <1>2
  <1>4. ASSUME NEW i \in 1 .. Len(t)
        PROVE  t[i] # "eof"
    <2>1. ~(p < Len(t)) /\ ~(p = Len(t) /\ t[p] = "eof")
      BY DEF Looks
    <2>2. t[i] = "eof" => i = Len(t) /\ p <= Len(t)
      BY DEF Stays
    <2>3. p <= Len(t) => p = Len(t)
      BY <1>2, <2>1
    <2>4. QED
      BY <2>1, <2>2, <2>3
  <1>5. p \in 1 .. Len(u) + 1 /\ p <= Len(u)
    BY <1>1, <1>2
  <1>6. \A i \in 1 .. Len(u) : u[i] = "eof" => i = Len(u) /\ p <= Len(u)
    BY <1>1, <1>3, <1>4, <1>5
  <1>7. Stays(u, p)
    BY <1>5, <1>6 DEF Stays
  <1>8. Alike(t, u, Len(t))
    BY <1>1 DEF Alike
  <1>9. QED
    BY <1>1, <1>2, <1>7, <1>8 DEF u

(* Before the first token.                                                 *)
LEMMA FirstStands ==
  ASSUME NEW t, NEW v
  PROVE  Stood(t, 1, <<Expr(0)>>, <<1>>, "operand", v, {})
  <1> DEFINE g == Expr(0)
             s == <<g>>
             o == <<1>>
  <1>1. g.kind = "expr" /\ g.at = 0 /\ g.min = 0 /\ g \in Calls
    BY DEF Expr, Calls
  <1>2. s \in Seq(Calls) /\ o \in Seq(Nat) /\ Len(s) = 1 /\ Len(o) = 1 /\ s # <<>> /\ s[1] = g /\ o[1] = 1
    BY <1>1
  <1> HIDE DEF g, s, o
  <1>3. Lev(t, 1) = 0 /\ (\A k \in 1 .. 1 - 1 : FALSE) /\ (\A k \in 1 .. 1 : k = 1) /\ (\A k \in 2 .. 1 : FALSE)
        /\ \A k \in 1 + 1 .. 1 : FALSE
    BY LevAt
  <1>4. Above(t, 1, 1)
    BY <1>3 DEF Above
  <1>5. Frame(t, 1, g, 1)
    <2>1. g.kind \notin {"prefix", "await", "group", "args", "index"} /\ g.kind \notin Bracket
      BY <1>1 DEF Bracket
    <2>2. Begins(t, 1, g.min)
      BY DEF Begins
    <2>3. 1 \in 1 .. 1
      OBVIOUS
    <2>4. QED
      BY <1>1, <1>3, <1>4, <2>1, <2>2, <2>3, Zenon DEF Frame
  <1>6. Body(t, 1, s, o)
    BY <1>1, <1>2, <1>3, <1>5, Zenon DEF Body
  <1>7. Lev(t, 1) = Floor(t, g, 1)
    BY <1>1 DEF Floor, Bracket
  <1>8. Top1(t, 1, g, 1, "operand", v)
    <2>1. ~Behind(t, 1) /\ Starter(t, 1)
      BY DEF Behind, Starter
    <2>2. \A w : ~Has(t, 1 - 1, w)
      BY DEF Has
    <2>3. "operand" \notin After1
      BY DEF After1
    <2>4. QED
      BY <1>1, <2>1, <2>2, <2>3, Zenon DEF Top1
  <1>9. Waits(t, 1, s, "operand") /\ AllPlaced(t, 1) /\ TreeSays(t, 1, s, "operand", {})
    BY <1>3, Zenon DEF Waits, AllPlaced, TreeSays
  <1>10. Stood(t, 1, s, o, "operand", v, {})
    BY <1>2, <1>6, <1>7, <1>8, <1>9, Zenon DEF Stood
  <1>11. QED
    BY <1>10 DEF s, o, g

LEMMA ReadStands ==
  ASSUME NEW V, NEW t \in Seq(V), NEW x \in V, NEW p, Stays(t, p), ~Looks(t, p),
         NEW s \in Seq(Calls), NEW own, NEW d, NEW v, NEW tr, v.lo \in Nat, Stood(t, p, s, own, d, v, tr)
  PROVE  Stood(Append(t, x), p, s, own, d, v, tr)
  <1> DEFINE u == Append(t, x)
  <1>1. /\ Alike(t, u, Len(t)) /\ Len(u) \in Nat /\ Len(u) >= Len(t) /\ Len(t) \in Nat /\ p \in 1 .. Len(t) + 1
    BY StaysRead
  <1> HIDE DEF u
  <1>2. own \in Seq(Nat)
    BY Zenon DEF Stood, Body
  <1>3. Frames(t, p, s, own)
    BY <1>2, BodyIs, Zenon DEF Stood
  <1>4. Stands(t, p, s, own, d, v, tr)
    BY <1>3, Zenon DEF Stood, Stands
  <1>5. Stands(u, p, s, own, d, v, tr)
    BY <1>1, <1>4, ReadGoes
  <1>6. Body(u, p, s, own) /\ Lev(u, p) = Floor(u, s[Len(s)], own[Len(s)])
    BY <1>2, <1>5, BodyIs, Zenon DEF Stands
  <1>7. QED
    BY <1>5, <1>6, Zenon DEF Stood, Stands, u

(* Two calls are pushed one after the other.                               *)
LEMMA TwoMore ==
  ASSUME NEW V, NEW s \in Seq(V), NEW a \in V, NEW b \in V
  PROVE  s \o <<a, b>> = Append(Append(s, a), b) /\ s \o <<a>> = Append(s, a)
  OBVIOUS

-----------------------------------------------------------------------------
(* What every action does to the variables, whether the text is right or   *)
(* not.                                                                    *)

Words == {"eof"} \cup UNION {i.tokens : i \in Inputs}
Errors == errorAt \cup swallowed

Typed ==
  /\ input \in Inputs
  /\ tokens \in Seq(Words)
  /\ Stays(tokens, pos)
  /\ stack \in Seq(Calls)
  /\ doing \in {"operand", "postfix", "back", "args"}
  /\ value \in [lo : Nat, hi : Nat]
  /\ Errors \subseteq Nat

LEMMA InitTyped == Init => Typed
  <1> SUFFICES ASSUME Init
               PROVE  Typed
    OBVIOUS
  <1>1. Expr(0) \in Calls
    BY DEF Expr, Calls
  <1>2. Stays(<<>>, 1)
    BY DEF Stays
  <1>3. Span(0, 0) \in [lo : Nat, hi : Nat]
    BY DEF Span
  <1>4. <<Expr(0)>> \in Seq(Calls)
    BY <1>1
  <1>5. QED
    BY <1>2, <1>3, <1>4 DEF Init, Typed, Errors

(* A step of the parser reads on, and what it reports is where it is.      *)
Moves ==
  /\ tokens' = tokens /\ input' = input /\ pos' \in Nat /\ pos' >= pos /\ Stays(tokens, pos')
  /\ Errors \subseteq Errors' /\ \A e \in Errors' \ Errors : e \in Nat /\ e >= pos

LEMMA KnownIs ==
  ASSUME Typed, Known
  PROVE  /\ Looks(tokens, pos) /\ Stays(tokens, pos) /\ Len(tokens) \in Nat
         /\ pos \in Nat /\ pos > 0 /\ pos <= Len(tokens) /\ pos \in 1 .. Len(tokens)
         /\ After \in Nat /\ After >= pos /\ Stays(tokens, After)
         /\ Token # "eof" => After = pos + 1 /\ pos < Len(tokens)
  <1>1. Looks(tokens, pos)
    BY DEF Known, Looks
  <1>2. Stays(tokens, pos) /\ Len(tokens) \in Nat
    BY DEF Typed
  <1>3. pos \in Nat /\ pos > 0 /\ pos <= Len(tokens)
    BY <1>1, <1>2 DEF Looks, Stays
  <1>4. CASE Token = "eof"
    BY <1>1, <1>2, <1>3, <1>4 DEF After
  <1>5. CASE Token # "eof"
    <2>1. Stays(tokens, pos + 1) /\ pos < Len(tokens)
      BY <1>1, <1>2, <1>5, StaysNext DEF Token
    <2>2. After = pos + 1
      BY <1>5 DEF After
    <2>3. QED
      BY <1>1, <1>2, <1>3, <1>5, <2>1, <2>2
  <1>6. QED
    BY <1>4, <1>5

(* Actions that report nothing, that report an error here, or at a member. *)
LEMMA FineMoves ==
  ASSUME Typed, Known, tokens' = tokens, input' = input, Fine, pos' = pos \/ pos' = After
  PROVE  Moves
  <1>1. Errors' = Errors
    BY DEF Fine, Errors
  <1>2. pos' \in Nat /\ pos' >= pos /\ Stays(tokens, pos')
    BY KnownIs
  <1>3. QED
    BY <1>1, <1>2 DEF Moves

LEMMA ReportMoves ==
  ASSUME Typed, Known, tokens' = tokens, input' = input, ReportError, pos' = pos \/ pos' = After
  PROVE  Moves /\ Errors' = Errors \cup {pos}
  <1>1. Errors' = Errors \cup {pos}
    BY DEF ReportError, Errors
  <1>2. pos' \in Nat /\ pos' >= pos /\ Stays(tokens, pos') /\ pos \in Nat /\ pos >= pos
    BY KnownIs
  <1>3. QED
    BY <1>1, <1>2 DEF Moves

LEMMA CloseMoves ==
  ASSUME Typed, Known, NEW bracket, Close(bracket)
  PROVE  /\ Moves /\ tokens' = tokens /\ stack' = Rest /\ doing' = "postfix"
         /\ value' = Span(Top.lo, pos' - 1)
         /\ tree' = IF Top.kind = "group" THEN tree ELSE tree \cup {Node(Top.at, Top.lo, pos' - 1)}
         /\ Token = bracket => pos' = After /\ Fine
         /\ Token # bracket => pos' = pos /\ Errors' = Errors \cup {pos}
  <1>1. tokens' = tokens /\ input' = input /\ (IF Token = bracket THEN pos' = After /\ Fine ELSE pos' = pos /\ ReportError)
    BY DEF Close
  <1>2. Moves /\ (Token # bracket => Errors' = Errors \cup {pos})
    <2>1. CASE Token = bracket
      BY <1>1, <2>1, FineMoves, Zenon
    <2>2. CASE Token # bracket
      BY <1>1, <2>2, ReportMoves, Zenon
    <2>3. QED
      BY <2>1, <2>2
  <1>3. QED
    BY <1>1, <1>2, Zenon DEF Close, Return

LEMMA MemberMoves ==
  ASSUME Typed, Member
  PROVE  /\ Moves /\ pos' = (IF tokens[pos + 1] \in MemberNames THEN pos + 2 ELSE pos + 1)
         /\ Errors' = (IF tokens[pos + 1] \in MemberNames THEN Errors ELSE Errors \cup {pos + 1})
  <1> DEFINE name == tokens[pos + 1]
  <1>1. Known /\ Token = "." /\ tokens' = tokens /\ input' = input
    BY DEF Member, Doing
  <1>2. /\ swallowed' = swallowed
        /\ IF name \in MemberNames
           THEN pos' = pos + 2 /\ errorAt' = errorAt
           ELSE pos' = pos + 1 /\ errorAt' = errorAt \cup {pos + 1}
    BY DEF Member
  <1>3. \A w \in MemberNames : w # "eof"
    BY DEF MemberNames, Keywords
  <1>4. /\ pos \in Nat /\ Stays(tokens, pos + 1)
        /\ name # "eof" => Stays(tokens, pos + 2)
    BY <1>1, KnownIs, StaysNext DEF Token
  <1> HIDE DEF name
  <1>5. pos' \in Nat /\ pos' >= pos /\ Stays(tokens, pos')
    BY <1>2, <1>3, <1>4
  <1>6. Errors' = IF name \in MemberNames THEN Errors ELSE Errors \cup {pos + 1}
    BY <1>2 DEF Errors
  <1>7. Errors \subseteq Errors' /\ \A e \in Errors' \ Errors : e \in Nat /\ e >= pos
    BY <1>4, <1>6
  <1>8. pos' = IF name \in MemberNames THEN pos + 2 ELSE pos + 1
    BY <1>2
  <1>9. QED
    BY <1>1, <1>5, <1>6, <1>7, <1>8 DEF Moves, name

LEMMA MovesTyped ==
  ASSUME Typed, Moves, stack' \in Seq(Calls), doing' \in {"operand", "postfix", "back", "args"},
         value' \in [lo : Nat, hi : Nat]
  PROVE  Typed'
  <1>1. Errors' \subseteq Nat
    BY DEF Typed, Moves
  <1>2. input' \in Inputs /\ tokens' \in Seq(Words) /\ Stays(tokens', pos')
    BY DEF Typed, Moves
  <1>3. QED
    BY <1>1, <1>2 DEF Typed, Words

LEMMA SpanIs ==
  ASSUME NEW a \in Nat, NEW b \in Nat
  PROVE  Span(a, b) \in [lo : Nat, hi : Nat] /\ Span(a, b).lo = a /\ Span(a, b).hi = b
  BY DEF Span

(* The top call, and the stack without it.                                 *)
LEMMA TopTyped ==
  ASSUME Typed, stack # <<>>
  PROVE  /\ Top \in Calls /\ Rest \in Seq(Calls) /\ Rest = FrontOf(stack) /\ Top = stack[Len(stack)]
         /\ Top.at \in Nat /\ Top.lo \in Nat /\ Top.min \in 0 .. 8
         /\ stack \in Seq(Calls) /\ value.lo \in Nat /\ value.hi \in Nat
         /\ Lhs \in [lo : Nat, hi : Nat] /\ Lhs = (IF Top.at = 0 THEN value ELSE Span(Top.lo, value.hi))
         /\ Lhs.lo = (IF Top.at = 0 THEN value.lo ELSE Top.lo)
  <1>1. stack \in Seq(Calls) /\ value \in [lo : Nat, hi : Nat]
    BY DEF Typed
  <1>2. Rest = FrontOf(stack) /\ Top = stack[Len(stack)]
    BY DEF Rest, FrontOf, Top
  <1>3. FrontOf(stack) \in Seq(Calls) /\ stack[Len(stack)] \in Calls
    BY <1>1, FrontIs, Zenon
  <1>4. Top \in Calls
    BY <1>2, <1>3
  <1>5. Top.at \in Nat /\ Top.lo \in Nat /\ Top.min \in 0 .. 8
    BY <1>4 DEF Calls
  <1>6. value.lo \in Nat /\ value.hi \in Nat
    BY <1>1
  <1>7. Span(Top.lo, value.hi) \in [lo : Nat, hi : Nat] /\ Span(Top.lo, value.hi).lo = Top.lo
    BY <1>5, <1>6, SpanIs
  <1>8. QED
    BY <1>1, <1>2, <1>3, <1>4, <1>5, <1>6, <1>7, Zenon DEF Lhs

LEMMA CallIs ==
  ASSUME NEW k \in {"prefix", "await", "group", "args", "index"}, NEW a \in Nat, NEW l \in Nat
  PROVE  Call(k, a, l) \in Calls
  BY DEF Call, Calls

LEMMA ExprIn ==
  ASSUME NEW m \in 0 .. 8
  PROVE  Expr(m) \in Calls
  BY DEF Expr, Calls

(* The calls each step opens.                                              *)
Taking == [Top EXCEPT !.at = pos, !.lo = Lhs.lo]

LEMMA TakingIs ==
  ASSUME Typed, stack # <<>>, pos \in Nat, Top.kind = "expr"
  PROVE  Taking \in Calls /\ Taking.kind = "expr" /\ Taking.at = pos /\ Taking.lo = Lhs.lo /\ Taking.min = Top.min
  <1>1. Top \in Calls /\ Lhs.lo \in Nat
    BY TopTyped
  <1>2. QED
    BY <1>1 DEF Taking, Calls

LEMMA StackPushes ==
  ASSUME Typed, Known, stack # <<>>
  PROVE  /\ Append(stack, Call("prefix", pos, pos)) \in Seq(Calls)
         /\ \A k \in {"await", "group"} :
              /\ stack \o <<Call(k, pos, pos), Expr(0)>> = Append(Append(stack, Call(k, pos, pos)), Expr(0))
              /\ stack \o <<Call(k, pos, pos), Expr(0)>> \in Seq(Calls)
         /\ Append(stack, Call("args", pos, value.lo)) \in Seq(Calls)
         /\ stack \o <<Call("index", pos, value.lo), Expr(0)>> = Append(Append(stack, Call("index", pos, value.lo)), Expr(0))
         /\ stack \o <<Call("index", pos, value.lo), Expr(0)>> \in Seq(Calls)
         /\ Append(stack, Expr(0)) \in Seq(Calls)
         /\ Top.kind = "expr" /\ Token \in Operators =>
              /\ Append(Rest, Taking) \o <<Expr(Prec(Token) + 1)>> = Append(Swapped(stack, Taking), Expr(Prec(Token) + 1))
              /\ Append(Rest, Taking) \o <<Expr(Prec(Token) + 1)>> \in Seq(Calls)
  <1>1. stack \in Seq(Calls) /\ Rest \in Seq(Calls) /\ Rest = FrontOf(stack) /\ value.lo \in Nat
    BY TopTyped
  <1>2. pos \in Nat
    BY KnownIs
  <1>3. Expr(0) \in Calls
    BY ExprIn
  <1>4. ASSUME NEW k \in {"prefix", "await", "group", "args", "index"}, NEW l \in Nat
        PROVE  /\ Append(stack, Call(k, pos, l)) \in Seq(Calls)
               /\ stack \o <<Call(k, pos, l), Expr(0)>> = Append(Append(stack, Call(k, pos, l)), Expr(0))
               /\ stack \o <<Call(k, pos, l), Expr(0)>> \in Seq(Calls)
    <2>1. Call(k, pos, l) \in Calls
      BY <1>2, CallIs
    <2>2. Append(stack, Call(k, pos, l)) \in Seq(Calls)
      BY <1>1, <2>1, AppendIs
    <2>3. stack \o <<Call(k, pos, l), Expr(0)>> = Append(Append(stack, Call(k, pos, l)), Expr(0))
      <3> DEFINE a == Call(k, pos, l)
                 e == Expr(0)
      <3>1. a \in Calls /\ e \in Calls
        BY <1>3, <2>1
      <3> HIDE DEF a, e
      <3>2. stack \o <<a, e>> = Append(Append(stack, a), e)
        BY <1>1, <3>1, TwoMore
      <3>3. QED
        BY <3>2 DEF a, e
    <2>4. Append(Append(stack, Call(k, pos, l)), Expr(0)) \in Seq(Calls)
      BY <1>3, <2>2, AppendIs
    <2>5. QED
      BY <2>2, <2>3, <2>4
  <1>5. Append(stack, Expr(0)) \in Seq(Calls)
    BY <1>1, <1>3, AppendIs
  <1>6. ASSUME Top.kind = "expr", Token \in Operators
        PROVE  /\ Append(Rest, Taking) \o <<Expr(Prec(Token) + 1)>> = Append(Swapped(stack, Taking), Expr(Prec(Token) + 1))
               /\ Append(Rest, Taking) \o <<Expr(Prec(Token) + 1)>> \in Seq(Calls)
    <2> DEFINE g == Expr(Prec(Token) + 1)
               S == Append(Rest, Taking)
    <2>1. Prec(Token) \in 1 .. 7
      BY <1>6, PrecIs
    <2>2. Prec(Token) + 1 \in 0 .. 8
      BY <2>1
    <2>3. g \in Calls
      BY <2>2, ExprIn
    <2>4. Taking \in Calls
      BY <1>2, <1>6, TakingIs
    <2>5. S \in Seq(Calls) /\ S = Swapped(stack, Taking)
      BY <1>1, <2>4, AppendIs DEF Swapped
    <2> HIDE DEF g, S
    <2>6. S \o <<g>> = Append(S, g) /\ Append(S, g) \in Seq(Calls)
      BY <2>3, <2>5, TwoMore, AppendIs
    <2>7. QED
      BY <2>5, <2>6 DEF S, g
  <1>7. QED
    <2>1. \A k \in {"prefix", "await", "group", "args", "index"} : \A l \in Nat :
            /\ Append(stack, Call(k, pos, l)) \in Seq(Calls)
            /\ stack \o <<Call(k, pos, l), Expr(0)>> = Append(Append(stack, Call(k, pos, l)), Expr(0))
            /\ stack \o <<Call(k, pos, l), Expr(0)>> \in Seq(Calls)
      BY <1>4
    <2>2. QED
      BY <1>1, <1>2, <1>5, <1>6, <2>1

Goes == Moves /\ Typed'

LEMMA StaysPos ==
  ASSUME NEW t, Len(t) \in Nat, NEW p, Stays(t, p)
  PROVE  p \in Nat /\ p - 1 \in Nat
  BY DEF Stays

LEMMA MovesPos ==
  ASSUME Typed, Moves
  PROVE  pos' \in Nat /\ pos' - 1 \in Nat
  <1>1. Len(tokens) \in Nat /\ Stays(tokens, pos')
    BY DEF Typed, Moves
  <1>2. QED
    BY <1>1, StaysPos

(* Every action keeps the types, never goes back, and reports errors no    *)
(* earlier than at the current token.                                      *)
LEMMA OperandTyped ==
  ASSUME Typed, Prefix \/ Nested \/ Name \/ Unexpected
  PROVE  Goes
  <1>1. Doing("operand") /\ Known /\ stack # <<>>
    BY DEF Prefix, Nested, Name, Unexpected, Doing
  <1>2. pos \in Nat /\ stack \in Seq(Calls) /\ value \in [lo : Nat, hi : Nat] /\ doing \in {"operand", "postfix", "back", "args"}
    BY <1>1, KnownIs DEF Typed
  <1>3. Span(pos, pos) \in [lo : Nat, hi : Nat]
    BY <1>2, SpanIs
  <1>4. CASE Prefix
    <2>1. Moves
      BY <1>1, <1>4, FineMoves DEF Prefix
    <2>2. stack' \in Seq(Calls) /\ doing' = doing /\ value' = value
      BY <1>1, <1>4, StackPushes DEF Prefix
    <2>3. QED
      BY <1>2, <2>1, <2>2, MovesTyped DEF Goes
  <1>5. CASE Nested
    <2>1. Moves
      BY <1>1, <1>5, FineMoves DEF Nested
    <2>2. stack' = stack \o <<Call(IF Token = "(" THEN "group" ELSE "await", pos, pos), Expr(0)>> /\ doing' = doing /\ value' = value
      BY <1>5 DEF Nested
    <2>3. stack' \in Seq(Calls)
      <3>1. \A k \in {"await", "group"} : stack \o <<Call(k, pos, pos), Expr(0)>> \in Seq(Calls)
        BY <1>1, StackPushes
      <3>2. (IF Token = "(" THEN "group" ELSE "await") \in {"await", "group"}
        OBVIOUS
      <3>3. QED
        BY <2>2, <3>1, <3>2, Zenon
    <2>4. QED
      BY <1>2, <2>1, <2>2, <2>3, MovesTyped DEF Goes
  <1>6. CASE Name
    <2>1. pos' = After /\ tokens' = tokens /\ input' = input /\ stack' = stack /\ doing' = "postfix" /\ value' = Span(pos, pos)
      BY <1>6 DEF Name, Return
    <2>2. Errors \subseteq Errors' /\ \A e \in Errors' \ Errors : e = pos
      BY <1>6 DEF Name, Errors
    <2>3. pos' \in Nat /\ pos' >= pos /\ Stays(tokens, pos')
      BY <1>1, <2>1, KnownIs
    <2>4. Moves
      BY <1>2, <2>1, <2>2, <2>3 DEF Moves
    <2>5. QED
      BY <1>2, <1>3, <2>1, <2>4, MovesTyped DEF Goes
  <1>7. CASE Unexpected
    <2>1. Moves
      BY <1>1, <1>7, ReportMoves DEF Unexpected
    <2>2. stack' = stack /\ doing' = "back" /\ value' = Span(pos, pos)
      BY <1>7 DEF Unexpected, Return
    <2>3. QED
      BY <1>2, <1>3, <2>1, <2>2, MovesTyped DEF Goes
  <1>8. QED
    BY <1>4, <1>5, <1>6, <1>7

LEMMA PostfixTyped ==
  ASSUME Typed, Member \/ CallOrIndex \/ PostfixEnds \/ Argument
  PROVE  Goes
  <1>1. Known /\ stack # <<>>
    BY DEF Member, CallOrIndex, PostfixEnds, Argument, Doing
  <1>2. pos \in Nat /\ stack \in Seq(Calls) /\ value \in [lo : Nat, hi : Nat] /\ value.lo \in Nat
    BY <1>1, KnownIs, TopTyped DEF Typed
  <1>3. CASE Member
    <2>1. Moves
      BY <1>3, MemberMoves
    <2>2. stack' = stack /\ doing' = "postfix" /\ value' = Span(value.lo, pos' - 1)
      BY <1>3 DEF Member, Return
    <2>3. pos' \in Nat /\ pos' - 1 \in Nat
      BY <2>1, MovesPos
    <2>4. Span(value.lo, pos' - 1) \in [lo : Nat, hi : Nat]
      BY <1>2, <2>3, SpanIs
    <2>5. QED
      BY <1>2, <2>1, <2>2, <2>4, MovesTyped DEF Goes
  <1>4. CASE CallOrIndex
    <2>1. Moves
      BY <1>1, <1>4, FineMoves DEF CallOrIndex
    <2>2. stack' \in Seq(Calls) /\ doing' \in {"args", "operand"} /\ value' = value
      <3>1. \/ stack' = Append(stack, Call("args", pos, value.lo)) /\ doing' = "args"
            \/ stack' = stack \o <<Call("index", pos, value.lo), Expr(0)>> /\ doing' = "operand"
        BY <1>4, Zenon DEF CallOrIndex
      <3>2. /\ Append(stack, Call("args", pos, value.lo)) \in Seq(Calls)
            /\ stack \o <<Call("index", pos, value.lo), Expr(0)>> \in Seq(Calls)
        BY <1>1, StackPushes
      <3>3. value' = value
        BY <1>4 DEF CallOrIndex
      <3>4. QED
        BY <3>1, <3>2, <3>3
    <2>3. QED
      BY <1>2, <2>1, <2>2, MovesTyped DEF Goes
  <1>5. CASE PostfixEnds
    <2>1. Moves
      BY <1>1, <1>5, FineMoves DEF PostfixEnds
    <2>2. stack' = stack /\ doing' = "back" /\ value' = value
      BY <1>5 DEF PostfixEnds, Return
    <2>3. QED
      BY <1>2, <2>1, <2>2, MovesTyped DEF Goes
  <1>6. CASE Argument
    <2>1. Moves
      BY <1>1, <1>6, FineMoves DEF Argument
    <2>2. stack' \in Seq(Calls) /\ doing' = "operand" /\ value' = value
      BY <1>1, <1>6, StackPushes DEF Argument
    <2>3. QED
      BY <1>2, <2>1, <2>2, MovesTyped DEF Goes
  <1>7. QED
    BY <1>3, <1>4, <1>5, <1>6

LEMMA CloseTyped ==
  ASSUME Typed, Known, stack # <<>>, NEW bracket, Close(bracket)
  PROVE  Goes
  <1>1. Moves /\ stack' = Rest /\ doing' = "postfix" /\ value' = Span(Top.lo, pos' - 1)
    BY CloseMoves
  <1>2. Top.lo \in Nat /\ Rest \in Seq(Calls)
    BY TopTyped
  <1>3. pos' \in Nat /\ pos' - 1 \in Nat
    BY <1>1, MovesPos
  <1>4. Span(Top.lo, pos' - 1) \in [lo : Nat, hi : Nat]
    BY <1>2, <1>3, SpanIs
  <1>5. QED
    BY <1>1, <1>2, <1>4, MovesTyped DEF Goes

LEMMA BackTyped ==
  ASSUME Typed, PrefixEnds \/ Operator \/ ExprEnds
  PROVE  Goes
  <1>1. Known /\ stack # <<>> /\ doing = "back"
    BY DEF PrefixEnds, Operator, ExprEnds, Back, Doing
  <1>2. Top.at \in Nat /\ Rest \in Seq(Calls) /\ value.hi \in Nat /\ Lhs \in [lo : Nat, hi : Nat] /\ value \in [lo : Nat, hi : Nat]
    BY <1>1, TopTyped DEF Typed
  <1>3. CASE PrefixEnds
    <2>1. Moves
      BY <1>1, <1>3, FineMoves DEF PrefixEnds
    <2>2. stack' = Rest /\ doing' = "postfix" /\ value' = Span(Top.at, value.hi)
      BY <1>3 DEF PrefixEnds, Return
    <2>3. Span(Top.at, value.hi) \in [lo : Nat, hi : Nat]
      BY <1>2, SpanIs
    <2>4. QED
      BY <1>2, <2>1, <2>2, <2>3, MovesTyped DEF Goes
  <1>4. CASE Operator
    <2>1. Moves
      BY <1>1, <1>4, FineMoves DEF Operator
    <2>2. Top.kind = "expr" /\ Token \in Operators /\ doing' = "operand" /\ value' = value
      BY <1>4 DEF Operator, Back, Binds
    <2>3. stack' = Append(Rest, Taking) \o <<Expr(Prec(Token) + 1)>>
      BY <1>4, Zenon DEF Operator, Taking
    <2>4. stack' \in Seq(Calls)
      BY <1>1, <2>2, <2>3, StackPushes
    <2>5. QED
      BY <1>2, <2>1, <2>2, <2>4, MovesTyped DEF Goes
  <1>5. CASE ExprEnds
    <2>1. Moves
      BY <1>1, <1>5, FineMoves DEF ExprEnds
    <2>2. stack' = Rest /\ doing' = "back" /\ value' = Lhs
      BY <1>5 DEF ExprEnds, Return
    <2>3. QED
      BY <1>2, <2>1, <2>2, MovesTyped DEF Goes
  <1>6. QED
    BY <1>3, <1>4, <1>5

LEMMA ArgumentsTyped ==
  ASSUME Typed, NoArgument \/ ArgumentEnds \/ GroupEnds \/ IndexEnds
  PROVE  Goes
  <1>1. Known /\ stack # <<>>
    BY DEF NoArgument, ArgumentEnds, GroupEnds, IndexEnds, Back, Doing
  <1>2. CASE \E bracket : Close(bracket)
    BY <1>1, <1>2, CloseTyped
  <1>3. CASE ArgumentEnds /\ Token = ","
    <2>1. Moves
      BY <1>1, <1>3, FineMoves DEF ArgumentEnds
    <2>2. stack' = stack /\ doing' = "args" /\ value' = value
      BY <1>3 DEF ArgumentEnds
    <2>3. QED
      BY <2>1, <2>2, MovesTyped DEF Goes, Typed
  <1>4. QED
    BY <1>2, <1>3, Zenon DEF NoArgument, ArgumentEnds, GroupEnds, IndexEnds

LEMMA ReadTyped ==
  ASSUME Typed, Read
  PROVE  /\ Typed' /\ ~Looks(tokens, pos)
         /\ \E x \in Words : tokens' = Append(tokens, x)
         /\ UNCHANGED <<input, pos, stack, doing, value, tree, errorAt, swallowed>>
  <1>1. PICK x \in {"eof"} \cup (IF Len(tokens) < input.max THEN input.tokens ELSE {}) : tokens' = Append(tokens, x)
    BY DEF Read
  <1>2. UNCHANGED <<input, pos, stack, doing, value, tree, errorAt, swallowed>> /\ ~Looks(tokens, pos)
    BY DEF Read, Known, Looks
  <1>3. x \in Words
    BY DEF Typed, Words
  <1>4. tokens \in Seq(Words) /\ Stays(tokens, pos)
    BY DEF Typed
  <1>5. tokens' \in Seq(Words) /\ Stays(tokens', pos)
    BY <1>1, <1>2, <1>3, <1>4, StaysRead
  <1>6. Errors' = Errors
    BY <1>2 DEF Errors
  <1>7. Typed'
    BY <1>2, <1>5, <1>6 DEF Typed, Words
  <1>8. QED
    BY <1>1, <1>2, <1>3, <1>7

(* Typed is an invariant.                                                  *)
LEMMA NextTyped ==
  ASSUME Typed, [Next]_vars
  PROVE  Typed'
  <1>1. CASE Read
    BY <1>1, ReadTyped
  <1>2. CASE Next /\ ~Read
    <2>1. Goes
      BY <1>2, OperandTyped, PostfixTyped, BackTyped, ArgumentsTyped, Zenon DEF Next
    <2>2. QED
      BY <2>1 DEF Goes
  <1>3. CASE UNCHANGED vars
    BY <1>3 DEF vars, Typed, Errors, Words
  <1>4. QED
    BY <1>1, <1>2, <1>3

-----------------------------------------------------------------------------
(* Every action keeps what is judged of the text.                          *)

(* What the tokens stand for: as many, and the same but for the keywords   *)
(* behind a dot.                                                           *)
LEMMA TextIs ==
  ASSUME Typed
  PROVE  /\ Len(Text) = Len(tokens) /\ Len(Text) \in Nat /\ Text \in Seq(Words \cup {"id"})
         /\ \A i \in 1 .. Len(tokens) : /\ Text[i] = tokens[i] \/ (Text[i] = "id" /\ tokens[i] \in Keywords)
                                        /\ Text[i] = tokens[i] \/ (i > 1 /\ tokens[i - 1] = ".")
                                        /\ i > 1 /\ tokens[i - 1] = "." /\ tokens[i] \in Keywords => Text[i] = "id"
  <1>1. Len(tokens) \in Nat /\ tokens \in Seq(Words)
    BY DEF Typed
  <1>2. \A i \in 1 .. Len(tokens) : tokens[i] \in Words
    BY <1>1
  <1>3. \A i \in 1 .. Len(tokens) :
          Text[i] = IF i > 1 /\ tokens[i - 1] = "." /\ tokens[i] \in Keywords THEN "id" ELSE tokens[i]
    BY DEF Text
  <1>4. \A i \in 1 .. Len(tokens) : Text[i] \in Words \cup {"id"}
    BY <1>2, <1>3
  <1>5. Text = [i \in 1 .. Len(tokens) |-> Text[i]]
    BY DEF Text
  <1>6. Text \in Seq(Words \cup {"id"}) /\ Len(Text) = Len(tokens)
    BY <1>1, <1>4, <1>5
  <1>7. QED
    BY <1>1, <1>3, <1>6

(* Only words that can be names stand for something else.                  *)
LEMMA PlainText ==
  ASSUME Typed, NEW i \in 1 .. Len(tokens), NEW w, w \notin MemberNames
  PROVE  Text[i] = w <=> tokens[i] = w
  BY TextIs DEF MemberNames

(* The position in the text is the position in the tokens.                 *)
LEMMA TextStays ==
  ASSUME Typed, NEW p
  PROVE  /\ Stays(tokens, p) <=> Stays(Text, p)
         /\ Looks(tokens, p) /\ Stays(tokens, p) <=> Looks(Text, p) /\ Stays(Text, p)
  <1>1. Len(Text) = Len(tokens) /\ Len(tokens) \in Nat
    BY TextIs
  <1>2. "eof" \notin MemberNames
    BY DEF MemberNames, Keywords
  <1>3. \A i \in 1 .. Len(tokens) : Text[i] = "eof" <=> tokens[i] = "eof"
    BY <1>2, PlainText
  <1>4. Stays(tokens, p) <=> Stays(Text, p)
    BY <1>1, <1>3 DEF Stays
  <1>5. ASSUME Stays(tokens, p)
        PROVE  Looks(tokens, p) <=> Looks(Text, p)
    <2>1. p = Len(tokens) => p \in 1 .. Len(tokens)
      BY <1>1, <1>5 DEF Stays
    <2>2. QED
      BY <1>1, <1>3, <2>1 DEF Looks
  <1>6. QED
    BY <1>4, <1>5

(* The text is told from the tokens alone.                                 *)
LEMMA SameText ==
  ASSUME tokens' = tokens
  PROVE  Text' = Text
  BY DEF Text

(* What is so far read stands as the calls say, or is wrong.               *)
Ongoing == IF stack = <<>> THEN Right(Text, pos, tree)
           ELSE \E own : Stood(Text, pos, stack, own, doing, value, tree)
Judged == (Accepted => Ongoing) /\ (~Accepted => Wrong(Text, pos, Errors))

LEMMA NoErrors == Accepted <=> Errors = {}
  BY DEF Accepted, Errors

(* After an error there is nothing more to show, ...                       *)
LEMMA AfterError ==
  ASSUME Typed, ~Accepted, Judged, Moves
  PROVE  Judged'
  <1>1. Wrong(Text, pos, Errors)
    BY DEF Judged
  <1>2. Len(Text) \in Nat /\ pos \in Nat
    BY TextIs DEF Typed, Stays
  <1>3. /\ Text' = Text /\ pos' \in Nat /\ pos' >= pos
        /\ Errors \subseteq Errors' /\ \A e \in Errors' \ Errors : e \in Nat /\ e >= pos
    BY SameText DEF Moves
  <1>4. Wrong(Text, pos', Errors')
    BY <1>1, <1>2, <1>3, WrongStays
  <1>5. ~Accepted'
    BY <1>3, NoErrors DEF Accepted, Errors
  <1>6. QED
    BY <1>3, <1>4, <1>5, Zenon DEF Judged

(* ... a first error is at a token that has no place, ...                  *)
LEMMA FirstError ==
  ASSUME Typed, Accepted, Moves, NEW p \in 1 .. Len(tokens), pos' >= p, Errors' = Errors \cup {p}, Misfit(Text, p)
  PROVE  Judged'
  <1>1. Errors' = {p}
    BY NoErrors
  <1>2. Text' = Text /\ pos' \in Nat /\ Len(Text) \in Nat /\ p \in 1 .. Len(Text)
    BY TextIs, SameText DEF Moves
  <1>3. Wrong(Text, pos', {p})
    BY <1>2, WrongAt
  <1>4. ~Accepted'
    BY <1>1 DEF Accepted, Errors
  <1>5. QED
    BY <1>1, <1>2, <1>3, <1>4, Zenon DEF Judged

(* ... and without one the calls go on.                                    *)
LEMMA NoError ==
  ASSUME Accepted, Fine
  PROVE  Accepted'
  BY DEF Accepted, Fine

LEMMA StandsOn ==
  ASSUME Accepted', tokens' = tokens, NEW O, Stood(Text, pos', stack', O, doing', value', tree')
  PROVE  Judged'
  <1>1. stack' # <<>>
    BY Zenon DEF Stood, Body
  <1>2. Text' = Text
    BY SameText
  <1>3. QED
    BY <1>1, <1>2, Zenon DEF Judged, Ongoing

(* What the parser is at, while nothing is wrong: not at a member's name.  *)
Busy(d, O) ==
  /\ Typed /\ Accepted /\ Known /\ stack # <<>> /\ doing = d
  /\ Stood(Text, pos, stack, O, d, value, tree)
  /\ Text[pos] = Token /\ Len(Text) = Len(tokens)

(* No call looks at what is behind a dot, but Member.                      *)
LEMMA NotNamed ==
  ASSUME NEW t, NEW p, NEW s, NEW O, NEW d, NEW v, NEW tr, Stood(t, p, s, O, d, v, tr),
         d \in {"operand", "postfix", "back", "args"}, p > 1, p - 1 > 0
  PROVE  t[p - 1] # "."
  <1>1. Top1(t, p, s[Len(s)], O[Len(s)], d, v)
    BY Zenon DEF Stood
  <1>2. CASE d = "operand"
    <2>1. t[p - 1] \in Operators \cup Unary \cup {"await", "(", "[", ","}
      BY <1>1, <1>2, Zenon DEF Top1, Starter
    <2>2. QED
      BY <2>1, WordsApart
  <1>3. CASE d = "args"
    <2>1. Has(t, p - 1, "(") \/ Has(t, p - 1, ",")
      BY <1>1, <1>3, Zenon DEF Top1
    <2>2. QED
      BY <2>1 DEF Has
  <1>4. CASE d \in {"postfix", "back"}
    <2>1. Behind(t, p)
      BY <1>1, <1>4, Zenon DEF Top1, After1
    <2>2. QED
      BY <2>1 DEF Behind
  <1>5. QED
    BY <1>2, <1>3, <1>4

LEMMA BusyIs ==
  ASSUME Typed, Accepted, Judged, NEW d, Doing(d)
  PROVE  \E O : Busy(d, O)
  <1>1. stack # <<>> /\ Known /\ doing = d
    BY DEF Doing
  <1>2. PICK O : Stood(Text, pos, stack, O, doing, value, tree)
    BY <1>1, Zenon DEF Judged, Ongoing
  <1>3. pos \in 1 .. Len(tokens) /\ pos \in Nat /\ (pos > 1 => pos - 1 \in 1 .. Len(tokens) /\ pos - 1 > 0)
    BY <1>1, KnownIs
  <1>4. "." \notin MemberNames
    BY DEF MemberNames, Keywords
  <1>5. ASSUME pos > 1
        PROVE  tokens[pos - 1] # "."
    <2>1. Text[pos - 1] # "."
      BY <1>2, <1>3, <1>5, NotNamed DEF Typed
    <2>2. QED
      BY <1>3, <1>4, <1>5, <2>1, PlainText
  <1>6. Text[pos] = Token /\ Len(Text) = Len(tokens)
    BY <1>3, <1>5, TextIs DEF Token
  <1>7. QED
    BY <1>1, <1>2, <1>6, Zenon DEF Busy

(* What stands behind it.                                                  *)
LEMMA TypeText ==
  ASSUME Typed, pos \in Nat, pos > 0
  PROVE  IsType(Text, pos) <=> Text[pos] = "ref" /\ pos < Len(tokens) /\ tokens[pos + 1] = "<"
  <1>1. Len(Text) = Len(tokens) /\ Len(tokens) \in Nat
    BY TextIs
  <1>2. "<" \notin MemberNames
    BY DEF MemberNames, Keywords
  <1>3. pos < Len(tokens) => pos + 1 \in 1 .. Len(tokens)
    BY <1>1
  <1>4. pos < Len(tokens) => (Text[pos + 1] = "<" <=> tokens[pos + 1] = "<")
    BY <1>2, <1>3, PlainText
  <1>5. QED
    BY <1>1, <1>4 DEF IsType

LEMMA WordsEnd ==
  /\ "eof" \notin Operators \cup Unary \cup Keywords \cup Leads \cup {"id", "(", ")", "[", "]", ",", "await", "."}
  /\ Unary \subseteq Keywords \cup {"-"} /\ "ref" \in Unary /\ "await" \in Keywords /\ "await" \notin Unary
  /\ "id" \notin Keywords \cup Unary /\ "(" \notin Keywords \cup Unary
  <1>1. /\ "eof" \notin Operators /\ "eof" \notin Unary /\ "eof" \notin Keywords /\ "eof" \notin Leads
        /\ "eof" \notin {"id", "(", ")", "[", "]", ",", "await", "."}
    BY DEF Operators, Unary, Keywords, Leads
  <1>2. Unary \subseteq Keywords \cup {"-"} /\ "ref" \in Unary /\ "await" \in Keywords /\ "await" \notin Unary
    BY DEF Unary, Keywords
  <1>3. "id" \notin Keywords /\ "id" \notin Unary /\ "(" \notin Keywords /\ "(" \notin Unary
    BY DEF Unary, Keywords
  <1>4. QED
    BY <1>1, <1>2, <1>3

(* The actions one by one.                                                 *)
LEMMA PrefixSafe ==
  ASSUME NEW O, Busy("operand", O), Prefix
  PROVE  Judged'
  <1>1. Stood(Text, pos, stack, O, "operand", value, tree) /\ Typed /\ Known /\ Accepted /\ doing = "operand" /\ Text[pos] = Token /\ Len(Text) = Len(tokens)
    BY Zenon DEF Busy
  <1>2. Text[pos] \in Unary /\ (Text[pos] = "ref" => tokens[pos + 1] # "<")
    BY <1>1 DEF Prefix, IsUnary
  <1>3. pos \in Nat /\ pos > 0 /\ After = pos + 1 /\ pos < Len(tokens)
    BY <1>1, <1>2, KnownIs, WordsEnd DEF Token
  <1>4. ~IsType(Text, pos)
    BY <1>1, <1>2, <1>3, TypeText
  <1>5. Stood(Text, pos + 1, Append(stack, Call("prefix", pos, pos)), Append(O, pos), "operand", value, tree)
    BY <1>1, <1>2, <1>3, <1>4, PrefixGoes
  <1>6. /\ pos' = pos + 1 /\ stack' = Append(stack, Call("prefix", pos, pos)) /\ Fine
        /\ tokens' = tokens /\ doing' = doing /\ value' = value /\ tree' = tree
    BY <1>3 DEF Prefix
  <1>7. Stood(Text, pos', stack', Append(O, pos), doing', value', tree')
    BY <1>1, <1>5, <1>6
  <1>8. QED
    BY <1>1, <1>6, <1>7, StandsOn, NoError

LEMMA NestedSafe ==
  ASSUME NEW O, Busy("operand", O), Nested
  PROVE  Judged'
  <1>1. Stood(Text, pos, stack, O, "operand", value, tree) /\ Typed /\ Known /\ Accepted /\ doing = "operand" /\ stack # <<>> /\ Text[pos] = Token /\ Len(Text) = Len(tokens)
    BY Zenon DEF Busy
  <1>2. Text[pos] \in {"await", "("}
    BY <1>1 DEF Nested
  <1>3. pos \in Nat /\ pos > 0 /\ After = pos + 1
    BY <1>1, <1>2, KnownIs, WordsEnd DEF Token
  <1> DEFINE k == IF Token = "(" THEN "group" ELSE "await"
  <1>4. PICK P : Stood(Text, pos + 1, Append(Append(stack, Call(k, pos, pos)), Expr(0)), P, "operand", value, tree)
    BY <1>1, <1>2, <1>3, NestedGoes DEF Token
  <1>5. /\ pos' = pos + 1 /\ stack' = stack \o <<Call(k, pos, pos), Expr(0)>> /\ Fine
        /\ tokens' = tokens /\ doing' = doing /\ value' = value /\ tree' = tree
    BY <1>3 DEF Nested
  <1>6. k \in {"await", "group"}
    OBVIOUS
  <1> HIDE DEF k
  <1>7. stack' = Append(Append(stack, Call(k, pos, pos)), Expr(0))
    <2>1. \A n \in {"await", "group"} : stack \o <<Call(n, pos, pos), Expr(0)>> = Append(Append(stack, Call(n, pos, pos)), Expr(0))
      BY <1>1, StackPushes
    <2>2. QED
      BY <1>5, <1>6, <2>1
  <1>8. Stood(Text, pos', stack', P, doing', value', tree')
    BY <1>1, <1>4, <1>5, <1>7
  <1>9. QED
    BY <1>1, <1>5, <1>8, StandsOn, NoError

LEMMA NameSafe ==
  ASSUME NEW O, Busy("operand", O), Name
  PROVE  Judged'
  <1>1. Stood(Text, pos, stack, O, "operand", value, tree) /\ Typed /\ Known /\ Accepted /\ Text[pos] = Token /\ Len(Text) = Len(tokens)
    BY Zenon DEF Busy
  <1>2. Text[pos] \in ({"id"} \cup Keywords) \ {"await"} /\ ~(Text[pos] \in Unary /\ (Text[pos] = "ref" => tokens[pos + 1] # "<"))
    BY <1>1 DEF Name, IsUnary
  <1>3. pos \in Nat /\ pos > 0 /\ pos \in 1 .. Len(tokens) /\ After = pos + 1 /\ pos < Len(tokens)
    BY <1>1, <1>2, KnownIs, WordsEnd DEF Token
  <1>4. /\ pos' = pos + 1 /\ stack' = stack /\ tokens' = tokens /\ doing' = "postfix" /\ value' = Span(pos, pos) /\ tree' = tree
        /\ swallowed' = (IF Token = "id" THEN swallowed ELSE swallowed \cup {pos}) /\ errorAt' = errorAt
    BY <1>3 DEF Name, Return
  <1>5. CASE Token = "id"
    <2>1. Stood(Text, pos + 1, stack, O, "postfix", Span(pos, pos), tree)
      BY <1>1, <1>3, <1>5, NameGoes DEF Token
    <2>2. Stood(Text, pos', stack', O, doing', value', tree')
      BY <1>4, <2>1
    <2>3. Fine
      BY <1>4, <1>5 DEF Fine
    <2>4. QED
      BY <1>1, <1>4, <2>2, <2>3, StandsOn, NoError
  <1>6. CASE Token # "id"
    <2>1. IsType(Text, pos) \/ Text[pos] \notin Unary
      BY <1>1, <1>2, <1>3, TypeText
    <2>2. Text[pos] \notin {"id", "(", "ref"} \/ IsType(Text, pos)
      BY <1>1, <1>2, <1>6, <2>1, WordsEnd
    <2>3. Misfit(Text, pos)
      BY <1>1, <1>2, <1>3, <2>1, <2>2, UnexpectedWrong
    <2>4. Errors' = Errors \cup {pos}
      BY <1>4, <1>6 DEF Errors
    <2>5. Moves
      BY <1>1, OperandTyped DEF Goes
    <2>6. pos' >= pos
      BY <1>3, <1>4
    <2>7. QED
      BY <1>1, <1>3, <2>3, <2>4, <2>5, <2>6, FirstError
  <1>7. QED
    BY <1>5, <1>6

LEMMA UnexpectedSafe ==
  ASSUME NEW O, Busy("operand", O), Unexpected
  PROVE  Judged'
  <1>1. Stood(Text, pos, stack, O, "operand", value, tree) /\ Typed /\ Known /\ Accepted /\ Text[pos] = Token /\ Len(Text) = Len(tokens)
    BY Zenon DEF Busy
  <1>2. Text[pos] \notin {"id", "("} \cup Keywords \cup Unary /\ pos' = After /\ tokens' = tokens /\ input' = input /\ ReportError
    BY <1>1 DEF Unexpected
  <1>3. Text[pos] \notin {"id", "(", "ref"} /\ Text[pos] \notin Unary /\ Text[pos] # "await"
    BY <1>2, WordsEnd
  <1>4. pos \in Nat /\ pos > 0 /\ pos \in 1 .. Len(tokens) /\ pos' >= pos
    BY <1>1, <1>2, KnownIs
  <1>5. Misfit(Text, pos)
    BY <1>1, <1>3, <1>4, UnexpectedWrong
  <1>6. Moves /\ Errors' = Errors \cup {pos}
    BY <1>1, <1>2, ReportMoves
  <1>7. QED
    BY <1>1, <1>4, <1>5, <1>6, FirstError

LEMMA NotUnder ==
  \A n \in Nat : n >= n
  OBVIOUS

LEMMA MemberSafe ==
  ASSUME NEW O, Busy("postfix", O), Member
  PROVE  Judged'
  <1>1. Stood(Text, pos, stack, O, "postfix", value, tree) /\ Typed /\ Known /\ Accepted /\ Text[pos] = Token /\ Len(Text) = Len(tokens)
    BY Zenon DEF Busy
  <1>2. Text[pos] = "."
    BY <1>1 DEF Member
  <1>3. pos \in Nat /\ pos > 0 /\ pos < Len(tokens) /\ pos + 1 \in 1 .. Len(tokens)
    <2>1. pos \in Nat /\ pos > 0 /\ pos < Len(tokens) /\ Len(tokens) \in Nat
      BY <1>1, <1>2, KnownIs
    <2>2. QED
      BY <2>1
  <1>4. /\ Moves /\ pos' = (IF tokens[pos + 1] \in MemberNames THEN pos + 2 ELSE pos + 1)
        /\ Errors' = (IF tokens[pos + 1] \in MemberNames THEN Errors ELSE Errors \cup {pos + 1})
    BY <1>1, MemberMoves
  <1>5. /\ stack' = stack /\ tokens' = tokens /\ doing' = "postfix" /\ value' = Span(value.lo, pos' - 1)
        /\ tree' = tree \cup {Node(pos, value.lo, pos' - 1)}
    BY DEF Member, Return
  <1>0. tokens[pos + 1] \in MemberNames <=> Text[pos + 1] = "id"
    <2>1. tokens[pos] = "." /\ pos + 1 > 1 /\ (pos + 1) - 1 = pos
      BY <1>1, <1>2, <1>3 DEF Token
    <2>2. tokens[pos + 1] \in Keywords => Text[pos + 1] = "id"
      BY <1>1, <1>3, <2>1, TextIs
    <2>3. QED
      BY <1>1, <1>3, <2>2, TextIs DEF MemberNames
  <1>6. CASE tokens[pos + 1] \in MemberNames
    <2>1. Stood(Text, pos + 2, stack, O, "postfix", Span(value.lo, pos + 1), tree \cup {Node(pos, value.lo, pos + 1)})
      BY <1>0, <1>1, <1>2, <1>3, <1>6, MemberGoes
    <2>2. pos' = pos + 2 /\ pos' - 1 = pos + 1
      BY <1>3, <1>4, <1>6
    <2>3. Stood(Text, pos', stack', O, doing', value', tree')
      BY <1>5, <2>1, <2>2
    <2>4. Accepted'
      BY <1>1, <1>4, <1>6, NoErrors DEF Accepted, Errors
    <2>5. QED
      BY <1>5, <2>3, <2>4, StandsOn
  <1>7. CASE tokens[pos + 1] \notin MemberNames
    <2>1. Misfit(Text, pos + 1)
      BY <1>0, <1>2, <1>3, <1>7, MemberWrong
    <2>2. pos' >= pos + 1 /\ Errors' = Errors \cup {pos + 1}
      BY <1>3, <1>4, <1>7
    <2>3. QED
      BY <1>1, <1>3, <1>4, <2>1, <2>2, FirstError
  <1>8. QED
    BY <1>6, <1>7

LEMMA CallOrIndexSafe ==
  ASSUME NEW O, Busy("postfix", O), CallOrIndex
  PROVE  Judged'
  <1>1. Stood(Text, pos, stack, O, "postfix", value, tree) /\ Typed /\ Known /\ Accepted /\ stack # <<>> /\ Text[pos] = Token /\ Len(Text) = Len(tokens)
    BY Zenon DEF Busy
  <1>2. Text[pos] \in {"(", "["}
    BY <1>1 DEF CallOrIndex
  <1>3. pos \in Nat /\ pos > 0 /\ After = pos + 1
    BY <1>1, <1>2, KnownIs, WordsEnd DEF Token
  <1>4. /\ pos' = pos + 1 /\ Fine /\ tokens' = tokens /\ value' = value /\ tree' = tree
        /\ IF Token = "("
           THEN stack' = Append(stack, Call("args", pos, value.lo)) /\ doing' = "args"
           ELSE stack' = stack \o <<Call("index", pos, value.lo), Expr(0)>> /\ doing' = "operand"
    BY <1>3 DEF CallOrIndex
  <1>5. CASE Token = "("
    <2>1. PICK P : Stood(Text, pos + 1, Append(stack, Call("args", pos, value.lo)), P, "args", value, tree)
      BY <1>1, <1>3, <1>5, CallGoes
    <2>2. Stood(Text, pos', stack', P, doing', value', tree')
      BY <1>4, <1>5, <2>1
    <2>3. QED
      BY <1>1, <1>4, <2>2, StandsOn, NoError
  <1>6. CASE Token # "("
    <2>1. Text[pos] = "["
      BY <1>1, <1>2, <1>6
    <2>2. PICK P : Stood(Text, pos + 1, Append(Append(stack, Call("index", pos, value.lo)), Expr(0)), P, "operand", value, tree)
      BY <1>1, <1>3, <2>1, IndexGoes
    <2>3. stack' = Append(Append(stack, Call("index", pos, value.lo)), Expr(0)) /\ doing' = "operand"
      <3>1. stack \o <<Call("index", pos, value.lo), Expr(0)>> = Append(Append(stack, Call("index", pos, value.lo)), Expr(0))
        BY <1>1, StackPushes
      <3>2. QED
        BY <1>4, <1>6, <3>1
    <2>4. Stood(Text, pos', stack', P, doing', value', tree')
      BY <1>4, <2>2, <2>3
    <2>5. QED
      BY <1>1, <1>4, <2>4, StandsOn, NoError
  <1>7. QED
    BY <1>5, <1>6

LEMMA PostfixEndsSafe ==
  ASSUME NEW O, Busy("postfix", O), PostfixEnds
  PROVE  Judged'
  <1>1. Stood(Text, pos, stack, O, "postfix", value, tree) /\ Typed /\ Known /\ Accepted /\ Text[pos] = Token /\ Len(Text) = Len(tokens)
    BY Zenon DEF Busy
  <1>2. Text[pos] \notin Leads
    BY <1>1 DEF PostfixEnds, Leads
  <1>3. pos \in Nat /\ pos > 0 /\ pos <= Len(Text)
    BY <1>1, KnownIs
  <1>4. Stood(Text, pos, stack, O, "back", value, tree)
    BY <1>1, <1>2, <1>3, PostfixEndsGoes
  <1>5. /\ pos' = pos /\ Fine /\ tokens' = tokens /\ value' = value /\ tree' = tree /\ stack' = stack /\ doing' = "back"
    BY DEF PostfixEnds, Return
  <1>6. Stood(Text, pos', stack', O, doing', value', tree')
    BY <1>4, <1>5
  <1>7. QED
    BY <1>1, <1>5, <1>6, StandsOn, NoError

LEMMA ArgumentSafe ==
  ASSUME NEW O, Busy("args", O), Argument
  PROVE  Judged'
  <1>1. Stood(Text, pos, stack, O, "args", value, tree) /\ Typed /\ Known /\ Accepted /\ Text[pos] = Token /\ Len(Text) = Len(tokens)
    BY Zenon DEF Busy
  <1>2. Text[pos] \notin {")", "eof"}
    BY <1>1 DEF Argument
  <1>3. pos \in Nat /\ pos > 0 /\ pos <= Len(Text)
    BY <1>1, KnownIs
  <1>4. PICK P : Stood(Text, pos, Append(stack, Expr(0)), P, "operand", value, tree)
    BY <1>1, <1>2, <1>3, ArgumentGoes
  <1>5. /\ pos' = pos /\ Fine /\ tokens' = tokens /\ value' = value /\ tree' = tree
        /\ stack' = Append(stack, Expr(0)) /\ doing' = "operand"
    BY DEF Argument
  <1>6. Stood(Text, pos', stack', P, doing', value', tree')
    BY <1>4, <1>5
  <1>7. QED
    BY <1>1, <1>5, <1>6, StandsOn, NoError

LEMMA CloseSafe ==
  ASSUME NEW O, NEW d \in {"args", "back"}, Busy(d, O), Top.kind \in Bracket,
         NEW bracket, bracket = (IF Top.kind = "index" THEN "]" ELSE ")"), Close(bracket),
         \/ d = "args" /\ Token \in {")", "eof"}
         \/ d = "back" /\ (Top.kind = "args" => Token # ",")
  PROVE  Judged'
  <1>1. Stood(Text, pos, stack, O, d, value, tree) /\ Typed /\ Known /\ Accepted /\ stack # <<>> /\ Text[pos] = Token /\ Len(Text) = Len(tokens)
    BY Zenon DEF Busy
  <1>2. Rest = FrontOf(stack) /\ Top = stack[Len(stack)]
    BY <1>1, TopTyped
  <1>3. /\ Moves /\ tokens' = tokens /\ stack' = Rest /\ doing' = "postfix"
        /\ value' = Span(Top.lo, pos' - 1)
        /\ tree' = IF Top.kind = "group" THEN tree ELSE tree \cup {Node(Top.at, Top.lo, pos' - 1)}
        /\ Token = bracket => pos' = After /\ Fine
        /\ Token # bracket => pos' = pos /\ Errors' = Errors \cup {pos}
    <2>1. Typed /\ Known /\ Close(bracket)
      BY <1>1
    <2>2. QED
      BY <2>1, CloseMoves
  <1>4. pos \in Nat /\ pos > 0 /\ pos \in 1 .. Len(tokens) /\ (Token # "eof" => After = pos + 1 /\ pos < Len(tokens))
    BY <1>1, KnownIs
  <1>5. CASE Token = bracket
    <2>1. Token # "eof"
      BY <1>5
    <2>2. pos' = pos + 1 /\ pos' - 1 = pos
      BY <1>3, <1>4, <1>5, <2>1
    <2>3. Stood(Text, pos + 1, FrontOf(stack), FrontOf(O), "postfix", Span(stack[Len(stack)].lo, pos),
               IF stack[Len(stack)].kind = "group" THEN tree ELSE tree \cup {Node(stack[Len(stack)].at, stack[Len(stack)].lo, pos)})
      <3>1. stack[Len(stack)].kind \in Bracket /\ Text[pos] = (IF stack[Len(stack)].kind = "index" THEN "]" ELSE ")")
        BY <1>1, <1>2, <1>5
      <3>2. QED
        BY <1>1, <1>4, <3>1, CloseGoes
    <2>4. Stood(Text, pos', stack', FrontOf(O), doing', value', tree')
      BY <1>2, <1>3, <2>2, <2>3
    <2>5. QED
      BY <1>1, <1>3, <1>5, <2>4, StandsOn, NoError
  <1>6. CASE Token # bracket
    <2>1. Text[pos] # (IF stack[Len(stack)].kind = "index" THEN "]" ELSE ")") /\ stack[Len(stack)].kind \in Bracket
      BY <1>1, <1>2, <1>6
    <2>2. pos < Len(tokens) \/ Text[pos] = "eof"
      BY <1>1, <1>4
    <2>3. \/ d = "args" /\ Text[pos] = "eof"
          \/ d = "back" /\ (stack[Len(stack)].kind = "args" => Text[pos] # ",")
      <3>1. d = "args" => Top.kind = "args"
        BY <1>1, <1>2, Zenon DEF Stood, Top1
      <3>2. d = "args" => bracket = ")"
        BY <3>1
      <3>3. QED
        BY <1>1, <1>2, <1>6, <3>2
    <2>4. Misfit(Text, pos)
      BY <1>1, <1>4, <2>1, <2>2, <2>3, CloseWrong
    <2>5. pos' = pos /\ Errors' = Errors \cup {pos}
      BY <1>3, <1>6, Zenon
    <2>6. pos' >= pos
      BY <1>4, <2>5, NotUnder, Zenon
    <2>7. QED
      BY <1>1, <1>3, <1>4, <2>4, <2>5, <2>6, FirstError
  <1>7. QED
    BY <1>5, <1>6

LEMMA ArgumentsSafe ==
  ASSUME NEW O, \/ Busy("args", O) /\ NoArgument
                \/ Busy("back", O) /\ (ArgumentEnds \/ GroupEnds \/ IndexEnds)
  PROVE  Judged'
  <1>1. CASE Busy("args", O) /\ NoArgument
    <2>1. Stood(Text, pos, stack, O, "args", value, tree)
      BY <1>1, Zenon DEF Busy
    <2>2. Top.kind = "args"
      BY <2>1, Zenon DEF Stood, Top1, Top
    <2>3. Close(")") /\ Token \in {")", "eof"}
      BY <1>1 DEF NoArgument
    <2>4. QED
      BY <1>1, <2>2, <2>3, CloseSafe DEF Bracket
  <1>2. CASE Busy("back", O) /\ GroupEnds
    <2>1. Top.kind = "group" /\ Close(")")
      BY <1>2 DEF GroupEnds, Back
    <2>2. QED
      BY <1>2, <2>1, CloseSafe DEF Bracket
  <1>3. CASE Busy("back", O) /\ IndexEnds
    <2>1. Top.kind = "index" /\ Close("]")
      BY <1>3 DEF IndexEnds, Back
    <2>2. QED
      BY <1>3, <2>1, CloseSafe DEF Bracket
  <1>4. CASE Busy("back", O) /\ ArgumentEnds
    <2>1. Top.kind = "args"
      BY <1>4 DEF ArgumentEnds, Back
    <2>2. CASE Token # ","
      <3>1. Close(")")
        BY <1>4, <2>2 DEF ArgumentEnds
      <3>2. QED
        BY <1>4, <2>1, <2>2, <3>1, CloseSafe DEF Bracket
    <2>3. CASE Token = ","
      <3>1. Stood(Text, pos, stack, O, "back", value, tree) /\ Typed /\ Known /\ Accepted /\ stack # <<>> /\ Text[pos] = Token
        BY <1>4, Zenon DEF Busy
      <3>2. pos \in Nat /\ pos > 0 /\ After = pos + 1
        BY <2>3, <3>1, KnownIs
      <3>3. /\ pos' = pos + 1 /\ Fine /\ tokens' = tokens /\ value' = value /\ tree' = tree /\ stack' = stack /\ doing' = "args"
        BY <1>4, <2>3, <3>2 DEF ArgumentEnds
      <3>4. Stood(Text, pos + 1, stack, O, "args", value, tree)
        BY <2>1, <2>3, <3>1, <3>2, CommaGoes DEF Top
      <3>5. Stood(Text, pos', stack', O, doing', value', tree')
        BY <3>3, <3>4
      <3>6. QED
        BY <3>1, <3>3, <3>5, StandsOn, NoError
    <2>4. QED
      BY <2>2, <2>3
  <1>5. QED
    BY <1>1, <1>2, <1>3, <1>4

LEMMA PrefixEndsSafe ==
  ASSUME NEW O, Busy("back", O), PrefixEnds
  PROVE  Judged'
  <1>1. Stood(Text, pos, stack, O, "back", value, tree) /\ Typed /\ Known /\ Accepted /\ stack # <<>> /\ Text[pos] = Token /\ Len(Text) = Len(tokens)
    BY Zenon DEF Busy
  <1>2. Rest = FrontOf(stack) /\ Top = stack[Len(stack)]
    BY <1>1, TopTyped
  <1>3. pos \in Nat /\ pos > 0
    BY <1>1, KnownIs
  <1>4. stack[Len(stack)].kind \in {"prefix", "await"}
    BY <1>2 DEF PrefixEnds, Back
  <1>5. /\ pos' = pos /\ Fine /\ tokens' = tokens /\ value' = Span(Top.at, value.hi) /\ stack' = Rest /\ doing' = "postfix"
        /\ tree' = tree \cup {Node(Top.at, Top.at, value.hi)}
    BY DEF PrefixEnds, Return
  <1>6. Stood(Text, pos, FrontOf(stack), FrontOf(O), "postfix", Span(stack[Len(stack)].at, value.hi),
               tree \cup {Node(stack[Len(stack)].at, stack[Len(stack)].at, value.hi)})
    BY <1>1, <1>3, <1>4, PrefixEndsGoes
  <1>7. Stood(Text, pos', stack', FrontOf(O), doing', value', tree')
    BY <1>2, <1>5, <1>6
  <1>8. QED
    BY <1>1, <1>5, <1>7, StandsOn, NoError

LEMMA OperatorSafe ==
  ASSUME NEW O, Busy("back", O), Operator
  PROVE  Judged'
  <1>1. Stood(Text, pos, stack, O, "back", value, tree) /\ Typed /\ Known /\ Accepted /\ stack # <<>> /\ Text[pos] = Token /\ Len(Text) = Len(tokens)
    BY Zenon DEF Busy
  <1>2. /\ Top = stack[Len(stack)]
        /\ Lhs.lo = (IF Top.at = 0 THEN value.lo ELSE Top.lo)
    BY <1>1, TopTyped
  <1>3. Top.kind = "expr" /\ Token \in Operators /\ Prec(Token) >= Top.min
    BY DEF Operator, Back, Binds
  <1>4. pos \in Nat /\ pos > 0 /\ After = pos + 1
    BY <1>1, <1>3, KnownIs, WordsEnd
  <1>5. /\ pos' = pos + 1 /\ Fine /\ tokens' = tokens /\ value' = value /\ doing' = "operand"
        /\ tree' = IF Top.at = 0 THEN tree ELSE tree \cup {Node(Top.at, Top.lo, value.hi)}
        /\ stack' = Append(Rest, Taking) \o <<Expr(Prec(Token) + 1)>>
    BY <1>4, Zenon DEF Operator, Taking, Fold
  <1>6. stack' = Append(Swapped(stack, Taking), Expr(Prio(Text, pos) + 1))
    BY <1>1, <1>3, <1>5, StackPushes DEF Prio
  <1>7. /\ Taking \in Calls /\ Taking.kind = "expr" /\ Taking.at = pos /\ Taking.min = stack[Len(stack)].min
        /\ Taking.lo = (IF stack[Len(stack)].at = 0 THEN value.lo ELSE stack[Len(stack)].lo)
    BY <1>1, <1>2, <1>3, <1>4, TakingIs
  <1>8. stack[Len(stack)].kind = "expr" /\ Text[pos] \in Operators /\ Prio(Text, pos) >= stack[Len(stack)].min
    BY <1>1, <1>2, <1>3 DEF Prio
  <1> HIDE DEF Taking
  <1>9. PICK P : Stood(Text, pos + 1, Append(Swapped(stack, Taking), Expr(Prio(Text, pos) + 1)), P, "operand", value,
                      IF stack[Len(stack)].at = 0 THEN tree ELSE tree \cup {Node(stack[Len(stack)].at, stack[Len(stack)].lo, value.hi)})
    BY <1>1, <1>4, <1>7, <1>8, OperatorGoes
  <1>10. Stood(Text, pos', stack', P, doing', value', tree')
    BY <1>2, <1>5, <1>6, <1>9
  <1>11. QED
    BY <1>1, <1>5, <1>10, StandsOn, NoError

LEMMA ExprEndsSafe ==
  ASSUME NEW O, Busy("back", O), ExprEnds
  PROVE  Judged'
  <1>1. Stood(Text, pos, stack, O, "back", value, tree) /\ Typed /\ Known /\ Accepted /\ stack # <<>> /\ Text[pos] = Token /\ Len(Text) = Len(tokens)
    BY Zenon DEF Busy
  <1>2. /\ Rest = FrontOf(stack) /\ Top = stack[Len(stack)] /\ stack \in Seq(Calls)
        /\ Lhs = (IF Top.at = 0 THEN value ELSE Span(Top.lo, value.hi))
    BY <1>1, TopTyped
  <1>3. Top.kind = "expr" /\ ~(Token \in Operators /\ Prec(Token) >= Top.min)
    BY DEF ExprEnds, Back, Binds
  <1>4. pos \in Nat /\ pos > 0 /\ Len(tokens) \in Nat
    BY <1>1, KnownIs
  <1>5. /\ pos' = pos /\ Fine /\ tokens' = tokens /\ value' = Lhs /\ doing' = "back" /\ stack' = Rest
        /\ tree' = IF Top.at = 0 THEN tree ELSE tree \cup {Node(Top.at, Top.lo, value.hi)}
    BY Zenon DEF ExprEnds, Return, Fold
  <1>6. stack[Len(stack)].kind = "expr" /\ ~(Text[pos] \in Operators /\ Prio(Text, pos) >= stack[Len(stack)].min)
    BY <1>1, <1>2, <1>3 DEF Prio
  <1>7. Len(stack) \in Nat /\ Len(stack) > 0
    BY <1>1, <1>2
  <1>8. CASE Len(stack) > 1
    <2>1. Stood(Text, pos, FrontOf(stack), FrontOf(O), "back",
                IF stack[Len(stack)].at = 0 THEN value ELSE Span(stack[Len(stack)].lo, value.hi),
                IF stack[Len(stack)].at = 0 THEN tree ELSE tree \cup {Node(stack[Len(stack)].at, stack[Len(stack)].lo, value.hi)})
      BY <1>1, <1>4, <1>6, <1>8, ExprEndsGoes
    <2>2. Stood(Text, pos', stack', FrontOf(O), doing', value', tree')
      BY <1>2, <1>5, <2>1
    <2>3. QED
      BY <1>1, <1>5, <2>2, StandsOn, NoError
  <1>9. CASE Len(stack) = 1
    <2>1. Right(Text, pos, IF stack[Len(stack)].at = 0 THEN tree ELSE tree \cup {Node(stack[Len(stack)].at, stack[Len(stack)].lo, value.hi)})
      BY <1>1, <1>4, <1>6, <1>9, WholeGoes
    <2>2. Right(Text, pos', tree')
      BY <1>2, <1>5, <2>1
    <2>3. stack' = <<>>
      <3>1. FrontOf(stack) \in Seq(Calls) /\ Len(FrontOf(stack)) = Len(stack) - 1
        BY <1>1, <1>2, FrontIs, Zenon
      <3>2. QED
        BY <1>2, <1>5, <1>9, <3>1
    <2>4. Accepted'
      BY <1>1, <1>5, NoError
    <2>5. QED
      <3>1. Right(Text', pos', tree')
        BY <1>5, <2>2, SameText
      <3>2. Ongoing'
        BY <2>3, <3>1 DEF Ongoing
      <3>3. QED
        BY <2>4, <3>2, Zenon DEF Judged
  <1>10. QED
    BY <1>7, <1>8, <1>9, OverOne, Zenon

LEMMA InitJudged == Init => Judged
  <1> SUFFICES ASSUME Init
               PROVE  Judged
    OBVIOUS
  <1>1. Stood(Text, 1, <<Expr(0)>>, <<1>>, "operand", value, {})
    BY FirstStands
  <1>2. pos = 1 /\ stack = <<Expr(0)>> /\ doing = "operand" /\ tree = {} /\ Accepted
    BY DEF Init, Accepted
  <1>3. stack # <<>>
    BY <1>2
  <1>4. Stood(Text, pos, stack, <<1>>, doing, value, tree)
    BY <1>1, <1>2
  <1>5. QED
    BY <1>2, <1>3, <1>4, Zenon DEF Judged, Ongoing

(* The text grows by what the next token stands for.                       *)
LEMMA ReadText ==
  ASSUME Typed, Read
  PROVE  \E w \in Words \cup {"id"} : Text' = Append(Text, w)
  <1>1. PICK x \in Words : tokens' = Append(tokens, x)
    BY ReadTyped
  <1> DEFINE n == Len(tokens)
             w == IF n + 1 > 1 /\ tokens[n] = "." /\ x \in Keywords THEN "id" ELSE x
  <1>2. tokens \in Seq(Words) /\ n \in Nat
    BY DEF Typed
  <1>3. /\ Len(tokens') = n + 1 /\ tokens'[n + 1] = x
        /\ \A i \in 1 .. n : tokens'[i] = tokens[i]
    BY <1>1, <1>2
  <1>4. Text' = [i \in 1 .. n + 1 |->
                   IF i > 1 /\ tokens'[i - 1] = "." /\ tokens'[i] \in Keywords THEN "id" ELSE tokens'[i]]
    BY <1>3 DEF Text
  <1>5. \A i \in 1 .. n : Text[i] = IF i > 1 /\ tokens[i - 1] = "." /\ tokens[i] \in Keywords THEN "id" ELSE tokens[i]
    BY DEF Text
  <1>6. \A i \in 1 .. n : Text'[i] = Text[i]
    <2>1. ASSUME NEW i \in 1 .. n
          PROVE  Text'[i] = Text[i]
      <3>1. i \in 1 .. n + 1 /\ (i > 1 => i - 1 \in 1 .. n)
        BY <1>2
      <3>2. tokens'[i] = tokens[i] /\ (i > 1 => tokens'[i - 1] = tokens[i - 1])
        BY <1>3, <3>1
      <3>3. Text'[i] = IF i > 1 /\ tokens'[i - 1] = "." /\ tokens'[i] \in Keywords THEN "id" ELSE tokens'[i]
        BY <1>4, <3>1
      <3>4. QED
        BY <1>5, <3>2, <3>3
    <2>2. QED
      BY <2>1
  <1>7. Text'[n + 1] = w
    <2>1. n + 1 \in 1 .. n + 1 /\ (n + 1) - 1 = n /\ (n + 1 > 1 => n \in 1 .. n)
      BY <1>2
    <2>2. Text'[n + 1] = IF n + 1 > 1 /\ tokens'[(n + 1) - 1] = "." /\ tokens'[n + 1] \in Keywords THEN "id" ELSE tokens'[n + 1]
      BY <1>4, <2>1
    <2>3. n + 1 > 1 => tokens'[n] = tokens[n]
      BY <1>3, <2>1
    <2>4. QED
      BY <1>3, <2>1, <2>2, <2>3
  <1>8. w \in Words \cup {"id"}
    OBVIOUS
  <1>9. Text \in Seq(Words \cup {"id"}) /\ Len(Text) = n
    BY TextIs
  <1>10. Text' = [i \in 1 .. n + 1 |-> Text'[i]]
    BY <1>4
  <1> HIDE DEF w, n
  <1>11. /\ Append(Text, w) = [i \in 1 .. n + 1 |-> Append(Text, w)[i]]
         /\ \A i \in 1 .. n : Append(Text, w)[i] = Text[i]
         /\ Append(Text, w)[n + 1] = w
    <2> DEFINE V == Words \cup {"id"}
               u == Append(Text, w)
    <2>1. Text \in Seq(V) /\ w \in V /\ Len(Text) = n
      BY <1>8, <1>9
    <2> HIDE DEF V
    <2>2. u \in Seq(V) /\ Len(u) = n + 1 /\ u[n + 1] = w /\ \A i \in 1 .. n : u[i] = Text[i]
      BY <2>1, AppendIs
    <2> HIDE DEF u
    <2>3. u = [i \in 1 .. n + 1 |-> u[i]]
      BY <2>2
    <2>4. QED
      BY <2>2, <2>3 DEF u
  <1>12. \A i \in 1 .. n + 1 : i \in 1 .. n \/ i = n + 1
    BY <1>2
  <1>13. \A i \in 1 .. n + 1 : Text'[i] = Append(Text, w)[i]
    BY <1>6, <1>7, <1>11, <1>12
  <1>14. Text' = Append(Text, w)
    BY <1>10, <1>11, <1>13
  <1>15. QED
    BY <1>8, <1>14

LEMMA ReadJudged ==
  ASSUME Typed, Judged, Read
  PROVE  Judged'
  <1>1. /\ ~Looks(tokens, pos)
        /\ UNCHANGED <<input, pos, stack, doing, value, tree, errorAt, swallowed>>
    BY ReadTyped
  <1> DEFINE V == Words \cup {"id"}
  <1>2. PICK x \in V : Text' = Append(Text, x)
    BY ReadText
  <1>3. Text \in Seq(V) /\ Stays(Text, pos) /\ ~Looks(Text, pos) /\ stack \in Seq(Calls) /\ value.lo \in Nat
    BY <1>1, TextIs, TextStays DEF Typed
  <1> HIDE DEF V
  <1>4. Errors' = Errors /\ (Accepted' <=> Accepted)
    BY <1>1 DEF Errors, Accepted
  <1>5. stack # <<>> /\ stack' = stack
    BY <1>1 DEF Read
  <1>6. ASSUME Accepted
        PROVE  Ongoing'
    <2>1. PICK O : Stood(Text, pos, stack, O, doing, value, tree)
      BY <1>5, <1>6, Zenon DEF Judged, Ongoing
    <2>2. Stood(Append(Text, x), pos, stack, O, doing, value, tree)
      BY <1>3, <2>1, ReadStands
    <2>3. Stood(Text', pos', stack', O, doing', value', tree')
      BY <1>1, <1>2, <2>2
    <2>4. QED
      BY <1>5, <2>3, Zenon DEF Ongoing
  <1>7. ASSUME ~Accepted
        PROVE  Wrong(Text', pos', Errors')
    <2>1. Wrong(Text, pos, Errors)
      BY <1>7, Zenon DEF Judged
    <2>2. /\ Alike(Text, Append(Text, x), Len(Text))
          /\ Len(Append(Text, x)) \in Nat /\ Len(Append(Text, x)) >= Len(Text) /\ Len(Text) \in Nat
      BY <1>3, StaysRead
    <2>3. Wrong(Append(Text, x), pos, Errors)
      BY <2>1, <2>2, WrongAlike
    <2>4. QED
      BY <1>1, <1>2, <1>4, <2>3
  <1>8. QED
    BY <1>4, <1>6, <1>7, Zenon DEF Judged

(* Judged is an invariant, given Typed.                                    *)
LEMMA NextJudged ==
  ASSUME Typed, Judged, [Next]_vars
  PROVE  Judged'
  <1>1. CASE Read
    BY <1>1, ReadJudged
  <1>2. CASE UNCHANGED vars
    BY <1>2, SameText DEF vars, Judged, Ongoing, Accepted, Errors
  <1>3. CASE ~Accepted /\ Next /\ ~Read
    <2>1. Goes
      BY <1>3, OperandTyped, PostfixTyped, BackTyped, ArgumentsTyped, Zenon DEF Next
    <2>2. QED
      BY <1>3, <2>1, AfterError DEF Goes
  <1>4. CASE Accepted /\ (Prefix \/ Nested \/ Name \/ Unexpected)
    <2>1. Doing("operand")
      BY <1>4 DEF Prefix, Nested, Name, Unexpected
    <2>2. PICK O : Busy("operand", O)
      BY <1>4, <2>1, BusyIs
    <2>3. QED
      BY <1>4, <2>2, PrefixSafe, NestedSafe, NameSafe, UnexpectedSafe, Zenon
  <1>5. CASE Accepted /\ (Member \/ CallOrIndex \/ PostfixEnds)
    <2>1. Doing("postfix")
      BY <1>5 DEF Member, CallOrIndex, PostfixEnds
    <2>2. PICK O : Busy("postfix", O)
      BY <1>5, <2>1, BusyIs
    <2>3. QED
      BY <1>5, <2>2, MemberSafe, CallOrIndexSafe, PostfixEndsSafe, Zenon
  <1>6. CASE Accepted /\ (Argument \/ NoArgument)
    <2>1. Doing("args")
      BY <1>6 DEF Argument, NoArgument
    <2>2. PICK O : Busy("args", O)
      BY <1>6, <2>1, BusyIs
    <2>3. QED
      BY <1>6, <2>2, ArgumentSafe, ArgumentsSafe, Zenon
  <1>7. CASE Accepted /\ (PrefixEnds \/ ArgumentEnds \/ GroupEnds \/ IndexEnds \/ Operator \/ ExprEnds)
    <2>1. Doing("back")
      BY <1>7 DEF PrefixEnds, ArgumentEnds, GroupEnds, IndexEnds, Operator, ExprEnds, Back
    <2>2. PICK O : Busy("back", O)
      BY <1>7, <2>1, BusyIs
    <2>3. QED
      BY <1>7, <2>2, PrefixEndsSafe, ArgumentsSafe, OperatorSafe, ExprEndsSafe, Zenon
  <1>8. QED
    BY <1>1, <1>2, <1>3, <1>4, <1>5, <1>6, <1>7, Zenon DEF Next

(* The inductive invariant, for every kind of input: the variables have    *)
(* their types; and the tokens passed are parsed as the open calls say, or *)
(* one of them was reported that has no place in an expression.            *)
THEOREM ExprInvariant == Spec => [](Typed /\ Judged)
  <1>1. Init => Typed /\ Judged
    BY InitTyped, InitJudged
  <1>2. Typed /\ Judged /\ [Next]_vars => (Typed /\ Judged)'
    BY NextTyped, NextJudged
  <1>3. QED
    BY <1>1, <1>2, PTL DEF Spec

-----------------------------------------------------------------------------
(* The grammar and the tree of ExprParser, in the words used here.         *)

(* The words of ExprParser for what is said here of a text.                *)
LEMMA SaidOf ==
  ASSUME NEW i
  PROVE  /\ AfterOperand(i) <=> Behind(Text, i)
         /\ IsBinary(i) <=> Binary(Text, i)
         /\ IsPrefix(i) <=> Prefixed(Text, i)
         /\ IsPostfix(i) <=> Postfixed(Text, i)
         /\ IsOpen(i) <=> Opening(Text, i)
         /\ IsClose(i) <=> Closing(Text, i)
         /\ Prec(Text[i]) = Prio(Text, i)
  <1>1. AfterOperand(i) <=> Behind(Text, i)
    BY Zenon DEF AfterOperand, Behind
  <1>2. IsBinary(i) <=> Binary(Text, i)
    BY <1>1, Zenon DEF IsBinary, Binary
  <1>3. QED
    BY <1>1, <1>2, Zenon DEF IsPrefix, Prefixed, IsPostfix, Postfixed, IsOpen, Opening, IsClose, Closing, Prio

LEMMA Sums ==
  \A a, b, c, d \in Nat : /\ a + d = c + b <=> a - b = c - d
                          /\ a + d = c + b + 1 <=> a - b = c - d + 1
                          /\ a = b <=> a - b = 0
  OBVIOUS

LEMMA CountsAre ==
  ASSUME NEW i \in Nat, i > 0
  PROVE  Opened(i) \in Nat /\ Closed(i) \in Nat /\ Lev(Text, i) = Opened(i) - Closed(i)
  <1>1. \A j \in 1 .. i - 1 : (IsOpen(j) <=> Opening(Text, j)) /\ (IsClose(j) <=> Closing(Text, j))
    BY SaidOf
  <1>2. IsFiniteSet(1 .. i - 1)
    <2>1. i - 1 \in Int /\ 1 \in Int
      OBVIOUS
    <2>2. QED
      BY <2>1, FS_Interval
  <1>3. {j \in 1 .. i - 1 : IsOpen(j)} = {j \in 1 .. i - 1 : Opening(Text, j)}
    BY <1>1
  <1>4. {j \in 1 .. i - 1 : IsClose(j)} = {j \in 1 .. i - 1 : Closing(Text, j)}
    BY <1>1
  <1>5. IsFiniteSet({j \in 1 .. i - 1 : IsOpen(j)}) /\ IsFiniteSet({j \in 1 .. i - 1 : IsClose(j)})
    BY <1>2, FS_Subset, Zenon
  <1>6. Opened(i) \in Nat /\ Closed(i) \in Nat
    BY <1>5, FS_CardinalityType DEF Opened, Closed
  <1>7. Lev(Text, i) = Opened(i) - Closed(i)
    BY <1>3, <1>4, Zenon DEF Lev, Opened, Closed
  <1>8. QED
    BY <1>6, <1>7

(* Levels, told without subtraction.                                       *)
LEMMA LevelsAre ==
  ASSUME NEW i \in Nat, i > 0, NEW j \in Nat, j > 0
  PROVE  /\ Beside(i, j) <=> Lev(Text, i) = Lev(Text, j)
         /\ Around(j, i) <=> j < i /\ Opening(Text, j) /\ Lev(Text, i) = Lev(Text, j) + 1
         /\ Opened(i) = Closed(i) <=> Lev(Text, i) = 0
  <1> DEFINE a == Opened(i)
             b == Closed(i)
             c == Opened(j)
             d == Closed(j)
  <1>1. a \in Nat /\ b \in Nat /\ c \in Nat /\ d \in Nat /\ Lev(Text, i) = a - b /\ Lev(Text, j) = c - d
    BY CountsAre
  <1>2. Beside(i, j) <=> a + d = c + b
    BY DEF Beside
  <1>3. Around(j, i) <=> j < i /\ Opening(Text, j) /\ a + d = c + b + 1
    BY SaidOf, Zenon DEF Around
  <1> HIDE DEF a, b, c, d
  <1>4. /\ a + d = c + b <=> a - b = c - d
        /\ a + d = c + b + 1 <=> a - b = c - d + 1
        /\ a = b <=> a - b = 0
    BY <1>1, Sums
  <1>5. QED
    BY <1>1, <1>2, <1>3, <1>4, Zenon DEF a, b

LEMMA Same ==
  \A a, b \in Nat : a <= b /\ b <= a => a = b
  OBVIOUS

(* A greatest or least member is found.                                    *)
LEMMA GreatestOf ==
  ASSUME NEW S \in SUBSET Nat, NEW m \in S, \A j \in S : j <= m
  PROVE  Greatest(S) = m
  <1>1. \E i \in S : \A j \in S : j <= i
    OBVIOUS
  <1>2. Greatest(S) \in S /\ \A j \in S : j <= Greatest(S)
    BY <1>1, Zenon DEF Greatest
  <1>3. Greatest(S) \in Nat /\ m \in Nat /\ Greatest(S) <= m /\ m <= Greatest(S)
    BY <1>2
  <1>4. QED
    BY <1>3, Same, Zenon

LEMMA LeastOf ==
  ASSUME NEW S \in SUBSET Nat, NEW m \in S, \A j \in S : j >= m
  PROVE  Least(S) = m
  <1>1. \E i \in S : \A j \in S : j >= i
    OBVIOUS
  <1>2. Least(S) \in S /\ \A j \in S : j >= Least(S)
    BY <1>1, Zenon DEF Least
  <1>3. Least(S) \in Nat /\ m \in Nat
    BY <1>2
  <1>4. Least(S) <= m /\ m <= Least(S)
    BY <1>2, <1>3
  <1>5. QED
    BY <1>3, <1>4, Same, Zenon

(* The bracket around a token, and whether the token fits.                 *)
LEMMA OpenerIs ==
  ASSUME NEW i \in Nat, i > 0, NEW o, Holds(Text, o, i)
  PROVE  Opener(i) = o
  <1> DEFINE S == {j \in 1 .. i : Around(j, i)}
  <1>1. o \in 0 .. i - 1 /\ o \in Nat
    BY DEF Holds
  <1>2. \A j \in 1 .. i : Around(j, i) <=> j < i /\ Opening(Text, j) /\ Lev(Text, i) = Lev(Text, j) + 1
    BY LevelsAre
  <1>3. \A j \in o + 1 .. i - 1 : ~(Opening(Text, j) /\ Lev(Text, i) = Lev(Text, j) + 1)
    BY DEF Holds
  <1>4. \A j \in S : j \in Nat /\ j <= o
    <2>1. ASSUME NEW j \in S
          PROVE  j \in Nat /\ j <= o
      <3>1. j \in Nat /\ j < i /\ Opening(Text, j) /\ Lev(Text, i) = Lev(Text, j) + 1
        BY <1>2
      <3>2. j \notin o + 1 .. i - 1
        BY <1>3, <3>1
      <3>3. QED
        BY <1>1, <3>1, <3>2
    <2>2. QED
      BY <2>1
  <1>5. o # 0 => o \in S
    <2>1. SUFFICES ASSUME o # 0
                   PROVE  o \in S
      OBVIOUS
    <2>2. o \in 1 .. i /\ o < i
      BY <1>1, <2>1
    <2>3. Opening(Text, o) /\ Lev(Text, i) = Lev(Text, o) + 1
      BY <2>1 DEF Holds
    <2>4. QED
      BY <1>2, <2>2, <2>3
  <1>6. o = 0 => S = {}
    <2>1. \A j \in S : j > 0
      OBVIOUS
    <2>2. QED
      BY <1>4, <2>1
  <1>7. Opener(i) = IF S = {} THEN 0 ELSE Greatest(S)
    BY Zenon DEF Opener
  <1> HIDE DEF S
  <1>8. CASE o = 0
    BY <1>6, <1>7, <1>8
  <1>9. CASE o # 0
    <2>1. o \in S /\ S \in SUBSET Nat /\ \A j \in S : j <= o
      BY <1>4, <1>5, <1>9
    <2>2. Greatest(S) = o
      BY <2>1, GreatestOf
    <2>3. QED
      BY <1>7, <2>1, <2>2
  <1>10. QED
    BY <1>8, <1>9

LEMMA FitsIs ==
  ASSUME NEW i \in Nat, i > 0, NEW o, Holds(Text, o, i)
  PROVE  Fits(i) <=> Place(Text, i, o)
  <1>1. Opener(i) = o
    BY OpenerIs
  <1>2. \A w : (i > 1 /\ Text[i - 1] = w) <=> Has(Text, i - 1, w)
    <2>1. i > 1 <=> i - 1 > 0
      OBVIOUS
    <2>2. QED
      BY <2>1, Zenon DEF Has
  <1>3. /\ AfterOperand(i) <=> Behind(Text, i)
        /\ IsBinary(i) <=> Binary(Text, i)
        /\ IsPostfix(i) <=> Postfixed(Text, i)
        /\ IsPostfix(o) <=> Postfixed(Text, o)
    BY SaidOf, Zenon
  <1>4. (i > 1 /\ Text[i - 1] = ".") <=> Has(Text, i - 1, ".")
    BY <1>2, Zenon
  <1>5. (i > 1 /\ Text[i - 1] = ",") <=> Has(Text, i - 1, ",")
    BY <1>2, Zenon
  <1>6. QED
    BY <1>1, <1>3, <1>4, <1>5, Zenon DEF Fits, Place, IsType

(* The parts of TreeOf.                                                    *)
Binaries(n)      == {i \in 1 .. n : IsBinary(i)}
Prefixes(n)      == {i \in 1 .. n : IsPrefix(i)}
Looser(n, i)     == {k \in Binaries(n) : Prec(Text[k]) < Prec(Text[i])}
NotTighter(n, i) == {k \in Binaries(n) : Prec(Text[k]) <= Prec(Text[i])}
Closer(n, i)     == IF Text[i] = "." THEN i + 1
                    ELSE Least({k \in i + 1 .. n : IsClose(k) /\ Opener(k) = i})
BoundBefore(i, k, bounds) ==
  \/ Around(k, i)
  \/ Beside(k, i) /\ (Text[k] \in {",", "await"} \/ k \in bounds)
BoundAfter(i, k, bounds) ==
  /\ Beside(k, i)
  /\ \/ Text[k] = "," \/ IsClose(k)
     \/ k \in bounds /\ ~\E m \in i + 1 .. k - 1 : Beside(m, i) /\ Text[m] = "await"
NodeOf(n, i) ==
  IF IsBinary(i) THEN Node(i, From(i, Looser(n, i)), UpTo(i, n, NotTighter(n, i)))
  ELSE IF IsPrefix(i) THEN Node(i, i, UpTo(i, n, Binaries(n)))
  ELSE IF Text[i] = "await" THEN Node(i, i, UpTo(i, n, {}))
  ELSE Node(i, From(i, Binaries(n) \cup Prefixes(n)), Closer(n, i))

(* The first and last token of a node are the ones its bounds give.        *)
LEMMA FromIs ==
  ASSUME NEW i \in Nat, i > 0, NEW l, Starts(Text, i, l), NEW bounds,
         \A k \in 1 .. i - 1 : BoundBefore(i, k, bounds) <=> Edge(Text, k, i)
  PROVE  From(i, bounds) = l
  <1> DEFINE S == {0} \cup {k \in 1 .. i - 1 : BoundBefore(i, k, bounds)}
  <1>1. l \in 1 .. i /\ l \in Nat /\ l - 1 \in Nat /\ 1 + (l - 1) = l
    BY DEF Starts
  <1>2. l - 1 \in S
    <2>1. CASE l = 1
      BY <2>1
    <2>2. CASE l # 1
      <3>1. l > 1 /\ l - 1 \in 1 .. i - 1
        BY <1>1, <2>2
      <3>2. Edge(Text, l - 1, i)
        BY <3>1 DEF Starts
      <3>3. QED
        BY <3>1, <3>2
    <2>3. QED
      BY <2>1, <2>2
  <1>3. \A j \in S : j \in Nat /\ j <= l - 1
    <2>1. ASSUME NEW j \in 1 .. i - 1, BoundBefore(i, j, bounds)
          PROVE  j \in Nat /\ j <= l - 1
      <3>1. Edge(Text, j, i)
        BY <2>1
      <3>2. \A k \in l .. i - 1 : ~Edge(Text, k, i)
        BY DEF Starts
      <3>3. j \notin l .. i - 1
        BY <3>1, <3>2
      <3>4. QED
        BY <1>1, <3>3
    <2>2. 0 \in Nat /\ 0 <= l - 1
      BY <1>1
    <2>3. QED
      BY <2>1, <2>2
  <1>4. From(i, bounds) = 1 + Greatest(S)
    BY Zenon DEF From, BoundBefore
  <1> HIDE DEF S
  <1>5. S \in SUBSET Nat /\ l - 1 \in S /\ \A j \in S : j <= l - 1
    BY <1>2, <1>3
  <1>6. Greatest(S) = l - 1
    BY <1>5, GreatestOf
  <1>7. QED
    BY <1>1, <1>4, <1>6

LEMMA UpToIs ==
  ASSUME NEW n \in Nat, NEW i \in 1 .. n, NEW h, Reach(Text, n + 1, i, h), NEW bounds,
         \A k \in i + 1 .. n : BoundAfter(i, k, bounds) <=> Stop(Text, i, k)
  PROVE  UpTo(i, n, bounds) = h
  <1> DEFINE S == {n + 1} \cup {k \in i + 1 .. n : BoundAfter(i, k, bounds)}
  <1>1. h \in i .. n /\ h \in Nat /\ h + 1 \in Nat /\ (h + 1) - 1 = h
    BY DEF Reach
  <1>2. h + 1 \in S
    <2>1. CASE h + 1 = n + 1
      BY <2>1
    <2>2. CASE h + 1 # n + 1
      <3>1. h + 1 < n + 1 /\ h + 1 \in i + 1 .. n
        BY <1>1, <2>2
      <3>2. Stop(Text, i, h + 1)
        BY <3>1 DEF Reach
      <3>3. QED
        BY <3>1, <3>2
    <2>3. QED
      BY <2>1, <2>2
  <1>3. \A j \in S : j \in Nat /\ j >= h + 1
    <2>1. ASSUME NEW j \in i + 1 .. n, BoundAfter(i, j, bounds)
          PROVE  j \in Nat /\ j >= h + 1
      <3>1. Stop(Text, i, j)
        BY <2>1
      <3>2. \A k \in i + 1 .. h : ~Stop(Text, i, k)
        BY DEF Reach
      <3>3. j \notin i + 1 .. h
        BY <3>1, <3>2
      <3>4. QED
        BY <1>1, <3>3
    <2>2. n + 1 \in Nat /\ n + 1 >= h + 1
      BY <1>1
    <2>3. QED
      BY <2>1, <2>2
  <1>4. UpTo(i, n, bounds) = Least(S) - 1
    BY Zenon DEF UpTo, BoundAfter
  <1> HIDE DEF S
  <1>5. S \in SUBSET Nat /\ h + 1 \in S /\ \A j \in S : j >= h + 1
    BY <1>2, <1>3
  <1>6. Least(S) = h + 1
    BY <1>5, LeastOf
  <1>7. QED
    BY <1>1, <1>4, <1>6

(* The bounds of an operand, and those of the text.                        *)
LEMMA EdgeIs ==
  ASSUME NEW n \in Nat, NEW i \in 1 .. n, NEW k \in 1 .. i - 1
  PROVE  /\ Binary(Text, i) => (BoundBefore(i, k, Looser(n, i)) <=> Edge(Text, k, i))
         /\ ~Binary(Text, i) => (BoundBefore(i, k, Binaries(n) \cup Prefixes(n)) <=> Edge(Text, k, i))
  <1>1. k \in 1 .. n /\ k \in Nat /\ k > 0 /\ k < i /\ i \in Nat /\ i > 0
    OBVIOUS
  <1>2. Beside(k, i) <=> Lev(Text, k) = Lev(Text, i)
    BY <1>1, LevelsAre
  <1>3. Around(k, i) <=> Opening(Text, k) /\ Lev(Text, i) = Lev(Text, k) + 1
    BY <1>1, LevelsAre
  <1>4. Text[k] \in {",", "await"} <=> Comma(Text, k) \/ Awaited(Text, k)
    BY DEF Comma, Awaited
  <1>5. k \in Binaries(n) <=> Binary(Text, k)
    BY <1>1, SaidOf DEF Binaries
  <1>6. k \in Prefixes(n) <=> Prefixed(Text, k)
    BY <1>1, SaidOf DEF Prefixes
  <1>7. k \in Looser(n, i) <=> Binary(Text, k) /\ Prio(Text, k) < Prio(Text, i)
    BY <1>5, Zenon DEF Looser, Prio
  <1>8. k \in Binaries(n) \cup Prefixes(n) <=> Binary(Text, k) \/ Prefixed(Text, k)
    BY <1>5, <1>6
  <1>9. QED
    BY <1>2, <1>3, <1>4, <1>7, <1>8, Zenon DEF BoundBefore, Edge

LEMMA StopIs ==
  ASSUME NEW n \in Nat, NEW i \in 1 .. n, NEW k \in i + 1 .. n
  PROVE  /\ Binary(Text, i) => (BoundAfter(i, k, NotTighter(n, i)) <=> Stop(Text, i, k))
         /\ Prefixed(Text, i) => (BoundAfter(i, k, Binaries(n)) <=> Stop(Text, i, k))
         /\ Awaited(Text, i) => (BoundAfter(i, k, {}) <=> Stop(Text, i, k))
  <1>1. k \in 1 .. n /\ k \in Nat /\ k > 0 /\ i \in Nat /\ i > 0
    OBVIOUS
  <1>2. Beside(k, i) <=> Lev(Text, k) = Lev(Text, i)
    BY <1>1, LevelsAre
  <1>3. (~\E m \in i + 1 .. k - 1 : Beside(m, i) /\ Text[m] = "await") <=> Through(Text, i, k)
    <2>1. \A m \in i + 1 .. k - 1 : m \in Nat /\ m > 0
      OBVIOUS
    <2>2. \A m \in i + 1 .. k - 1 : Beside(m, i) <=> Lev(Text, m) = Lev(Text, i)
      BY <1>1, <2>1, LevelsAre
    <2>3. QED
      BY <2>2, Zenon DEF Through, Awaited
  <1>4. (Text[k] = "," <=> Comma(Text, k)) /\ (IsClose(k) <=> Closing(Text, k))
    BY SaidOf, Zenon DEF Comma
  <1>5. k \in Binaries(n) <=> Binary(Text, k)
    BY <1>1, SaidOf DEF Binaries
  <1>6. k \in NotTighter(n, i) <=> Binary(Text, k) /\ Prio(Text, k) <= Prio(Text, i)
    BY <1>5, Zenon DEF NotTighter, Prio
  <1>7. Binary(Text, k) => Prio(Text, k) <= 7 /\ ~(Prio(Text, k) <= 0)
    <2>1. Binary(Text, k) => Prio(Text, k) \in 1 .. 7
      BY PrioIs, Zenon
    <2>2. \A x \in 1 .. 7 : x <= 7 /\ ~(x <= 0)
      OBVIOUS
    <2>3. QED
      BY <2>1, <2>2, Zenon
  <1>8. /\ Binary(Text, i) => Cap(Text, i) = Prio(Text, i)
        /\ Prefixed(Text, i) => Cap(Text, i) = 7
        /\ Awaited(Text, i) => Cap(Text, i) = 0
    BY PrioIs, Zenon
  <1>9. Binary(Text, i) => (BoundAfter(i, k, NotTighter(n, i)) <=> Stop(Text, i, k))
    BY <1>2, <1>3, <1>4, <1>6, <1>8, Zenon DEF BoundAfter, Stop
  <1>10. Prefixed(Text, i) => (BoundAfter(i, k, Binaries(n)) <=> Stop(Text, i, k))
    BY <1>2, <1>3, <1>4, <1>5, <1>7, <1>8, Zenon DEF BoundAfter, Stop
  <1>11. k \notin {}
    OBVIOUS
  <1>12. Awaited(Text, i) => (BoundAfter(i, k, {}) <=> Stop(Text, i, k))
    BY <1>2, <1>3, <1>4, <1>7, <1>8, <1>11, Zenon DEF BoundAfter, Stop
  <1>13. QED
    BY <1>9, <1>10, <1>12

(* The bracket that closes a call or an index.                             *)
LEMMA CloserIs ==
  ASSUME NEW n \in Nat, NEW i \in 1 .. n, Opening(Text, i), NEW h \in 1 .. n, h > i,
         Lev(Text, h + 1) = Lev(Text, i), \A k \in i + 1 .. h : Lev(Text, k) > Lev(Text, i)
  PROVE  Least({k \in i + 1 .. n : IsClose(k) /\ Opener(k) = i}) = h
  <1> DEFINE S == {k \in i + 1 .. n : IsClose(k) /\ Opener(k) = i}
  <1>1. i \in Nat /\ i > 0 /\ h \in Nat /\ h > 0 /\ h \in i + 1 .. n /\ i \in 0 .. h - 1
    OBVIOUS
  <1>2. \A k \in i + 1 .. n : k \in Nat /\ k > 0 /\ Lev(Text, k) \in Int
    BY <1>1, LevAt
  <1>3. Lev(Text, i) \in Int
    BY <1>1, LevAt
  <1>4. Lev(Text, h) > Lev(Text, i)
    BY <1>1
  <1>5. Closing(Text, h) /\ Lev(Text, h) = Lev(Text, i) + 1
    <2>1. /\ Lev(Text, h) \in Int
          /\ Opening(Text, h) => Lev(Text, h + 1) = Lev(Text, h) + 1
          /\ Closing(Text, h) => Lev(Text, h + 1) = Lev(Text, h) - 1
          /\ ~Opening(Text, h) /\ ~Closing(Text, h) => Lev(Text, h + 1) = Lev(Text, h)
      BY <1>1, LevAt
    <2>2. QED
      BY <1>3, <1>4, <2>1
  <1>6. Holds(Text, i, h)
    <2>1. \A j \in i + 1 .. h - 1 : Lev(Text, h) # Lev(Text, j) + 1
      <3>1. \A j \in i + 1 .. h - 1 : j \in i + 1 .. h /\ j \in i + 1 .. n
        BY <1>1
      <3>2. \A j \in i + 1 .. h - 1 : Lev(Text, j) \in Int /\ Lev(Text, j) > Lev(Text, i)
        BY <1>2, <3>1
      <3>3. QED
        BY <1>3, <1>5, <3>2
    <2>2. QED
      BY <1>1, <1>5, <2>1, Zenon DEF Holds
  <1>7. h \in S
    <2>1. Opener(h) = i
      BY <1>1, <1>6, OpenerIs
    <2>2. IsClose(h)
      BY <1>5, SaidOf
    <2>3. QED
      BY <1>1, <2>1, <2>2
  <1>8. \A k \in S : k \in Nat /\ k >= h
    <2>1. ASSUME NEW k \in i + 1 .. n, IsClose(k), Opener(k) = i, ~(k >= h)
          PROVE  FALSE
      <3>1. k \in Nat /\ k > 0 /\ k + 1 \in i + 1 .. h
        BY <1>1, <2>1
      <3>2. PICK o \in 0 .. k - 1 : Holds(Text, o, k)
        BY <3>1, HoldsExists
      <3>3. o = i
        BY <2>1, <3>1, <3>2, OpenerIs
      <3>4. Lev(Text, k) = Lev(Text, i) + 1
        BY <1>1, <3>2, <3>3 DEF Holds
      <3>5. Closing(Text, k)
        BY <2>1, SaidOf
      <3>6. Lev(Text, k + 1) = Lev(Text, k) - 1
        BY <3>1, <3>5, LevAt
      <3>7. Lev(Text, k + 1) > Lev(Text, i)
        BY <3>1
      <3>8. QED
        BY <1>3, <3>4, <3>6, <3>7
    <2>2. \A k \in i + 1 .. n : k \in Nat
      BY <1>2
    <2>3. QED
      BY <2>1, <2>2
  <1> HIDE DEF S
  <1>9. S \in SUBSET Nat /\ \A k \in S : k >= h
    BY <1>8
  <1>10. Least(S) = h
    BY <1>7, <1>9, LeastOf
  <1>11. QED
    BY <1>10 DEF S

(* TreeOf has the node of each token that makes one.                       *)
LEMMA TreeIs ==
  ASSUME NEW n
  PROVE  TreeOf(n) = {NodeOf(n, i) : i \in {j \in 1 .. n : Nodal(Text, j)}}
  <1> DEFINE N == {j \in 1 .. n : Nodal(Text, j)}
             Awaits == {j \in 1 .. n : Text[j] = "await"}
             Postfixes == {j \in 1 .. n : IsPostfix(j)}
             A == {Node(i, From(i, Looser(n, i)), UpTo(i, n, NotTighter(n, i))) : i \in Binaries(n)}
             B == {Node(i, i, UpTo(i, n, Binaries(n))) : i \in Prefixes(n)}
             C == {Node(i, i, UpTo(i, n, {})) : i \in Awaits}
             D == {Node(i, From(i, Binaries(n) \cup Prefixes(n)), Closer(n, i)) : i \in Postfixes}
  <1>1. TreeOf(n) = A \cup B \cup C \cup D
    BY Zenon DEF TreeOf, Binaries, Prefixes, Looser, NotTighter, Closer
  <1>2. \A i : /\ IsBinary(i) <=> Binary(Text, i)
               /\ IsPrefix(i) <=> Prefixed(Text, i)
               /\ IsPostfix(i) <=> Postfixed(Text, i)
               /\ Text[i] = "await" <=> Awaited(Text, i)
    BY SaidOf, Zenon DEF Awaited
  <1>3. \A i : /\ IsBinary(i) => ~IsPrefix(i) /\ Text[i] # "await" /\ ~IsPostfix(i)
               /\ IsPrefix(i) => Text[i] # "await" /\ ~IsPostfix(i)
               /\ Text[i] = "await" => ~IsPostfix(i)
    BY <1>2, Apart, Zenon
  <1>4. N = Binaries(n) \cup Prefixes(n) \cup Awaits \cup Postfixes
    BY <1>2 DEF Nodal, Binaries, Prefixes
  <1>5. \A i \in Binaries(n) : NodeOf(n, i) = Node(i, From(i, Looser(n, i)), UpTo(i, n, NotTighter(n, i)))
    BY Zenon DEF NodeOf, Binaries
  <1>6. \A i \in Prefixes(n) : NodeOf(n, i) = Node(i, i, UpTo(i, n, Binaries(n)))
    <2>1. \A i \in Prefixes(n) : IsPrefix(i) /\ ~IsBinary(i)
      BY <1>3, Zenon DEF Prefixes
    <2>2. QED
      BY <2>1, Zenon DEF NodeOf
  <1>7. \A i \in Awaits : NodeOf(n, i) = Node(i, i, UpTo(i, n, {}))
    <2>1. \A i \in Awaits : Text[i] = "await" /\ ~IsBinary(i) /\ ~IsPrefix(i)
      BY <1>3
    <2>2. QED
      BY <2>1, Zenon DEF NodeOf
  <1>8. \A i \in Postfixes : NodeOf(n, i) = Node(i, From(i, Binaries(n) \cup Prefixes(n)), Closer(n, i))
    <2>1. \A i \in Postfixes : Text[i] # "await" /\ ~IsBinary(i) /\ ~IsPrefix(i)
      BY <1>3
    <2>2. QED
      BY <2>1, Zenon DEF NodeOf
  <1>9. /\ A = {NodeOf(n, i) : i \in Binaries(n)}
        /\ B = {NodeOf(n, i) : i \in Prefixes(n)}
    BY <1>5, <1>6
  <1>10. /\ C = {NodeOf(n, i) : i \in Awaits}
         /\ D = {NodeOf(n, i) : i \in Postfixes}
    BY <1>7, <1>8
  <1> HIDE DEF N, Awaits, Postfixes, A, B, C, D
  <1>11. {NodeOf(n, i) : i \in N} = A \cup B \cup C \cup D
    BY <1>4, <1>9, <1>10
  <1>12. QED
    BY <1>1, <1>11 DEF N

(* A good node is that one.                                                *)
LEMMA GoodIs ==
  ASSUME NEW n \in Nat, NEW nd, Good(Text, n + 1, nd)
  PROVE  nd.at \in 1 .. n /\ Nodal(Text, nd.at) /\ nd = NodeOf(n, nd.at)
  <1> DEFINE i == nd.at
             t == Text
  <1>1. nd = Node(i, nd.lo, nd.hi) /\ i \in 1 .. (n + 1) - 1 /\ nd.hi \in i .. (n + 1) - 1 /\ Nodal(t, i)
    BY Zenon DEF Good
  <1>2. i \in 1 .. n /\ nd.hi \in i .. n /\ i \in Nat /\ i > 0
    BY <1>1
  <1>3. /\ IsBinary(i) <=> Binary(t, i)
        /\ IsPrefix(i) <=> Prefixed(t, i)
        /\ IsPostfix(i) <=> Postfixed(t, i)
        /\ Text[i] = "await" <=> Awaited(t, i)
    BY SaidOf, Zenon DEF Awaited
  <1>4. /\ Binary(t, i) => ~Prefixed(t, i) /\ ~Awaited(t, i) /\ ~Postfixed(t, i)
        /\ Prefixed(t, i) => ~Awaited(t, i) /\ ~Postfixed(t, i)
        /\ Awaited(t, i) => ~Postfixed(t, i)
    BY Apart, Zenon
  <1>5. CASE Binary(t, i)
    <2>1. Starts(t, i, nd.lo) /\ Reach(t, n + 1, i, nd.hi)
      BY <1>4, <1>5, Zenon DEF Good
    <2>2. \A k \in 1 .. i - 1 : BoundBefore(i, k, Looser(n, i)) <=> Edge(t, k, i)
      BY <1>2, <1>5, EdgeIs
    <2>3. \A k \in i + 1 .. n : BoundAfter(i, k, NotTighter(n, i)) <=> Stop(t, i, k)
      BY <1>2, <1>5, StopIs
    <2>4. From(i, Looser(n, i)) = nd.lo
      BY <1>2, <2>1, <2>2, FromIs
    <2>5. UpTo(i, n, NotTighter(n, i)) = nd.hi
      BY <1>2, <2>1, <2>3, UpToIs
    <2>6. NodeOf(n, i) = Node(i, From(i, Looser(n, i)), UpTo(i, n, NotTighter(n, i)))
      BY <1>3, <1>5, Zenon DEF NodeOf
    <2>7. QED
      BY <1>1, <1>2, <2>4, <2>5, <2>6, Zenon
  <1>6. CASE Prefixed(t, i)
    <2>1. nd.lo = i /\ Reach(t, n + 1, i, nd.hi)
      BY <1>4, <1>6, Zenon DEF Good
    <2>2. \A k \in i + 1 .. n : BoundAfter(i, k, Binaries(n)) <=> Stop(t, i, k)
      BY <1>2, <1>6, StopIs
    <2>3. UpTo(i, n, Binaries(n)) = nd.hi
      BY <1>2, <2>1, <2>2, UpToIs
    <2>4. NodeOf(n, i) = Node(i, i, UpTo(i, n, Binaries(n)))
      BY <1>3, <1>4, <1>6, Zenon DEF NodeOf
    <2>5. QED
      BY <1>1, <1>2, <2>1, <2>3, <2>4, Zenon
  <1>7. CASE Awaited(t, i)
    <2>1. nd.lo = i /\ Reach(t, n + 1, i, nd.hi)
      BY <1>4, <1>7, Zenon DEF Good
    <2>2. \A k \in i + 1 .. n : BoundAfter(i, k, {}) <=> Stop(t, i, k)
      BY <1>2, <1>7, StopIs
    <2>3. UpTo(i, n, {}) = nd.hi
      BY <1>2, <2>1, <2>2, UpToIs
    <2>4. NodeOf(n, i) = Node(i, i, UpTo(i, n, {}))
      BY <1>3, <1>4, <1>7, Zenon DEF NodeOf
    <2>5. QED
      BY <1>1, <1>2, <2>1, <2>3, <2>4, Zenon
  <1>8. CASE Postfixed(t, i)
    <2>1. Starts(t, i, nd.lo)
      BY <1>8, Zenon DEF Good
    <2>2. \A k \in 1 .. i - 1 : BoundBefore(i, k, Binaries(n) \cup Prefixes(n)) <=> Edge(t, k, i)
      BY <1>2, <1>4, <1>8, EdgeIs
    <2>3. From(i, Binaries(n) \cup Prefixes(n)) = nd.lo
      BY <1>2, <2>1, <2>2, FromIs
    <2>4. CASE t[i] = "."
      <3>1. nd.hi = i + 1
        BY <1>8, <2>4, Zenon DEF Good
      <3>2. QED
        BY <2>4, <3>1, <1>1, <1>2, <1>3, <1>4, <1>8, <2>3, Zenon DEF NodeOf, Closer
    <2>5. CASE t[i] # "."
      <3>1. /\ Lev(t, nd.hi + 1) = Lev(t, i) /\ nd.hi > i
            /\ \A k \in i + 1 .. nd.hi : Lev(t, k) > Lev(t, i)
        BY <1>8, <2>5, Zenon DEF Good
      <3>2. Opening(t, i)
        BY <1>8, <2>5 DEF Postfixed, Opening
      <3>3. nd.hi \in 1 .. n
        BY <1>2
      <3>4. Least({k \in i + 1 .. n : IsClose(k) /\ Opener(k) = i}) = nd.hi
        BY <1>2, <3>1, <3>2, <3>3, CloserIs
      <3>5. Closer(n, i) = nd.hi
        BY <2>5, <3>4, Zenon DEF Closer
      <3>6. QED
        BY <1>1, <1>2, <1>3, <1>4, <1>8, <2>3, <3>5, Zenon DEF NodeOf
    <2>6. QED
      BY <2>4, <2>5
  <1>9. QED
    BY <1>1, <1>5, <1>6, <1>7, <1>8, Zenon DEF Nodal

(* A parsed text has the tree of its precedences, ...                      *)
LEMMA RightTree ==
  ASSUME NEW n \in Nat, Right(Text, n + 1, tree)
  PROVE  tree = TreeOf(n)
  <1>1. (n + 1) - 1 = n
    OBVIOUS
  <1>2. \A nd \in tree : nd.at \in 1 .. n /\ Nodal(Text, nd.at) /\ nd = NodeOf(n, nd.at)
    BY GoodIs, Zenon DEF Right
  <1>3. \A i \in 1 .. n : Nodal(Text, i) => \E nd \in tree : nd.at = i
    BY <1>1, Zenon DEF Right
  <1>4. QED
    BY <1>2, <1>3, TreeIs

(* ... is an expression, and the longest there is; ...                     *)
LEMMA RightText ==
  ASSUME NEW n \in Nat, Right(Text, n + 1, tree)
  PROVE  WellFormed(n) /\ (Text[n + 1] = "eof" \/ ~Fits(n + 1))
  <1>1. (n + 1) - 1 = n /\ n + 1 \in Nat /\ n + 1 > 0
    OBVIOUS
  <1>2. n > 0 /\ Behind(Text, n + 1) /\ Lev(Text, n + 1) = 0 /\ AllPlaced(Text, n + 1)
    BY DEF Right
  <1>3. \A i \in 1 .. n : Fits(i)
    <2>1. ASSUME NEW i \in 1 .. n
          PROVE  Fits(i)
      <3>1. PICK o \in 0 .. i - 1 : Holds(Text, o, i) /\ Place(Text, i, o)
        BY <1>1, <1>2, Zenon DEF AllPlaced
      <3>2. i \in Nat /\ i > 0
        OBVIOUS
      <3>3. QED
        BY <3>1, <3>2, FitsIs
    <2>2. QED
      BY <2>1
  <1>4. Opened(n + 1) = Closed(n + 1)
    BY <1>1, <1>2, LevelsAre
  <1>5. AfterOperand(n + 1)
    BY <1>2, SaidOf
  <1>6. Text[n + 1] = "eof" \/ ~Fits(n + 1)
    <2>1. SUFFICES ASSUME Text[n + 1] # "eof"
                   PROVE  ~Fits(n + 1)
      OBVIOUS
    <2>2. PICK o : Holds(Text, o, n + 1) /\ ~Place(Text, n + 1, o)
      BY <2>1, Zenon DEF Right
    <2>3. QED
      BY <1>1, <2>2, FitsIs
  <1>7. QED
    BY <1>2, <1>3, <1>4, <1>5, <1>6, Zenon DEF WellFormed

(* ... and the first error is at a token that fits no expression.          *)
LEMMA WrongText ==
  ASSUME Wrong(Text, pos, Errors), Errors \subseteq Nat
  PROVE  Least(Errors) \in 1 .. Len(Text) /\ LET i == Least(Errors) IN IF Text[i] = "eof" THEN ~WellFormed(i - 1) ELSE ~Fits(i)
  <1>1. PICK i \in 1 .. Len(Text) : i \in Errors /\ (\A e \in Errors : i <= e) /\ Misfit(Text, i)
    BY Zenon DEF Wrong
  <1>2. i \in Nat /\ i > 0 /\ \A e \in Errors : e >= i
    BY <1>1
  <1>3. Least(Errors) = i
    BY <1>1, <1>2, LeastOf
  <1>4. ASSUME Text[i] = "eof"
        PROVE  ~WellFormed(i - 1)
    <2>1. (i - 1) + 1 = i
      BY <1>2
    <2>2. ~Behind(Text, i) \/ Lev(Text, i) # 0
      BY <1>1, <1>4, Zenon DEF Misfit
    <2>3. ~AfterOperand(i) \/ Opened(i) # Closed(i)
      BY <1>2, <2>2, SaidOf, LevelsAre
    <2>4. QED
      BY <2>1, <2>3, Zenon DEF WellFormed
  <1>5. ASSUME Text[i] # "eof"
        PROVE  ~Fits(i)
    <2>1. PICK o : Holds(Text, o, i) /\ ~Place(Text, i, o)
      BY <1>1, <1>5, Zenon DEF Misfit
    <2>2. QED
      BY <1>2, <2>1, FitsIs
  <1>6. QED
    BY <1>1, <1>3, <1>4, <1>5, Zenon

(* What the invariant says of an expression that was parsed.               *)
LEMMA JudgedRight ==
  ASSUME Typed, Judged, Done, Accepted
  PROVE  Right(Text, (pos - 1) + 1, tree) /\ pos - 1 \in Nat /\ (pos - 1) + 1 = pos
  <1>1. Right(Text, pos, tree)
    BY Zenon DEF Judged, Ongoing, Done
  <1>2. pos \in 2 .. Len(Text)
    BY <1>1, Zenon DEF Right
  <1>3. pos - 1 \in Nat /\ (pos - 1) + 1 = pos
    BY <1>2
  <1>4. QED
    BY <1>1, <1>3

(* So the invariant gives what the runs check.                             *)
LEMMA JudgedAccepts ==
  ASSUME Typed, Judged
  PROVE  AcceptsExpressions
  <1>0. "eof" \notin MemberNames
    BY DEF MemberNames, Keywords
  <1>1. ASSUME Done, Accepted
        PROVE  WellFormed(pos - 1) /\ (tokens[pos] = "eof" \/ ~Fits(pos))
    <2>1. Right(Text, (pos - 1) + 1, tree) /\ pos - 1 \in Nat /\ (pos - 1) + 1 = pos
      BY <1>1, JudgedRight
    <2>0. Text[pos] = "eof" => tokens[pos] = "eof"
      <3>1. pos \in 1 .. Len(tokens)
        BY <2>1, TextIs DEF Right
      <3>2. QED
        BY <3>1, <1>0, PlainText
    <2>2. WellFormed(pos - 1) /\ (Text[(pos - 1) + 1] = "eof" \/ ~Fits((pos - 1) + 1))
      BY <2>1, RightText
    <2>3. QED
      BY <2>0, <2>1, <2>2
  <1>2. ASSUME Errors # {}
        PROVE  LET i == Least(Errors) IN IF tokens[i] = "eof" THEN ~WellFormed(i - 1) ELSE ~Fits(i)
    <2>1. ~Accepted
      BY <1>2, NoErrors
    <2>2. Wrong(Text, pos, Errors)
      BY <2>1, Zenon DEF Judged
    <2>3. Errors \subseteq Nat
      BY DEF Typed, Errors
    <2>4. QED
      BY <1>0, <2>2, <2>3, WrongText, PlainText, TextIs
  <1>3. QED
    BY <1>1, <1>2, Zenon DEF AcceptsExpressions, Errors

(* parseExpr accepts exactly the expressions, for every kind and length of *)
(* input: what is consumed without an error is an expression and the       *)
(* longest there is, members named by keywords included, and the first     *)
(* error, or keyword taken for an operand, is at a token that fits no      *)
(* expression with the tokens before it.                                   *)
THEOREM ExpressionsAccepted == Spec => []AcceptsExpressions
  <1>1. Typed /\ Judged => AcceptsExpressions
    BY JudgedAccepts
  <1>2. QED
    BY <1>1, ExprInvariant, PTL

(* The tree of every expression parsed without an error is the one the     *)
(* precedences of getBinaryPrec ask for, left to right among equals,       *)
(* whatever prefixes, awaits, calls and brackets it is nested in.          *)
THEOREM TreeByPrecedence == Spec => []PrecedenceHolds
  <1>1. Typed /\ Judged => PrecedenceHolds
    <2>1. ASSUME Typed, Judged, Done, Accepted
          PROVE  tree = TreeOf(pos - 1)
      <3>1. Right(Text, (pos - 1) + 1, tree) /\ pos - 1 \in Nat
        BY <2>1, JudgedRight
      <3>2. QED
        BY <3>1, RightTree
    <2>2. QED
      BY <2>1, Zenon DEF PrecedenceHolds
  <1>2. QED
    BY <1>1, ExprInvariant, PTL
=============================================================================
