--------------------------- MODULE FrontEndProofs ---------------------------
(***************************************************************************)
(* Theorems about SemanticAnalyzer and IRGen, for every program: about     *)
(* stacks of frames, then about IRGen, for every nesting and every number  *)
(* of labels, about SemaWalk, for every set of types and every nesting,    *)
(* and about the two on one program, where what is proved of each alone    *)
(* holds in company, and the two agree on where loops are.                 *)
(***************************************************************************)
EXTENDS FrontEnd, FiniteSetTheorems, TLAPS

-----------------------------------------------------------------------------
(* Call stacks of frames, whatever else a frame holds than its kind: what  *)
(* is on the stack after a push and after a pop, which frames are of kinds *)
(* K, and how many.                                                        *)
LEMMA LastOfInterval ==
  ASSUME NEW n \in Nat \ {0}
  PROVE  /\ n \in 1 .. n
         /\ \A i \in 1 .. n - 1 : i \in 1 .. n /\ i # n
         /\ \A i \in 1 .. n : i \in 1 .. n - 1 \/ i = n
         /\ \A i \in 1 .. n - 1 : i > 1 => i - 1 \in 1 .. n - 1
  OBVIOUS

LEMMA RestFacts ==
  ASSUME NEW S, NEW fs \in Seq(S), fs # <<>>
  PROVE  /\ Rest(fs) \in Seq(S) /\ Len(fs) \in Nat \ {0}
         /\ DOMAIN Rest(fs) = 1 .. Len(fs) - 1 /\ DOMAIN fs = 1 .. Len(fs)
         /\ Top(fs) = fs[Len(fs)] /\ Top(fs) \in S
         /\ \A i \in 1 .. Len(fs) - 1 : Rest(fs)[i] = fs[i]
         /\ Len(Rest(fs)) = Len(fs) - 1
         /\ Len(fs) \in DOMAIN fs
         /\ \A i \in 1 .. Len(fs) - 1 : i \in DOMAIN fs /\ i # Len(fs)
         /\ \A i \in DOMAIN fs : i \in 1 .. Len(fs) - 1 \/ i = Len(fs)
  <1>1. Len(fs) \in Nat \ {0} /\ DOMAIN fs = 1 .. Len(fs)
    OBVIOUS
  <1>2. Top(fs) = fs[Len(fs)] /\ Top(fs) \in S
    BY <1>1 DEF Top
  <1>3. /\ Rest(fs) \in Seq(S) /\ Len(Rest(fs)) = Len(fs) - 1
        /\ \A i \in 1 .. Len(fs) - 1 : Rest(fs)[i] = fs[i]
    BY <1>1 DEF Rest
  <1>4. DOMAIN Rest(fs) = 1 .. Len(fs) - 1
    BY <1>3
  <1>5. /\ Len(fs) \in DOMAIN fs
        /\ \A i \in 1 .. Len(fs) - 1 : i \in DOMAIN fs /\ i # Len(fs)
        /\ \A i \in DOMAIN fs : i \in 1 .. Len(fs) - 1 \/ i = Len(fs)
    BY <1>1, LastOfInterval, Zenon
  <1>6. QED
    BY <1>1, <1>2, <1>3, <1>4, <1>5

LEMMA AppendFacts ==
  ASSUME NEW S, NEW fs \in Seq(S), NEW f \in S
  PROVE  /\ Append(fs, f) \in Seq(S) /\ Len(fs) \in Nat
         /\ Len(Append(fs, f)) = Len(fs) + 1
         /\ DOMAIN fs = 1 .. Len(fs) /\ DOMAIN Append(fs, f) = 1 .. Len(fs) + 1
         /\ Append(fs, f)[Len(fs) + 1] = f
         /\ \A i \in 1 .. Len(fs) : Append(fs, f)[i] = fs[i]
         /\ \A i \in 1 .. Len(fs) + 1 : i \in 1 .. Len(fs) \/ i = Len(fs) + 1
  OBVIOUS

LEMMA ConcatTwo ==
  ASSUME NEW S, NEW fs \in Seq(S), NEW a, NEW b
  PROVE  fs \o <<a, b>> = Append(Append(fs, a), b)
  <1>1. fs \in Seq(S \cup {a, b})
    OBVIOUS
  <1>2. QED
    BY <1>1

LEMMA EnclosingAppend ==
  ASSUME NEW S, NEW fs \in Seq(S), NEW f \in S, NEW K
  PROVE  Enclosing(Append(fs, f), K) =
           Enclosing(fs, K) \cup (IF f.kind \in K THEN {Len(fs) + 1} ELSE {})
  BY DEF Enclosing

LEMMA EnclosingRest ==
  ASSUME NEW S, NEW fs \in Seq(S), fs # <<>>, NEW K
  PROVE  Enclosing(Rest(fs), K) = Enclosing(fs, K) \ {Len(fs)}
  BY DEF Enclosing, Rest

LEMMA EnclosingFinite ==
  ASSUME NEW S, NEW fs \in Seq(S), NEW K
  PROVE  /\ IsFiniteSet(Enclosing(fs, K))
         /\ Cardinality(Enclosing(fs, K)) \in Nat
         /\ Len(fs) + 1 \notin Enclosing(fs, K)
  <1>1. Enclosing(fs, K) \subseteq 1 .. Len(fs)
    BY DEF Enclosing
  <1>2. IsFiniteSet(1 .. Len(fs))
    BY FS_Interval
  <1>3. QED
    BY <1>1, <1>2, FS_Subset, FS_CardinalityType

LEMMA CountAppend ==
  ASSUME NEW S, NEW fs \in Seq(S), NEW f \in S, NEW K
  PROVE  Cardinality(Enclosing(Append(fs, f), K)) =
           Cardinality(Enclosing(fs, K)) + (IF f.kind \in K THEN 1 ELSE 0)
  <1> DEFINE E == Enclosing(fs, K)
  <1>1. IsFiniteSet(E) /\ Cardinality(E) \in Nat /\ Len(fs) + 1 \notin E
    BY EnclosingFinite
  <1>2. Cardinality(E \cup {Len(fs) + 1}) = Cardinality(E) + 1
    BY <1>1, FS_AddElement
  <1>3. CASE f.kind \in K
    BY <1>2, <1>3, EnclosingAppend
  <1>4. CASE f.kind \notin K
    <2>1. Enclosing(Append(fs, f), K) = E
      BY <1>4 DEF Enclosing
    <2>2. QED
      BY <1>1, <1>4, <2>1
  <1>5. QED
    BY <1>3, <1>4

LEMMA CountRest ==
  ASSUME NEW S, NEW fs \in Seq(S), fs # <<>>, NEW K
  PROVE  Cardinality(Enclosing(Rest(fs), K)) =
           Cardinality(Enclosing(fs, K)) - (IF Top(fs).kind \in K THEN 1 ELSE 0)
  <1>1. Top(fs).kind \in K <=> Len(fs) \in Enclosing(fs, K)
    BY DEF Top, Enclosing
  <1> DEFINE E == Enclosing(fs, K)
  <1>2. IsFiniteSet(E) /\ Cardinality(E) \in Nat
    BY EnclosingFinite
  <1>3. CASE Len(fs) \in E
    BY <1>1, <1>2, <1>3, EnclosingRest, FS_RemoveElement
  <1>4. CASE Len(fs) \notin E
    <2>1. Enclosing(Rest(fs), K) = E
      BY <1>4 DEF Enclosing, Rest
    <2>2. QED
      BY <1>1, <1>2, <1>4, <2>1
  <1>5. QED
    BY <1>3, <1>4

-----------------------------------------------------------------------------
(* The same of the frames and stacks of IRGen, by the names it knows them. *)
LEMMA GRestFacts ==
  ASSUME NEW S, NEW fs \in Seq(S), fs # <<>>
  PROVE  /\ G!Rest(fs) \in Seq(S) /\ Len(fs) \in Nat \ {0}
         /\ DOMAIN G!Rest(fs) = 1 .. Len(fs) - 1 /\ DOMAIN fs = 1 .. Len(fs)
         /\ G!Top(fs) = fs[Len(fs)] /\ G!Top(fs) \in S
         /\ \A i \in 1 .. Len(fs) - 1 : G!Rest(fs)[i] = fs[i]
         /\ Len(G!Rest(fs)) = Len(fs) - 1
         /\ Len(fs) \in DOMAIN fs
         /\ \A i \in 1 .. Len(fs) - 1 : i \in DOMAIN fs /\ i # Len(fs)
         /\ \A i \in DOMAIN fs : i \in 1 .. Len(fs) - 1 \/ i = Len(fs)
  BY RestFacts DEF G!Rest, Rest, G!Top, Top

LEMMA GEnclosingAppend ==
  ASSUME NEW S, NEW fs \in Seq(S), NEW f \in S, NEW K
  PROVE  G!Enclosing(Append(fs, f), K) =
           G!Enclosing(fs, K) \cup (IF f.kind \in K THEN {Len(fs) + 1} ELSE {})
  BY EnclosingAppend DEF G!Enclosing, Enclosing

LEMMA GEnclosingRest ==
  ASSUME NEW S, NEW fs \in Seq(S), fs # <<>>, NEW K
  PROVE  G!Enclosing(G!Rest(fs), K) = G!Enclosing(fs, K) \ {Len(fs)}
  BY EnclosingRest DEF G!Enclosing, Enclosing, G!Rest, Rest

LEMMA GEnclosingFinite ==
  ASSUME NEW S, NEW fs \in Seq(S), NEW K
  PROVE  /\ IsFiniteSet(G!Enclosing(fs, K))
         /\ Cardinality(G!Enclosing(fs, K)) \in Nat
         /\ Len(fs) + 1 \notin G!Enclosing(fs, K)
  BY EnclosingFinite DEF G!Enclosing, Enclosing

LEMMA GCountAppend ==
  ASSUME NEW S, NEW fs \in Seq(S), NEW f \in S, NEW K
  PROVE  Cardinality(G!Enclosing(Append(fs, f), K)) =
           Cardinality(G!Enclosing(fs, K)) + (IF f.kind \in K THEN 1 ELSE 0)
  <1>1. \A gs : G!Enclosing(gs, K) = Enclosing(gs, K)
    BY DEF G!Enclosing, Enclosing
  <1>2. Cardinality(Enclosing(Append(fs, f), K)) =
          Cardinality(Enclosing(fs, K)) + (IF f.kind \in K THEN 1 ELSE 0)
    BY CountAppend, Zenon
  <1>3. QED
    BY <1>1, <1>2

LEMMA GCountRest ==
  ASSUME NEW S, NEW fs \in Seq(S), fs # <<>>, NEW K
  PROVE  Cardinality(G!Enclosing(G!Rest(fs), K)) =
           Cardinality(G!Enclosing(fs, K)) - (IF G!Top(fs).kind \in K THEN 1 ELSE 0)
  <1>1. \A gs : G!Enclosing(gs, K) = Enclosing(gs, K) /\ G!Rest(gs) = Rest(gs) /\ G!Top(gs) = Top(gs)
    BY DEF G!Enclosing, Enclosing, G!Rest, Rest, G!Top, Top
  <1>2. Cardinality(Enclosing(Rest(fs), K)) =
          Cardinality(Enclosing(fs, K)) - (IF Top(fs).kind \in K THEN 1 ELSE 0)
    BY CountRest, Zenon
  <1>3. QED
    BY <1>1, <1>2

-----------------------------------------------------------------------------
(* IRGen.  What the state has to satisfy is stated of a call stack fs, the *)
(* set N of the labels that have a block, the set J of the labels jumped   *)
(* to, the counter c and the loop stack ls: blocks matter only through N   *)
(* and J.                                                                  *)
IRFrame   == [kind : G!Kinds, head : G!Labels, next : G!Labels, end : G!Labels]
IRBlock   == [name : G!Labels, jumps : SUBSET G!Labels]
LoopEntry == [continueLabel : G!Labels, breakLabel : G!Labels]

Jumps(bs) == UNION {bs[i].jumps : i \in DOMAIN bs}

(* The labels a construct will itself give a block before it is left; the  *)
(* end label of a case is its match's.                                     *)
Settles(f) == ({f.next} \cup IF f.kind = "case" THEN {} ELSE {f.end}) \ {G!NoLabel}
OwedBy(fs) == UNION {Settles(fs[i]) : i \in DOMAIN fs}

TwoLabels == {"then", "try", "case"}

(* Which labels a frame of each kind holds, and what it stands on.         *)
Shaped(f) ==
  /\ f.kind = "fn" => f.next = G!NoLabel /\ f.end = G!NoLabel
  /\ f.kind # "fn" => f.end # G!NoLabel /\ f.next # f.end
  /\ f.kind \in TwoLabels <=> f.next # G!NoLabel
  /\ f.kind \in G!LoopKinds => f.head.prefix \in G!HeadPrefix
Stands(fs) ==
  \A i \in DOMAIN fs :
    /\ fs[i].kind = "fn" <=> i = 1
    /\ fs[i].kind = "case" =>
         i > 1 /\ fs[i - 1].kind = "match" /\ fs[i - 1].end = fs[i].end
    /\ fs[i].kind # "type"

(* No label is settled by two constructs.                                  *)
Apart(fs) ==
  \A i, j \in DOMAIN fs : i # j => Settles(fs[i]) \cap Settles(fs[j]) = {}

Sound(fs, N, J, c, ls) ==
  /\ fs \in Seq(IRFrame) /\ N \in SUBSET G!Labels /\ c \in Nat /\ ls \in Seq(LoopEntry)
  /\ Stands(fs) /\ Apart(fs)
  /\ \A i \in DOMAIN fs : Shaped(fs[i]) /\ (fs[i].kind \in G!LoopKinds => fs[i].head \in N)
  /\ \A l \in OwedBy(fs) : l \notin N /\ l # G!Entry
  /\ \A l \in N \cup OwedBy(fs) : l # G!Entry => l.no < c
  /\ J \subseteq N \cup OwedBy(fs)
  /\ \A i \in DOMAIN ls : {ls[i].continueLabel, ls[i].breakLabel} \subseteq N \cup OwedBy(fs)
  /\ Len(ls) = Cardinality(G!Enclosing(fs, G!LoopKinds))

(* The inductive invariant.                                                *)
IRInv ==
  /\ Sound(irFrames, G!Names(blocks), Jumps(blocks), lblCnt, loopStack)
  /\ blocks \in Seq(IRBlock)
  /\ blocks = <<>> <=> irFrames = <<>>
  /\ inFunction \in BOOLEAN /\ nullDeref \in BOOLEAN

-----------------------------------------------------------------------------
(* Blocks: what a jump and a new block change.                             *)
LEMMA JumpToLabels ==
  ASSUME NEW bs \in Seq(IRBlock), bs # <<>>, NEW T \in SUBSET G!Labels
  PROVE  /\ G!JumpTo(bs, T) \in Seq(IRBlock) /\ G!JumpTo(bs, T) # <<>>
         /\ G!Names(G!JumpTo(bs, T)) = G!Names(bs)
         /\ Jumps(G!JumpTo(bs, T)) = Jumps(bs) \cup T
  <1> DEFINE n  == Len(bs)
             b  == [bs[n] EXCEPT !.jumps = @ \cup T]
             cs == G!JumpTo(bs, T)
  <1>1. n \in Nat \ {0} /\ DOMAIN bs = 1 .. n /\ bs[n] \in IRBlock
    OBVIOUS
  <1>2. b \in IRBlock /\ b.name = bs[n].name /\ b.jumps = bs[n].jumps \cup T
    BY <1>1 DEF IRBlock
  <1>3. /\ cs = [i \in DOMAIN bs |-> IF i = n THEN b ELSE bs[i]]
    BY <1>1 DEF G!JumpTo
  <1> HIDE DEF b, cs
  <1>4. cs \in Seq(IRBlock) /\ Len(cs) = n /\ DOMAIN cs = 1 .. n
    BY <1>1, <1>2, <1>3
  <1>5. cs[n] = b /\ \A i \in 1 .. n : i # n => cs[i] = bs[i]
    <2>1. \A i \in DOMAIN bs : cs[i] = IF i = n THEN b ELSE bs[i]
      BY <1>3, Zenon
    <2>2. n \in DOMAIN bs
      BY <1>1
    <2>3. cs[n] = b
      BY <2>1, <2>2, Zenon
    <2>4. \A i \in DOMAIN bs : i # n => cs[i] = bs[i]
      BY <2>1, Zenon
    <2>5. QED
      BY <1>1, <2>3, <2>4, Zenon
  <1>6. \A i \in 1 .. n : cs[i].name = bs[i].name
    BY <1>2, <1>5
  <1>7. G!Names(cs) = G!Names(bs)
    BY <1>1, <1>4, <1>6 DEF G!Names
  <1>8. Jumps(cs) = Jumps(bs) \cup T
    <2>1. \A l : l \in Jumps(cs) <=> \E i \in 1 .. n : l \in cs[i].jumps
      BY <1>4 DEF Jumps
    <2>2. \A l : l \in Jumps(bs) <=> \E i \in 1 .. n : l \in bs[i].jumps
      BY <1>1 DEF Jumps
    <2>3. \A l : (\E i \in 1 .. n : l \in cs[i].jumps)
                  <=> (\E i \in 1 .. n : l \in bs[i].jumps) \/ l \in T
      <3>1. n \in 1 .. n
        BY <1>1
      <3>2. \A l : l \in cs[n].jumps <=> l \in bs[n].jumps \/ l \in T
        BY <1>2, <1>5
      <3>3. QED
        BY <1>5, <3>1, <3>2
    <2>4. QED
      BY <2>1, <2>2, <2>3
  <1>9. QED
    BY <1>1, <1>4, <1>7, <1>8 DEF cs

LEMMA PlaceLabels ==
  ASSUME NEW bs \in Seq(IRBlock), NEW l \in G!Labels
  PROVE  /\ G!Place(bs, l) \in Seq(IRBlock) /\ G!Place(bs, l) # <<>>
         /\ G!Names(G!Place(bs, l)) = G!Names(bs) \cup {l}
         /\ Jumps(G!Place(bs, l)) = Jumps(bs)
  <1>1. CASE l \in G!Names(bs)
    BY <1>1 DEF G!Place, G!Names
  <1>2. CASE l \notin G!Names(bs)
    <2> DEFINE cs == Append(bs, G!Block(l))
               n  == Len(bs)
    <2>1. G!Block(l) \in IRBlock /\ G!Block(l).name = l /\ G!Block(l).jumps = {}
      BY DEF G!Block, IRBlock
    <2>2. G!Place(bs, l) = cs
      BY <1>2 DEF G!Place
    <2>3. /\ cs \in Seq(IRBlock) /\ DOMAIN cs = 1 .. n + 1 /\ n \in Nat
          /\ cs[n + 1] = G!Block(l) /\ \A i \in 1 .. n : cs[i] = bs[i]
          /\ DOMAIN bs = 1 .. n /\ cs # <<>>
      BY <2>1
    <2> HIDE DEF cs
    <2>4. G!Names(cs) = G!Names(bs) \cup {l}
      BY <2>1, <2>3 DEF G!Names
    <2>5. Jumps(cs) = Jumps(bs)
      BY <2>1, <2>3 DEF Jumps
    <2>6. QED
      BY <2>2, <2>3, <2>4, <2>5
  <1>3. QED
    BY <1>1, <1>2

(* A new label is no label of the function yet.                            *)
LEMMA FreshLabel ==
  ASSUME NEW i \in Nat, NEW prefix \in G!Prefixes \ {"entry", "none"}, lblCnt \in Nat
  PROVE  /\ G!Label(i, prefix) \in G!Labels
         /\ G!Label(i, prefix).no = lblCnt + i
         /\ G!Label(i, prefix).prefix = prefix
         /\ G!Label(i, prefix) \notin {G!Entry, G!NoLabel}
  BY DEF G!Label, G!Labels, G!Entry, G!NoLabel

-----------------------------------------------------------------------------
LEMMA OwedAppend ==
  ASSUME NEW fs \in Seq(IRFrame), NEW f \in IRFrame
  PROVE  OwedBy(Append(fs, f)) = OwedBy(fs) \cup Settles(f)
  <1> DEFINE gs == Append(fs, f)
             n  == Len(fs)
  <1>1. /\ DOMAIN gs = 1 .. n + 1 /\ n \in Nat /\ DOMAIN fs = 1 .. n
        /\ gs[n + 1] = f /\ \A i \in 1 .. n : gs[i] = fs[i]
    OBVIOUS
  <1> HIDE DEF gs
  <1>2. \A l : l \in OwedBy(gs) <=> \E i \in 1 .. n + 1 : l \in Settles(gs[i])
    BY <1>1 DEF OwedBy
  <1>3. \A l : l \in OwedBy(fs) <=> \E i \in 1 .. n : l \in Settles(fs[i])
    BY <1>1 DEF OwedBy
  <1>4. \A l : (\E i \in 1 .. n + 1 : l \in Settles(gs[i]))
                <=> (\E i \in 1 .. n : l \in Settles(fs[i])) \/ l \in Settles(f)
    BY <1>1
  <1>5. QED
    BY <1>2, <1>3, <1>4 DEF gs

LEMMA OwedRest ==
  ASSUME NEW fs \in Seq(IRFrame), fs # <<>>, Apart(fs)
  PROVE  /\ OwedBy(fs) = OwedBy(G!Rest(fs)) \cup Settles(G!Top(fs))
         /\ OwedBy(G!Rest(fs)) \cap Settles(G!Top(fs)) = {}
  <1> DEFINE gs == G!Rest(fs)
             n  == Len(fs)
  <1>1. /\ n \in Nat \ {0} /\ DOMAIN gs = 1 .. n - 1 /\ DOMAIN fs = 1 .. n
        /\ G!Top(fs) = fs[n] /\ \A i \in 1 .. n - 1 : gs[i] = fs[i]
    BY GRestFacts
  <1> HIDE DEF gs
  <1>2. \A l : l \in OwedBy(gs) <=> \E i \in 1 .. n - 1 : l \in Settles(gs[i])
    BY <1>1 DEF OwedBy
  <1>3. \A l : l \in OwedBy(fs) <=> \E i \in 1 .. n : l \in Settles(fs[i])
    BY <1>1 DEF OwedBy
  <1>4. \A l : (\E i \in 1 .. n : l \in Settles(fs[i]))
                <=> (\E i \in 1 .. n - 1 : l \in Settles(gs[i])) \/ l \in Settles(G!Top(fs))
    BY <1>1
  <1>5. \A i \in 1 .. n - 1 : Settles(gs[i]) \cap Settles(G!Top(fs)) = {}
    BY <1>1 DEF Apart
  <1>6. OwedBy(fs) = OwedBy(gs) \cup Settles(G!Top(fs))
    BY <1>2, <1>3, <1>4
  <1>7. OwedBy(gs) \cap Settles(G!Top(fs)) = {}
    BY <1>2, <1>5
  <1>8. QED
    BY <1>6, <1>7 DEF gs

LEMMA SettlesLabels ==
  ASSUME NEW f \in IRFrame PROVE Settles(f) \subseteq G!Labels
  BY DEF Settles, IRFrame

(* A construct opens inside another: it makes the labels from c to k - 1,  *)
(* gives those of P a block and owes those it settles.                     *)
LEMMA PushSound ==
  ASSUME NEW fs, NEW N, NEW J, NEW c, NEW ls, Sound(fs, N, J, c, ls), fs # <<>>,
         NEW f \in IRFrame, Shaped(f), f.kind \notin {"fn", "type"},
         f.kind = "case" => G!Top(fs).kind = "match" /\ G!Top(fs).end = f.end,
         NEW k \in Nat, c <= k,
         NEW P \in SUBSET G!Labels, P \cap Settles(f) = {},
         \A l \in P \cup Settles(f) : c <= l.no /\ l.no < k /\ l # G!Entry,
         f.kind \in G!LoopKinds => f.head \in P,
         NEW J2, J2 \subseteq J \cup P \cup Settles(f),
         NEW ls2, ls2 = IF f.kind \in G!LoopKinds
                        THEN Append(ls, [continueLabel |-> f.head, breakLabel |-> f.end])
                        ELSE ls
  PROVE  Sound(Append(fs, f), N \cup P, J2, k, ls2)
  <1> DEFINE gs == Append(fs, f)
             n  == Len(fs)
             N2 == N \cup P
  <1>0. /\ fs \in Seq(IRFrame) /\ N \in SUBSET G!Labels /\ c \in Nat /\ ls \in Seq(LoopEntry)
        /\ Stands(fs) /\ Apart(fs)
        /\ \A i \in DOMAIN fs : Shaped(fs[i]) /\ (fs[i].kind \in G!LoopKinds => fs[i].head \in N)
        /\ \A l \in OwedBy(fs) : l \notin N /\ l # G!Entry
        /\ \A l \in N \cup OwedBy(fs) : l # G!Entry => l.no < c
        /\ J \subseteq N \cup OwedBy(fs)
        /\ \A i \in DOMAIN ls :
             {ls[i].continueLabel, ls[i].breakLabel} \subseteq N \cup OwedBy(fs)
        /\ Len(ls) = Cardinality(G!Enclosing(fs, G!LoopKinds))
    BY DEF Sound
  <1>1. /\ gs \in Seq(IRFrame) /\ DOMAIN gs = 1 .. n + 1 /\ n \in Nat \ {0}
        /\ DOMAIN fs = 1 .. n
        /\ gs[n + 1] = f /\ \A i \in 1 .. n : gs[i] = fs[i]
        /\ \A i \in 1 .. n + 1 : i \in 1 .. n \/ i = n + 1
    BY <1>0, AppendFacts
  <1>2. OwedBy(gs) = OwedBy(fs) \cup Settles(f)
    BY <1>0, OwedAppend
  <1>3. OwedBy(fs) \subseteq G!Labels /\ N2 \subseteq G!Labels /\ Settles(f) \subseteq G!Labels
    BY <1>0, <1>1, SettlesLabels DEF OwedBy
  <1>4. \A l \in G!Labels : l.no \in Nat
    BY DEF G!Labels
  <1>5. Stands(gs)
    <2> HIDE DEF gs
    <2>1. gs[n] = G!Top(fs) /\ n + 1 > 1 /\ (n + 1) - 1 = n
      BY <1>1 DEF G!Top
    <2>2. SUFFICES ASSUME NEW i \in 1 .. n + 1
                   PROVE  /\ gs[i].kind = "fn" <=> i = 1
                          /\ gs[i].kind = "case" =>
                               i > 1 /\ gs[i - 1].kind = "match" /\ gs[i - 1].end = gs[i].end
                          /\ gs[i].kind # "type"
      BY <1>1 DEF Stands
    <2>3. CASE i = n + 1
      BY <1>1, <2>1, <2>3
    <2>4. CASE i \in 1 .. n
      <3>1. /\ fs[i].kind = "fn" <=> i = 1
            /\ fs[i].kind = "case" =>
                 i > 1 /\ fs[i - 1].kind = "match" /\ fs[i - 1].end = fs[i].end
            /\ fs[i].kind # "type"
        BY <1>0, <1>1, <2>4 DEF Stands
      <3>2. gs[i] = fs[i] /\ (i > 1 => gs[i - 1] = fs[i - 1])
        BY <1>1, <2>4
      <3>3. QED
        BY <3>1, <3>2
    <2>5. QED
      BY <1>1, <2>3, <2>4
  <1>6. Apart(gs)
    <2>1. \A i \in 1 .. n : Settles(fs[i]) \subseteq OwedBy(fs)
      BY <1>1 DEF OwedBy
    <2>2. OwedBy(fs) \cap Settles(f) = {}
      BY <1>0, <1>3, <1>4
    <2>3. \A i \in 1 .. n : Settles(gs[i]) \cap Settles(f) = {}
      BY <1>1, <2>1, <2>2
    <2> HIDE DEF gs
    <2>4. \A i, j \in 1 .. n : i # j => Settles(gs[i]) \cap Settles(gs[j]) = {}
      BY <1>0, <1>1 DEF Apart
    <2>5. SUFFICES ASSUME NEW i \in 1 .. n + 1, NEW j \in 1 .. n + 1, i # j
                   PROVE  Settles(gs[i]) \cap Settles(gs[j]) = {}
      BY <1>1 DEF Apart
    <2>6. CASE i = n + 1
      BY <1>1, <2>3, <2>5, <2>6
    <2>7. CASE j = n + 1
      BY <1>1, <2>3, <2>5, <2>7
    <2>8. CASE i \in 1 .. n /\ j \in 1 .. n
      BY <2>4, <2>5, <2>8
    <2>9. QED
      BY <1>1, <2>6, <2>7, <2>8
  <1>7. \A i \in DOMAIN gs : Shaped(gs[i]) /\ (gs[i].kind \in G!LoopKinds => gs[i].head \in N2)
    <2> HIDE DEF gs
    <2>1. \A i \in 1 .. n : Shaped(gs[i]) /\ (gs[i].kind \in G!LoopKinds => gs[i].head \in N2)
      BY <1>0, <1>1
    <2>2. Shaped(gs[n + 1]) /\ (gs[n + 1].kind \in G!LoopKinds => gs[n + 1].head \in N2)
      BY <1>1
    <2>3. QED
      BY <1>1, <2>1, <2>2
  <1>8. \A l \in OwedBy(gs) : l \notin N2 /\ l # G!Entry
    <2>1. \A l \in OwedBy(fs) : l \notin P
      BY <1>0, <1>3, <1>4
    <2>2. \A l \in Settles(f) : l \notin N
      BY <1>0, <1>3, <1>4
    <2>3. QED
      BY <1>0, <1>2, <2>1, <2>2
  <1>9. \A l \in N2 \cup OwedBy(gs) : l # G!Entry => l.no < k
    BY <1>0, <1>2, <1>3, <1>4
  <1>10. J2 \subseteq N2 \cup OwedBy(gs)
    BY <1>0, <1>2
  <1>11. /\ ls2 \in Seq(LoopEntry)
         /\ \A i \in DOMAIN ls2 :
              {ls2[i].continueLabel, ls2[i].breakLabel} \subseteq N2 \cup OwedBy(gs)
         /\ Len(ls2) = Cardinality(G!Enclosing(gs, G!LoopKinds))
    <2>1. Cardinality(G!Enclosing(gs, G!LoopKinds)) =
            Cardinality(G!Enclosing(fs, G!LoopKinds)) + (IF f.kind \in G!LoopKinds THEN 1 ELSE 0)
      BY <1>0, GCountAppend
    <2>2. CASE f.kind \in G!LoopKinds
      <3> DEFINE e == [continueLabel |-> f.head, breakLabel |-> f.end]
      <3>1. e \in LoopEntry /\ e.continueLabel = f.head /\ e.breakLabel = f.end
        BY DEF LoopEntry, IRFrame
      <3>2. f.end \in Settles(f) /\ f.head \in N2
        BY <2>2 DEF Shaped, Settles, G!LoopKinds
      <3>3. ls2 = Append(ls, e)
        BY <2>2
      <3> HIDE DEF e
      <3>4. /\ ls2 \in Seq(LoopEntry) /\ Len(ls2) = Len(ls) + 1
            /\ DOMAIN ls2 = 1 .. Len(ls) + 1 /\ DOMAIN ls = 1 .. Len(ls)
            /\ ls2[Len(ls) + 1] = e /\ \A i \in 1 .. Len(ls) : ls2[i] = ls[i]
        BY <1>0, <3>1, <3>3, AppendFacts
      <3>5. {e.continueLabel, e.breakLabel} \subseteq N2 \cup OwedBy(gs)
        BY <1>2, <3>1, <3>2
      <3> HIDE DEF gs
      <3>6. \A i \in 1 .. Len(ls) :
              {ls2[i].continueLabel, ls2[i].breakLabel} \subseteq N2 \cup OwedBy(gs)
        <4>1. \A i \in 1 .. Len(ls) :
                {ls[i].continueLabel, ls[i].breakLabel} \subseteq N2 \cup OwedBy(gs)
          BY <1>0, <1>2, <3>4
        <4>2. QED
          BY <3>4, <4>1
      <3>7. \A i \in 1 .. Len(ls) + 1 : i \in 1 .. Len(ls) \/ i = Len(ls) + 1
        BY <1>0, <3>1, AppendFacts
      <3>8. \A i \in DOMAIN ls2 :
              {ls2[i].continueLabel, ls2[i].breakLabel} \subseteq N2 \cup OwedBy(gs)
        BY <3>4, <3>5, <3>6, <3>7
      <3>9. QED
        BY <1>0, <2>1, <2>2, <3>4, <3>8
    <2>3. CASE f.kind \notin G!LoopKinds
      <3>1. ls2 = ls
        BY <2>3
      <3>2. Len(ls2) = Cardinality(G!Enclosing(gs, G!LoopKinds))
        BY <1>0, <2>1, <2>3, <3>1
      <3> HIDE DEF gs
      <3>3. QED
        BY <1>0, <1>2, <3>1, <3>2
    <2>4. QED
      BY <2>2, <2>3
  <1> HIDE DEF gs, N2
  <1>12. Sound(gs, N2, J2, k, ls2)
    BY <1>1, <1>3, <1>5, <1>6, <1>7, <1>8, <1>9, <1>10, <1>11 DEF Sound
  <1>13. QED
    BY <1>12 DEF gs, N2

(* A construct that is neither a loop nor a case.                          *)
LEMMA PushPlain ==
  ASSUME NEW fs, NEW N, NEW J, NEW c, NEW ls, Sound(fs, N, J, c, ls), fs # <<>>,
         NEW f \in IRFrame, Shaped(f), f.kind \notin {"fn", "type", "case"} \cup G!LoopKinds,
         NEW k \in Nat, c <= k,
         NEW P \in SUBSET G!Labels, P \cap Settles(f) = {},
         \A l \in P \cup Settles(f) : c <= l.no /\ l.no < k /\ l # G!Entry,
         NEW J2, J2 \subseteq J \cup P \cup Settles(f)
  PROVE  Sound(Append(fs, f), N \cup P, J2, k, ls)
  BY PushSound

(* A construct is left: what it owed has a block now.                      *)
LEMMA PopSound ==
  ASSUME NEW fs, NEW N, NEW J, NEW c, NEW ls, Sound(fs, N, J, c, ls),
         fs # <<>>, G!Top(fs).kind # "fn",
         NEW J2, J2 \subseteq J \cup N \cup OwedBy(fs),
         NEW ls2, ls2 = IF G!Top(fs).kind \in G!LoopKinds THEN G!Rest(ls) ELSE ls
  PROVE  /\ Sound(G!Rest(fs), N \cup Settles(G!Top(fs)), J2, c, ls2)
         /\ G!Rest(fs) # <<>>
  <1> DEFINE gs == G!Rest(fs)
             n  == Len(fs)
             N2 == N \cup Settles(G!Top(fs))
  <1>0. /\ fs \in Seq(IRFrame) /\ N \in SUBSET G!Labels /\ c \in Nat /\ ls \in Seq(LoopEntry)
        /\ Stands(fs) /\ Apart(fs)
        /\ \A i \in DOMAIN fs : Shaped(fs[i]) /\ (fs[i].kind \in G!LoopKinds => fs[i].head \in N)
        /\ \A l \in OwedBy(fs) : l \notin N /\ l # G!Entry
        /\ \A l \in N \cup OwedBy(fs) : l # G!Entry => l.no < c
        /\ J \subseteq N \cup OwedBy(fs)
        /\ \A i \in DOMAIN ls :
             {ls[i].continueLabel, ls[i].breakLabel} \subseteq N \cup OwedBy(fs)
        /\ Len(ls) = Cardinality(G!Enclosing(fs, G!LoopKinds))
    BY DEF Sound
  <1>1. /\ gs \in Seq(IRFrame) /\ n \in Nat \ {0}
        /\ DOMAIN gs = 1 .. n - 1 /\ DOMAIN fs = 1 .. n
        /\ G!Top(fs) = fs[n] /\ G!Top(fs) \in IRFrame
        /\ \A i \in 1 .. n - 1 : gs[i] = fs[i] /\ i \in DOMAIN fs /\ i # n
        /\ Len(gs) = n - 1 /\ n \in DOMAIN fs
    BY <1>0, GRestFacts
  <1>2. /\ OwedBy(fs) = OwedBy(gs) \cup Settles(G!Top(fs))
        /\ OwedBy(gs) \cap Settles(G!Top(fs)) = {}
    BY <1>0, OwedRest
  <1>a. \A i \in 1 .. n - 1 : i > 1 => i - 1 \in 1 .. n - 1
    BY <1>1, LastOfInterval
  <1> HIDE DEF gs, n
  <1>3. n # 1
    BY <1>0, <1>1 DEF Stands
  <1>4. gs # <<>>
    BY <1>1, <1>3
  <1>5. N2 \in SUBSET G!Labels
    BY <1>0, <1>1, SettlesLabels
  <1>6. Stands(gs)
    <2>1. SUFFICES ASSUME NEW i \in 1 .. n - 1
                   PROVE  /\ gs[i].kind = "fn" <=> i = 1
                          /\ gs[i].kind = "case" =>
                               i > 1 /\ gs[i - 1].kind = "match" /\ gs[i - 1].end = gs[i].end
                          /\ gs[i].kind # "type"
      BY <1>1 DEF Stands
    <2>2. /\ fs[i].kind = "fn" <=> i = 1
          /\ fs[i].kind = "case" =>
               i > 1 /\ fs[i - 1].kind = "match" /\ fs[i - 1].end = fs[i].end
          /\ fs[i].kind # "type"
      BY <1>0, <1>1 DEF Stands
    <2>3. gs[i] = fs[i] /\ (i > 1 => gs[i - 1] = fs[i - 1])
      BY <1>1, <1>a
    <2>4. QED
      BY <2>2, <2>3
  <1>7. Apart(gs)
    BY <1>0, <1>1 DEF Apart
  <1>8. \A i \in DOMAIN gs : Shaped(gs[i]) /\ (gs[i].kind \in G!LoopKinds => gs[i].head \in N2)
    BY <1>0, <1>1
  <1>9. \A l \in OwedBy(gs) : l \notin N2 /\ l # G!Entry
    BY <1>0, <1>2
  <1>10. N2 \cup OwedBy(gs) = N \cup OwedBy(fs)
    BY <1>2
  <1>11. /\ \A l \in N2 \cup OwedBy(gs) : l # G!Entry => l.no < c
         /\ J2 \subseteq N2 \cup OwedBy(gs)
    BY <1>0, <1>10
  <1>12. /\ ls2 \in Seq(LoopEntry)
         /\ \A i \in DOMAIN ls2 :
              {ls2[i].continueLabel, ls2[i].breakLabel} \subseteq N2 \cup OwedBy(gs)
         /\ Len(ls2) = Cardinality(G!Enclosing(gs, G!LoopKinds))
    <2>1. /\ Cardinality(G!Enclosing(gs, G!LoopKinds)) =
               Cardinality(G!Enclosing(fs, G!LoopKinds))
                 - (IF G!Top(fs).kind \in G!LoopKinds THEN 1 ELSE 0)
          /\ Cardinality(G!Enclosing(gs, G!LoopKinds)) \in Nat
          /\ Cardinality(G!Enclosing(fs, G!LoopKinds)) \in Nat
      BY <1>0, <1>1, GCountRest, GEnclosingFinite DEF gs
    <2>2. CASE G!Top(fs).kind \in G!LoopKinds
      <3>1. ls # <<>>
        BY <1>0, <2>1, <2>2
      <3>2. /\ G!Rest(ls) \in Seq(LoopEntry) /\ Len(G!Rest(ls)) = Len(ls) - 1
            /\ DOMAIN G!Rest(ls) = 1 .. Len(ls) - 1 /\ DOMAIN ls = 1 .. Len(ls)
            /\ \A i \in 1 .. Len(ls) - 1 : G!Rest(ls)[i] = ls[i]
            /\ Len(ls) \in Nat
        BY <1>0, <3>1, GRestFacts
      <3>3. ls2 = G!Rest(ls)
        BY <2>2
      <3>4. \A i \in 1 .. Len(ls) - 1 :
              {G!Rest(ls)[i].continueLabel, G!Rest(ls)[i].breakLabel} \subseteq N2 \cup OwedBy(gs)
        BY <1>0, <1>10, <3>2
      <3>5. QED
        BY <1>0, <2>1, <2>2, <3>2, <3>3, <3>4
    <2>3. CASE G!Top(fs).kind \notin G!LoopKinds
      BY <1>0, <1>10, <2>1, <2>3
    <2>4. QED
      BY <2>2, <2>3
  <1> HIDE DEF N2
  <1>13. Sound(gs, N2, J2, c, ls2)
    BY <1>0, <1>1, <1>5, <1>6, <1>7, <1>8, <1>9, <1>11, <1>12 DEF Sound
  <1>14. QED
    BY <1>4, <1>13 DEF gs, N2

(* The second body of a statement follows the first: it owes the end that  *)
(* both share, and the label it is reached by has a block now.             *)
LEMMA ReplaceSound ==
  ASSUME NEW fs, NEW N, NEW J, NEW c, NEW ls, Sound(fs, N, J, c, ls),
         fs # <<>>, G!Top(fs).kind \in {"then", "try"},
         NEW g \in IRFrame, g.kind \in {"else", "elseif", "catch"},
         g.next = G!NoLabel, g.end = G!Top(fs).end,
         NEW J2, J2 \subseteq J \cup {g.end}
  PROVE  Sound(Append(G!Rest(fs), g), N \cup {G!Top(fs).next}, J2, c, ls)
  <1> DEFINE gs == Append(G!Rest(fs), g)
             n  == Len(fs)
             f  == G!Top(fs)
             N2 == N \cup {f.next}
  <1>0. /\ fs \in Seq(IRFrame) /\ N \in SUBSET G!Labels /\ c \in Nat /\ ls \in Seq(LoopEntry)
        /\ Stands(fs) /\ Apart(fs)
        /\ \A i \in DOMAIN fs : Shaped(fs[i]) /\ (fs[i].kind \in G!LoopKinds => fs[i].head \in N)
        /\ \A l \in OwedBy(fs) : l \notin N /\ l # G!Entry
        /\ \A l \in N \cup OwedBy(fs) : l # G!Entry => l.no < c
        /\ J \subseteq N \cup OwedBy(fs)
        /\ \A i \in DOMAIN ls :
             {ls[i].continueLabel, ls[i].breakLabel} \subseteq N \cup OwedBy(fs)
        /\ Len(ls) = Cardinality(G!Enclosing(fs, G!LoopKinds))
    BY DEF Sound
  <1>1. /\ G!Rest(fs) \in Seq(IRFrame) /\ n \in Nat \ {0} /\ Len(G!Rest(fs)) = n - 1
        /\ DOMAIN fs = 1 .. n /\ f = fs[n] /\ f \in IRFrame /\ n \in DOMAIN fs
        /\ \A i \in 1 .. n - 1 : G!Rest(fs)[i] = fs[i] /\ i \in DOMAIN fs /\ i # n
        /\ \A i \in DOMAIN fs : i \in 1 .. n - 1 \/ i = n
    BY <1>0, GRestFacts
  <1>2. /\ gs \in Seq(IRFrame) /\ DOMAIN gs = 1 .. n /\ gs[n] = g
        /\ \A i \in 1 .. n - 1 : gs[i] = fs[i]
        /\ \A i \in 1 .. n : i \in 1 .. n - 1 \/ i = n
    <2>1. /\ gs \in Seq(IRFrame) /\ DOMAIN gs = 1 .. (n - 1) + 1 /\ gs[(n - 1) + 1] = g
          /\ \A i \in 1 .. n - 1 : gs[i] = G!Rest(fs)[i]
          /\ \A i \in 1 .. (n - 1) + 1 : i \in 1 .. n - 1 \/ i = (n - 1) + 1
      BY <1>1, AppendFacts
    <2>2. (n - 1) + 1 = n
      BY <1>1
    <2> HIDE DEF gs
    <2>3. QED
      BY <1>1, <2>1, <2>2
  <1>3. Shaped(f) /\ f.kind \notin {"case", "fn"} \cup G!LoopKinds /\ f.kind \in TwoLabels
    BY <1>0, <1>1 DEF G!LoopKinds, TwoLabels
  <1>4. Settles(f) = {f.next, f.end} /\ Settles(g) = {f.end} /\ f.next # f.end
    BY <1>3 DEF Shaped, Settles
  <1>5. /\ OwedBy(fs) = OwedBy(G!Rest(fs)) \cup {f.next, f.end}
        /\ OwedBy(G!Rest(fs)) \cap {f.next, f.end} = {}
        /\ OwedBy(gs) = OwedBy(G!Rest(fs)) \cup {f.end}
    BY <1>0, <1>1, <1>4, OwedRest, OwedAppend
  <1> HIDE DEF gs
  <1>6. n # 1
    BY <1>0, <1>1, <1>3 DEF Stands
  <1>7. N2 \in SUBSET G!Labels
    BY <1>0, <1>1 DEF IRFrame
  <1>8. Stands(gs)
    <2>1. SUFFICES ASSUME NEW i \in 1 .. n
                   PROVE  /\ gs[i].kind = "fn" <=> i = 1
                          /\ gs[i].kind = "case" =>
                               i > 1 /\ gs[i - 1].kind = "match" /\ gs[i - 1].end = gs[i].end
                          /\ gs[i].kind # "type"
      BY <1>2 DEF Stands
    <2>2. CASE i = n
      BY <1>2, <1>6, <2>2
    <2>3. CASE i \in 1 .. n - 1
      <3>1. /\ fs[i].kind = "fn" <=> i = 1
            /\ fs[i].kind = "case" =>
                 i > 1 /\ fs[i - 1].kind = "match" /\ fs[i - 1].end = fs[i].end
            /\ fs[i].kind # "type"
        BY <1>0, <1>1, <2>3 DEF Stands
      <3>2. gs[i] = fs[i] /\ (i > 1 => gs[i - 1] = fs[i - 1])
        BY <1>1, <1>2, <2>3
      <3>3. QED
        BY <3>1, <3>2
    <2>4. QED
      BY <1>2, <2>2, <2>3
  <1>9. Apart(gs)
    <2>1. \A i, j \in 1 .. n - 1 : i # j => Settles(gs[i]) \cap Settles(gs[j]) = {}
      BY <1>0, <1>1, <1>2 DEF Apart
    <2>2. \A i \in 1 .. n - 1 : Settles(gs[i]) \cap Settles(gs[n]) = {}
      <3>1. \A i \in 1 .. n - 1 : Settles(fs[i]) \cap Settles(f) = {}
        BY <1>0, <1>1 DEF Apart
      <3>2. QED
        BY <1>2, <1>4, <3>1
    <2>3. SUFFICES ASSUME NEW i \in 1 .. n, NEW j \in 1 .. n, i # j
                   PROVE  Settles(gs[i]) \cap Settles(gs[j]) = {}
      BY <1>2 DEF Apart
    <2>4. CASE i = n
      BY <1>2, <2>2, <2>3, <2>4
    <2>5. CASE j = n
      BY <1>2, <2>2, <2>3, <2>5
    <2>6. QED
      BY <1>2, <2>1, <2>3, <2>4, <2>5
  <1>10. \A i \in DOMAIN gs : Shaped(gs[i]) /\ (gs[i].kind \in G!LoopKinds => gs[i].head \in N2)
    <2>1. \A i \in 1 .. n - 1 : Shaped(gs[i]) /\ (gs[i].kind \in G!LoopKinds => gs[i].head \in N2)
      BY <1>0, <1>1, <1>2
    <2>2. Shaped(gs[n]) /\ gs[n].kind \notin G!LoopKinds
      BY <1>2, <1>3 DEF Shaped, TwoLabels, G!LoopKinds
    <2>3. QED
      BY <1>2, <2>1, <2>2
  <1>11. \A l \in OwedBy(gs) : l \notin N2 /\ l # G!Entry
    BY <1>0, <1>4, <1>5
  <1>12. N2 \cup OwedBy(gs) = N \cup OwedBy(fs)
    BY <1>5
  <1>13. /\ \A l \in N2 \cup OwedBy(gs) : l # G!Entry => l.no < c
         /\ J2 \subseteq N2 \cup OwedBy(gs)
         /\ \A i \in DOMAIN ls :
              {ls[i].continueLabel, ls[i].breakLabel} \subseteq N2 \cup OwedBy(gs)
    BY <1>0, <1>5, <1>12
  <1>14. G!Enclosing(gs, G!LoopKinds) = G!Enclosing(fs, G!LoopKinds)
    <2>1. \A i \in 1 .. n : gs[i].kind \in G!LoopKinds <=> fs[i].kind \in G!LoopKinds
      <3>1. g.kind \notin G!LoopKinds /\ f.kind \notin G!LoopKinds
        BY DEF G!LoopKinds
      <3>2. QED
        BY <1>1, <1>2, <3>1
    <2>2. QED
      BY <1>1, <1>2, <2>1 DEF G!Enclosing
  <1> HIDE DEF N2
  <1>15. Sound(gs, N2, J2, c, ls)
    BY <1>0, <1>2, <1>7, <1>8, <1>9, <1>10, <1>11, <1>13, <1>14 DEF Sound
  <1>16. QED
    BY <1>15 DEF gs, N2

(* What the frames owe, as the module states it.                           *)
LEMMA OwedIsOwedBy ==
  ASSUME NEW N, NEW J, NEW c, NEW ls, Sound(irFrames, N, J, c, ls)
  PROVE  G!Owed = OwedBy(irFrames)
  <1>1. /\ irFrames \in Seq(IRFrame) /\ Stands(irFrames)
        /\ \A i \in DOMAIN irFrames : Shaped(irFrames[i])
    BY DEF Sound
  <1>2. \A l : l \in G!Owed <=>
          l # G!NoLabel /\ \E i \in DOMAIN irFrames : l = irFrames[i].next \/ l = irFrames[i].end
    BY DEF G!Owed
  <1>3. \A l : l \in OwedBy(irFrames) <=> \E i \in DOMAIN irFrames : l \in Settles(irFrames[i])
    BY DEF OwedBy
  <1>4. \A i \in DOMAIN irFrames : irFrames[i].kind = "case" =>
          \E j \in DOMAIN irFrames : irFrames[i].end \in Settles(irFrames[j])
    <2>1. SUFFICES ASSUME NEW i \in DOMAIN irFrames, irFrames[i].kind = "case"
                   PROVE  irFrames[i].end \in Settles(irFrames[i - 1]) /\ i - 1 \in DOMAIN irFrames
      OBVIOUS
    <2>2. /\ i > 1 /\ irFrames[i - 1].kind = "match" /\ irFrames[i - 1].end = irFrames[i].end
      BY <1>1, <2>1 DEF Stands
    <2>3. i - 1 \in DOMAIN irFrames
      BY <1>1, <2>2
    <2>4. irFrames[i - 1].end # G!NoLabel
      BY <1>1, <2>2, <2>3 DEF Shaped
    <2>5. QED
      BY <2>2, <2>3, <2>4 DEF Settles
  <1>5. \A l : (\E i \in DOMAIN irFrames : l \in Settles(irFrames[i])) <=>
          l # G!NoLabel /\ \E i \in DOMAIN irFrames : l = irFrames[i].next \/ l = irFrames[i].end
    BY <1>4 DEF Settles
  <1>6. QED
    BY <1>2, <1>3, <1>5

-----------------------------------------------------------------------------
(* The invariant after a construct opened, and after one was left.         *)
LEMMA PushIRInv ==
  ASSUME IRInv, irFrames # <<>>,
         NEW f \in IRFrame, Shaped(f), f.kind \notin {"fn", "type"},
         f.kind = "case" => G!Top(irFrames).kind = "match" /\ G!Top(irFrames).end = f.end,
         NEW m \in Nat, NEW P \in SUBSET G!Labels, P \cap Settles(f) = {},
         \A l \in P \cup Settles(f) : lblCnt <= l.no /\ l.no < lblCnt + m /\ l # G!Entry,
         f.kind \in G!LoopKinds => f.head \in P,
         irFrames' = Append(irFrames, f), lblCnt' = lblCnt + m,
         blocks' \in Seq(IRBlock), blocks' # <<>>,
         G!Names(blocks') = G!Names(blocks) \cup P,
         Jumps(blocks') \subseteq Jumps(blocks) \cup P \cup Settles(f),
         loopStack' = IF f.kind \in G!LoopKinds
                      THEN Append(loopStack, [continueLabel |-> f.head, breakLabel |-> f.end])
                      ELSE loopStack,
         UNCHANGED <<inFunction, nullDeref>>
  PROVE  IRInv'
  <1>1. Sound(irFrames, G!Names(blocks), Jumps(blocks), lblCnt, loopStack)
    BY DEF IRInv
  <1>2. irFrames \in Seq(IRFrame) /\ lblCnt \in Nat
    BY <1>1 DEF Sound
  <1>3. lblCnt + m \in Nat /\ lblCnt <= lblCnt + m
    BY <1>2
  <1>4. Sound(Append(irFrames, f), G!Names(blocks) \cup P, Jumps(blocks'), lblCnt + m, loopStack')
    BY <1>1, <1>3, PushSound
  <1>5. Sound(irFrames', G!Names(blocks'), Jumps(blocks'), lblCnt', loopStack')
    BY <1>4
  <1>6. irFrames' # <<>>
    BY <1>2
  <1>7. QED
    BY <1>5, <1>6 DEF IRInv

LEMMA PopIRInv ==
  ASSUME IRInv, irFrames # <<>>, G!Top(irFrames).kind # "fn",
         irFrames' = G!Rest(irFrames), lblCnt' = lblCnt,
         blocks' \in Seq(IRBlock), blocks' # <<>>,
         G!Names(blocks') = G!Names(blocks) \cup Settles(G!Top(irFrames)),
         Jumps(blocks') \subseteq Jumps(blocks) \cup G!Names(blocks) \cup OwedBy(irFrames),
         loopStack' = IF G!Top(irFrames).kind \in G!LoopKinds THEN G!Rest(loopStack) ELSE loopStack,
         UNCHANGED <<inFunction, nullDeref>>
  PROVE  IRInv'
  <1>1. Sound(irFrames, G!Names(blocks), Jumps(blocks), lblCnt, loopStack)
    BY DEF IRInv
  <1>2. /\ Sound(G!Rest(irFrames), G!Names(blocks) \cup Settles(G!Top(irFrames)), Jumps(blocks'),
                 lblCnt, loopStack')
        /\ G!Rest(irFrames) # <<>>
    BY <1>1, PopSound
  <1>3. Sound(irFrames', G!Names(blocks'), Jumps(blocks'), lblCnt', loopStack')
    BY <1>2
  <1>4. QED
    BY <1>2, <1>3 DEF IRInv

(* The construct on top, and the labels it holds.                          *)
LEMMA TopFrame ==
  ASSUME IRInv, irFrames # <<>>
  PROVE  /\ G!Top(irFrames) \in IRFrame /\ Shaped(G!Top(irFrames))
         /\ G!Top(irFrames).end \in G!Labels /\ G!Top(irFrames).next \in G!Labels
         /\ G!Top(irFrames).kind # "fn" => G!Top(irFrames).end \in OwedBy(irFrames)
         /\ G!Top(irFrames).kind \in G!LoopKinds => G!Top(irFrames).head \in G!Names(blocks)
         /\ G!Top(irFrames).head \in G!Labels
         /\ blocks \in Seq(IRBlock) /\ blocks # <<>> /\ lblCnt \in Nat
  <1>1. Sound(irFrames, G!Names(blocks), Jumps(blocks), lblCnt, loopStack)
    BY DEF IRInv
  <1>2. /\ irFrames \in Seq(IRFrame) /\ lblCnt \in Nat
        /\ \A i \in DOMAIN irFrames :
             Shaped(irFrames[i]) /\ (irFrames[i].kind \in G!LoopKinds => irFrames[i].head \in G!Names(blocks))
    BY <1>1 DEF Sound
  <1>3. G!Top(irFrames) = irFrames[Len(irFrames)] /\ G!Top(irFrames) \in IRFrame /\ Len(irFrames) \in DOMAIN irFrames
    BY <1>2, GRestFacts
  <1>4. /\ G!Top(irFrames).end \in G!Labels /\ G!Top(irFrames).next \in G!Labels
        /\ G!Top(irFrames).head \in G!Labels
    BY <1>3 DEF IRFrame
  <1>5. G!Top(irFrames).kind # "fn" => G!Top(irFrames).end \in G!Owed
    BY <1>2, <1>3 DEF G!Owed, Shaped
  <1>6. G!Owed = OwedBy(irFrames)
    BY <1>1, OwedIsOwedBy
  <1>7. QED
    BY <1>2, <1>3, <1>4, <1>5, <1>6 DEF IRInv

LEMMA FrameFacts ==
  ASSUME NEW kind \in G!Kinds, NEW head \in G!Labels, NEW next \in G!Labels, NEW end \in G!Labels
  PROVE  /\ G!Frame(kind, head, next, end) \in IRFrame
         /\ G!Frame(kind, head, next, end).kind = kind
         /\ G!Frame(kind, head, next, end).head = head
         /\ G!Frame(kind, head, next, end).next = next
         /\ G!Frame(kind, head, next, end).end = end
  BY DEF G!Frame, IRFrame

LEMMA NoLabelIsLabel == G!NoLabel \in G!Labels /\ G!Entry \in G!Labels /\ G!NoLabel # G!Entry
  BY DEF G!NoLabel, G!Entry, G!Labels, G!Prefixes

(* setInsertBlock and the jump before it: Finish.                          *)
LEMMA FinishLabels ==
  ASSUME IRInv, irFrames # <<>>, NEW l \in G!Labels
  PROVE  /\ G!Finish(l) \in Seq(IRBlock) /\ G!Finish(l) # <<>>
         /\ G!Names(G!Finish(l)) = G!Names(blocks) \cup {l}
         /\ Jumps(G!Finish(l)) = Jumps(blocks) \cup {G!Top(irFrames).end}
  <1> DEFINE bs == G!JumpTo(blocks, {G!Top(irFrames).end})
  <1>1. /\ bs \in Seq(IRBlock) /\ bs # <<>> /\ G!Names(bs) = G!Names(blocks)
        /\ Jumps(bs) = Jumps(blocks) \cup {G!Top(irFrames).end}
    BY TopFrame, JumpToLabels
  <1> HIDE DEF bs
  <1>2. /\ G!Place(bs, l) \in Seq(IRBlock) /\ G!Place(bs, l) # <<>>
        /\ G!Names(G!Place(bs, l)) = G!Names(bs) \cup {l} /\ Jumps(G!Place(bs, l)) = Jumps(bs)
    BY <1>1, PlaceLabels
  <1>3. QED
    BY <1>1, <1>2 DEF G!Finish, bs

(* The labels one construct makes.                                         *)
Within(l, n) == lblCnt <= l.no /\ l.no < lblCnt + n

LEMMA FreshLabels ==
  ASSUME lblCnt \in Nat,
         NEW p0 \in G!Prefixes \ {"entry", "none"}, NEW p1 \in G!Prefixes \ {"entry", "none"},
         NEW p2 \in G!Prefixes \ {"entry", "none"},
         NEW a, a = G!Label(0, p0), NEW b, b = G!Label(1, p1), NEW c, c = G!Label(2, p2)
  PROVE  /\ {a, b, c} \subseteq G!Labels
         /\ a # b /\ a # c /\ b # c
         /\ a # G!NoLabel /\ b # G!NoLabel /\ c # G!NoLabel
         /\ a # G!Entry /\ b # G!Entry /\ c # G!Entry
         /\ Within(a, 1) /\ Within(a, 2) /\ Within(b, 2)
         /\ Within(a, 3) /\ Within(b, 3) /\ Within(c, 3)
  <1>1. /\ a \in G!Labels /\ a.no = lblCnt + 0 /\ a \notin {G!Entry, G!NoLabel}
        /\ b \in G!Labels /\ b.no = lblCnt + 1 /\ b \notin {G!Entry, G!NoLabel}
        /\ c \in G!Labels /\ c.no = lblCnt + 2 /\ c \notin {G!Entry, G!NoLabel}
    BY FreshLabel
  <1>2. a.no # b.no /\ a.no # c.no /\ b.no # c.no
    BY <1>1
  <1>3. a # b /\ a # c /\ b # c
    BY <1>2, Zenon
  <1>4. /\ Within(a, 1) /\ Within(a, 2) /\ Within(b, 2)
        /\ Within(a, 3) /\ Within(b, 3) /\ Within(c, 3)
    BY <1>1 DEF Within
  <1>5. QED
    BY <1>1, <1>3, <1>4

-----------------------------------------------------------------------------
(* The labels and blocks of the condition of an if.                        *)
LEMMA OpenIfFacts ==
  ASSUME NEW bs \in Seq(IRBlock), bs # <<>>, lblCnt \in Nat, G!OpenIf(bs)
  PROVE  LET t == G!Label(0, "if_true") IN
         /\ G!ThenFrame \in IRFrame /\ Shaped(G!ThenFrame) /\ G!ThenFrame.kind = "then"
         /\ Settles(G!ThenFrame) = {G!Label(1, "if_false"), G!Label(2, "if_end")}
         /\ {t} \in SUBSET G!Labels /\ {t} \cap Settles(G!ThenFrame) = {}
         /\ \A l \in {t} \cup Settles(G!ThenFrame) :
              lblCnt <= l.no /\ l.no < lblCnt + 3 /\ l # G!Entry
         /\ lblCnt' = lblCnt + 3
         /\ blocks' \in Seq(IRBlock) /\ blocks' # <<>>
         /\ G!Names(blocks') = G!Names(bs) \cup {t}
         /\ Jumps(blocks') = Jumps(bs) \cup {t, G!Label(1, "if_false")}
  <1> DEFINE t == G!Label(0, "if_true")
             e == G!Label(1, "if_false")
             d == G!Label(2, "if_end")
             cs == G!JumpTo(bs, {t, e})
  <1>1. /\ {t, e, d} \subseteq G!Labels
        /\ t # e /\ t # d /\ e # d /\ e # G!NoLabel /\ d # G!NoLabel
        /\ t # G!Entry /\ e # G!Entry /\ d # G!Entry
        /\ Within(t, 3) /\ Within(e, 3) /\ Within(d, 3)
    <2>1. {"if_true", "if_false", "if_end"} \subseteq G!Prefixes \ {"entry", "none"}
      BY DEF G!Prefixes
    <2>2. QED
      BY <2>1, FreshLabels
  <1>2. "then" \in G!Kinds /\ "then" \notin G!LoopKinds /\ "then" \in TwoLabels
    BY DEF G!Kinds, G!StatementKinds, G!LoopKinds, TwoLabels
  <1>3. G!ThenFrame = G!Frame("then", G!NoLabel, e, d)
    BY DEF G!ThenFrame
  <1>4. lblCnt' = lblCnt + 3 /\ blocks' = G!Place(cs, t)
    BY DEF G!OpenIf, G!MakeLabels
  <1> HIDE DEF t, e, d
  <1>5. /\ G!ThenFrame \in IRFrame /\ G!ThenFrame.kind = "then"
        /\ G!ThenFrame.next = e /\ G!ThenFrame.end = d
    BY <1>1, <1>2, <1>3, FrameFacts, NoLabelIsLabel
  <1>6. Shaped(G!ThenFrame) /\ Settles(G!ThenFrame) = {e, d}
    BY <1>1, <1>2, <1>5 DEF Shaped, Settles
  <1>7. t \notin {e, d}
    BY <1>1
  <1>8. /\ cs \in Seq(IRBlock) /\ cs # <<>> /\ G!Names(cs) = G!Names(bs)
        /\ Jumps(cs) = Jumps(bs) \cup {t, e}
    BY <1>1, JumpToLabels
  <1> HIDE DEF cs
  <1>9. /\ blocks' \in Seq(IRBlock) /\ blocks' # <<>>
        /\ G!Names(blocks') = G!Names(bs) \cup {t} /\ Jumps(blocks') = Jumps(bs) \cup {t, e}
    BY <1>1, <1>4, <1>8, PlaceLabels
  <1>10. \A l \in {t, e, d} : lblCnt <= l.no /\ l.no < lblCnt + 3 /\ l # G!Entry
    BY <1>1 DEF Within
  <1>11. QED
    BY <1>1, <1>4, <1>5, <1>6, <1>7, <1>9, <1>10 DEF t, e, d

LEMMA EnterIfIRInv == ASSUME IRInv, G!EnterIf PROVE IRInv'
  <1> DEFINE t == G!Label(0, "if_true")
             f == G!ThenFrame
  <1>1. irFrames # <<>> /\ blocks \in Seq(IRBlock) /\ blocks # <<>> /\ lblCnt \in Nat
    BY TopFrame DEF G!EnterIf, G!Inside
  <1>2. G!OpenIf(blocks)
    BY DEF G!EnterIf
  <1>3. /\ f \in IRFrame /\ Shaped(f) /\ f.kind = "then"
        /\ {t} \in SUBSET G!Labels /\ {t} \cap Settles(f) = {}
        /\ \A l \in {t} \cup Settles(f) : lblCnt <= l.no /\ l.no < lblCnt + 3 /\ l # G!Entry
        /\ lblCnt' = lblCnt + 3
        /\ blocks' \in Seq(IRBlock) /\ blocks' # <<>>
        /\ G!Names(blocks') = G!Names(blocks) \cup {t}
        /\ Jumps(blocks') \subseteq Jumps(blocks) \cup {t} \cup Settles(f)
    BY <1>1, <1>2, OpenIfFacts
  <1>4. irFrames' = Append(irFrames, f) /\ UNCHANGED <<inFunction, loopStack, nullDeref>>
    BY DEF G!EnterIf, G!Push
  <1> HIDE DEF t, f
  <1>5. f.kind \notin G!LoopKinds
    BY <1>3 DEF G!LoopKinds
  <1>6. QED
    BY <1>1, <1>3, <1>4, <1>5, PushIRInv

LEMMA EnterTryIRInv == ASSUME IRInv, G!EnterTry PROVE IRInv'
  <1> DEFINE t == G!Label(0, "try")
             c == G!Label(1, "catch")
             d == G!Label(2, "try_end")
             f == G!Frame("try", G!NoLabel, c, d)
  <1>1. irFrames # <<>> /\ blocks \in Seq(IRBlock) /\ lblCnt \in Nat
    BY TopFrame DEF G!EnterTry, G!Inside
  <1>2. /\ {t, c, d} \subseteq G!Labels
        /\ t # c /\ t # d /\ c # d /\ c # G!NoLabel /\ d # G!NoLabel
        /\ t # G!Entry /\ c # G!Entry /\ d # G!Entry
        /\ Within(t, 3) /\ Within(c, 3) /\ Within(d, 3)
    <2>1. {"try", "catch", "try_end"} \subseteq G!Prefixes \ {"entry", "none"}
      BY DEF G!Prefixes
    <2>2. QED
      BY <1>1, <2>1, FreshLabels
  <1>3. /\ irFrames' = Append(irFrames, f) /\ lblCnt' = lblCnt + 3
        /\ blocks' = G!Place(blocks, t)
        /\ UNCHANGED <<inFunction, loopStack, nullDeref>>
    BY DEF G!EnterTry, G!Push, G!MakeLabels
  <1> HIDE DEF t, c, d
  <1>4. /\ "try" \in G!Kinds /\ "try" \notin G!LoopKinds /\ "try" \in TwoLabels
    BY DEF G!Kinds, G!StatementKinds, G!LoopKinds, TwoLabels
  <1>5. f \in IRFrame /\ f.kind = "try" /\ f.next = c /\ f.end = d
    BY <1>2, <1>4, FrameFacts, NoLabelIsLabel
  <1> HIDE DEF f
  <1>6. Shaped(f) /\ Settles(f) = {c, d}
    BY <1>2, <1>4, <1>5 DEF Shaped, Settles
  <1>7. /\ blocks' \in Seq(IRBlock) /\ blocks' # <<>>
        /\ G!Names(blocks') = G!Names(blocks) \cup {t} /\ Jumps(blocks') = Jumps(blocks)
    BY <1>1, <1>2, <1>3, PlaceLabels
  <1>8. \A l \in {t} \cup Settles(f) : lblCnt <= l.no /\ l.no < lblCnt + 3 /\ l # G!Entry
    BY <1>2, <1>6 DEF Within
  <1>9. {t} \in SUBSET G!Labels /\ {t} \cap Settles(f) = {}
    BY <1>2, <1>6
  <1>10. /\ Jumps(blocks') \subseteq Jumps(blocks) \cup {t} \cup Settles(f)
         /\ f.kind \notin {"fn", "type", "case"} \cup G!LoopKinds
    BY <1>4, <1>5, <1>7
  <1>11. QED
    BY <1>1, <1>3, <1>5, <1>6, <1>7, <1>8, <1>9, <1>10, PushIRInv

LEMMA EnterMatchIRInv == ASSUME IRInv, G!EnterMatch PROVE IRInv'
  <1> DEFINE d == G!Label(0, "match_end")
             f == G!Frame("match", G!NoLabel, G!NoLabel, d)
  <1>1. irFrames # <<>> /\ blocks \in Seq(IRBlock) /\ blocks # <<>> /\ lblCnt \in Nat
    BY TopFrame DEF G!EnterMatch, G!Inside
  <1>2. d \in G!Labels /\ d # G!NoLabel /\ d # G!Entry /\ Within(d, 1)
    <2>1. "match_end" \in G!Prefixes \ {"entry", "none"}
      BY DEF G!Prefixes
    <2>2. QED
      BY <1>1, <2>1, FreshLabels
  <1>3. /\ irFrames' = Append(irFrames, f) /\ lblCnt' = lblCnt + 1 /\ blocks' = blocks
        /\ UNCHANGED <<inFunction, loopStack, nullDeref>>
    BY DEF G!EnterMatch, G!Push, G!MakeLabels
  <1> HIDE DEF d
  <1>4. /\ "match" \in G!Kinds /\ "match" \notin G!LoopKinds /\ "match" \notin TwoLabels
    BY DEF G!Kinds, G!StatementKinds, G!LoopKinds, TwoLabels
  <1>5. f \in IRFrame /\ f.kind = "match" /\ f.next = G!NoLabel /\ f.end = d
    BY <1>2, <1>4, FrameFacts, NoLabelIsLabel
  <1> HIDE DEF f
  <1>6. Shaped(f) /\ Settles(f) = {d}
    BY <1>2, <1>4, <1>5 DEF Shaped, Settles
  <1>7. \A l \in {} \cup Settles(f) : lblCnt <= l.no /\ l.no < lblCnt + 1 /\ l # G!Entry
    BY <1>2, <1>6 DEF Within
  <1>8. {} \in SUBSET G!Labels /\ {} \cap Settles(f) = {}
    OBVIOUS
  <1>9. G!Names(blocks') = G!Names(blocks) \cup {} /\ Jumps(blocks') = Jumps(blocks)
    BY <1>3
  <1>10. QED
    BY <1>1, <1>3, <1>4, <1>5, <1>6, <1>7, <1>8, <1>9, PushIRInv

LEMMA EnterCaseIRInv ==
  ASSUME IRInv, NEW pattern \in BOOLEAN, G!EnterCase(pattern)
  PROVE  IRInv'
  <1> DEFINE a == G!Label(0, "case")
             c == G!Label(1, "case_next")
             f == G!Frame("case", G!NoLabel, c, G!Top(irFrames).end)
             bs == IF pattern THEN G!JumpTo(blocks, {a, c}) ELSE blocks
  <1>1. /\ irFrames # <<>> /\ G!Top(irFrames).kind = "match"
        /\ blocks \in Seq(IRBlock) /\ blocks # <<>> /\ lblCnt \in Nat
        /\ G!Top(irFrames).end \in G!Labels /\ G!Top(irFrames).end # G!NoLabel
        /\ G!Top(irFrames).end \in OwedBy(irFrames)
    BY TopFrame DEF G!EnterCase, G!Inside, Shaped
  <1>2. /\ {a, c} \subseteq G!Labels
        /\ a # c /\ c # G!NoLabel /\ a # G!Entry /\ c # G!Entry
        /\ Within(a, 2) /\ Within(c, 2)
    <2>1. {"case", "case_next"} \subseteq G!Prefixes \ {"entry", "none"}
      BY DEF G!Prefixes
    <2>2. QED
      BY <1>1, <2>1, FreshLabels
  <1>3. /\ irFrames' = Append(irFrames, f) /\ lblCnt' = lblCnt + 2 /\ blocks' = G!Place(bs, a)
        /\ UNCHANGED <<inFunction, loopStack, nullDeref>>
    BY DEF G!EnterCase, G!Push, G!MakeLabels
  <1>4. G!Top(irFrames).end # c
    <2>1. Sound(irFrames, G!Names(blocks), Jumps(blocks), lblCnt, loopStack)
      BY DEF IRInv
    <2>2. G!Top(irFrames).end.no < lblCnt
      BY <1>1, <2>1 DEF Sound
    <2>3. ~(G!Top(irFrames).end.no >= lblCnt)
      BY <1>1, <2>2 DEF G!Labels
    <2>4. QED
      BY <1>2, <2>3 DEF Within
  <1> HIDE DEF a, c
  <1>5. /\ "case" \in G!Kinds /\ "case" \notin G!LoopKinds /\ "case" \in TwoLabels
    BY DEF G!Kinds, G!StatementKinds, G!LoopKinds, TwoLabels
  <1>6. f \in IRFrame /\ f.kind = "case" /\ f.next = c /\ f.end = G!Top(irFrames).end
    BY <1>1, <1>2, <1>5, FrameFacts, NoLabelIsLabel
  <1> HIDE DEF f
  <1>7. Shaped(f) /\ Settles(f) = {c}
    BY <1>1, <1>2, <1>4, <1>5, <1>6 DEF Shaped, Settles
  <1>8. /\ bs \in Seq(IRBlock) /\ bs # <<>> /\ G!Names(bs) = G!Names(blocks)
        /\ Jumps(bs) \subseteq Jumps(blocks) \cup {a, c}
    <2>1. CASE pattern = TRUE
      BY <1>1, <1>2, <2>1, JumpToLabels
    <2>2. CASE pattern = FALSE
      BY <1>1, <2>2
    <2>3. QED
      BY <2>1, <2>2
  <1> HIDE DEF bs
  <1>9. /\ blocks' \in Seq(IRBlock) /\ blocks' # <<>>
        /\ G!Names(blocks') = G!Names(blocks) \cup {a}
        /\ Jumps(blocks') \subseteq Jumps(blocks) \cup {a} \cup Settles(f)
    BY <1>2, <1>3, <1>7, <1>8, PlaceLabels
  <1>10. \A l \in {a} \cup Settles(f) : lblCnt <= l.no /\ l.no < lblCnt + 2 /\ l # G!Entry
    BY <1>2, <1>7 DEF Within
  <1>11. {a} \in SUBSET G!Labels /\ {a} \cap Settles(f) = {}
    BY <1>2, <1>7
  <1>12. QED
    BY <1>1, <1>3, <1>5, <1>6, <1>7, <1>9, <1>10, <1>11, PushIRInv

LEMMA EnterTestedIRInv ==
  ASSUME IRInv, NEW kind \in G!LoopKinds,
         NEW cond \in G!HeadPrefix, NEW body \in G!Prefixes \ {"entry", "none"},
         NEW end \in G!Prefixes \ {"entry", "none"}, G!EnterTested(kind, cond, body, end)
  PROVE  IRInv'
  <1> DEFINE c == G!Label(0, cond)
             b == G!Label(1, body)
             e == G!Label(2, end)
             f == G!Frame(kind, c, G!NoLabel, e)
             bs1 == G!JumpTo(blocks, {c})
             bs2 == G!Place(bs1, c)
             bs3 == G!JumpTo(bs2, {b, e})
  <1>1. irFrames # <<>> /\ blocks \in Seq(IRBlock) /\ blocks # <<>> /\ lblCnt \in Nat
    BY TopFrame DEF G!EnterTested, G!Inside
  <1>2. /\ {c, b, e} \subseteq G!Labels
        /\ c # b /\ c # e /\ b # e /\ e # G!NoLabel
        /\ c # G!Entry /\ b # G!Entry /\ e # G!Entry
        /\ Within(c, 3) /\ Within(b, 3) /\ Within(e, 3)
        /\ c.prefix \in G!HeadPrefix
    <2>1. G!HeadPrefix \subseteq G!Prefixes \ {"entry", "none"}
      BY DEF G!HeadPrefix, G!Prefixes
    <2>2. c.prefix \in G!HeadPrefix
      BY DEF G!Label
    <2>3. QED
      BY <1>1, <2>1, <2>2, FreshLabels
  <1>3. /\ irFrames' = Append(irFrames, f) /\ lblCnt' = lblCnt + 3 /\ blocks' = G!Place(bs3, b)
        /\ loopStack' = Append(loopStack, [continueLabel |-> c, breakLabel |-> e])
        /\ UNCHANGED <<inFunction, nullDeref>>
    BY DEF G!EnterTested, G!Push, G!MakeLabels
  <1> HIDE DEF c, b, e
  <1>4. kind \in G!Kinds \ {"fn", "type", "case"} /\ kind \notin TwoLabels
    BY DEF G!Kinds, G!StatementKinds, G!LoopKinds, TwoLabels
  <1>5. f \in IRFrame /\ f.kind = kind /\ f.head = c /\ f.next = G!NoLabel /\ f.end = e
    BY <1>2, <1>4, FrameFacts, NoLabelIsLabel
  <1> HIDE DEF f
  <1>6. Shaped(f) /\ Settles(f) = {e}
    BY <1>2, <1>4, <1>5 DEF Shaped, Settles
  <1>7. /\ bs1 \in Seq(IRBlock) /\ bs1 # <<>> /\ G!Names(bs1) = G!Names(blocks)
        /\ Jumps(bs1) = Jumps(blocks) \cup {c}
    BY <1>1, <1>2, JumpToLabels
  <1> HIDE DEF bs1
  <1>8. /\ bs2 \in Seq(IRBlock) /\ bs2 # <<>> /\ G!Names(bs2) = G!Names(blocks) \cup {c}
        /\ Jumps(bs2) = Jumps(blocks) \cup {c}
    BY <1>2, <1>7, PlaceLabels
  <1> HIDE DEF bs2
  <1>9. /\ bs3 \in Seq(IRBlock) /\ bs3 # <<>> /\ G!Names(bs3) = G!Names(blocks) \cup {c}
        /\ Jumps(bs3) = Jumps(blocks) \cup {c} \cup {b, e}
    BY <1>2, <1>8, JumpToLabels
  <1> HIDE DEF bs3
  <1>10. /\ blocks' \in Seq(IRBlock) /\ blocks' # <<>>
         /\ G!Names(blocks') = G!Names(blocks) \cup {c} \cup {b}
         /\ Jumps(blocks') = Jumps(blocks) \cup {c} \cup {b, e}
    BY <1>2, <1>3, <1>9, PlaceLabels
  <1>11. /\ G!Names(blocks') = G!Names(blocks) \cup {c, b}
         /\ Jumps(blocks') \subseteq Jumps(blocks) \cup {c, b} \cup Settles(f)
    BY <1>6, <1>10
  <1>12. \A l \in {c, b} \cup Settles(f) : lblCnt <= l.no /\ l.no < lblCnt + 3 /\ l # G!Entry
    BY <1>2, <1>6 DEF Within
  <1>13. {c, b} \in SUBSET G!Labels /\ {c, b} \cap Settles(f) = {} /\ f.head \in {c, b}
    BY <1>2, <1>5, <1>6
  <1>14. QED
    BY <1>1, <1>3, <1>4, <1>5, <1>6, <1>10, <1>11, <1>12, <1>13, PushIRInv

LEMMA EnterLoopIRInv == ASSUME IRInv, G!EnterLoop PROVE IRInv'
  <1> DEFINE b == G!Label(0, "loop_body")
             e == G!Label(1, "loop_end")
             f == G!Frame("loop", b, G!NoLabel, e)
             bs == G!JumpTo(blocks, {b})
  <1>1. irFrames # <<>> /\ blocks \in Seq(IRBlock) /\ blocks # <<>> /\ lblCnt \in Nat
    BY TopFrame DEF G!EnterLoop, G!Inside
  <1>2. /\ {b, e} \subseteq G!Labels
        /\ b # e /\ e # G!NoLabel /\ b # G!Entry /\ e # G!Entry
        /\ Within(b, 2) /\ Within(e, 2) /\ b.prefix \in G!HeadPrefix
    <2>1. {"loop_body", "loop_end"} \subseteq G!Prefixes \ {"entry", "none"}
      BY DEF G!Prefixes
    <2>2. b.prefix \in G!HeadPrefix
      BY DEF G!Label, G!HeadPrefix
    <2>3. QED
      BY <1>1, <2>1, <2>2, FreshLabels
  <1>3. /\ irFrames' = Append(irFrames, f) /\ lblCnt' = lblCnt + 2 /\ blocks' = G!Place(bs, b)
        /\ loopStack' = Append(loopStack, [continueLabel |-> b, breakLabel |-> e])
        /\ UNCHANGED <<inFunction, nullDeref>>
    BY DEF G!EnterLoop, G!Push, G!MakeLabels
  <1> HIDE DEF b, e
  <1>4. "loop" \in G!Kinds /\ "loop" \notin TwoLabels /\ "loop" \in G!LoopKinds
    BY DEF G!Kinds, G!StatementKinds, G!LoopKinds, TwoLabels
  <1>5. f \in IRFrame /\ f.kind = "loop" /\ f.head = b /\ f.next = G!NoLabel /\ f.end = e
    BY <1>2, <1>4, FrameFacts, NoLabelIsLabel
  <1> HIDE DEF f
  <1>6. Shaped(f) /\ Settles(f) = {e}
    BY <1>2, <1>4, <1>5 DEF Shaped, Settles
  <1>7. /\ bs \in Seq(IRBlock) /\ bs # <<>> /\ G!Names(bs) = G!Names(blocks)
        /\ Jumps(bs) = Jumps(blocks) \cup {b}
    BY <1>1, <1>2, JumpToLabels
  <1> HIDE DEF bs
  <1>8. /\ blocks' \in Seq(IRBlock) /\ blocks' # <<>>
        /\ G!Names(blocks') = G!Names(blocks) \cup {b} /\ Jumps(blocks') = Jumps(blocks) \cup {b}
    BY <1>2, <1>3, <1>7, PlaceLabels
  <1>9. \A l \in {b} \cup Settles(f) : lblCnt <= l.no /\ l.no < lblCnt + 2 /\ l # G!Entry
    BY <1>2, <1>6 DEF Within
  <1>10. {b} \in SUBSET G!Labels /\ {b} \cap Settles(f) = {} /\ f.head \in {b}
    BY <1>2, <1>5, <1>6
  <1>11. QED
    BY <1>1, <1>3, <1>4, <1>5, <1>6, <1>8, <1>9, <1>10, PushIRInv

-----------------------------------------------------------------------------
(* Leaving: what was owed gets its block.                                  *)
LEMMA LeaveThenIRInv == ASSUME IRInv, G!LeaveThen PROVE IRInv'
  <1> DEFINE f == G!Top(irFrames)
             bs1 == G!Finish(f.next)
             bs2 == G!JumpTo(bs1, {f.end})
  <1>1. /\ irFrames # <<>> /\ f.kind = "then" /\ Shaped(f)
        /\ f.next \in G!Labels /\ f.end \in G!Labels /\ f.end \in OwedBy(irFrames)
    BY TopFrame DEF G!LeaveThen, G!Inside
  <1>2. /\ "then" \notin G!LoopKinds /\ "then" \in TwoLabels
    BY DEF G!LoopKinds, TwoLabels
  <1>3. Settles(f) = {f.next, f.end}
    BY <1>1, <1>2 DEF Shaped, Settles
  <1>4. /\ irFrames' = G!Rest(irFrames) /\ blocks' = G!Place(bs2, f.end)
        /\ UNCHANGED <<inFunction, lblCnt, loopStack, nullDeref>>
    BY DEF G!LeaveThen
  <1>5. /\ bs1 \in Seq(IRBlock) /\ bs1 # <<>> /\ G!Names(bs1) = G!Names(blocks) \cup {f.next}
        /\ Jumps(bs1) = Jumps(blocks) \cup {f.end}
    BY <1>1, FinishLabels
  <1> HIDE DEF bs1
  <1>6. /\ bs2 \in Seq(IRBlock) /\ bs2 # <<>> /\ G!Names(bs2) = G!Names(blocks) \cup {f.next}
        /\ Jumps(bs2) = Jumps(blocks) \cup {f.end} \cup {f.end}
    BY <1>1, <1>5, JumpToLabels
  <1> HIDE DEF bs2
  <1>7. /\ blocks' \in Seq(IRBlock) /\ blocks' # <<>>
        /\ G!Names(blocks') = G!Names(blocks) \cup {f.next} \cup {f.end}
        /\ Jumps(blocks') = Jumps(blocks) \cup {f.end} \cup {f.end}
    BY <1>1, <1>4, <1>6, PlaceLabels
  <1>8. /\ G!Names(blocks') = G!Names(blocks) \cup Settles(f)
        /\ Jumps(blocks') \subseteq Jumps(blocks) \cup G!Names(blocks) \cup OwedBy(irFrames)
    BY <1>1, <1>3, <1>7
  <1>9. f.kind # "fn" /\ f.kind \notin G!LoopKinds
    BY <1>1, <1>2
  <1>10. QED
    BY <1>1, <1>4, <1>7, <1>8, <1>9, PopIRInv

LEMMA LeaveBlockIRInv == ASSUME IRInv, G!LeaveBlock PROVE IRInv'
  <1> DEFINE f == G!Top(irFrames)
  <1>1. /\ irFrames # <<>> /\ f.kind \in {"else", "elseif", "catch"} /\ Shaped(f)
        /\ f.end \in G!Labels
    BY TopFrame DEF G!LeaveBlock, G!Inside
  <1>2. f.kind \notin G!LoopKinds \cup TwoLabels \cup {"fn", "case"}
    BY <1>1 DEF G!LoopKinds, TwoLabels
  <1>3. Settles(f) = {f.end} /\ f.end \in OwedBy(irFrames)
    BY <1>1, <1>2, TopFrame DEF Shaped, Settles
  <1>4. /\ irFrames' = G!Rest(irFrames) /\ blocks' = G!Finish(f.end)
        /\ UNCHANGED <<inFunction, lblCnt, loopStack, nullDeref>>
    BY DEF G!LeaveBlock
  <1>5. /\ blocks' \in Seq(IRBlock) /\ blocks' # <<>>
        /\ G!Names(blocks') = G!Names(blocks) \cup Settles(f)
        /\ Jumps(blocks') = Jumps(blocks) \cup {f.end}
    BY <1>1, <1>3, <1>4, FinishLabels
  <1>6. Jumps(blocks') \subseteq Jumps(blocks) \cup G!Names(blocks) \cup OwedBy(irFrames)
    BY <1>3, <1>5
  <1>7. QED
    BY <1>1, <1>2, <1>4, <1>5, <1>6, PopIRInv

LEMMA LeaveCaseIRInv == ASSUME IRInv, G!LeaveCase PROVE IRInv'
  <1> DEFINE f == G!Top(irFrames)
  <1>1. /\ irFrames # <<>> /\ f.kind = "case" /\ Shaped(f)
        /\ f.next \in G!Labels /\ f.end \in OwedBy(irFrames)
    BY TopFrame DEF G!LeaveCase, G!Inside
  <1>2. "case" \notin G!LoopKinds /\ "case" \in TwoLabels
    BY DEF G!LoopKinds, TwoLabels
  <1>3. Settles(f) = {f.next}
    BY <1>1, <1>2 DEF Shaped, Settles
  <1>4. /\ irFrames' = G!Rest(irFrames) /\ blocks' = G!Finish(f.next)
        /\ UNCHANGED <<inFunction, lblCnt, loopStack, nullDeref>>
    BY DEF G!LeaveCase
  <1>5. /\ blocks' \in Seq(IRBlock) /\ blocks' # <<>>
        /\ G!Names(blocks') = G!Names(blocks) \cup Settles(f)
        /\ Jumps(blocks') = Jumps(blocks) \cup {f.end}
    BY <1>1, <1>3, <1>4, FinishLabels
  <1>6. Jumps(blocks') \subseteq Jumps(blocks) \cup G!Names(blocks) \cup OwedBy(irFrames)
    BY <1>1, <1>5
  <1>7. f.kind # "fn" /\ f.kind \notin G!LoopKinds
    BY <1>1, <1>2
  <1>8. QED
    BY <1>1, <1>4, <1>5, <1>6, <1>7, PopIRInv

LEMMA LeaveMatchIRInv == ASSUME IRInv, G!LeaveMatch PROVE IRInv'
  <1> DEFINE f == G!Top(irFrames)
  <1>1. /\ irFrames # <<>> /\ f.kind = "match" /\ Shaped(f) /\ f.end \in G!Labels
        /\ blocks \in Seq(IRBlock)
    BY TopFrame DEF G!LeaveMatch, G!Inside
  <1>2. "match" \notin G!LoopKinds /\ "match" \notin TwoLabels
    BY DEF G!LoopKinds, TwoLabels
  <1>3. Settles(f) = {f.end}
    BY <1>1, <1>2 DEF Shaped, Settles
  <1>4. /\ irFrames' = G!Rest(irFrames) /\ blocks' = G!Place(blocks, f.end)
        /\ UNCHANGED <<inFunction, lblCnt, loopStack, nullDeref>>
    BY DEF G!LeaveMatch
  <1>5. /\ blocks' \in Seq(IRBlock) /\ blocks' # <<>>
        /\ G!Names(blocks') = G!Names(blocks) \cup Settles(f)
        /\ Jumps(blocks') = Jumps(blocks)
    BY <1>1, <1>3, <1>4, PlaceLabels
  <1>6. Jumps(blocks') \subseteq Jumps(blocks) \cup G!Names(blocks) \cup OwedBy(irFrames)
    BY <1>5
  <1>7. f.kind # "fn" /\ f.kind \notin G!LoopKinds
    BY <1>1, <1>2
  <1>8. QED
    BY <1>1, <1>4, <1>5, <1>6, <1>7, PopIRInv

LEMMA LeaveLoopIRInv == ASSUME IRInv, G!LeaveLoop PROVE IRInv'
  <1> DEFINE f == G!Top(irFrames)
             bs == G!JumpTo(blocks, {f.head})
  <1>1. /\ irFrames # <<>> /\ f.kind \in G!LoopKinds /\ Shaped(f)
        /\ f.end \in G!Labels /\ f.head \in G!Labels /\ f.head \in G!Names(blocks)
        /\ blocks \in Seq(IRBlock) /\ blocks # <<>>
    BY TopFrame DEF G!LeaveLoop, G!Inside
  <1>2. f.kind \notin TwoLabels \cup {"fn", "case"}
    BY <1>1 DEF G!LoopKinds, TwoLabels
  <1>3. Settles(f) = {f.end}
    BY <1>1, <1>2 DEF Shaped, Settles
  <1>4. /\ irFrames' = G!Rest(irFrames) /\ blocks' = G!Place(bs, f.end) /\ loopStack' = G!Rest(loopStack)
        /\ UNCHANGED <<inFunction, lblCnt, nullDeref>>
    BY DEF G!LeaveLoop
  <1>5. /\ bs \in Seq(IRBlock) /\ bs # <<>> /\ G!Names(bs) = G!Names(blocks)
        /\ Jumps(bs) = Jumps(blocks) \cup {f.head}
    BY <1>1, JumpToLabels
  <1> HIDE DEF bs
  <1>6. /\ blocks' \in Seq(IRBlock) /\ blocks' # <<>>
        /\ G!Names(blocks') = G!Names(blocks) \cup Settles(f)
        /\ Jumps(blocks') = Jumps(blocks) \cup {f.head}
    BY <1>1, <1>3, <1>4, <1>5, PlaceLabels
  <1>7. Jumps(blocks') \subseteq Jumps(blocks) \cup G!Names(blocks) \cup OwedBy(irFrames)
    BY <1>1, <1>6
  <1>8. QED
    BY <1>1, <1>2, <1>4, <1>6, <1>7, PopIRInv

(* What a second body leaves behind: see ReplaceSound.                     *)
LEMMA SecondSound ==
  ASSUME IRInv, G!Inside(irFrames, {"then", "try"}),
         NEW kind \in {"else", "elseif", "catch"}
  PROVE  LET f == G!Top(irFrames)
             g == G!Frame(kind, G!NoLabel, G!NoLabel, f.end)
             bs == G!Finish(f.next)
         IN  /\ Sound(Append(G!Rest(irFrames), g), G!Names(bs), Jumps(bs), lblCnt, loopStack)
             /\ bs \in Seq(IRBlock) /\ bs # <<>>
             /\ Append(G!Rest(irFrames), g) # <<>>
  <1> DEFINE f == G!Top(irFrames)
             g == G!Frame(kind, G!NoLabel, G!NoLabel, f.end)
             bs == G!Finish(f.next)
  <1>1. /\ irFrames # <<>> /\ f.kind \in {"then", "try"}
        /\ f.next \in G!Labels /\ f.end \in G!Labels
        /\ Sound(irFrames, G!Names(blocks), Jumps(blocks), lblCnt, loopStack)
    BY TopFrame DEF G!Inside, IRInv
  <1>2. kind \in G!Kinds
    BY DEF G!Kinds, G!StatementKinds
  <1>3. g \in IRFrame /\ g.kind = kind /\ g.next = G!NoLabel /\ g.end = f.end
    BY <1>1, <1>2, FrameFacts, NoLabelIsLabel
  <1> HIDE DEF g
  <1>4. /\ bs \in Seq(IRBlock) /\ bs # <<>>
        /\ G!Names(bs) = G!Names(blocks) \cup {f.next}
        /\ Jumps(bs) = Jumps(blocks) \cup {g.end}
    BY <1>1, <1>3, FinishLabels
  <1> HIDE DEF bs
  <1>5. Sound(Append(G!Rest(irFrames), g), G!Names(blocks) \cup {f.next}, Jumps(bs), lblCnt, loopStack)
    BY <1>1, <1>3, <1>4, ReplaceSound
  <1>6. Append(G!Rest(irFrames), g) # <<>>
    <2>1. irFrames \in Seq(IRFrame)
      BY <1>1 DEF Sound
    <2>2. G!Rest(irFrames) \in Seq(IRFrame)
      BY <1>1, <2>1, GRestFacts
    <2>3. QED
      BY <1>3, <2>2
  <1>7. QED
    BY <1>4, <1>5, <1>6 DEF g, bs

LEMMA SecondBlockIRInv == ASSUME IRInv, G!SecondBlock PROVE IRInv'
  <1> DEFINE kind == IF G!Top(irFrames).kind = "then" THEN "else" ELSE "catch"
             g == G!Frame(kind, G!NoLabel, G!NoLabel, G!Top(irFrames).end)
  <1>1. G!Inside(irFrames, {"then", "try"}) /\ kind \in {"else", "elseif", "catch"}
    BY DEF G!SecondBlock
  <1>2. /\ irFrames' = Append(G!Rest(irFrames), g) /\ blocks' = G!Finish(G!Top(irFrames).next)
        /\ UNCHANGED <<inFunction, lblCnt, loopStack, nullDeref>>
    BY DEF G!SecondBlock
  <1> HIDE DEF kind
  <1>3. /\ Sound(irFrames', G!Names(blocks'), Jumps(blocks'), lblCnt, loopStack)
        /\ blocks' \in Seq(IRBlock) /\ blocks' # <<>> /\ irFrames' # <<>>
    BY <1>1, <1>2, SecondSound
  <1>4. QED
    BY <1>2, <1>3 DEF IRInv

LEMMA ElseIfIRInv == ASSUME IRInv, G!ElseIf PROVE IRInv'
  <1> DEFINE g  == G!Frame("elseif", G!NoLabel, G!NoLabel, G!Top(irFrames).end)
             gs == Append(G!Rest(irFrames), g)
             bs == G!Finish(G!Top(irFrames).next)
             t  == G!Label(0, "if_true")
             f  == G!ThenFrame
  <1>1. /\ irFrames # <<>> /\ G!Inside(irFrames, {"then", "try"})
        /\ G!Top(irFrames).end \in G!Labels /\ lblCnt \in Nat
    BY TopFrame DEF G!ElseIf, G!Inside
  <1>2. /\ G!OpenIf(bs) /\ irFrames' = G!Rest(irFrames) \o <<g, f>>
        /\ UNCHANGED <<inFunction, loopStack, nullDeref>>
    BY DEF G!ElseIf
  <1>3. /\ Sound(gs, G!Names(bs), Jumps(bs), lblCnt, loopStack)
        /\ bs \in Seq(IRBlock) /\ bs # <<>> /\ gs # <<>>
    BY <1>1, SecondSound
  <1>4. g \in IRFrame
    <2>1. "elseif" \in G!Kinds
      BY DEF G!Kinds
    <2>2. QED
      BY <1>1, <2>1, FrameFacts, NoLabelIsLabel
  <1>5. G!Rest(irFrames) \in Seq(IRFrame)
    <2>1. irFrames \in Seq(IRFrame)
      BY DEF IRInv, Sound
    <2>2. QED
      BY <1>1, <2>1, GRestFacts
  <1> HIDE DEF g, bs
  <1>6. /\ f \in IRFrame /\ Shaped(f) /\ f.kind = "then"
        /\ {t} \in SUBSET G!Labels /\ {t} \cap Settles(f) = {}
        /\ \A l \in {t} \cup Settles(f) : lblCnt <= l.no /\ l.no < lblCnt + 3 /\ l # G!Entry
        /\ lblCnt' = lblCnt + 3
        /\ blocks' \in Seq(IRBlock) /\ blocks' # <<>>
        /\ G!Names(blocks') = G!Names(bs) \cup {t}
        /\ Jumps(blocks') \subseteq Jumps(bs) \cup {t} \cup Settles(f)
    BY <1>1, <1>2, <1>3, OpenIfFacts
  <1> HIDE DEF t, f
  <1>7. irFrames' = Append(gs, f)
    BY <1>2, <1>4, <1>5, <1>6, ConcatTwo
  <1>8. f.kind \notin {"fn", "type", "case"} \cup G!LoopKinds
    BY <1>6 DEF G!LoopKinds
  <1>9. lblCnt + 3 \in Nat /\ lblCnt <= lblCnt + 3
    BY <1>1
  <1>10. gs \in Seq(IRFrame)
    BY <1>3 DEF Sound
  <1> HIDE DEF gs
  <1>11. Sound(Append(gs, f), G!Names(bs) \cup {t}, Jumps(blocks'), lblCnt + 3, loopStack)
    <2>1. PICK P : P = {t}
      OBVIOUS
    <2>2. /\ P \in SUBSET G!Labels /\ P \cap Settles(f) = {}
          /\ \A l \in P \cup Settles(f) : lblCnt <= l.no /\ l.no < lblCnt + 3 /\ l # G!Entry
          /\ Jumps(blocks') \subseteq Jumps(bs) \cup P \cup Settles(f)
      BY <1>6, <2>1
    <2>3. PICK k \in Nat : k = lblCnt + 3
      BY <1>9
    <2>4. /\ \A l \in P \cup Settles(f) : lblCnt <= l.no /\ l.no < k /\ l # G!Entry
          /\ lblCnt <= k
      BY <1>9, <2>2, <2>3
    <2>5. Sound(Append(gs, f), G!Names(bs) \cup P, Jumps(blocks'), k, loopStack)
      BY <1>3, <1>6, <1>8, <2>2, <2>4, PushPlain
    <2>6. QED
      BY <2>1, <2>3, <2>5
  <1>12. Sound(irFrames', G!Names(blocks'), Jumps(blocks'), lblCnt', loopStack')
    BY <1>2, <1>6, <1>7, <1>11
  <1>13. irFrames' # <<>>
    BY <1>6, <1>7, <1>10
  <1>14. QED
    BY <1>2, <1>6, <1>12, <1>13 DEF IRInv

LEMMA LoopJumpIRInv ==
  ASSUME IRInv, NEW which \in {"breakLabel", "continueLabel"}, G!LoopJump(which)
  PROVE  IRInv'
  <1>1. /\ UNCHANGED <<irFrames, inFunction, lblCnt, loopStack, nullDeref>>
        /\ irFrames # <<>>
    BY DEF G!LoopJump, G!Inside
  <1>2. /\ blocks \in Seq(IRBlock) /\ blocks # <<>>
        /\ Sound(irFrames, G!Names(blocks), Jumps(blocks), lblCnt, loopStack)
    BY <1>1, TopFrame DEF IRInv
  <1>3. CASE loopStack = <<>>
    <2>1. blocks' = blocks
      BY <1>3 DEF G!LoopJump
    <2>2. QED
      BY <1>1, <2>1 DEF IRInv
  <1>4. CASE loopStack # <<>>
    <2> DEFINE e == G!Top(loopStack)
               l == e[which]
    <2>1. /\ loopStack \in Seq(LoopEntry)
          /\ \A i \in DOMAIN loopStack :
               {loopStack[i].continueLabel, loopStack[i].breakLabel}
                 \subseteq G!Names(blocks) \cup OwedBy(irFrames)
      BY <1>2 DEF Sound
    <2>2. e = loopStack[Len(loopStack)] /\ Len(loopStack) \in DOMAIN loopStack /\ e \in LoopEntry
      BY <1>4, <2>1, GRestFacts
    <2> HIDE DEF e
    <2>3. /\ {e.continueLabel, e.breakLabel} \subseteq G!Names(blocks) \cup OwedBy(irFrames)
          /\ {e.continueLabel, e.breakLabel} \subseteq G!Labels
      BY <2>1, <2>2 DEF LoopEntry
    <2>4. l = e.continueLabel \/ l = e.breakLabel
      OBVIOUS
    <2>5. l \in G!Labels /\ l \in G!Names(blocks) \cup OwedBy(irFrames)
      BY <2>3, <2>4
    <2>6. blocks' = G!JumpTo(blocks, {l})
      BY <1>4 DEF G!LoopJump, e
    <2> HIDE DEF l
    <2>7. /\ blocks' \in Seq(IRBlock) /\ blocks' # <<>> /\ G!Names(blocks') = G!Names(blocks)
          /\ Jumps(blocks') = Jumps(blocks) \cup {l}
      BY <1>2, <2>5, <2>6, JumpToLabels
    <2>8. Sound(irFrames, G!Names(blocks), Jumps(blocks'), lblCnt, loopStack)
      BY <1>2, <2>5, <2>7 DEF Sound
    <2>9. Sound(irFrames', G!Names(blocks'), Jumps(blocks'), lblCnt', loopStack')
      BY <1>1, <2>7, <2>8
    <2>10. QED
      BY <1>1, <2>7, <2>9 DEF IRInv
  <1>5. QED
    BY <1>3, <1>4

(* No function is open: no blocks, and no loop is either.                  *)
LEMMA NothingOpen ==
  ASSUME NEW c \in Nat
  PROVE  Sound(<<>>, G!Names(<<>>), Jumps(<<>>), c, <<>>)
  <1>1. /\ G!Names(<<>>) = {} /\ Jumps(<<>>) = {} /\ OwedBy(<<>>) = {}
        /\ G!Enclosing(<<>>, G!LoopKinds) = {}
    BY DEF G!Names, Jumps, OwedBy, G!Enclosing
  <1>2. Cardinality(G!Enclosing(<<>>, G!LoopKinds)) = 0
    BY <1>1, FS_EmptySet
  <1>3. Stands(<<>>) /\ Apart(<<>>)
    BY DEF Stands, Apart
  <1>4. QED
    BY <1>1, <1>2, <1>3 DEF Sound

LEMMA EnterFunctionIRInv == ASSUME IRInv, G!EnterFunction PROVE IRInv'
  <1> DEFINE f == G!Frame("fn", G!NoLabel, G!NoLabel, G!NoLabel)
             b == G!Block(G!Entry)
  <1>1. /\ irFrames = <<>> /\ irFrames' = Append(irFrames, f) /\ blocks' = <<b>>
        /\ inFunction' = TRUE
        /\ UNCHANGED <<lblCnt, loopStack, nullDeref>>
    BY DEF G!EnterFunction, G!Push
  <1>2. /\ lblCnt \in Nat /\ loopStack \in Seq(LoopEntry)
        /\ Len(loopStack) = Cardinality(G!Enclosing(irFrames, G!LoopKinds))
    BY DEF IRInv, Sound
  <1>3. G!Enclosing(irFrames, G!LoopKinds) = {}
    BY <1>1 DEF G!Enclosing
  <1>4. loopStack = <<>>
    BY <1>2, <1>3, FS_EmptySet
  <1>5. "fn" \in G!Kinds /\ "fn" \notin G!LoopKinds /\ "fn" \notin TwoLabels
    BY DEF G!Kinds, G!StatementKinds, G!LoopKinds, TwoLabels
  <1>6. f \in IRFrame /\ f.kind = "fn" /\ f.next = G!NoLabel /\ f.end = G!NoLabel
    BY <1>5, FrameFacts, NoLabelIsLabel
  <1>7. b \in IRBlock /\ b.name = G!Entry /\ b.jumps = {}
    BY NoLabelIsLabel DEF G!Block, IRBlock
  <1> HIDE DEF f, b
  <1>8. /\ blocks' \in Seq(IRBlock) /\ blocks' # <<>>
        /\ G!Names(blocks') = {G!Entry} /\ Jumps(blocks') = {}
    BY <1>1, <1>7 DEF G!Names, Jumps
  <1>9. irFrames' = <<f>> /\ irFrames' \in Seq(IRFrame) /\ irFrames' # <<>> /\ DOMAIN irFrames' = {1}
    BY <1>1, <1>6
  <1>10. Shaped(f) /\ Settles(f) = {}
    BY <1>5, <1>6 DEF Shaped, Settles
  <1>11. Stands(irFrames') /\ Apart(irFrames')
    BY <1>6, <1>9 DEF Stands, Apart
  <1>12. OwedBy(irFrames') = {}
    BY <1>9, <1>10 DEF OwedBy
  <1>13. G!Enclosing(irFrames', G!LoopKinds) = {}
    BY <1>5, <1>6, <1>9 DEF G!Enclosing
  <1>14. Len(loopStack') = Cardinality(G!Enclosing(irFrames', G!LoopKinds))
    BY <1>1, <1>4, <1>13, FS_EmptySet
  <1>15. /\ \A i \in DOMAIN irFrames' :
              Shaped(irFrames'[i]) /\ (irFrames'[i].kind \in G!LoopKinds => irFrames'[i].head \in {G!Entry})
         /\ loopStack' = <<>>
    BY <1>1, <1>4, <1>5, <1>6, <1>9, <1>10
  <1>16. Sound(irFrames', {G!Entry}, {}, lblCnt, loopStack')
    BY <1>2, <1>9, <1>11, <1>12, <1>14, <1>15, NoLabelIsLabel DEF Sound
  <1>17. QED
    BY <1>1, <1>8, <1>9, <1>16 DEF IRInv

LEMMA LeaveFunctionIRInv == ASSUME IRInv, G!LeaveFunction PROVE IRInv'
  <1>1. /\ irFrames # <<>> /\ G!Top(irFrames).kind = "fn"
        /\ irFrames' = G!Rest(irFrames) /\ inFunction' = FALSE /\ blocks' = <<>>
        /\ UNCHANGED <<lblCnt, loopStack, nullDeref>>
    BY DEF G!LeaveFunction, G!Inside
  <1>2. /\ irFrames \in Seq(IRFrame) /\ Stands(irFrames) /\ lblCnt \in Nat
        /\ loopStack \in Seq(LoopEntry)
        /\ Len(loopStack) = Cardinality(G!Enclosing(irFrames, G!LoopKinds))
    BY DEF IRInv, Sound
  <1>3. /\ G!Top(irFrames) = irFrames[Len(irFrames)] /\ Len(irFrames) \in DOMAIN irFrames
        /\ DOMAIN irFrames = 1 .. Len(irFrames)
        /\ G!Rest(irFrames) \in Seq(IRFrame) /\ Len(G!Rest(irFrames)) = Len(irFrames) - 1
    BY <1>1, <1>2, GRestFacts
  <1>4. Len(irFrames) = 1
    BY <1>1, <1>2, <1>3 DEF Stands
  <1>5. G!Rest(irFrames) = <<>>
    BY <1>3, <1>4
  <1>6. G!Enclosing(irFrames, G!LoopKinds) = {}
    <2>1. DOMAIN irFrames = {1} /\ irFrames[1].kind = "fn"
      BY <1>1, <1>3, <1>4
    <2>2. QED
      BY <2>1 DEF G!Enclosing, G!LoopKinds
  <1>7. loopStack = <<>>
    BY <1>2, <1>6, FS_EmptySet
  <1>8. Sound(irFrames', G!Names(blocks'), Jumps(blocks'), lblCnt', loopStack')
    BY <1>1, <1>2, <1>5, <1>7, NothingOpen
  <1>9. blocks' \in Seq(IRBlock) /\ inFunction' \in BOOLEAN /\ nullDeref' \in BOOLEAN
    <2>1. <<>> \in Seq(IRBlock)
      OBVIOUS
    <2>2. blocks' \in Seq(IRBlock)
      BY <1>1, <2>1, Zenon
    <2>3. inFunction' \in BOOLEAN
      BY <1>1
    <2>4. nullDeref' \in BOOLEAN
      BY <1>1 DEF IRInv
    <2>5. QED
      BY <2>2, <2>3, <2>4
  <1>10. QED
    BY <1>1, <1>5, <1>8, <1>9, Zenon DEF IRInv

-----------------------------------------------------------------------------
LEMMA InitIRInv == G!Init => IRInv
  <1> SUFFICES ASSUME G!Init PROVE IRInv
    OBVIOUS
  <1>1. Sound(irFrames, G!Names(blocks), Jumps(blocks), lblCnt, loopStack)
    BY NothingOpen DEF G!Init
  <1>2. <<>> \in Seq(IRBlock)
    OBVIOUS
  <1>3. QED
    BY <1>1, <1>2, Zenon DEF G!Init, IRInv

LEMMA NextIRInv == IRInv /\ [G!Next]_(G!vars) => IRInv'
  <1> SUFFICES ASSUME IRInv, [G!Next]_(G!vars) PROVE IRInv'
    OBVIOUS
  <1>1. CASE \E init \in ConstInits : G!VisitConst(init)
    BY <1>1 DEF G!VisitConst, IRInv
  <1>2. CASE G!EnterFunction
    BY <1>2, EnterFunctionIRInv
  <1>3. CASE G!LeaveFunction
    BY <1>3, LeaveFunctionIRInv
  <1>4. CASE G!EnterIf
    BY <1>4, EnterIfIRInv
  <1>5. CASE G!LeaveThen
    BY <1>5, LeaveThenIRInv
  <1>6. CASE G!SecondBlock
    BY <1>6, SecondBlockIRInv
  <1>7. CASE G!ElseIf
    BY <1>7, ElseIfIRInv
  <1>8. CASE G!LeaveBlock
    BY <1>8, LeaveBlockIRInv
  <1>9. CASE G!EnterMatch
    BY <1>9, EnterMatchIRInv
  <1>10. CASE \E pattern \in BOOLEAN : G!EnterCase(pattern)
    BY <1>10, EnterCaseIRInv
  <1>11. CASE G!LeaveCase
    BY <1>11, LeaveCaseIRInv
  <1>12. CASE G!LeaveMatch
    BY <1>12, LeaveMatchIRInv
  <1>13. CASE G!EnterFor \/ G!EnterWhile
    <2>1. /\ {"for_cond", "for_body", "for_end"} \subseteq G!Prefixes \ {"entry", "none"}
          /\ {"while_cond", "while_body", "while_end"} \subseteq G!Prefixes \ {"entry", "none"}
          /\ {"for", "while"} \subseteq G!LoopKinds /\ {"for_cond", "while_cond"} \subseteq G!HeadPrefix
      BY DEF G!Prefixes, G!LoopKinds, G!HeadPrefix
    <2>2. QED
      BY <1>13, <2>1, EnterTestedIRInv DEF G!EnterFor, G!EnterWhile
  <1>14. CASE G!EnterLoop
    BY <1>14, EnterLoopIRInv
  <1>15. CASE G!LeaveLoop
    BY <1>15, LeaveLoopIRInv
  <1>16. CASE G!EnterTry
    BY <1>16, EnterTryIRInv
  <1>17. CASE G!Break \/ G!Continue
    BY <1>17, LoopJumpIRInv DEF G!Break, G!Continue
  <1>18. CASE UNCHANGED G!vars
    BY <1>18 DEF G!vars, IRInv
  <1>19. QED
    BY <1>1, <1>2, <1>3, <1>4, <1>5, <1>6, <1>7, <1>8, <1>9, <1>10, <1>11, <1>12, <1>13,
       <1>14, <1>15, <1>16, <1>17, <1>18 DEF G!Next

LEMMA SpecIRInv == G!Spec => []IRInv
  BY InitIRInv, NextIRInv, PTL DEF G!Spec

LEMMA IRInvTargets == IRInv => G!TargetsCovered
  <1> SUFFICES ASSUME IRInv PROVE G!TargetsCovered
    OBVIOUS
  <1>1. Sound(irFrames, G!Names(blocks), Jumps(blocks), lblCnt, loopStack)
    BY DEF IRInv
  <1>2. Jumps(blocks) \subseteq G!Names(blocks) \cup G!Owed
    BY <1>1, OwedIsOwedBy DEF Sound
  <1>3. QED
    BY <1>2 DEF G!TargetsCovered, Jumps

LEMMA IRInvFresh == IRInv => G!OwedIsFresh
  <1> SUFFICES ASSUME IRInv PROVE G!OwedIsFresh
    OBVIOUS
  <1>1. Sound(irFrames, G!Names(blocks), Jumps(blocks), lblCnt, loopStack)
    BY DEF IRInv
  <1>2. G!Owed = OwedBy(irFrames)
    BY <1>1, OwedIsOwedBy
  <1>3. QED
    BY <1>1, <1>2 DEF Sound, G!OwedIsFresh

(* The loop stack is empty just when no loop is open.                      *)
LEMMA LoopsListed ==
  ASSUME IRInv
  PROVE  loopStack # <<>> <=> G!Enclosing(irFrames, G!LoopKinds) # {}
  <1>1. /\ irFrames \in Seq(IRFrame) /\ loopStack \in Seq(LoopEntry)
        /\ Len(loopStack) = Cardinality(G!Enclosing(irFrames, G!LoopKinds))
    BY DEF IRInv, Sound
  <1>2. IsFiniteSet(G!Enclosing(irFrames, G!LoopKinds))
    BY <1>1, GEnclosingFinite
  <1>3. Cardinality(G!Enclosing(irFrames, G!LoopKinds)) = 0 <=> G!Enclosing(irFrames, G!LoopKinds) = {}
    BY <1>2, FS_EmptySet
  <1>4. Len(loopStack) = 0 <=> loopStack = <<>>
    BY <1>1
  <1>5. QED
    BY <1>1, <1>3, <1>4

LEMMA IRInvTypes == IRInv => G!TypeOK
  BY DEF IRInv, Sound, G!TypeOK, IRFrame, IRBlock, LoopEntry

(* IRGen's members always have the types the code declares.                *)
THEOREM IRTypeCorrect == G!Spec => []G!TypeOK
  BY SpecIRInv, IRInvTypes, PTL

(* However deep a function nests, every jump goes to a block there is or   *)
(* to one an open construct still owes: no label is forgotten.             *)
THEOREM TargetsHold == G!Spec => []G!TargetsCovered
  BY SpecIRInv, IRInvTargets, PTL

(* A label is owed or placed but never both, and a new one is neither:     *)
(* setInsertBlock never goes on in a block that is there already.          *)
THEOREM FreshHolds == G!Spec => []G!OwedIsFresh
  BY SpecIRInv, IRInvFresh, PTL

-----------------------------------------------------------------------------
(* The loop stack, entry by entry: what Sound counts, Listed names.        *)
Loops(fs)   == G!Enclosing(fs, G!LoopKinds)
Upto(fs, i) == {j \in Loops(fs) : j <= i}
EntryOf(f)  == [continueLabel |-> f.head, breakLabel |-> f.end]
Listed(fs, ls) ==
  /\ Len(ls) = Cardinality(Loops(fs))
  /\ \A i \in Loops(fs) : ls[Cardinality(Upto(fs, i))] = EntryOf(fs[i])
  /\ \A k \in 1 .. Len(ls) : \E i \in Loops(fs) : Cardinality(Upto(fs, i)) = k

LEMMA UptoFacts ==
  ASSUME NEW S, NEW fs \in Seq(S), NEW i \in Loops(fs)
  PROVE  /\ Cardinality(Upto(fs, i)) \in 1 .. Cardinality(Loops(fs))
         /\ i < Len(fs) => Cardinality(Upto(fs, i)) <= Cardinality(Loops(fs) \ {Len(fs)})
  <1>1. IsFiniteSet(Loops(fs)) /\ Cardinality(Loops(fs)) \in Nat
    BY GEnclosingFinite DEF Loops
  <1>2. Upto(fs, i) \subseteq Loops(fs) /\ i \in Upto(fs, i)
    <2>1. i \in Nat
      BY DEF Loops, G!Enclosing
    <2>2. QED
      BY <2>1 DEF Upto
  <1>3. /\ IsFiniteSet(Upto(fs, i)) /\ Cardinality(Upto(fs, i)) \in Nat
        /\ Cardinality(Upto(fs, i)) <= Cardinality(Loops(fs))
    BY <1>1, <1>2, FS_Subset, FS_CardinalityType
  <1>4. Cardinality(Upto(fs, i)) # 0
    BY <1>2, <1>3, FS_EmptySet
  <1>5. ASSUME i < Len(fs) PROVE Cardinality(Upto(fs, i)) <= Cardinality(Loops(fs) \ {Len(fs)})
    <2>1. Upto(fs, i) \subseteq Loops(fs) \ {Len(fs)}
      BY <1>5 DEF Upto, Loops, G!Enclosing
    <2>2. IsFiniteSet(Loops(fs) \ {Len(fs)})
      BY <1>1, FS_Subset
    <2>3. QED
      BY <2>1, <2>2, FS_Subset
  <1>6. QED
    BY <1>1, <1>3, <1>4, <1>5

LEMMA ListedPush ==
  ASSUME NEW S, NEW fs \in Seq(S), NEW f, f.kind \notin G!LoopKinds, NEW ls, Listed(fs, ls)
  PROVE  Listed(Append(fs, f), ls)
  <1>1. fs \in Seq(S \cup {f}) /\ f \in S \cup {f}
    OBVIOUS
  <1>2. Loops(Append(fs, f)) = Loops(fs)
    BY <1>1 DEF Loops, G!Enclosing
  <1>3. \A i \in Loops(fs) : Append(fs, f)[i] = fs[i]
    BY <1>1, AppendFacts DEF Loops, G!Enclosing
  <1>4. \A i : Upto(Append(fs, f), i) = Upto(fs, i)
    BY <1>2 DEF Upto
  <1>5. QED
    BY <1>2, <1>3, <1>4 DEF Listed

LEMMA ListedLoop ==
  ASSUME NEW S, NEW fs \in Seq(S), NEW f, f.kind \in G!LoopKinds,
         NEW ls \in Seq(LoopEntry), EntryOf(f) \in LoopEntry, Listed(fs, ls)
  PROVE  Listed(Append(fs, f), Append(ls, EntryOf(f)))
  <1> DEFINE gs == Append(fs, f)
             m  == Len(fs) + 1
             e  == EntryOf(f)
  <1>1. fs \in Seq(S \cup {f}) /\ f \in S \cup {f}
    OBVIOUS
  <1>2. /\ Loops(gs) = Loops(fs) \cup {m} /\ m \notin Loops(fs)
        /\ IsFiniteSet(Loops(fs)) /\ Cardinality(Loops(fs)) \in Nat
    BY <1>1, GEnclosingAppend, GEnclosingFinite DEF Loops
  <1>3. /\ Cardinality(Loops(gs)) = Cardinality(Loops(fs)) + 1
        /\ Len(ls) = Cardinality(Loops(fs)) /\ gs[m] = f
    <2>1. Cardinality(Loops(gs)) = Cardinality(Loops(fs)) + 1
      <3> HIDE DEF gs, m
      <3> QED
        BY <1>2, FS_AddElement
    <2>2. Len(ls) = Cardinality(Loops(fs))
      BY DEF Listed
    <2>3. gs[m] = f
      BY <1>1
    <2>4. QED
      BY <2>1, <2>2, <2>3
  <1>4. \A i \in Loops(fs) : gs[i] = fs[i] /\ i \in Nat /\ i < m /\ m \in Nat
    BY <1>1, AppendFacts DEF Loops, G!Enclosing
  <1>5. m \in Nat
    BY <1>1, AppendFacts
  <1> HIDE DEF gs, m, e
  <1>6. \A i \in Loops(fs) : Upto(gs, i) = Upto(fs, i)
    BY <1>2, <1>4 DEF Upto
  <1>7. Upto(gs, m) = Loops(gs)
    BY <1>2, <1>4, <1>5 DEF Upto
  <1>8. /\ Len(Append(ls, e)) = Len(ls) + 1 /\ Append(ls, e)[Len(ls) + 1] = e
        /\ \A k \in 1 .. Len(ls) : Append(ls, e)[k] = ls[k]
    BY AppendFacts DEF e
  <1>9. \A i \in Loops(gs) : Append(ls, e)[Cardinality(Upto(gs, i))] = EntryOf(gs[i])
    <2> SUFFICES ASSUME NEW i \in Loops(gs)
                 PROVE  Append(ls, e)[Cardinality(Upto(gs, i))] = EntryOf(gs[i])
      OBVIOUS
    <2>1. CASE i = m
      BY <1>3, <1>7, <1>8, <2>1 DEF e
    <2>2. CASE i \in Loops(fs)
      <3>1. Cardinality(Upto(fs, i)) \in 1 .. Len(ls)
        BY <1>3, <2>2, UptoFacts
      <3>2. QED
        BY <1>4, <1>6, <1>8, <2>2, <3>1 DEF Listed
    <2>3. QED
      BY <1>2, <2>1, <2>2
  <1>10. \A k \in 1 .. Len(ls) + 1 : \E i \in Loops(gs) : Cardinality(Upto(gs, i)) = k
    <2> SUFFICES ASSUME NEW k \in 1 .. Len(ls) + 1
                 PROVE  \E i \in Loops(gs) : Cardinality(Upto(gs, i)) = k
      OBVIOUS
    <2>1. CASE k = Len(ls) + 1
      BY <1>2, <1>3, <1>7, <2>1
    <2>2. CASE k \in 1 .. Len(ls)
      BY <1>2, <1>6, <2>2 DEF Listed
    <2>3. QED
      BY <1>2, <1>3, <2>1, <2>2
  <1>11. QED
    BY <1>3, <1>8, <1>9, <1>10 DEF Listed, gs, e

LEMMA ListedRest ==
  ASSUME NEW S, NEW fs \in Seq(S), fs # <<>>, G!Top(fs).kind \notin G!LoopKinds,
         NEW ls, Listed(fs, ls)
  PROVE  Listed(G!Rest(fs), ls)
  <1>1. Loops(G!Rest(fs)) = Loops(fs)
    <2>1. Len(fs) \notin Loops(fs)
      BY DEF Loops, G!Enclosing, G!Top
    <2>2. Loops(G!Rest(fs)) = Loops(fs) \ {Len(fs)}
      BY GEnclosingRest, Zenon DEF Loops
    <2>3. QED
      BY <2>1, <2>2
  <1>2. \A i \in Loops(fs) : G!Rest(fs)[i] = fs[i]
    <2>1. \A i \in Loops(G!Rest(fs)) : i \in 1 .. Len(fs) - 1
      BY GRestFacts DEF Loops, G!Enclosing
    <2>2. QED
      BY <1>1, <2>1, GRestFacts
  <1>3. \A i : Upto(G!Rest(fs), i) = Upto(fs, i)
    BY <1>1 DEF Upto
  <1>4. QED
    BY <1>1, <1>2, <1>3 DEF Listed

LEMMA ListedUnloop ==
  ASSUME NEW S, NEW fs \in Seq(S), fs # <<>>, G!Top(fs).kind \in G!LoopKinds,
         NEW ls \in Seq(LoopEntry), Listed(fs, ls)
  PROVE  Listed(G!Rest(fs), G!Rest(ls))
  <1> DEFINE gs == G!Rest(fs)
             m  == Len(fs)
  <1>1. m \in Loops(fs) /\ Loops(gs) = Loops(fs) \ {m}
    <2>1. m \in Loops(fs)
      BY GRestFacts DEF Loops, G!Enclosing, G!Top
    <2>2. QED
      BY <2>1, GEnclosingRest DEF Loops
  <1>2. IsFiniteSet(Loops(fs)) /\ Cardinality(Loops(fs)) \in Nat
    BY GEnclosingFinite DEF Loops
  <1>3. Cardinality(Loops(gs)) = Cardinality(Loops(fs)) - 1 /\ Len(ls) = Cardinality(Loops(fs))
    <2>1. Cardinality(Loops(fs) \ {m}) = Cardinality(Loops(fs)) - 1
      BY <1>1, <1>2, FS_RemoveElement
    <2>2. Len(ls) = Cardinality(Loops(fs))
      BY DEF Listed
    <2>3. QED
      BY <1>1, <2>1, <2>2
  <1>4. \A i \in Loops(gs) : gs[i] = fs[i] /\ i \in Nat /\ i < m /\ m \in Nat /\ i \in Loops(fs)
    <2>1. \A i \in Loops(gs) : i \in 1 .. m - 1
      BY GRestFacts DEF Loops, G!Enclosing
    <2>2. m \in Nat
      BY GRestFacts
    <2>3. \A i \in 1 .. m - 1 : gs[i] = fs[i]
      BY GRestFacts
    <2>4. \A i \in 1 .. m - 1 : i \in Nat /\ i < m
      BY <2>2
    <2>5. \A i \in Loops(gs) : i \in Loops(fs)
      BY <1>1
    <2> HIDE DEF gs, m
    <2>6. QED
      BY <2>1, <2>2, <2>3, <2>4, <2>5
  <1>5. ls # <<>>
    <2>1. Cardinality(Loops(fs)) # 0
      BY <1>1, <1>2, FS_EmptySet
    <2>2. QED
      BY <1>3, <2>1
  <1>6. /\ Len(G!Rest(ls)) = Len(ls) - 1
        /\ \A k \in 1 .. Len(ls) - 1 : G!Rest(ls)[k] = ls[k]
    BY <1>5, GRestFacts
  <1> HIDE DEF gs, m
  <1>7. \A i \in Loops(gs) : Upto(gs, i) = Upto(fs, i)
    BY <1>1, <1>4 DEF Upto
  <1>8. \A i \in Loops(gs) : G!Rest(ls)[Cardinality(Upto(gs, i))] = EntryOf(gs[i])
    <2> SUFFICES ASSUME NEW i \in Loops(gs)
                 PROVE  G!Rest(ls)[Cardinality(Upto(gs, i))] = EntryOf(gs[i])
      OBVIOUS
    <2>1. /\ Cardinality(Upto(fs, i)) \in 1 .. Cardinality(Loops(fs))
          /\ Cardinality(Upto(fs, i)) <= Cardinality(Loops(gs))
      BY <1>1, <1>4, UptoFacts DEF m
    <2>2. Cardinality(Upto(fs, i)) \in 1 .. Len(ls) - 1
      BY <1>2, <1>3, <2>1
    <2>3. QED
      BY <1>4, <1>6, <1>7, <2>2 DEF Listed
  <1>9. \A k \in 1 .. Len(ls) - 1 : \E i \in Loops(gs) : Cardinality(Upto(gs, i)) = k
    <2> SUFFICES ASSUME NEW k \in 1 .. Len(ls) - 1
                 PROVE  \E i \in Loops(gs) : Cardinality(Upto(gs, i)) = k
      OBVIOUS
    <2>1. k \in 1 .. Len(ls) /\ k # Len(ls)
      BY <1>2, <1>3
    <2>2. PICK i \in Loops(fs) : Cardinality(Upto(fs, i)) = k
      BY <2>1 DEF Listed
    <2>3. Upto(fs, m) = Loops(fs)
      <3>1. \A j \in Loops(fs) : j <= m
        BY GRestFacts DEF Loops, G!Enclosing, m
      <3>2. QED
        BY <3>1 DEF Upto
    <2>4. i # m
      BY <1>3, <2>1, <2>2, <2>3
    <2>5. QED
      BY <1>1, <1>7, <2>2, <2>4
  <1>10. QED
    BY <1>3, <1>6, <1>8, <1>9 DEF Listed, gs

(* An open loop is what break and continue are about.                      *)
LEMMA ListedTop ==
  ASSUME NEW fs, NEW ls \in Seq(LoopEntry), ls # <<>>, Listed(fs, ls)
  PROVE  \E i \in Loops(fs) : G!Top(ls) = EntryOf(fs[i])
  <1>1. G!Top(ls) = ls[Len(ls)] /\ Len(ls) \in 1 .. Len(ls)
    BY DEF G!Top
  <1>2. PICK i \in Loops(fs) : Cardinality(Upto(fs, i)) = Len(ls)
    BY <1>1 DEF Listed
  <1>3. QED
    BY <1>1, <1>2 DEF Listed

LEMMA ListedIs == Listed(irFrames, loopStack) => G!LoopStackMatches
  <1>1. \A S : G!Cardinality(S) = Cardinality(S)
    BY DEF G!Cardinality, Cardinality
  <1>2. QED
    BY <1>1 DEF G!LoopStackMatches, Listed, Loops, Upto, EntryOf

(* Constructs other than loops leave the loop stack alone.                 *)
LEMMA PlainStep ==
  ASSUME IRInv, Listed(irFrames, loopStack), UNCHANGED loopStack,
         \/ UNCHANGED irFrames
         \/ \E f : f.kind \notin G!LoopKinds /\ irFrames' = Append(irFrames, f)
         \/ irFrames # <<>> /\ G!Top(irFrames).kind \notin G!LoopKinds /\ irFrames' = G!Rest(irFrames)
         \/ /\ irFrames # <<>> /\ G!Top(irFrames).kind \notin G!LoopKinds
            /\ \E f : f.kind \notin G!LoopKinds /\ irFrames' = Append(G!Rest(irFrames), f)
         \/ /\ irFrames # <<>> /\ G!Top(irFrames).kind \notin G!LoopKinds
            /\ \E f, g : /\ f.kind \notin G!LoopKinds /\ g.kind \notin G!LoopKinds
                         /\ irFrames' = Append(Append(G!Rest(irFrames), f), g)
  PROVE  Listed(irFrames, loopStack)'
  <1>1. irFrames \in Seq(IRFrame) /\ loopStack' = loopStack
    BY DEF IRInv, Sound
  <1>2. Listed(irFrames', loopStack)
    <2>1. CASE UNCHANGED irFrames
      BY <2>1
    <2>2. CASE \E f : f.kind \notin G!LoopKinds /\ irFrames' = Append(irFrames, f)
      BY <1>1, <2>2, ListedPush
    <2>3. CASE irFrames # <<>> /\ G!Top(irFrames).kind \notin G!LoopKinds /\ irFrames' = G!Rest(irFrames)
      BY <1>1, <2>3, ListedRest
    <2>4. ASSUME irFrames # <<>>, G!Top(irFrames).kind \notin G!LoopKinds
          PROVE  G!Rest(irFrames) \in Seq(IRFrame) /\ Listed(G!Rest(irFrames), loopStack)
      BY <1>1, <2>4, ListedRest, GRestFacts
    <2>5. CASE /\ irFrames # <<>> /\ G!Top(irFrames).kind \notin G!LoopKinds
               /\ \E f : f.kind \notin G!LoopKinds /\ irFrames' = Append(G!Rest(irFrames), f)
      BY <2>4, <2>5, ListedPush
    <2>6. CASE /\ irFrames # <<>> /\ G!Top(irFrames).kind \notin G!LoopKinds
               /\ \E f, g : /\ f.kind \notin G!LoopKinds /\ g.kind \notin G!LoopKinds
                            /\ irFrames' = Append(Append(G!Rest(irFrames), f), g)
      <3>1. PICK f, g : /\ f.kind \notin G!LoopKinds /\ g.kind \notin G!LoopKinds
                        /\ irFrames' = Append(Append(G!Rest(irFrames), f), g)
        BY <2>6
      <3>2. Listed(Append(G!Rest(irFrames), f), loopStack)
        BY <2>4, <2>6, <3>1, ListedPush
      <3>3. Append(G!Rest(irFrames), f) \in Seq(IRFrame \cup {f})
        <4>1. G!Rest(irFrames) \in Seq(IRFrame \cup {f}) /\ f \in IRFrame \cup {f}
          BY <2>4, <2>6
        <4>2. QED
          BY <4>1
      <3>4. QED
        BY <3>1, <3>2, <3>3, ListedPush
    <2>7. QED
      BY <2>1, <2>2, <2>3, <2>5, <2>6
  <1>3. QED
    BY <1>1, <1>2

LEMMA FrameIs ==
  ASSUME NEW kind, NEW head, NEW next, NEW end
  PROVE  G!Frame(kind, head, next, end).kind = kind
         /\ EntryOf(G!Frame(kind, head, next, end)) = [continueLabel |-> head, breakLabel |-> end]
  BY DEF G!Frame, EntryOf

LEMMA LoopStep ==
  ASSUME IRInv, IRInv', Listed(irFrames, loopStack), NEW kind \in G!LoopKinds, NEW head, NEW end,
         irFrames' = Append(irFrames, G!Frame(kind, head, G!NoLabel, end)),
         loopStack' = Append(loopStack, [continueLabel |-> head, breakLabel |-> end])
  PROVE  Listed(irFrames, loopStack)'
  <1> DEFINE f == G!Frame(kind, head, G!NoLabel, end)
             e == [continueLabel |-> head, breakLabel |-> end]
  <1>1. /\ irFrames \in Seq(IRFrame) /\ loopStack \in Seq(LoopEntry)
        /\ loopStack' \in Seq(LoopEntry)
    BY DEF IRInv, Sound
  <1>2. f.kind \in G!LoopKinds /\ EntryOf(f) = e
    BY FrameIs
  <1> HIDE DEF f, e
  <1>3. e \in LoopEntry
    <2>1. loopStack \in Seq(LoopEntry \cup {e}) /\ e \in LoopEntry \cup {e}
      BY <1>1
    <2>2. PICK n \in Nat : n = Len(loopStack)
      BY <1>1
    <2>3. loopStack' = Append(loopStack, e)
      BY DEF e
    <2>4. loopStack'[n + 1] = e /\ n + 1 \in DOMAIN loopStack'
      BY <2>1, <2>2, <2>3
    <2>5. QED
      BY <1>1, <2>4
  <1>4. Listed(Append(irFrames, f), Append(loopStack, e))
    BY <1>1, <1>2, <1>3, ListedLoop
  <1>5. QED
    BY <1>4 DEF f, e

LEMMA ListedNext ==
  ASSUME IRInv, IRInv', Listed(irFrames, loopStack), [G!Next]_(G!vars)
  PROVE  Listed(irFrames, loopStack)'
  <1>0. {"fn", "then", "else", "elseif", "match", "case", "try", "catch"} \cap G!LoopKinds = {}
    BY DEF G!LoopKinds
  <1>9. ASSUME NEW kinds, G!Inside(irFrames, kinds), kinds \cap G!LoopKinds = {}
        PROVE  irFrames # <<>> /\ G!Top(irFrames).kind \notin G!LoopKinds
    BY <1>9 DEF G!Inside
  <1>1. CASE UNCHANGED G!vars \/ (\E init \in ConstInits : G!VisitConst(init)) \/ G!Break \/ G!Continue
    BY <1>1, PlainStep DEF G!vars, G!VisitConst, G!Break, G!Continue, G!LoopJump
  <1>2. CASE G!EnterFunction \/ G!EnterMatch \/ G!EnterTry \/ G!EnterIf
             \/ \E pattern \in BOOLEAN : G!EnterCase(pattern)
    <2>1. UNCHANGED loopStack /\ \E f : f.kind \notin G!LoopKinds /\ irFrames' = Append(irFrames, f)
      BY <1>0, <1>2, FrameIs
         DEF G!EnterFunction, G!EnterMatch, G!EnterTry, G!EnterIf, G!EnterCase, G!Push, G!ThenFrame
    <2>2. QED
      BY <2>1, PlainStep
  <1>3. CASE G!LeaveFunction \/ G!LeaveThen \/ G!LeaveBlock \/ G!LeaveCase \/ G!LeaveMatch
    <2>1. /\ UNCHANGED loopStack /\ irFrames' = G!Rest(irFrames)
          /\ \E kinds : G!Inside(irFrames, kinds) /\ kinds \cap G!LoopKinds = {}
      BY <1>0, <1>3 DEF G!LeaveFunction, G!LeaveThen, G!LeaveBlock, G!LeaveCase, G!LeaveMatch
    <2>2. QED
      BY <1>9, <2>1, PlainStep
  <1>4. CASE G!SecondBlock
    <2>1. /\ UNCHANGED loopStack /\ irFrames # <<>> /\ G!Top(irFrames).kind \notin G!LoopKinds
          /\ \E f : f.kind \notin G!LoopKinds /\ irFrames' = Append(G!Rest(irFrames), f)
      BY <1>0, <1>4, <1>9, FrameIs DEF G!SecondBlock, G!Inside
    <2>2. QED
      BY <2>1, PlainStep
  <1>5. CASE G!ElseIf
    <2>1. irFrames # <<>> /\ G!Top(irFrames).kind \notin G!LoopKinds
      BY <1>0, <1>5, <1>9 DEF G!ElseIf, G!Inside
    <2>2. G!Rest(irFrames) \in Seq(IRFrame)
      BY <2>1, GRestFacts DEF IRInv, Sound
    <2>3. PICK f : f = G!Frame("elseif", G!NoLabel, G!NoLabel, G!Top(irFrames).end)
      OBVIOUS
    <2>4. PICK g : g = G!ThenFrame
      OBVIOUS
    <2>5. f.kind \notin G!LoopKinds /\ g.kind \notin G!LoopKinds
      BY <1>0, <2>3, <2>4, FrameIs DEF G!ThenFrame
    <2>6. irFrames' = Append(Append(G!Rest(irFrames), f), g) /\ UNCHANGED loopStack
      BY <1>5, <2>2, <2>3, <2>4, ConcatTwo DEF G!ElseIf
    <2>7. QED
      BY <2>1, <2>5, <2>6, PlainStep
  <1>6. CASE G!EnterFor \/ G!EnterWhile \/ G!EnterLoop
    BY <1>6, LoopStep DEF G!EnterFor, G!EnterWhile, G!EnterTested, G!EnterLoop, G!Push, G!LoopKinds
  <1>7. CASE G!LeaveLoop
    <2>1. /\ irFrames # <<>> /\ G!Top(irFrames).kind \in G!LoopKinds
          /\ irFrames' = G!Rest(irFrames) /\ loopStack' = G!Rest(loopStack)
      BY <1>7 DEF G!LeaveLoop, G!Inside
    <2>2. irFrames \in Seq(IRFrame) /\ loopStack \in Seq(LoopEntry)
      BY DEF IRInv, Sound
    <2>3. QED
      BY <2>1, <2>2, ListedUnloop
  <1>8. QED
    BY <1>1, <1>2, <1>3, <1>4, <1>5, <1>6, <1>7 DEF G!Next

LEMMA ListedInit == G!Init => Listed(irFrames, loopStack)
  <1> SUFFICES ASSUME G!Init PROVE Listed(irFrames, loopStack)
    OBVIOUS
  <1>1. irFrames = <<>> /\ loopStack = <<>>
    BY DEF G!Init
  <1>2. Loops(irFrames) = {}
    BY <1>1 DEF Loops, G!Enclosing
  <1>3. QED
    BY <1>1, <1>2, FS_EmptySet DEF Listed

(* m_loopStack lists the open loops, innermost last, whatever else is open *)
(* between and around them: a break leaves and a continue repeats the loop *)
(* it is in.                                                               *)
THEOREM LoopStackHolds == G!Spec => []G!LoopStackMatches
  <1>1. IRInv /\ IRInv' /\ Listed(irFrames, loopStack) /\ [G!Next]_(G!vars) => Listed(irFrames, loopStack)'
    BY ListedNext
  <1>2. G!Spec => []Listed(irFrames, loopStack)
    BY <1>1, ListedInit, SpecIRInv, PTL DEF G!Spec
  <1>3. QED
    BY <1>2, ListedIs, PTL

-----------------------------------------------------------------------------
(* Back edges.  A jump written to the last block goes back just if its     *)
(* target has a block already, and a new block is after every jump.        *)
Ahead(bs) ==
  \A i, j \in DOMAIN bs :
    (j <= i /\ bs[j].name \in bs[i].jumps) => bs[j].name.prefix \in G!HeadPrefix

LEMMA AheadJump ==
  ASSUME NEW bs \in Seq(IRBlock), bs # <<>>, Ahead(bs), NEW T \in SUBSET G!Labels,
         \A l \in T : l \in G!Names(bs) => l.prefix \in G!HeadPrefix
  PROVE  Ahead(G!JumpTo(bs, T))
  <1> DEFINE n  == Len(bs)
             b  == [bs[n] EXCEPT !.jumps = @ \cup T]
             cs == G!JumpTo(bs, T)
  <1>1. n \in Nat \ {0} /\ DOMAIN bs = 1 .. n /\ bs[n] \in IRBlock
    OBVIOUS
  <1>2. b.name = bs[n].name /\ b.jumps = bs[n].jumps \cup T
    BY <1>1 DEF IRBlock
  <1>3. cs = [i \in DOMAIN bs |-> IF i = n THEN b ELSE bs[i]]
    BY <1>1 DEF G!JumpTo
  <1> HIDE DEF b, cs
  <1>4. DOMAIN cs = 1 .. n /\ \A i \in 1 .. n : cs[i] = IF i = n THEN b ELSE bs[i]
    BY <1>1, <1>3, Zenon
  <1>5. \A i \in 1 .. n : /\ cs[i].name = bs[i].name /\ bs[i].name \in G!Names(bs)
                          /\ cs[i].jumps \subseteq bs[i].jumps \cup T
    BY <1>1, <1>2, <1>4 DEF G!Names
  <1>6. \A i, j \in 1 .. n :
          (j <= i /\ bs[j].name \in bs[i].jumps) => bs[j].name.prefix \in G!HeadPrefix
    BY <1>1 DEF Ahead
  <1>7. \A i, j \in 1 .. n :
          (j <= i /\ cs[j].name \in cs[i].jumps) => cs[j].name.prefix \in G!HeadPrefix
    BY <1>5, <1>6
  <1>8. QED
    BY <1>4, <1>7 DEF Ahead, cs

LEMMA AheadPlace ==
  ASSUME NEW bs \in Seq(IRBlock), Ahead(bs), NEW l \in G!Labels
  PROVE  Ahead(G!Place(bs, l))
  <1>1. CASE l \in G!Names(bs)
    BY <1>1 DEF G!Place
  <1>2. CASE l \notin G!Names(bs)
    <2> DEFINE cs == Append(bs, G!Block(l))
               n  == Len(bs)
    <2>1. G!Block(l) \in IRBlock /\ G!Block(l).jumps = {}
      BY DEF G!Block, IRBlock
    <2>2. /\ DOMAIN cs = 1 .. n + 1 /\ n \in Nat /\ DOMAIN bs = 1 .. n
          /\ cs[n + 1].jumps = {} /\ \A i \in 1 .. n : cs[i] = bs[i]
      BY <2>1
    <2>3. cs = G!Place(bs, l)
      BY <1>2 DEF G!Place
    <2> HIDE DEF cs, n
    <2>4. \A i, j \in 1 .. n + 1 : j <= i /\ cs[i].jumps # {} => i \in 1 .. n /\ j \in 1 .. n
      BY <2>2
    <2>5. \A i, j \in 1 .. n :
            (j <= i /\ bs[j].name \in bs[i].jumps) => bs[j].name.prefix \in G!HeadPrefix
      BY <2>2 DEF Ahead
    <2>6. \A i, j \in 1 .. n + 1 :
            (j <= i /\ cs[j].name \in cs[i].jumps) => cs[j].name.prefix \in G!HeadPrefix
      BY <2>2, <2>4, <2>5
    <2>7. Ahead(cs)
      BY <2>2, <2>6 DEF Ahead
    <2>8. QED
      BY <2>3, <2>7
  <1>3. QED
    BY <1>1, <1>2

(* What freshLabel makes has no block and is owed none.                    *)
LEMMA NewLabel ==
  ASSUME IRInv, NEW i \in Nat, NEW prefix \in G!Prefixes \ {"entry", "none"}
  PROVE  /\ G!Label(i, prefix) \in G!Labels
         /\ G!Label(i, prefix) \notin G!Names(blocks) \cup OwedBy(irFrames)
  <1>1. /\ lblCnt \in Nat
        /\ \A l \in G!Names(blocks) \cup OwedBy(irFrames) : l # G!Entry => l.no < lblCnt
    BY DEF IRInv, Sound
  <1>2. /\ G!Label(i, prefix) \in G!Labels /\ G!Label(i, prefix) # G!Entry
        /\ G!Label(i, prefix).no = lblCnt + i
    BY <1>1, FreshLabel
  <1>3. ~(lblCnt + i < lblCnt)
    BY <1>1
  <1>4. QED
    BY <1>1, <1>2, <1>3

(* A jump to what is owed, and a new block, keep blocks Ahead.             *)
LEMMA AheadFinish ==
  ASSUME IRInv, Ahead(blocks), irFrames # <<>>, G!Top(irFrames).kind # "fn", NEW l \in G!Labels
  PROVE  Ahead(G!Finish(l))
  <1>1. /\ blocks \in Seq(IRBlock) /\ blocks # <<>>
        /\ G!Top(irFrames).end \in G!Labels /\ G!Top(irFrames).end \in OwedBy(irFrames)
    BY TopFrame
  <1>2. G!Top(irFrames).end \notin G!Names(blocks)
    BY <1>1 DEF IRInv, Sound
  <1> DEFINE bs == G!JumpTo(blocks, {G!Top(irFrames).end})
  <1>3. bs \in Seq(IRBlock) /\ Ahead(bs)
    BY <1>1, <1>2, JumpToLabels, AheadJump
  <1> HIDE DEF bs
  <1>4. Ahead(G!Place(bs, l))
    BY <1>3, AheadPlace
  <1>5. QED
    BY <1>4 DEF G!Finish, bs

LEMMA AheadJumpPlace ==
  ASSUME NEW bs \in Seq(IRBlock), bs # <<>>, Ahead(bs), NEW T \in SUBSET G!Labels,
         \A l \in T : l \in G!Names(bs) => l.prefix \in G!HeadPrefix, NEW m \in G!Labels
  PROVE  /\ Ahead(G!Place(G!JumpTo(bs, T), m))
         /\ G!Place(G!JumpTo(bs, T), m) \in Seq(IRBlock) /\ G!Place(G!JumpTo(bs, T), m) # <<>>
         /\ G!Names(G!Place(G!JumpTo(bs, T), m)) = G!Names(bs) \cup {m}
  <1>1. /\ G!JumpTo(bs, T) \in Seq(IRBlock) /\ Ahead(G!JumpTo(bs, T))
        /\ G!Names(G!JumpTo(bs, T)) = G!Names(bs)
    BY JumpToLabels, AheadJump
  <1>2. QED
    BY <1>1, PlaceLabels, AheadPlace

LEMMA AheadIf ==
  ASSUME IRInv, NEW bs \in Seq(IRBlock), bs # <<>>, Ahead(bs),
         G!Names(bs) \subseteq G!Names(blocks) \cup OwedBy(irFrames), G!OpenIf(bs)
  PROVE  Ahead(blocks')
  <1> DEFINE t == G!Label(0, "if_true")
             f == G!Label(1, "if_false")
  <1>1. {"if_true", "if_false"} \subseteq G!Prefixes \ {"entry", "none"}
    BY DEF G!Prefixes
  <1>2. t \in G!Labels /\ t \notin G!Names(bs) /\ f \in G!Labels /\ f \notin G!Names(bs)
    BY <1>1, NewLabel
  <1>3. blocks' = G!Place(G!JumpTo(bs, {t, f}), t)
    BY DEF G!OpenIf
  <1> HIDE DEF t, f
  <1>4. QED
    BY <1>2, <1>3, AheadJumpPlace

LEMMA AheadTested ==
  ASSUME IRInv, Ahead(blocks), NEW kind \in G!LoopKinds,
         NEW cond \in G!HeadPrefix, NEW body \in G!Prefixes \ {"entry", "none"},
         NEW end \in G!Prefixes \ {"entry", "none"}, G!EnterTested(kind, cond, body, end)
  PROVE  Ahead(blocks')
  <1> DEFINE c == G!Label(0, cond)
             b == G!Label(1, body)
             e == G!Label(2, end)
             bs == G!Place(G!JumpTo(blocks, {c}), c)
  <1>1. blocks \in Seq(IRBlock) /\ blocks # <<>> /\ lblCnt \in Nat
    BY TopFrame DEF G!EnterTested, G!Inside
  <1>2. G!HeadPrefix \subseteq G!Prefixes \ {"entry", "none"}
    BY DEF G!HeadPrefix, G!Prefixes
  <1>3. /\ {c, b, e} \subseteq G!Labels /\ c # b /\ c # e
        /\ c \notin G!Names(blocks) /\ b \notin G!Names(blocks) /\ e \notin G!Names(blocks)
    BY <1>1, <1>2, FreshLabels, NewLabel
  <1>4. blocks' = G!Place(G!JumpTo(bs, {b, e}), b)
    BY DEF G!EnterTested
  <1> HIDE DEF c, b, e
  <1>5. Ahead(bs) /\ bs \in Seq(IRBlock) /\ bs # <<>> /\ G!Names(bs) = G!Names(blocks) \cup {c}
    BY <1>1, <1>3, AheadJumpPlace
  <1> HIDE DEF bs
  <1>6. QED
    BY <1>3, <1>4, <1>5, AheadJumpPlace

LEMMA AheadLoopJump ==
  ASSUME IRInv, Ahead(blocks), Listed(irFrames, loopStack),
         NEW which \in {"breakLabel", "continueLabel"}, G!LoopJump(which)
  PROVE  Ahead(blocks')
  <1>1. /\ blocks \in Seq(IRBlock) /\ blocks # <<>>
        /\ Sound(irFrames, G!Names(blocks), Jumps(blocks), lblCnt, loopStack)
    BY TopFrame DEF G!LoopJump, G!Inside, IRInv
  <1>2. CASE loopStack = <<>>
    BY <1>2 DEF G!LoopJump
  <1>3. CASE loopStack # <<>>
    <2>1. loopStack \in Seq(LoopEntry) /\ irFrames \in Seq(IRFrame)
      BY <1>1 DEF Sound
    <2>2. PICK i \in Loops(irFrames) : G!Top(loopStack) = EntryOf(irFrames[i])
      BY <1>3, <2>1, ListedTop
    <2>3. i \in DOMAIN irFrames /\ irFrames[i].kind \in G!LoopKinds /\ irFrames[i] \in IRFrame
      BY <2>1, <2>2 DEF Loops, G!Enclosing
    <2>4. /\ irFrames[i].head \in G!Labels /\ irFrames[i].head.prefix \in G!HeadPrefix
          /\ irFrames[i].end \in G!Labels /\ irFrames[i].end \in Settles(irFrames[i])
      BY <1>1, <2>3 DEF Sound, Shaped, Settles, IRFrame, G!LoopKinds
    <2>5. irFrames[i].end \notin G!Names(blocks)
      BY <1>1, <2>3, <2>4 DEF Sound, OwedBy
    <2> DEFINE l == G!Top(loopStack)[which]
    <2>6. l = irFrames[i].head \/ l = irFrames[i].end
      BY <2>2 DEF EntryOf
    <2>7. blocks' = G!JumpTo(blocks, {l})
      BY <1>3 DEF G!LoopJump
    <2> HIDE DEF l
    <2>8. {l} \in SUBSET G!Labels /\ (l \in G!Names(blocks) => l.prefix \in G!HeadPrefix)
      BY <2>4, <2>5, <2>6
    <2>9. QED
      BY <1>1, <2>7, <2>8, AheadJump
  <1>4. QED
    BY <1>2, <1>3

LEMMA AheadNext ==
  ASSUME IRInv, Listed(irFrames, loopStack), Ahead(blocks), [G!Next]_(G!vars)
  PROVE  Ahead(blocks')
  <1>1. CASE UNCHANGED G!vars \/ (\E init \in ConstInits : G!VisitConst(init)) \/ G!EnterMatch
    BY <1>1 DEF G!vars, G!VisitConst, G!EnterMatch
  <1>2. CASE G!EnterFunction
    <2>1. blocks' = <<G!Block(G!Entry)>> /\ G!Block(G!Entry).jumps = {}
      BY <1>2 DEF G!EnterFunction, G!Block
    <2>2. QED
      BY <2>1 DEF Ahead
  <1>3. CASE G!LeaveFunction
    BY <1>3 DEF G!LeaveFunction, Ahead
  <1>4. CASE G!EnterIf
    BY <1>4, AheadIf, TopFrame DEF G!EnterIf, G!Inside
  <1>5. ASSUME irFrames # <<>>, G!Top(irFrames).kind # "fn"
        PROVE  /\ blocks \in Seq(IRBlock) /\ blocks # <<>>
               /\ {G!Top(irFrames).end, G!Top(irFrames).next} \subseteq G!Labels
               /\ G!Top(irFrames).end \notin G!Names(blocks) /\ G!Top(irFrames).end # G!Top(irFrames).next
               /\ G!Top(irFrames).kind \in TwoLabels => G!Top(irFrames).next \in OwedBy(irFrames)
    <2>1. /\ Sound(irFrames, G!Names(blocks), Jumps(blocks), lblCnt, loopStack)
          /\ irFrames \in Seq(IRFrame)
      BY DEF IRInv, Sound
    <2>2. G!Top(irFrames).end \notin G!Names(blocks)
      BY <1>5, <2>1, TopFrame DEF Sound
    <2>3. G!Top(irFrames) = irFrames[Len(irFrames)] /\ Len(irFrames) \in DOMAIN irFrames
      BY <1>5, <2>1, GRestFacts
    <2>4. G!Top(irFrames).kind \in TwoLabels => G!Top(irFrames).next \in OwedBy(irFrames)
      BY <1>5, <2>3, TopFrame DEF OwedBy, Settles, Shaped
    <2>5. QED
      BY <1>5, <2>2, <2>4, TopFrame DEF Shaped
  <1>6. CASE G!LeaveThen
    <2>1. /\ irFrames # <<>> /\ G!Top(irFrames).kind # "fn"
          /\ blocks' = G!Place(G!JumpTo(G!Finish(G!Top(irFrames).next), {G!Top(irFrames).end}),
                             G!Top(irFrames).end)
      BY <1>6 DEF G!LeaveThen, G!Inside
    <2> DEFINE bs == G!Finish(G!Top(irFrames).next)
    <2>2. /\ bs \in Seq(IRBlock) /\ bs # <<>> /\ Ahead(bs)
          /\ G!Names(bs) = G!Names(blocks) \cup {G!Top(irFrames).next}
      BY <1>5, <2>1, FinishLabels, AheadFinish
    <2> HIDE DEF bs
    <2>3. blocks' = G!Place(G!JumpTo(bs, {G!Top(irFrames).end}), G!Top(irFrames).end)
      BY <2>1 DEF bs
    <2>4. QED
      BY <1>5, <2>1, <2>2, <2>3, AheadJumpPlace
  <1>7. CASE G!SecondBlock \/ G!LeaveBlock \/ G!LeaveCase
    <2>1. /\ irFrames # <<>> /\ G!Top(irFrames).kind # "fn"
          /\ blocks' = G!Finish(G!Top(irFrames).next) \/ blocks' = G!Finish(G!Top(irFrames).end)
      BY <1>7 DEF G!SecondBlock, G!LeaveBlock, G!LeaveCase, G!Inside
    <2>2. QED
      BY <1>5, <2>1, AheadFinish
  <1>8. CASE G!ElseIf
    <2>1. /\ irFrames # <<>> /\ G!Top(irFrames).kind # "fn" /\ G!Top(irFrames).kind \in TwoLabels
          /\ G!OpenIf(G!Finish(G!Top(irFrames).next))
      BY <1>8 DEF G!ElseIf, G!Inside, TwoLabels
    <2> DEFINE bs == G!Finish(G!Top(irFrames).next)
    <2>2. /\ bs \in Seq(IRBlock) /\ bs # <<>> /\ Ahead(bs)
          /\ G!Names(bs) = G!Names(blocks) \cup {G!Top(irFrames).next}
      BY <1>5, <2>1, FinishLabels, AheadFinish
    <2>3. G!OpenIf(bs)
      BY <2>1
    <2> HIDE DEF bs
    <2>4. G!Names(bs) \subseteq G!Names(blocks) \cup OwedBy(irFrames)
      BY <1>5, <2>1, <2>2
    <2>5. QED
      BY <2>2, <2>3, <2>4, AheadIf
  <1>9. CASE \E pattern \in BOOLEAN : G!EnterCase(pattern)
    <2> DEFINE c == G!Label(0, "case")
               n == G!Label(1, "case_next")
    <2>1. {"case", "case_next"} \subseteq G!Prefixes \ {"entry", "none"}
      BY DEF G!Prefixes
    <2>2. /\ c \in G!Labels /\ c \notin G!Names(blocks) /\ n \in G!Labels /\ n \notin G!Names(blocks)
      BY <2>1, NewLabel
    <2>3. /\ irFrames # <<>>
          /\ \/ blocks' = G!Place(G!JumpTo(blocks, {c, n}), c)
             \/ blocks' = G!Place(blocks, c)
      BY <1>9 DEF G!EnterCase, G!Inside
    <2> HIDE DEF c, n
    <2>4. blocks \in Seq(IRBlock) /\ blocks # <<>>
      BY <2>3, TopFrame
    <2>5. QED
      BY <2>2, <2>3, <2>4, AheadJumpPlace, AheadPlace
  <1>10. CASE G!LeaveMatch
    BY <1>5, <1>10, AheadPlace DEF G!LeaveMatch, G!Inside
  <1>11. CASE G!EnterFor
    <2>1. /\ "for" \in G!LoopKinds /\ "for_cond" \in G!HeadPrefix
          /\ {"for_body", "for_end"} \subseteq G!Prefixes \ {"entry", "none"}
      BY DEF G!LoopKinds, G!HeadPrefix, G!Prefixes
    <2>2. QED
      BY <1>11, <2>1, AheadTested DEF G!EnterFor
  <1>12. CASE G!EnterWhile
    <2>1. /\ "while" \in G!LoopKinds /\ "while_cond" \in G!HeadPrefix
          /\ {"while_body", "while_end"} \subseteq G!Prefixes \ {"entry", "none"}
      BY DEF G!LoopKinds, G!HeadPrefix, G!Prefixes
    <2>2. QED
      BY <1>12, <2>1, AheadTested DEF G!EnterWhile
  <1>13. CASE G!EnterLoop
    <2> DEFINE b == G!Label(0, "loop_body")
    <2>1. "loop_body" \in G!Prefixes \ {"entry", "none"}
      BY DEF G!Prefixes
    <2>2. b \in G!Labels /\ b \notin G!Names(blocks)
      BY <2>1, NewLabel
    <2>3. irFrames # <<>> /\ blocks' = G!Place(G!JumpTo(blocks, {b}), b)
      BY <1>13 DEF G!EnterLoop, G!Inside
    <2> HIDE DEF b
    <2>4. QED
      BY <2>2, <2>3, TopFrame, AheadJumpPlace
  <1>14. CASE G!LeaveLoop
    <2>1. /\ irFrames # <<>> /\ G!Top(irFrames).kind \in G!LoopKinds /\ G!Top(irFrames).kind # "fn"
          /\ blocks' = G!Place(G!JumpTo(blocks, {G!Top(irFrames).head}), G!Top(irFrames).end)
      BY <1>14 DEF G!LeaveLoop, G!Inside, G!LoopKinds
    <2>2. G!Top(irFrames).head \in G!Labels /\ G!Top(irFrames).head.prefix \in G!HeadPrefix
      BY <2>1, TopFrame DEF Shaped
    <2>3. QED
      BY <1>5, <2>1, <2>2, AheadJumpPlace
  <1>15. CASE G!EnterTry
    <2>1. "try" \in G!Prefixes \ {"entry", "none"}
      BY DEF G!Prefixes
    <2>2. G!Label(0, "try") \in G!Labels
      BY <2>1, NewLabel
    <2>3. QED
      BY <1>15, <2>2, TopFrame, AheadPlace DEF G!EnterTry, G!Inside
  <1>16. CASE G!Break \/ G!Continue
    BY <1>16, AheadLoopJump DEF G!Break, G!Continue
  <1>17. QED
    BY <1>1, <1>2, <1>3, <1>4, <1>6, <1>7, <1>8, <1>9, <1>10, <1>11, <1>12, <1>13, <1>14,
       <1>15, <1>16 DEF G!Next

LEMMA AheadInit == G!Init => Ahead(blocks)
  BY DEF G!Init, Ahead

LEMMA AheadIs == Ahead(blocks) <=> G!BackEdgesAreLoops
  BY DEF Ahead, G!BackEdgesAreLoops

(* Control flow goes back only to where a loop begins: of whatever is      *)
(* nested in whatever else, no if, match or try block is entered twice     *)
(* unless the loop around it goes round.                                   *)
THEOREM BackEdgesHold == G!Spec => []G!BackEdgesAreLoops
  <1>1. IRInv /\ IRInv' /\ Listed(irFrames, loopStack) /\ [G!Next]_(G!vars) => Listed(irFrames, loopStack)'
    BY ListedNext
  <1>2. G!Spec => []Listed(irFrames, loopStack)
    BY <1>1, ListedInit, SpecIRInv, PTL DEF G!Spec
  <1>3. IRInv /\ Listed(irFrames, loopStack) /\ Ahead(blocks) /\ [G!Next]_(G!vars) => Ahead(blocks)'
    BY AheadNext
  <1>4. G!Spec => []Ahead(blocks)
    BY <1>2, <1>3, AheadInit, SpecIRInv, PTL DEF G!Spec
  <1>5. QED
    BY <1>4, AheadIs, PTL

-----------------------------------------------------------------------------
(* SemaWalk.                                                               *)
USE ReturnTypesAssumption, MaxNestingAssumption

FrameType == [kind : Kinds, async : BOOLEAN, ret : ReturnTypes \cup {NoType}, saved : Context]
Unscoped  == {"elseif", "match"}
Inner     == Kinds \ {"fn", "type"}

(* A function is outermost, or in a type that is; statements are in one.   *)
Placed(fs) ==
  \A i \in DOMAIN fs :
    /\ fs[i].kind = "type" => i = 1
    /\ fs[i].kind = "fn" => i = 1 \/ (i = 2 /\ fs[1].kind = "type")
    /\ fs[i].kind \in Inner => \E j \in 1 .. i - 1 : fs[j].kind = "fn"

LoopsBelow(fs, i) == {j \in 1 .. i - 1 : fs[j].kind \in LoopKinds}

(* What a visitor saved is what it will have to restore.                   *)
Saved(fs) ==
  \A i \in DOMAIN fs :
    /\ fs[i].kind \in LoopKinds =>
         (fs[i].saved.loop = TRUE <=> LoopsBelow(fs, i) # {})
    /\ fs[i].kind = "fn" => fs[i].saved.async = FALSE /\ fs[i].saved.ret = NoType

(* The members say what the stack says: stated of a call stack fs and the  *)
(* values d, l, a, r of the members, so that a visitor that leaves one     *)
(* body and enters another is a pop followed by a push.                    *)
FnSays(fs, a, r) ==
  /\ \A i \in Enclosing(fs, {"fn"}) : a = fs[i].async /\ r = fs[i].ret
  /\ Enclosing(fs, {"fn"}) = {} => a = FALSE /\ r = NoType
Says(fs, d, l, a, r) ==
  /\ l \in BOOLEAN
  /\ l = TRUE <=> Enclosing(fs, LoopKinds) # {}
  /\ FnSays(fs, a, r)
  /\ d = 1 + Cardinality(Enclosing(fs, Kinds \ Unscoped))

Good(fs, d, l, a, r) ==
  /\ fs \in Seq(FrameType)
  /\ Placed(fs) /\ Saved(fs) /\ Says(fs, d, l, a, r)

(* The inductive invariant.                                                *)
IInv == TypeOK /\ Good(frames, depth, inLoop, inAsync, curReturn) /\ AcceptsWellPlaced

-----------------------------------------------------------------------------
LEMMA KindsDiffer ==
  /\ LoopKinds \subseteq Inner \cap (Kinds \ Unscoped)
  /\ Unscoped \subseteq Inner
  /\ StatementKinds \subseteq Kinds
  /\ {"fn", "type"} \subseteq Kinds \ Unscoped
  /\ StatementKinds \cup {"match"} \subseteq Inner \cup {"fn"}
  /\ "fn" \in StatementKinds /\ "type" \notin StatementKinds
  BY DEF LoopKinds, Inner, Kinds, StatementKinds, Unscoped

LEMMA OneFunction ==
  ASSUME NEW fs, Placed(fs), NEW i \in Enclosing(fs, {"fn"}), NEW j \in Enclosing(fs, {"fn"})
  PROVE  i = j
  BY DEF Placed, Enclosing

LEMMA InnermostIsAny ==
  ASSUME NEW fs \in Seq(FrameType), Placed(fs), NEW p \in Enclosing(fs, {"fn"})
  PROVE  InnermostFn(fs) = fs[p]
  <1> DEFINE S == Enclosing(fs, {"fn"})
             Last(i) == \A j \in S : j <= i
  <1>1. S \subseteq Nat
    BY DEF Enclosing
  <1>2. p \in S /\ Last(p)
    BY <1>1, OneFunction
  <1>3. (CHOOSE i \in S : Last(i)) \in S
    BY <1>2
  <1>4. (CHOOSE i \in S : Last(i)) = p
    BY <1>3, OneFunction
  <1>5. QED
    BY <1>4 DEF InnermostFn

-----------------------------------------------------------------------------
(* Entering a body inside a function.                                      *)
LEMMA PushGood ==
  ASSUME NEW fs, NEW d, NEW l, NEW a, NEW r, Good(fs, d, l, a, r),
         NEW f \in FrameType, f.kind \in Inner, f.saved.loop = l,
         Enclosing(fs, {"fn"}) # {}
  PROVE  Good(Append(fs, f), IF f.kind \in Unscoped THEN d ELSE d + 1,
              IF f.kind \in LoopKinds THEN TRUE ELSE l, a, r)
  <1> USE DEF Good
  <1> DEFINE gs == Append(fs, f)
             n  == Len(fs)
  <1>1. /\ gs \in Seq(FrameType) /\ DOMAIN gs = 1 .. n + 1 /\ n \in Nat
        /\ gs[n + 1] = f /\ \A i \in 1 .. n : gs[i] = fs[i]
        /\ DOMAIN fs = 1 .. n
    OBVIOUS
  <1>2. f.kind # "fn" /\ f.kind # "type" /\ f.kind \in Kinds
    BY DEF Inner
  <1>3. Placed(gs)
    <2>1. \E j \in 1 .. n : gs[j].kind = "fn"
      BY <1>1 DEF Enclosing
    <2>2. QED
      BY <1>1, <1>2, <2>1 DEF Placed
  <1>4. l = TRUE <=> LoopsBelow(gs, n + 1) # {}
    <2>1. LoopsBelow(gs, n + 1) = Enclosing(fs, LoopKinds)
      BY <1>1 DEF LoopsBelow, Enclosing
    <2>2. QED
      BY <2>1 DEF Says
  <1>5. Saved(gs)
    <2>1. \A i \in 1 .. n : LoopsBelow(gs, i) = LoopsBelow(fs, i)
      BY <1>1 DEF LoopsBelow
    <2>2. QED
      BY <1>1, <1>2, <1>4, <2>1 DEF Saved
  <1>6. Enclosing(gs, {"fn"}) = Enclosing(fs, {"fn"})
    BY <1>1, <1>2 DEF Enclosing
  <1>7. FnSays(gs, a, r)
    BY <1>1, <1>6 DEF Says, FnSays, Enclosing
  <1> DEFINE m == IF f.kind \in LoopKinds THEN TRUE ELSE l
  <1>8. m \in BOOLEAN /\ (m = TRUE <=> Enclosing(gs, LoopKinds) # {})
    <2>1. CASE f.kind \in LoopKinds
      BY <1>1, <2>1 DEF Enclosing
    <2>2. CASE f.kind \notin LoopKinds
      <3>1. Enclosing(gs, LoopKinds) = Enclosing(fs, LoopKinds)
        BY <1>1, <2>2 DEF Enclosing
      <3>2. QED
        BY <2>2, <3>1 DEF Says
    <2>3. QED
      BY <2>1, <2>2
  <1>9. (IF f.kind \in Unscoped THEN d ELSE d + 1) =
          1 + Cardinality(Enclosing(gs, Kinds \ Unscoped))
    <2> DEFINE C == Cardinality(Enclosing(fs, Kinds \ Unscoped))
    <2>1. C \in Nat /\ d = 1 + C
      BY EnclosingFinite DEF Says
    <2>2. Cardinality(Enclosing(gs, Kinds \ Unscoped)) =
            C + (IF f.kind \in Kinds \ Unscoped THEN 1 ELSE 0)
      BY CountAppend
    <2> HIDE DEF C
    <2>3. QED
      BY <1>2, <2>1, <2>2
  <1>10. QED
    BY <1>1, <1>3, <1>5, <1>7, <1>8, <1>9 DEF Says

(* Leaving one.                                                            *)
LEMMA PopGood ==
  ASSUME NEW fs, NEW d, NEW l, NEW a, NEW r, Good(fs, d, l, a, r),
         fs # <<>>, Top(fs).kind \in Inner
  PROVE  /\ Good(Rest(fs), IF Top(fs).kind \in Unscoped THEN d ELSE d - 1,
                 IF Top(fs).kind \in LoopKinds THEN Top(fs).saved.loop ELSE l, a, r)
         /\ Enclosing(Rest(fs), {"fn"}) # {}
  <1> USE DEF Good
  <1> DEFINE gs == Rest(fs)
             n  == Len(fs)
             f  == Top(fs)
  <1>1. /\ gs \in Seq(FrameType) /\ n \in Nat \ {0} /\ DOMAIN gs = 1 .. n - 1
        /\ f = fs[n] /\ \A i \in 1 .. n - 1 : gs[i] = fs[i]
        /\ DOMAIN fs = 1 .. n
    BY DEF Rest, Top
  <1>2. f.kind # "fn" /\ f.kind # "type" /\ f.kind \in Kinds
    BY DEF Inner
  <1>3. Placed(gs)
    <2>1. \A i \in 1 .. n - 1 : fs[i].kind = "fn" => i = 1 \/ (i = 2 /\ gs[1].kind = "type")
      BY <1>1 DEF Placed
    <2>2. ASSUME NEW i \in 1 .. n - 1, gs[i].kind \in Inner
          PROVE  \E j \in 1 .. i - 1 : gs[j].kind = "fn"
      <3>1. i \in DOMAIN fs /\ fs[i].kind \in Inner
        BY <1>1, <2>2
      <3>2. PICK j \in 1 .. i - 1 : fs[j].kind = "fn"
        BY <3>1 DEF Placed
      <3>3. j \in 1 .. n - 1
        BY <1>1
      <3>4. QED
        BY <1>1, <3>2, <3>3
    <2>3. QED
      BY <1>1, <2>1, <2>2 DEF Placed
  <1>4. Saved(gs)
    <2>1. \A i \in 1 .. n - 1 : LoopsBelow(gs, i) = LoopsBelow(fs, i)
      BY <1>1 DEF LoopsBelow
    <2>2. QED
      BY <1>1, <2>1 DEF Saved
  <1>5. Enclosing(gs, {"fn"}) = Enclosing(fs, {"fn"})
    BY <1>1, <1>2 DEF Enclosing
  <1>6. Enclosing(gs, {"fn"}) # {}
    <2>1. \E j \in 1 .. n - 1 : fs[j].kind = "fn"
      BY <1>1 DEF Placed
    <2>2. QED
      BY <1>1, <2>1 DEF Enclosing
  <1>7. FnSays(gs, a, r)
    BY <1>1, <1>2, <1>5 DEF Says, FnSays, Enclosing
  <1> DEFINE m == IF f.kind \in LoopKinds THEN f.saved.loop ELSE l
  <1>8. m \in BOOLEAN /\ (m = TRUE <=> Enclosing(gs, LoopKinds) # {})
    <2>1. CASE f.kind \in LoopKinds
      <3>1. LoopsBelow(fs, n) = Enclosing(gs, LoopKinds)
        BY <1>1 DEF LoopsBelow, Enclosing
      <3>2. f \in FrameType
        BY <1>1
      <3>3. f.saved \in Context
        BY <3>2 DEF FrameType
      <3>4. f.saved.loop \in BOOLEAN
        BY <3>3 DEF Context
      <3>5. QED
        BY <1>1, <2>1, <3>1, <3>4 DEF Saved
    <2>2. CASE f.kind \notin LoopKinds
      <3>1. Enclosing(gs, LoopKinds) = Enclosing(fs, LoopKinds)
        BY <1>1, <2>2 DEF Enclosing
      <3>2. QED
        BY <2>2, <3>1 DEF Says
    <2>3. QED
      BY <2>1, <2>2
  <1>9. (IF f.kind \in Unscoped THEN d ELSE d - 1) =
          1 + Cardinality(Enclosing(gs, Kinds \ Unscoped))
    <2> DEFINE C == Cardinality(Enclosing(fs, Kinds \ Unscoped))
    <2>1. C \in Nat /\ d = 1 + C
      BY EnclosingFinite DEF Says
    <2>2. Cardinality(Enclosing(gs, Kinds \ Unscoped)) =
            C - (IF f.kind \in Kinds \ Unscoped THEN 1 ELSE 0)
      BY CountRest
    <2> HIDE DEF C
    <2>3. QED
      BY <1>2, <2>1, <2>2
  <1>10. QED
    BY <1>1, <1>3, <1>4, <1>6, <1>7, <1>8, <1>9 DEF Says

(* Every body but those of functions and types: what the visitor pushes.   *)
LEMMA FrameOK ==
  ASSUME TypeOK, NEW kind \in Kinds
  PROVE  /\ Frame(kind) \in FrameType
         /\ Frame(kind).kind = kind
         /\ Frame(kind).saved = [loop |-> inLoop, async |-> inAsync, ret |-> curReturn]
  BY DEF Frame, FrameType, Context, TypeOK

LEMMA StatementInFunction ==
  ASSUME IInv, Inside(frames, StatementKinds \cup {"match"})
  PROVE  Enclosing(frames, {"fn"}) # {}
  <1>1. /\ frames \in Seq(FrameType) /\ frames # <<>> /\ Placed(frames)
        /\ Top(frames).kind \in Inner \cup {"fn"}
    BY KindsDiffer DEF IInv, Good, Inside
  <1>2. Len(frames) \in DOMAIN frames /\ Top(frames) = frames[Len(frames)]
    BY <1>1 DEF Top
  <1>3. CASE Top(frames).kind = "fn"
    BY <1>2, <1>3 DEF Enclosing
  <1>4. CASE Top(frames).kind \in Inner
    <2>1. PICK j \in 1 .. Len(frames) - 1 : frames[j].kind = "fn"
      BY <1>1, <1>2, <1>4 DEF Placed
    <2>2. QED
      BY <1>1, <2>1 DEF Enclosing
  <1>5. QED
    BY <1>1, <1>3, <1>4

(* The type of the members is part of what they say.                       *)
LEMMA GoodType ==
  ASSUME NEW fs, NEW d, NEW l, NEW a, NEW r, Good(fs, d, l, a, r)
  PROVE  l \in BOOLEAN /\ d \in Nat
  BY EnclosingFinite DEF Good, Says

LEMMA InitIInv == Init => IInv
  <1> SUFFICES ASSUME Init PROVE IInv
    OBVIOUS
  <1>1. \A K : Enclosing(frames, K) = {}
    BY DEF Init, Enclosing
  <1>2. frames \in Seq(FrameType) /\ Placed(frames) /\ Saved(frames)
    BY DEF Init, Placed, Saved
  <1>3. FnSays(frames, inAsync, curReturn)
    BY <1>1 DEF Init, FnSays
  <1>4. Cardinality(Enclosing(frames, Kinds \ Unscoped)) = 0
    BY <1>1, FS_EmptySet
  <1>5. Good(frames, depth, inLoop, inAsync, curReturn)
    <2>1. inLoop \in BOOLEAN /\ (inLoop = TRUE <=> Enclosing(frames, LoopKinds) # {})
      BY <1>1 DEF Init
    <2>2. depth = 1 + Cardinality(Enclosing(frames, Kinds \ Unscoped))
      BY <1>4 DEF Init
    <2>3. QED
      BY <1>2, <1>3, <2>1, <2>2 DEF Good, Says
  <1>6. TypeOK
    BY <1>2 DEF Init, TypeOK, FrameType
  <1>7. AcceptsWellPlaced
    BY DEF Init, AcceptsWellPlaced
  <1>8. QED
    BY <1>5, <1>6, <1>7 DEF IInv

-----------------------------------------------------------------------------
(* One body entered, or left, and nothing else.                            *)
LEMMA PushIInv ==
  ASSUME IInv, NEW kind \in Inner, Inside(frames, StatementKinds \cup {"match"}),
         frames' = Append(frames, Frame(kind)),
         depth' = IF kind \in Unscoped THEN depth ELSE depth + 1,
         inLoop' = IF kind \in LoopKinds THEN TRUE ELSE inLoop,
         UNCHANGED <<inAsync, curReturn, hasErrors, misplaced>>
  PROVE  IInv'
  <1>1. TypeOK /\ Good(frames, depth, inLoop, inAsync, curReturn) /\ AcceptsWellPlaced
    BY DEF IInv
  <1>2. /\ Frame(kind) \in FrameType /\ Frame(kind).kind = kind
        /\ Frame(kind).saved.loop = inLoop
    BY <1>1, FrameOK DEF Inner
  <1>3. Enclosing(frames, {"fn"}) # {}
    BY StatementInFunction
  <1>4. Good(Append(frames, Frame(kind)), depth', inLoop', inAsync, curReturn)
    BY <1>1, <1>2, <1>3, PushGood
  <1>5. Good(frames, depth, inLoop, inAsync, curReturn)'
    BY <1>4
  <1>6. TypeOK'
    BY <1>1, <1>5, GoodType DEF TypeOK, Good, FrameType
  <1>7. AcceptsWellPlaced'
    BY <1>1 DEF AcceptsWellPlaced
  <1>8. QED
    BY <1>5, <1>6, <1>7 DEF IInv

LEMMA PopIInv ==
  ASSUME IInv, Inside(frames, Inner),
         frames' = Rest(frames),
         depth' = IF Top(frames).kind \in Unscoped THEN depth ELSE depth - 1,
         inLoop' = IF Top(frames).kind \in LoopKinds THEN Top(frames).saved.loop ELSE inLoop,
         UNCHANGED <<inAsync, curReturn, hasErrors, misplaced>>
  PROVE  IInv'
  <1>1. TypeOK /\ Good(frames, depth, inLoop, inAsync, curReturn) /\ AcceptsWellPlaced
    BY DEF IInv
  <1>2. Good(Rest(frames), depth', inLoop', inAsync, curReturn)
    BY <1>1, PopGood DEF Inside
  <1>3. Good(frames, depth, inLoop, inAsync, curReturn)'
    BY <1>2
  <1>4. TypeOK'
    BY <1>1, <1>3, GoodType DEF TypeOK, Good, FrameType
  <1>5. AcceptsWellPlaced'
    BY <1>1 DEF AcceptsWellPlaced
  <1>6. QED
    BY <1>3, <1>4, <1>5 DEF IInv

LEMMA EnterLoopIInv == ASSUME IInv, NEW kind \in LoopKinds, EnterLoop(kind) PROVE IInv'
  <1>1. kind \in Inner /\ kind \notin Unscoped
    BY KindsDiffer
  <1>2. Inside(frames, StatementKinds \cup {"match"})
    BY DEF EnterLoop, Inside
  <1>3. QED
    BY <1>1, <1>2, PushIInv DEF EnterLoop

LEMMA LeaveLoopIInv == ASSUME IInv, LeaveLoop PROVE IInv'
  <1>1. Inside(frames, Inner) /\ Top(frames).kind \in LoopKinds \ Unscoped
    BY KindsDiffer DEF LeaveLoop, Inside
  <1>2. QED
    BY <1>1, PopIInv DEF LeaveLoop

LEMMA EnterBlockIInv ==
  ASSUME IInv, NEW kind \in {"then", "case", "try"}, EnterBlock(kind)
  PROVE  IInv'
  <1>1. kind \in Inner /\ kind \notin Unscoped /\ kind \notin LoopKinds
    BY DEF Inner, Kinds, StatementKinds, LoopKinds, Unscoped
  <1>2. Inside(frames, StatementKinds \cup {"match"})
    BY DEF EnterBlock, Inside
  <1>3. QED
    BY <1>1, <1>2, PushIInv DEF EnterBlock

LEMMA LeaveBlockIInv == ASSUME IInv, LeaveBlock PROVE IInv'
  <1>1. Inside(frames, Inner) /\ Top(frames).kind \notin LoopKinds \cup Unscoped
    BY DEF LeaveBlock, Inside, Inner, Kinds, StatementKinds, LoopKinds, Unscoped
  <1>2. QED
    BY <1>1, PopIInv DEF LeaveBlock

LEMMA EnterMatchIInv == ASSUME IInv, EnterMatch PROVE IInv'
  <1>1. "match" \in Inner /\ "match" \in Unscoped /\ "match" \notin LoopKinds
    BY DEF Inner, Kinds, StatementKinds, LoopKinds, Unscoped
  <1>2. Inside(frames, StatementKinds \cup {"match"})
    BY DEF EnterMatch, Inside
  <1>3. QED
    BY <1>1, <1>2, PushIInv DEF EnterMatch

LEMMA LeaveUnscopedIInv == ASSUME IInv, LeaveUnscoped PROVE IInv'
  <1>1. Inside(frames, Inner) /\ Top(frames).kind \in Unscoped \ LoopKinds
    BY KindsDiffer DEF LeaveUnscoped, Inside, LoopKinds, Unscoped
  <1>2. QED
    BY <1>1, PopIInv DEF LeaveUnscoped

(* A then branch or try block is left before what follows it is entered.   *)
LEMMA AfterFirstBlock ==
  ASSUME IInv, Inside(frames, {"then", "try"})
  PROVE  /\ Good(Rest(frames), depth - 1, inLoop, inAsync, curReturn)
         /\ Enclosing(Rest(frames), {"fn"}) # {}
         /\ depth \in Nat
  <1>1. Top(frames).kind \in Inner \ (LoopKinds \cup Unscoped)
    BY DEF Inside, Inner, Kinds, StatementKinds, LoopKinds, Unscoped
  <1>2. Good(frames, depth, inLoop, inAsync, curReturn) /\ frames # <<>>
    BY DEF IInv, Inside
  <1>3. QED
    BY <1>1, <1>2, PopGood, GoodType

LEMMA SecondBlockIInv == ASSUME IInv, SecondBlock PROVE IInv'
  <1> DEFINE kind == IF Top(frames).kind = "then" THEN "else" ELSE "catch"
             f    == Frame(kind)
  <1>1. TypeOK /\ AcceptsWellPlaced
    BY DEF IInv
  <1>2. kind \in Inner /\ kind \in Kinds /\ kind \notin LoopKinds \cup Unscoped
    BY DEF Inner, Kinds, StatementKinds, LoopKinds, Unscoped
  <1>3. f \in FrameType /\ f.kind = kind /\ f.saved.loop = inLoop
    BY <1>1, <1>2, FrameOK
  <1>4. /\ Good(Rest(frames), depth - 1, inLoop, inAsync, curReturn)
        /\ Enclosing(Rest(frames), {"fn"}) # {}
        /\ depth \in Nat
    BY AfterFirstBlock DEF SecondBlock
  <1> HIDE DEF kind, f
  <1>5. Good(Append(Rest(frames), f), depth - 1 + 1, inLoop, inAsync, curReturn)
    BY <1>2, <1>3, <1>4, PushGood
  <1>6. /\ frames' = Append(Rest(frames), f)
        /\ UNCHANGED <<depth, inLoop, inAsync, curReturn, hasErrors, misplaced>>
    BY DEF SecondBlock, kind, f
  <1>7. Good(frames, depth, inLoop, inAsync, curReturn)'
    <2>1. depth - 1 + 1 = depth
      BY <1>4
    <2>2. QED
      BY <1>5, <1>6, <2>1
  <1>8. TypeOK'
    BY <1>1, <1>6, <1>7, GoodType DEF TypeOK, Good, FrameType
  <1>9. AcceptsWellPlaced'
    BY <1>1, <1>6 DEF AcceptsWellPlaced
  <1>10. QED
    BY <1>7, <1>8, <1>9 DEF IInv

LEMMA ElseIfIInv == ASSUME IInv, ElseIf PROVE IInv'
  <1> DEFINE e == Frame("elseif")
             t == Frame("then")
             below == Rest(frames)
  <1>1. TypeOK /\ AcceptsWellPlaced
    BY DEF IInv
  <1>2. /\ {"elseif", "then"} \subseteq Inner \ LoopKinds
        /\ "elseif" \in Unscoped /\ "then" \notin Unscoped
        /\ {"elseif", "then"} \subseteq Kinds
    BY DEF Inner, Kinds, StatementKinds, LoopKinds, Unscoped
  <1>3. /\ e \in FrameType /\ e.kind = "elseif" /\ e.saved.loop = inLoop
        /\ t \in FrameType /\ t.kind = "then" /\ t.saved.loop = inLoop
    BY <1>1, <1>2, FrameOK
  <1>4. /\ Good(below, depth - 1, inLoop, inAsync, curReturn)
        /\ Enclosing(below, {"fn"}) # {}
        /\ depth \in Nat
    BY AfterFirstBlock DEF ElseIf, Inside
  <1>5. frames' = below \o <<e, t>>
    BY DEF ElseIf
  <1> HIDE DEF e, t, below
  <1>6. Good(Append(below, e), depth - 1, inLoop, inAsync, curReturn)
    BY <1>2, <1>3, <1>4, PushGood
  <1>7. below \in Seq(FrameType)
    BY <1>4 DEF Good
  <1>8. Enclosing(Append(below, e), {"fn"}) # {}
    BY <1>3, <1>4, <1>7, EnclosingAppend
  <1>9. Good(Append(Append(below, e), t), depth - 1 + 1, inLoop, inAsync, curReturn)
    BY <1>2, <1>3, <1>6, <1>8, PushGood
  <1>10. frames' = Append(Append(below, e), t)
    BY <1>3, <1>5, <1>7
  <1>11. UNCHANGED <<depth, inLoop, inAsync, curReturn, hasErrors, misplaced>>
    BY DEF ElseIf
  <1>12. Good(frames, depth, inLoop, inAsync, curReturn)'
    <2>1. depth - 1 + 1 = depth
      BY <1>4
    <2>2. QED
      BY <1>9, <1>10, <1>11, <2>1
  <1>13. TypeOK'
    BY <1>1, <1>11, <1>12, GoodType DEF TypeOK, Good, FrameType
  <1>14. AcceptsWellPlaced'
    BY <1>1, <1>11 DEF AcceptsWellPlaced
  <1>15. QED
    BY <1>12, <1>13, <1>14 DEF IInv

-----------------------------------------------------------------------------
(* A function or type opens at the bottom, where the members are at rest.  *)
LEMMA OutsideFunctions ==
  ASSUME IInv, frames = <<>> \/ Inside(frames, {"type"})
  PROVE  /\ frames = <<>> \/ (Len(frames) = 1 /\ frames[1].kind = "type")
         /\ Enclosing(frames, {"fn"}) = {}
         /\ inAsync = FALSE /\ curReturn = NoType
  <1>1. Good(frames, depth, inLoop, inAsync, curReturn)
    BY DEF IInv
  <1>2. frames \in Seq(FrameType) /\ Placed(frames) /\ FnSays(frames, inAsync, curReturn)
    BY <1>1 DEF Good, Says
  <1>3. frames = <<>> \/ (Len(frames) = 1 /\ frames[1].kind = "type")
    <2>1. ASSUME frames # <<>> PROVE Len(frames) = 1 /\ frames[1].kind = "type"
      <3>1. frames[Len(frames)].kind = "type" /\ Len(frames) \in DOMAIN frames
        BY <1>2, <2>1 DEF Inside, Top
      <3>2. QED
        BY <1>2, <3>1 DEF Placed
    <2>2. QED
      BY <2>1
  <1>4. Enclosing(frames, {"fn"}) = {}
    BY <1>2, <1>3 DEF Enclosing
  <1>5. QED
    BY <1>2, <1>3, <1>4 DEF FnSays

Declared(g, async, ret) == [g EXCEPT !.async = async, !.ret = ret]

LEMMA FunctionFrame ==
  ASSUME NEW g \in FrameType, NEW async \in BOOLEAN, NEW ret \in ReturnTypes
  PROVE  /\ Declared(g, async, ret) \in FrameType
         /\ Declared(g, async, ret).kind = g.kind
         /\ Declared(g, async, ret).saved = g.saved
         /\ Declared(g, async, ret).async = async
         /\ Declared(g, async, ret).ret = ret
  <1>1. Declared(g, async, ret) \in FrameType
    BY DEF FrameType, Declared
  <1>2. Declared(g, async, ret).kind = g.kind /\ Declared(g, async, ret).saved = g.saved
    BY DEF FrameType, Declared
  <1>3. Declared(g, async, ret).async = async
    BY Zenon DEF FrameType, Declared
  <1>4. Declared(g, async, ret).ret = ret
    BY DEF FrameType, Declared
  <1>5. QED
    BY <1>1, <1>2, <1>3, <1>4

LEMMA EnterFunctionIInv ==
  ASSUME IInv, NEW async \in BOOLEAN, NEW ret \in ReturnTypes, EnterFunction(async, ret)
  PROVE  IInv'
  <1> DEFINE n == Len(frames)
  <1>1. TypeOK /\ AcceptsWellPlaced /\ Good(frames, depth, inLoop, inAsync, curReturn)
    BY DEF IInv
  <1>2. /\ frames = <<>> \/ (n = 1 /\ frames[1].kind = "type")
        /\ Enclosing(frames, {"fn"}) = {}
        /\ inAsync = FALSE /\ curReturn = NoType
    BY OutsideFunctions DEF EnterFunction
  <1>0. /\ Frame("fn") \in FrameType /\ Frame("fn").kind = "fn"
        /\ Frame("fn").saved = [loop |-> inLoop, async |-> FALSE, ret |-> NoType]
    BY <1>1, <1>2, FrameOK, KindsDiffer
  <1>f. PICK f : f = Declared(Frame("fn"), async, ret)
    OBVIOUS
  <1>a. f.async = async
    BY <1>0, <1>f, FunctionFrame
  <1>3. /\ f \in FrameType /\ f.kind = "fn" /\ f.ret = ret
        /\ f.saved.async = FALSE /\ f.saved.ret = NoType
    BY <1>0, <1>f, FunctionFrame
  <1>4. frames \in Seq(FrameType) /\ Placed(frames) /\ Saved(frames)
    BY <1>1 DEF Good
  <1>5. /\ frames' = Append(frames, f) /\ depth' = depth + 1
        /\ inAsync' = async /\ curReturn' = ret
        /\ UNCHANGED <<inLoop, hasErrors, misplaced>>
    BY <1>f DEF EnterFunction, Declared
  <1>6. /\ frames' \in Seq(FrameType) /\ DOMAIN frames' = 1 .. n + 1 /\ n \in 0 .. 1
        /\ frames'[n + 1] = f /\ (n = 1 => frames'[1] = frames[1])
        /\ "fn" \notin LoopKinds \cup Inner
    BY <1>2, <1>3, <1>4, <1>5 DEF LoopKinds, Inner
  <1>7. Placed(frames')
    BY <1>2, <1>3, <1>4, <1>6 DEF Placed, Inner
  <1>8. Saved(frames')
    BY <1>2, <1>3, <1>4, <1>6 DEF Saved, LoopKinds
  <1>9. Enclosing(frames', {"fn"}) = {n + 1}
    <2>1. \A i \in 1 .. n + 1 : frames'[i].kind = "fn" <=> i = n + 1
      <3>1. n = 1 => frames'[1].kind = "type"
        BY <1>2, <1>6
      <3>2. frames'[n + 1].kind = "fn"
        BY <1>3, <1>6
      <3>3. CASE n = 0
        BY <3>2, <3>3
      <3>4. CASE n = 1
        BY <3>1, <3>2, <3>4
      <3>5. QED
        BY <1>6, <3>3, <3>4
    <2>2. QED
      BY <1>6, <2>1 DEF Enclosing
  <1>10. FnSays(frames', inAsync', curReturn')
    BY <1>a, <1>3, <1>5, <1>6, <1>9 DEF FnSays
  <1>11. Enclosing(frames', LoopKinds) = Enclosing(frames, LoopKinds)
    BY <1>3, <1>4, <1>5, <1>6 DEF Enclosing
  <1>12. inLoop' \in BOOLEAN /\ (inLoop' = TRUE <=> Enclosing(frames', LoopKinds) # {})
    BY <1>1, <1>5, <1>11 DEF Good, Says
  <1>13. depth' = 1 + Cardinality(Enclosing(frames', Kinds \ Unscoped))
    <2>1. f.kind \in Kinds \ Unscoped
      BY <1>3, KindsDiffer
    <2>2. Cardinality(Enclosing(frames', Kinds \ Unscoped)) =
            Cardinality(Enclosing(frames, Kinds \ Unscoped)) + 1
      BY <1>3, <1>4, <1>5, <2>1, CountAppend
    <2>3. depth = 1 + Cardinality(Enclosing(frames, Kinds \ Unscoped))
      BY <1>1 DEF Good, Says
    <2>4. Cardinality(Enclosing(frames, Kinds \ Unscoped)) \in Nat
      BY <1>4, EnclosingFinite
    <2>5. QED
      BY <1>5, <2>2, <2>3, <2>4
  <1>14. Good(frames, depth, inLoop, inAsync, curReturn)'
    BY <1>6, <1>7, <1>8, <1>10, <1>12, <1>13 DEF Good, Says
  <1>15. TypeOK'
    BY <1>1, <1>5, <1>14, GoodType DEF TypeOK, Good, FrameType
  <1>16. AcceptsWellPlaced'
    BY <1>1, <1>5 DEF AcceptsWellPlaced
  <1>17. QED
    BY <1>14, <1>15, <1>16 DEF IInv

LEMMA EnterTypeIInv == ASSUME IInv, EnterType PROVE IInv'
  <1> DEFINE f == Frame("type")
  <1>1. TypeOK /\ AcceptsWellPlaced /\ Good(frames, depth, inLoop, inAsync, curReturn)
    BY DEF IInv
  <1>2. /\ frames = <<>> /\ frames' = <<f>> /\ depth' = depth + 1
        /\ UNCHANGED <<inLoop, inAsync, curReturn, hasErrors, misplaced>>
    BY DEF EnterType
  <1>3. f \in FrameType /\ f.kind = "type" /\ f.kind \in Kinds \ Unscoped
    BY <1>1, FrameOK, KindsDiffer
  <1>4. "type" \notin LoopKinds \cup Inner \cup {"fn"}
    BY DEF LoopKinds, Inner
  <1> HIDE DEF f
  <1>5. frames' \in Seq(FrameType) /\ Placed(frames') /\ Saved(frames')
    BY <1>2, <1>3, <1>4 DEF Placed, Saved
  <1>6. /\ \A K : Enclosing(frames, K) = {}
        /\ \A K : "type" \notin K => Enclosing(frames', K) = {}
        /\ Enclosing(frames', Kinds \ Unscoped) = {1}
    BY <1>2, <1>3 DEF Enclosing
  <1>7. FnSays(frames', inAsync', curReturn')
    BY <1>1, <1>2, <1>6 DEF Good, Says, FnSays
  <1>8. inLoop' \in BOOLEAN /\ (inLoop' = TRUE <=> Enclosing(frames', LoopKinds) # {})
    BY <1>1, <1>2, <1>4, <1>6 DEF Good, Says
  <1>9. depth' = 1 + Cardinality(Enclosing(frames', Kinds \ Unscoped))
    <2>1. Cardinality({}) = 0 /\ Cardinality({1}) = 1
      BY FS_EmptySet, FS_Singleton
    <2>2. Cardinality(Enclosing(frames', Kinds \ Unscoped)) = 1
      BY <1>6, <2>1
    <2>3. Cardinality(Enclosing(frames, Kinds \ Unscoped)) = 0
      BY <1>6, <2>1
    <2>4. depth = 1 + 0
      BY <1>1, <2>3 DEF Good, Says
    <2>5. QED
      BY <1>2, <2>2, <2>4
  <1>10. Good(frames, depth, inLoop, inAsync, curReturn)'
    BY <1>5, <1>7, <1>8, <1>9 DEF Good, Says
  <1>11. TypeOK'
    BY <1>1, <1>2, <1>10, GoodType DEF TypeOK, Good, FrameType
  <1>12. AcceptsWellPlaced'
    BY <1>1, <1>2 DEF AcceptsWellPlaced
  <1>13. QED
    BY <1>10, <1>11, <1>12 DEF IInv

(* Leaving a function or a type.                                           *)
LEMMA CloseGood ==
  ASSUME IInv, Inside(frames, {"fn", "type"})
  PROVE  /\ Good(Rest(frames), depth - 1, inLoop, FALSE, NoType)
         /\ Top(frames).kind = "fn" =>
              Top(frames).saved.async = FALSE /\ Top(frames).saved.ret = NoType
         /\ Top(frames).kind = "type" => inAsync = FALSE /\ curReturn = NoType
  <1> DEFINE n == Len(frames)
             f == Top(frames)
             gs == Rest(frames)
  <1>1. TypeOK /\ Good(frames, depth, inLoop, inAsync, curReturn)
    BY DEF IInv
  <1>2. frames \in Seq(FrameType) /\ Placed(frames) /\ Saved(frames)
    BY <1>1 DEF Good
  <1>3. /\ gs \in Seq(FrameType) /\ n \in Nat \ {0} /\ DOMAIN gs = 1 .. n - 1
        /\ f = frames[n] /\ \A i \in 1 .. n - 1 : gs[i] = frames[i]
        /\ DOMAIN frames = 1 .. n /\ f.kind \in {"fn", "type"} /\ frames # <<>>
    BY <1>2 DEF Rest, Top, Inside
  <1>4. n = 1 \/ (n = 2 /\ f.kind = "fn" /\ frames[1].kind = "type")
    BY <1>2, <1>3 DEF Placed
  <1>5. Placed(gs) /\ Saved(gs)
    <2>1. "type" \notin LoopKinds \cup Inner \cup {"fn"}
      BY DEF LoopKinds, Inner
    <2>2. \A i \in DOMAIN gs : i = 1 /\ gs[i].kind = "type"
      BY <1>3, <1>4
    <2>3. QED
      BY <1>3, <2>1, <2>2 DEF Placed, Saved
  <1>6. Enclosing(gs, {"fn"}) = {}
    BY <1>3, <1>4 DEF Enclosing
  <1>7. FnSays(gs, FALSE, NoType)
    BY <1>6 DEF FnSays
  <1>8. Enclosing(gs, LoopKinds) = Enclosing(frames, LoopKinds)
    BY <1>3 DEF Enclosing, LoopKinds
  <1>9. inLoop \in BOOLEAN /\ (inLoop = TRUE <=> Enclosing(gs, LoopKinds) # {})
    BY <1>1, <1>8 DEF Good, Says
  <1>10. depth - 1 = 1 + Cardinality(Enclosing(gs, Kinds \ Unscoped))
    <2>1. f.kind \in Kinds \ Unscoped
      BY <1>3, KindsDiffer
    <2>2. Cardinality(Enclosing(gs, Kinds \ Unscoped)) =
            Cardinality(Enclosing(frames, Kinds \ Unscoped)) - 1
      BY <1>2, <1>3, <2>1, CountRest
    <2>3. depth = 1 + Cardinality(Enclosing(frames, Kinds \ Unscoped))
      BY <1>1 DEF Good, Says
    <2>4. Cardinality(Enclosing(frames, Kinds \ Unscoped)) \in Nat
      BY <1>2, EnclosingFinite
    <2>5. QED
      BY <2>2, <2>3, <2>4
  <1>11. f.kind = "type" => inAsync = FALSE /\ curReturn = NoType
    <2>1. f.kind = "type" => Inside(frames, {"type"})
      BY <1>3 DEF Inside
    <2>2. QED
      BY <2>1, OutsideFunctions
  <1>12. f.kind = "fn" => f.saved.async = FALSE /\ f.saved.ret = NoType
    BY <1>2, <1>3 DEF Saved
  <1>13. QED
    BY <1>3, <1>5, <1>7, <1>9, <1>10, <1>11, <1>12 DEF Good, Says

LEMMA LeaveIInv == ASSUME IInv, LeaveFunction \/ LeaveType PROVE IInv'
  <1>1. TypeOK /\ AcceptsWellPlaced
    BY DEF IInv
  <1>2. /\ frames' = Rest(frames) /\ depth' = depth - 1
        /\ UNCHANGED <<inLoop, hasErrors, misplaced>>
        /\ inAsync' = FALSE /\ curReturn' = NoType
        /\ Good(Rest(frames), depth - 1, inLoop, FALSE, NoType)
    <2>1. CASE LeaveFunction
      <3>1. Inside(frames, {"fn", "type"}) /\ Top(frames).kind = "fn"
        BY <2>1 DEF LeaveFunction, Inside
      <3>2. QED
        BY <2>1, <3>1, CloseGood DEF LeaveFunction
    <2>2. CASE LeaveType
      <3>1. Inside(frames, {"fn", "type"}) /\ Top(frames).kind = "type"
        BY <2>2 DEF LeaveType, Inside
      <3>2. QED
        BY <2>2, <3>1, CloseGood DEF LeaveType
    <2>3. QED
      BY <2>1, <2>2
  <1>3. Good(frames, depth, inLoop, inAsync, curReturn)'
    BY <1>2
  <1>4. TypeOK'
    BY <1>1, <1>2, <1>3, GoodType DEF TypeOK, Good, FrameType
  <1>5. AcceptsWellPlaced'
    BY <1>1, <1>2 DEF AcceptsWellPlaced
  <1>6. QED
    BY <1>3, <1>4, <1>5 DEF IInv

(* A leaf statement: the members and the nesting judge it alike.           *)
LEMMA JudgeIInv ==
  ASSUME IInv, NEW error \in BOOLEAN, NEW wrong \in BOOLEAN, Judge(error, wrong), error = wrong
  PROVE  IInv'
  <1>1. TypeOK /\ AcceptsWellPlaced /\ Good(frames, depth, inLoop, inAsync, curReturn)
    BY DEF IInv
  <1>2. UNCHANGED <<frames, depth, inLoop, inAsync, curReturn>>
    BY DEF Judge
  <1>3. Good(frames, depth, inLoop, inAsync, curReturn)'
    BY <1>1, <1>2
  <1>4. hasErrors' = (hasErrors \/ error) /\ misplaced' = (misplaced \/ wrong)
    BY DEF Judge
  <1>5. TypeOK'
    BY <1>1, <1>2, <1>4 DEF TypeOK
  <1>6. AcceptsWellPlaced'
    BY <1>1, <1>4 DEF AcceptsWellPlaced, TypeOK
  <1>7. QED
    BY <1>3, <1>5, <1>6 DEF IInv

LEMMA BreakIInv == ASSUME IInv, BreakOrContinue PROVE IInv'
  <1>1. ~inLoop <=> Enclosing(frames, LoopKinds) = {}
    BY DEF IInv, Good, Says
  <1>2. Judge(~inLoop, Enclosing(frames, LoopKinds) = {})
    BY DEF BreakOrContinue
  <1>3. QED
    BY <1>1, <1>2, JudgeIInv

(* What the members say of the function a statement is in.                 *)
LEMMA FunctionSays ==
  ASSUME IInv, Inside(frames, StatementKinds)
  PROVE  inAsync = InnermostFn(frames).async /\ curReturn = InnermostFn(frames).ret
  <1>1. /\ frames \in Seq(FrameType) /\ Placed(frames)
        /\ FnSays(frames, inAsync, curReturn)
    BY DEF IInv, Good, Says
  <1>2. Inside(frames, StatementKinds \cup {"match"})
    BY DEF Inside
  <1>3. PICK p : p \in Enclosing(frames, {"fn"})
    BY <1>2, StatementInFunction
  <1>4. InnermostFn(frames) = frames[p]
    BY <1>1, <1>3, InnermostIsAny
  <1>5. inAsync = frames[p].async /\ curReturn = frames[p].ret
    BY <1>1, <1>3, Zenon DEF FnSays
  <1>6. QED
    BY <1>4, <1>5, Zenon

LEMMA AwaitIInv == ASSUME IInv, Await PROVE IInv'
  <1>1. Judge(~inAsync, ~InnermostFn(frames).async)
    BY DEF Await
  <1>2. Inside(frames, StatementKinds)
    BY <1>1 DEF Judge
  <1>3. inAsync = InnermostFn(frames).async
    BY <1>2, FunctionSays
  <1>4. ~inAsync <=> ~InnermostFn(frames).async
    BY <1>3, Zenon
  <1>5. QED
    BY <1>1, <1>4, JudgeIInv

LEMMA ReturnIInv == ASSUME IInv, NEW t, ReturnValue(t) PROVE IInv'
  <1>1. Judge(TypeError(t, curReturn), TypeError(t, InnermostFn(frames).ret))
    BY DEF ReturnValue
  <1>2. Inside(frames, StatementKinds)
    BY <1>1 DEF Judge
  <1>3. curReturn = InnermostFn(frames).ret
    BY <1>2, FunctionSays
  <1>4. TypeError(t, curReturn) <=> TypeError(t, InnermostFn(frames).ret)
    BY <1>3
  <1>5. TypeError(t, curReturn) \in BOOLEAN /\ TypeError(t, InnermostFn(frames).ret) \in BOOLEAN
    BY DEF TypeError
  <1>6. QED
    BY <1>1, <1>4, <1>5, JudgeIInv

-----------------------------------------------------------------------------
LEMMA NextIInv == IInv /\ [Next]_vars => IInv'
  <1> SUFFICES ASSUME IInv, [Next]_vars PROVE IInv'
    OBVIOUS
  <1>1. CASE EnterType
    BY <1>1, EnterTypeIInv
  <1>2. CASE LeaveType \/ LeaveFunction
    BY <1>2, LeaveIInv
  <1>3. CASE \E async \in BOOLEAN, ret \in ReturnTypes : EnterFunction(async, ret)
    BY <1>3, EnterFunctionIInv
  <1>4. CASE \E kind \in LoopKinds : EnterLoop(kind)
    BY <1>4, EnterLoopIInv
  <1>5. CASE LeaveLoop
    BY <1>5, LeaveLoopIInv
  <1>6. CASE \E kind \in {"then", "case", "try"} : EnterBlock(kind)
    BY <1>6, EnterBlockIInv
  <1>7. CASE LeaveBlock
    BY <1>7, LeaveBlockIInv
  <1>8. CASE SecondBlock
    BY <1>8, SecondBlockIInv
  <1>9. CASE ElseIf
    BY <1>9, ElseIfIInv
  <1>10. CASE EnterMatch
    BY <1>10, EnterMatchIInv
  <1>11. CASE LeaveUnscoped
    BY <1>11, LeaveUnscopedIInv
  <1>12. CASE BreakOrContinue
    BY <1>12, BreakIInv
  <1>13. CASE Await
    BY <1>13, AwaitIInv
  <1>14. CASE \E t \in Types \cup {NoType} : ReturnValue(t)
    BY <1>14, ReturnIInv
  <1>15. CASE UNCHANGED vars
    BY <1>15 DEF IInv, vars, TypeOK, AcceptsWellPlaced
  <1>16. QED
    BY <1>1, <1>2, <1>3, <1>4, <1>5, <1>6, <1>7, <1>8, <1>9, <1>10, <1>11, <1>12,
       <1>13, <1>14, <1>15 DEF Next

LEMMA IInvSaysNesting == IInv => ContextIsNesting
  <1> SUFFICES ASSUME IInv PROVE ContextIsNesting
    OBVIOUS
  <1>1. /\ frames \in Seq(FrameType) /\ Placed(frames)
        /\ FnSays(frames, inAsync, curReturn)
        /\ inLoop \in BOOLEAN /\ (inLoop = TRUE <=> Enclosing(frames, LoopKinds) # {})
        /\ depth = 1 + Cardinality(Enclosing(frames, Kinds \ {"elseif", "match"}))
    BY DEF IInv, Good, Says, Unscoped
  <1>2. inLoop = (Enclosing(frames, LoopKinds) # {})
    BY <1>1
  <1>3. CASE Enclosing(frames, {"fn"}) = {}
    <2>1. inAsync = FALSE /\ curReturn = NoType
      BY <1>1, <1>3 DEF FnSays
    <2>2. QED
      BY <1>1, <1>2, <1>3, <2>1 DEF ContextIsNesting
  <1>4. CASE Enclosing(frames, {"fn"}) # {}
    <2>1. PICK p : p \in Enclosing(frames, {"fn"})
      BY <1>4
    <2>2. InnermostFn(frames) = frames[p]
      BY <1>1, <2>1, InnermostIsAny
    <2>3. inAsync = frames[p].async /\ curReturn = frames[p].ret
      BY <1>1, <2>1, Zenon DEF FnSays
    <2>4. inAsync = InnermostFn(frames).async /\ curReturn = InnermostFn(frames).ret
      BY <2>2, <2>3, Zenon
    <2>5. QED
      BY <1>1, <1>2, <1>4, <2>4, Zenon DEF ContextIsNesting
  <1>5. QED
    BY <1>3, <1>4

LEMMA SpecIInv == Spec => []IInv
  BY InitIInv, NextIInv, PTL DEF Spec

(* The analyser's members always have the types the code declares.         *)
THEOREM WalkTypeCorrect == Spec => []TypeOK
  <1>1. IInv => TypeOK
    BY DEF IInv
  <1>2. QED
    BY <1>1, SpecIInv, PTL

(* However deep the program nests, m_inLoop, m_inAsync,                    *)
(* m_currentReturnType and the scope stack say at every point of the walk  *)
(* what the constructs around it say: no visitor restores the wrong value. *)
THEOREM ContextHolds == Spec => []ContextIsNesting
  BY SpecIInv, IInvSaysNesting, PTL

(* analyse accepts exactly the programs in which every break, continue,    *)
(* await and return stands where the constructs around it allow it, for    *)
(* every set of types and every depth of nesting.                          *)
THEOREM WellPlacedAccepted == Spec => []AcceptsWellPlaced
  <1>1. IInv => AcceptsWellPlaced
    BY DEF IInv
  <1>2. QED
    BY <1>1, SpecIInv, PTL

-----------------------------------------------------------------------------
(* Every step of the two is a step of the analyser, or leaves it alone.    *)
LEMMA StepIsWalkStep == AllNext => [Next]_vars
  <1> SUFFICES ASSUME AllNext PROVE [Next]_vars
    OBVIOUS
  <1>1. CASE TypeStep
    BY <1>1 DEF TypeStep, Next
  <1>2. CASE ConstStep
    BY <1>2 DEF ConstStep
  <1>3. CASE EnterBoth
    <2>1. {"for", "while", "loop"} \subseteq LoopKinds
      BY DEF LoopKinds
    <2>2. QED
      BY <1>3, <2>1 DEF EnterBoth, Next
  <1>4. CASE LeaveBoth
    BY <1>4 DEF LeaveBoth, Next
  <1>5. CASE LoopJumpBoth
    BY <1>5 DEF LoopJumpBoth, Next
  <1>6. CASE LeafBoth
    BY <1>6 DEF LeafBoth, Next
  <1>7. QED
    BY <1>1, <1>2, <1>3, <1>4, <1>5, <1>6 DEF AllNext

LEMMA AllIInv == AllSpec => []IInv
  <1>1. AllInit => IInv
    BY InitIInv DEF AllInit
  <1>2. IInv /\ [AllNext]_allVars => IInv'
    <2>1. UNCHANGED allVars => UNCHANGED vars
      BY DEF allVars
    <2>2. QED
      BY <2>1, StepIsWalkStep, NextIInv
  <1>3. QED
    BY <1>1, <1>2, PTL DEF AllSpec

(* The members of the analyser say what the nesting says in the company of *)
(* IRGen as well.                                                          *)
THEOREM ContextHoldsInCompany == AllSpec => []ContextIsNesting
  BY AllIInv, IInvSaysNesting, PTL

(* analyse accepts exactly the well-placed programs in the company of      *)
(* IRGen as well.                                                          *)
THEOREM WellPlacedAcceptedInCompany == AllSpec => []AcceptsWellPlaced
  <1>1. IInv => AcceptsWellPlaced
    BY DEF IInv
  <1>2. QED
    BY <1>1, AllIInv, PTL

-----------------------------------------------------------------------------
(* Every step of the two is a step of IRGen, or leaves it alone.           *)
LEMMA StepIsIRStep == AllNext => [G!Next]_(G!vars)
  <1> SUFFICES ASSUME AllNext PROVE G!Next \/ UNCHANGED irVars
    BY DEF irVars, G!vars
  <1>1. CASE TypeStep
    BY <1>1 DEF TypeStep
  <1>2. CASE ConstStep
    BY <1>2 DEF ConstStep, G!Next
  <1>3. CASE EnterBoth
    BY <1>3 DEF EnterBoth, G!Next
  <1>4. CASE LeaveBoth
    BY <1>4 DEF LeaveBoth, G!Next
  <1>5. CASE LoopJumpBoth
    BY <1>5 DEF LoopJumpBoth, G!Next
  <1>6. CASE LeafBoth
    BY <1>6 DEF LeafBoth
  <1>7. QED
    BY <1>1, <1>2, <1>3, <1>4, <1>5, <1>6 DEF AllNext

LEMMA AllIRInv == AllSpec => []IRInv
  <1>1. AllInit => IRInv
    BY InitIRInv DEF AllInit
  <1>2. IRInv /\ [AllNext]_allVars => IRInv'
    <2>1. UNCHANGED allVars => UNCHANGED G!vars
      BY DEF allVars, irVars, G!vars
    <2>2. QED
      BY <2>1, StepIsIRStep, NextIRInv
  <1>3. QED
    BY <1>1, <1>2, PTL DEF AllSpec

(* In the company of the analyser, too, every jump has a block or will.    *)
THEOREM TargetsHoldInCompany == AllSpec => []TargetsCovered
  <1>1. IRInv => TargetsCovered
    BY IRInvTargets DEF TargetsCovered
  <1>2. QED
    BY <1>1, AllIRInv, PTL

(* Every variable of the two has its type, whatever the program.           *)
THEOREM AllTypeCorrect == AllSpec => []AllTypeOK
  <1>1. IInv => TypeOK
    BY DEF IInv
  <1>2. QED
    BY <1>1, IRInvTypes, AllIInv, AllIRInv, PTL DEF AllTypeOK

(* And setInsertBlock never meets a label that has a block already.        *)
THEOREM FreshHoldsInCompany == AllSpec => []OwedIsFresh
  <1>1. IRInv => OwedIsFresh
    BY IRInvFresh DEF OwedIsFresh
  <1>2. QED
    BY <1>1, AllIRInv, PTL

LEMMA AllListed == AllSpec => []Listed(irFrames, loopStack)
  <1>1. AllInit => Listed(irFrames, loopStack)
    BY ListedInit DEF AllInit
  <1>2. IRInv /\ IRInv' /\ Listed(irFrames, loopStack) /\ [AllNext]_allVars
          => Listed(irFrames, loopStack)'
    <2>1. UNCHANGED allVars => UNCHANGED G!vars
      BY DEF allVars, irVars, G!vars
    <2>2. QED
      BY <2>1, StepIsIRStep, ListedNext
  <1>3. QED
    BY <1>1, <1>2, AllIRInv, PTL DEF AllSpec

(* Nor does company cost IRGen its loops: the loop stack still lists the   *)
(* open ones, so break and continue mean the innermost loop around them.   *)
THEOREM LoopStackHoldsInCompany == AllSpec => []LoopStackMatches
  <1>1. Listed(irFrames, loopStack) => LoopStackMatches
    BY ListedIs DEF LoopStackMatches
  <1>2. QED
    BY <1>1, AllListed, PTL

(* In the company of the analyser, too, control flow goes back only to     *)
(* the head of a loop.                                                     *)
THEOREM BackEdgesHoldInCompany == AllSpec => []BackEdgesAreLoops
  <1>1. AllInit => Ahead(blocks)
    BY AheadInit DEF AllInit
  <1>2. IRInv /\ Listed(irFrames, loopStack) /\ Ahead(blocks) /\ [AllNext]_allVars
          => Ahead(blocks)'
    <2>1. UNCHANGED allVars => UNCHANGED G!vars
      BY DEF allVars, irVars, G!vars
    <2>2. QED
      BY <2>1, StepIsIRStep, AheadNext
  <1>3. Ahead(blocks) => BackEdgesAreLoops
    BY AheadIs DEF BackEdgesAreLoops
  <1>4. QED
    BY <1>1, <1>2, <1>3, AllIRInv, AllListed, PTL DEF AllSpec

-----------------------------------------------------------------------------
(* The two call stacks, kind by kind.  IRGen's is empty inside a type.     *)
SameKinds(fs, gs) ==
  /\ Len(fs) = Len(gs)
  /\ \A i \in 1 .. Len(fs) : fs[i].kind = gs[i].kind

SideBySide == IF InType THEN irFrames = <<>> ELSE SameKinds(frames, irFrames)

(* The inductive invariant of the composition.                             *)
AllInv == IInv /\ IRInv /\ SideBySide

LEMMA SameKindsAppend ==
  ASSUME NEW S, NEW T, NEW fs \in Seq(S), NEW gs \in Seq(T), SameKinds(fs, gs),
         NEW f, NEW g, f.kind = g.kind
  PROVE  SameKinds(Append(fs, f), Append(gs, g))
  <1> DEFINE as == Append(fs, f)
             bs == Append(gs, g)
             n  == Len(fs)
  <1>1. fs \in Seq(S \cup {f}) /\ gs \in Seq(T \cup {g}) /\ n \in Nat /\ Len(gs) = n
    BY DEF SameKinds
  <1>2. Len(as) = n + 1 /\ as[n + 1] = f /\ \A i \in 1 .. n : as[i] = fs[i]
    BY <1>1
  <1>3. Len(bs) = n + 1 /\ bs[n + 1] = g /\ \A i \in 1 .. n : bs[i] = gs[i]
    BY <1>1
  <1>4. \A i \in 1 .. n + 1 : i \in 1 .. n \/ i = n + 1
    BY <1>1
  <1>5. \A i \in 1 .. n : fs[i].kind = gs[i].kind
    BY DEF SameKinds
  <1> HIDE DEF as, bs, n
  <1>6. \A i \in 1 .. n + 1 : as[i].kind = bs[i].kind
    BY <1>2, <1>3, <1>4, <1>5
  <1>7. SameKinds(as, bs)
    BY <1>2, <1>3, <1>6 DEF SameKinds
  <1>8. QED
    BY <1>7 DEF as, bs

LEMMA SameKindsRest ==
  ASSUME NEW S, NEW T, NEW fs \in Seq(S), NEW gs \in Seq(T), SameKinds(fs, gs), fs # <<>>
  PROVE  /\ SameKinds(Rest(fs), Rest(gs)) /\ Rest(fs) \in Seq(S) /\ Rest(gs) \in Seq(T)
         /\ gs # <<>> /\ Top(fs).kind = Top(gs).kind
  <1>1. Len(fs) \in Nat \ {0} /\ Len(gs) = Len(fs) /\ gs # <<>>
    BY DEF SameKinds
  <1>2. /\ Rest(fs) \in Seq(S) /\ Len(Rest(fs)) = Len(fs) - 1
        /\ \A i \in 1 .. Len(fs) - 1 : Rest(fs)[i] = fs[i]
    BY <1>1 DEF Rest
  <1>3. /\ Rest(gs) \in Seq(T) /\ Len(Rest(gs)) = Len(fs) - 1
        /\ \A i \in 1 .. Len(fs) - 1 : Rest(gs)[i] = gs[i]
    BY <1>1 DEF Rest
  <1>4. \A i \in 1 .. Len(fs) - 1 : fs[i].kind = gs[i].kind
    BY <1>1 DEF SameKinds
  <1>5. SameKinds(Rest(fs), Rest(gs))
    BY <1>2, <1>3, <1>4 DEF SameKinds
  <1>6. Top(fs).kind = Top(gs).kind
    BY <1>1 DEF Top, SameKinds
  <1>7. QED
    BY <1>1, <1>2, <1>3, <1>5, <1>6

LEMMA IRFrameKind ==
  ASSUME NEW kind, NEW head, NEW next, NEW end
  PROVE  G!Frame(kind, head, next, end).kind = kind
  BY DEF G!Frame

LEMMA WalkFrameKind ==
  ASSUME NEW kind
  PROVE  Frame(kind).kind = kind
  BY DEF Frame

LEMMA Stacks ==
  ASSUME AllInv
  PROVE  frames \in Seq(FrameType) /\ irFrames \in Seq(IRFrame) /\ Placed(frames)
  BY DEF AllInv, IInv, Good, IRInv, Sound

(* Outside a type the two enter and leave the same constructs.             *)
Untyped(fs) == \A i \in DOMAIN fs : fs[i].kind # "type"

LEMMA InTypeMeans == InType <=> ~Untyped(frames)
  BY DEF InType, Untyped, Enclosing

LEMMA UntypedAppend ==
  ASSUME NEW S, NEW fs \in Seq(S), Untyped(fs), NEW f, f.kind # "type"
  PROVE  Untyped(Append(fs, f))
  <1>1. fs \in Seq(S \cup {f})
    OBVIOUS
  <1>2. QED
    BY <1>1 DEF Untyped

LEMMA UntypedRest ==
  ASSUME NEW S, NEW fs \in Seq(S), fs # <<>>, Untyped(fs)
  PROVE  Untyped(Rest(fs))
  BY DEF Untyped, Rest

LEMMA EnterSame ==
  ASSUME AllInv, ~InType, EnterBoth
  PROVE  \E f, g : /\ frames' = Append(frames, f) /\ irFrames' = Append(irFrames, g)
                  /\ f.kind = g.kind /\ f.kind # "type"
  <1>1. CASE (\E async \in BOOLEAN, ret \in ReturnTypes : EnterFunction(async, ret))
               /\ G!EnterFunction
    <2>1. PICK async \in BOOLEAN, ret \in ReturnTypes : EnterFunction(async, ret)
      BY <1>1
    <2>2. Frame("fn") \in FrameType /\ Frame("fn").kind = "fn"
      BY FrameOK, KindsDiffer DEF AllInv, IInv
    <2>3. PICK f : f = Declared(Frame("fn"), async, ret)
      OBVIOUS
    <2>4. f.kind = "fn"
      BY <2>2, <2>3, FunctionFrame
    <2>5. frames' = Append(frames, f)
      BY <2>1, <2>3 DEF EnterFunction, Declared
    <2>6. \E g : irFrames' = Append(irFrames, g) /\ g.kind = "fn"
      BY <1>1, IRFrameKind DEF G!EnterFunction, G!Push
    <2>7. QED
      BY <2>4, <2>5, <2>6
  <1>2. CASE EnterLoop("for") /\ G!EnterFor
    BY <1>2, IRFrameKind, WalkFrameKind DEF EnterLoop, G!EnterFor, G!EnterTested, G!Push
  <1>3. CASE EnterLoop("while") /\ G!EnterWhile
    BY <1>3, IRFrameKind, WalkFrameKind DEF EnterLoop, G!EnterWhile, G!EnterTested, G!Push
  <1>4. CASE EnterLoop("loop") /\ G!EnterLoop
    BY <1>4, IRFrameKind, WalkFrameKind DEF EnterLoop, G!EnterLoop, G!Push
  <1>5. CASE EnterBlock("then") /\ G!EnterIf
    BY <1>5, IRFrameKind, WalkFrameKind DEF EnterBlock, G!EnterIf, G!ThenFrame, G!Push
  <1>6. CASE EnterBlock("try") /\ G!EnterTry
    BY <1>6, IRFrameKind, WalkFrameKind DEF EnterBlock, G!EnterTry, G!Push
  <1>7. CASE EnterBlock("case") /\ \E pattern \in BOOLEAN : G!EnterCase(pattern)
    BY <1>7, IRFrameKind, WalkFrameKind DEF EnterBlock, G!EnterCase, G!Push
  <1>8. CASE EnterMatch /\ G!EnterMatch
    BY <1>8, IRFrameKind, WalkFrameKind DEF EnterMatch, G!EnterMatch, G!Push
  <1>9. QED
    BY <1>1, <1>2, <1>3, <1>4, <1>5, <1>6, <1>7, <1>8 DEF EnterBoth

LEMMA LeaveSame ==
  ASSUME AllInv, ~InType, LeaveBoth
  PROVE  /\ frames # <<>>
         /\ \/ frames' = Rest(frames) /\ irFrames' = Rest(irFrames)
            \/ \E f, g : /\ frames' = Append(Rest(frames), f)
                         /\ irFrames' = Append(Rest(irFrames), g)
                         /\ f.kind = g.kind /\ f.kind # "type"
            \/ \E f, g, h, k : /\ frames' = Append(Append(Rest(frames), f), h)
                               /\ irFrames' = Append(Append(Rest(irFrames), g), k)
                               /\ f.kind = g.kind /\ f.kind # "type"
                               /\ h.kind = k.kind /\ h.kind # "type"
  <1>1. /\ frames \in Seq(FrameType) /\ irFrames \in Seq(IRFrame)
        /\ SameKinds(frames, irFrames)
    BY Stacks DEF AllInv, SideBySide
  <1>2. frames # <<>>
    BY DEF LeaveBoth, LeaveFunction, LeaveLoop, SecondBlock, ElseIf, LeaveBlock, LeaveUnscoped,
           Inside
  <1>3. /\ Rest(frames) \in Seq(FrameType) /\ Rest(irFrames) \in Seq(IRFrame)
        /\ Top(frames).kind = Top(irFrames).kind
    BY <1>1, <1>2, SameKindsRest
  <1>r. \A s : G!Rest(s) = Rest(s)
    BY DEF G!Rest, Rest
  <1>4. CASE LeaveFunction /\ G!LeaveFunction
    BY <1>2, <1>r, <1>4 DEF LeaveFunction, G!LeaveFunction
  <1>5. CASE LeaveLoop /\ G!LeaveLoop
    BY <1>2, <1>r, <1>5 DEF LeaveLoop, G!LeaveLoop
  <1>6. CASE LeaveBlock /\ (G!LeaveThen \/ G!LeaveBlock \/ G!LeaveCase)
    BY <1>2, <1>r, <1>6 DEF LeaveBlock, G!LeaveThen, G!LeaveBlock, G!LeaveCase
  <1>7. CASE LeaveUnscoped /\ (G!LeaveBlock \/ G!LeaveMatch)
    BY <1>2, <1>r, <1>7 DEF LeaveUnscoped, G!LeaveBlock, G!LeaveMatch
  <1>8. CASE SecondBlock /\ G!SecondBlock
    <2> DEFINE kind == IF Top(frames).kind = "then" THEN "else" ELSE "catch"
    <2>1. G!Top(irFrames) = Top(irFrames)
      BY DEF G!Top, Top
    <2>2. /\ frames' = Append(Rest(frames), Frame(kind))
          /\ irFrames' = Append(Rest(irFrames),
                                G!Frame(kind, G!NoLabel, G!NoLabel, G!Top(irFrames).end))
      BY <1>3, <1>r, <1>8, <2>1 DEF SecondBlock, G!SecondBlock
    <2>3. kind # "type"
      OBVIOUS
    <2> HIDE DEF kind
    <2>4. QED
      BY <1>2, <2>2, <2>3, IRFrameKind, WalkFrameKind
  <1>9. CASE ElseIf /\ G!ElseIf
    <2>1. frames' = Append(Append(Rest(frames), Frame("elseif")), Frame("then"))
      BY <1>3, <1>9, ConcatTwo DEF ElseIf
    <2>2. PICK g, k : /\ irFrames' = G!Rest(irFrames) \o <<g, k>>
                      /\ g = G!Frame("elseif", G!NoLabel, G!NoLabel, G!Top(irFrames).end)
                      /\ k = G!Frame("then", G!NoLabel, G!Label(1, "if_false"),
                                     G!Label(2, "if_end"))
      BY <1>9, Zenon DEF G!ElseIf, G!ThenFrame
    <2>3. /\ irFrames' = Rest(irFrames) \o <<g, k>>
          /\ g.kind = "elseif" /\ k.kind = "then"
      BY <1>r, <2>2, IRFrameKind
    <2>4. irFrames' = Append(Append(Rest(irFrames), g), k)
      BY <1>3, <2>3, ConcatTwo
    <2>5. PICK f, h : /\ frames' = Append(Append(Rest(frames), f), h)
                      /\ f.kind = "elseif" /\ h.kind = "then"
      BY <2>1, WalkFrameKind
    <2>6. /\ f.kind = g.kind /\ f.kind # "type"
          /\ h.kind = k.kind /\ h.kind # "type"
      BY <2>3, <2>5
    <2>7. QED
      BY <1>2, <2>4, <2>5, <2>6, Zenon
  <1>10. QED
    BY <1>4, <1>5, <1>6, <1>7, <1>8, <1>9 DEF LeaveBoth

-----------------------------------------------------------------------------
(* Inside a type the analyser walks alone until it leaves the type.        *)
LEMMA TypedAppend ==
  ASSUME NEW S, NEW fs \in Seq(S), ~Untyped(fs), NEW f
  PROVE  ~Untyped(Append(fs, f))
  <1>1. fs \in Seq(S \cup {f})
    OBVIOUS
  <1>2. QED
    BY <1>1 DEF Untyped

LEMMA TypedRest ==
  ASSUME ~Untyped(frames), frames \in Seq(FrameType), Placed(frames), frames # <<>>
  PROVE  Top(frames).kind # "type" => ~Untyped(Rest(frames))
  <1>1. PICK i \in DOMAIN frames : frames[i].kind = "type"
    BY DEF Untyped
  <1>2. i = 1
    BY <1>1 DEF Placed
  <1>3. /\ Len(frames) \in Nat \ {0} /\ Top(frames) = frames[Len(frames)]
        /\ DOMAIN Rest(frames) = 1 .. Len(frames) - 1
        /\ \A j \in 1 .. Len(frames) - 1 : Rest(frames)[j] = frames[j]
    BY DEF Top, Rest
  <1>4. CASE Len(frames) = 1
    BY <1>1, <1>2, <1>3, <1>4
  <1>5. CASE Len(frames) # 1
    <2>1. 1 \in 1 .. Len(frames) - 1
      <3> DEFINE n == Len(frames)
      <3>1. n \in Nat \ {0} /\ n # 1
        BY <1>3, <1>5
      <3> HIDE DEF n
      <3>2. 1 \in 1 .. n - 1
        BY <3>1
      <3>3. QED
        BY <3>2 DEF n
    <2>2. QED
      BY <1>1, <1>2, <1>3, <2>1 DEF Untyped
  <1>6. QED
    BY <1>4, <1>5

LEMMA WalkInType ==
  ASSUME IInv, ~Untyped(frames), Next
  PROVE  ~Untyped(frames') \/ frames' = <<>>
  <1>1. frames \in Seq(FrameType) /\ Placed(frames)
    BY DEF IInv, Good
  <1>2. frames # <<>>
    BY DEF Untyped
  <1>3. Rest(frames) \in Seq(FrameType)
    BY <1>1, <1>2 DEF Rest
  <1>4. CASE LeaveType
    <2>1. Top(frames).kind = "type" /\ frames' = Rest(frames)
      BY <1>4 DEF LeaveType, Inside
    <2>2. /\ Len(frames) \in DOMAIN frames /\ Top(frames) = frames[Len(frames)]
          /\ Len(Rest(frames)) = Len(frames) - 1
      BY <1>1, <1>2, RestFacts
    <2>3. Len(frames) = 1
      BY <1>1, <2>1, <2>2 DEF Placed
    <2>4. QED
      BY <1>3, <2>1, <2>2, <2>3
  <1>5. CASE \/ \E async \in BOOLEAN, ret \in ReturnTypes : EnterFunction(async, ret)
             \/ \E kind \in LoopKinds : EnterLoop(kind)
             \/ \E kind \in {"then", "case", "try"} : EnterBlock(kind)
             \/ EnterMatch
    <2>1. \E f : frames' = Append(frames, f)
      BY <1>5, Zenon DEF EnterFunction, EnterLoop, EnterBlock, EnterMatch
    <2>2. QED
      BY <1>1, <2>1, TypedAppend
  <1>6. CASE LeaveFunction \/ LeaveLoop \/ LeaveBlock \/ LeaveUnscoped
    <2>1. frames' = Rest(frames) /\ Top(frames).kind # "type"
      BY <1>6 DEF LeaveFunction, LeaveLoop, LeaveBlock, LeaveUnscoped, Inside, LoopKinds
    <2>2. QED
      BY <1>1, <1>2, <2>1, TypedRest
  <1>7. CASE SecondBlock \/ ElseIf
    <2>1. Top(frames).kind # "type"
      BY <1>7 DEF SecondBlock, ElseIf, Inside
    <2>2. ~Untyped(Rest(frames))
      BY <1>1, <1>2, <2>1, TypedRest
    <2>3. CASE SecondBlock
      BY <1>3, <2>2, <2>3, TypedAppend DEF SecondBlock
    <2>4. CASE ElseIf
      <3>1. frames' = Append(Append(Rest(frames), Frame("elseif")), Frame("then"))
        BY <1>3, <2>4, ConcatTwo DEF ElseIf
      <3>2. Frame("elseif") \in FrameType
        BY FrameOK DEF IInv, Kinds
      <3>3. Append(Rest(frames), Frame("elseif")) \in Seq(FrameType)
        BY <1>3, <3>2
      <3>4. ~Untyped(Append(Rest(frames), Frame("elseif")))
        BY <1>3, <2>2, TypedAppend
      <3>5. QED
        BY <3>1, <3>3, <3>4, TypedAppend
    <2>5. QED
      BY <1>7, <2>3, <2>4
  <1>8. CASE BreakOrContinue \/ Await \/ \E t \in Types \cup {NoType} : ReturnValue(t)
    BY <1>8 DEF BreakOrContinue, Await, ReturnValue, Judge
  <1>9. CASE EnterType
    BY <1>2, <1>9 DEF EnterType
  <1>10. QED
    BY <1>4, <1>5, <1>6, <1>7, <1>8, <1>9 DEF Next

-----------------------------------------------------------------------------
LEMMA SideBySideStep == AllInv /\ IInv' /\ IRInv' /\ AllNext => SideBySide'
  <1> SUFFICES ASSUME AllInv, IInv', IRInv', AllNext PROVE SideBySide'
    OBVIOUS
  <1>1. frames \in Seq(FrameType) /\ irFrames \in Seq(IRFrame)
    BY Stacks
  <1>2. InType <=> ~Untyped(frames)
    BY InTypeMeans
  <1>3. InType' <=> ~Untyped(frames')
    BY DEF InType, Untyped, Enclosing
  <1>4. CASE UNCHANGED <<frames, irFrames>>
    BY <1>4 DEF AllInv, SideBySide, InType
  <1>5. CASE EnterType /\ UNCHANGED irVars
    <2>1. frames = <<>> /\ frames' = Append(frames, Frame("type"))
      BY <1>5 DEF EnterType
    <2>2. Untyped(frames)
      BY <2>1 DEF Untyped
    <2>3. SameKinds(frames, irFrames)
      BY <1>2, <2>2 DEF AllInv, SideBySide
    <2>4. irFrames = <<>>
      BY <1>1, <2>1, <2>3 DEF SameKinds
    <2>5. frames' = <<Frame("type")>>
      BY <2>1
    <2>6. ~Untyped(frames')
      BY <2>5, WalkFrameKind DEF Untyped
    <2>7. irFrames' = <<>>
      BY <1>5, <2>4 DEF irVars
    <2>8. QED
      BY <1>3, <2>6, <2>7 DEF SideBySide
  <1>6. CASE InType /\ Next /\ UNCHANGED irVars
    <2>1. irFrames' = <<>>
      BY <1>6 DEF AllInv, SideBySide, irVars
    <2>2. ~Untyped(frames') \/ frames' = <<>>
      BY <1>2, <1>6, WalkInType DEF AllInv
    <2>3. frames' = <<>> => SameKinds(frames', irFrames')
      BY <2>1 DEF SameKinds
    <2>4. QED
      BY <1>3, <2>1, <2>2, <2>3 DEF SideBySide
  <1>7. CASE ~InType /\ EnterBoth
    <2>1. Untyped(frames) /\ SameKinds(frames, irFrames)
      BY <1>2, <1>7 DEF AllInv, SideBySide
    <2>2. PICK f, g : /\ frames' = Append(frames, f) /\ irFrames' = Append(irFrames, g)
                      /\ f.kind = g.kind /\ f.kind # "type"
      BY <1>7, EnterSame
    <2>3. Untyped(frames') /\ SameKinds(frames', irFrames')
      BY <1>1, <2>1, <2>2, UntypedAppend, SameKindsAppend
    <2>4. QED
      BY <1>3, <2>3 DEF SideBySide
  <1>8. CASE ~InType /\ LeaveBoth
    <2>1. Untyped(frames) /\ SameKinds(frames, irFrames)
      BY <1>2, <1>8 DEF AllInv, SideBySide
    <2>2. frames # <<>>
      BY <1>8, LeaveSame
    <2>3. /\ Rest(frames) \in Seq(FrameType) /\ Rest(irFrames) \in Seq(IRFrame)
          /\ SameKinds(Rest(frames), Rest(irFrames)) /\ Untyped(Rest(frames))
      BY <1>1, <2>1, <2>2, SameKindsRest, UntypedRest
    <2>4. CASE frames' = Rest(frames) /\ irFrames' = Rest(irFrames)
      BY <1>3, <2>3, <2>4 DEF SideBySide
    <2>5. ASSUME NEW f, NEW g, frames' = Append(Rest(frames), f),
                 irFrames' = Append(Rest(irFrames), g), f.kind = g.kind, f.kind # "type"
          PROVE  SideBySide'
      <3>1. Untyped(frames') /\ SameKinds(frames', irFrames')
        BY <2>3, <2>5, UntypedAppend, SameKindsAppend
      <3>2. QED
        BY <1>3, <3>1 DEF SideBySide
    <2>6. ASSUME NEW f, NEW g, NEW h, NEW k,
                 frames' = Append(Append(Rest(frames), f), h),
                 irFrames' = Append(Append(Rest(irFrames), g), k),
                 f.kind = g.kind, f.kind # "type", h.kind = k.kind, h.kind # "type"
          PROVE  SideBySide'
      <3> DEFINE as == Append(Rest(frames), f)
                 bs == Append(Rest(irFrames), g)
      <3>1. /\ as \in Seq(FrameType \cup {f}) /\ bs \in Seq(IRFrame \cup {g})
        <4>1. /\ Rest(frames) \in Seq(FrameType \cup {f})
              /\ Rest(irFrames) \in Seq(IRFrame \cup {g})
          BY <2>3
        <4>2. QED
          BY <4>1
      <3>2. Untyped(as) /\ SameKinds(as, bs)
        BY <2>3, <2>6, UntypedAppend, SameKindsAppend
      <3>3. frames' = Append(as, h) /\ irFrames' = Append(bs, k)
        BY <2>6
      <3> HIDE DEF as, bs
      <3>4. Untyped(frames') /\ SameKinds(frames', irFrames')
        <4>1. PICK S, T : as \in Seq(S) /\ bs \in Seq(T)
          BY <3>1
        <4>2. Untyped(Append(as, h))
          BY <2>6, <3>2, <4>1, UntypedAppend
        <4>3. SameKinds(Append(as, h), Append(bs, k))
          BY <2>6, <3>2, <4>1, SameKindsAppend
        <4>4. QED
          BY <3>3, <4>2, <4>3
      <3>5. QED
        BY <1>3, <3>4 DEF SideBySide
    <2>7. QED
      BY <1>8, <2>4, <2>5, <2>6, LeaveSame
  <1>9. CASE ConstStep \/ LoopJumpBoth \/ LeafBoth
    <2>1. CASE ConstStep
      BY <1>4, <2>1 DEF ConstStep, G!VisitConst, vars
    <2>2. CASE LoopJumpBoth
      BY <1>4, <2>2 DEF LoopJumpBoth, BreakOrContinue, Judge, G!Break, G!Continue, G!LoopJump
    <2>3. CASE LeafBoth
      BY <1>4, <2>3 DEF LeafBoth, Await, ReturnValue, Judge, irVars
    <2>4. QED
      BY <1>9, <2>1, <2>2, <2>3
  <1>10. QED
    BY <1>5, <1>6, <1>7, <1>8, <1>9 DEF AllNext, TypeStep

LEMMA AllSpecInv == AllSpec => []AllInv
  <1>1. AllInit => SideBySide
    <2>1. AllInit => frames = <<>> /\ irFrames = <<>>
      BY DEF AllInit, Init, G!Init
    <2>2. frames = <<>> => ~InType
      BY DEF InType, Enclosing
    <2>3. frames = <<>> /\ irFrames = <<>> => SameKinds(frames, irFrames)
      BY DEF SameKinds
    <2>4. QED
      BY <2>1, <2>2, <2>3 DEF SideBySide
  <1>2. SideBySide /\ IInv /\ IRInv /\ IInv' /\ IRInv' /\ [AllNext]_allVars => SideBySide'
    <2>1. SideBySide /\ UNCHANGED allVars => SideBySide'
      BY DEF allVars, vars, irVars, SideBySide, InType
    <2>2. QED
      BY <2>1, SideBySideStep DEF AllInv
  <1>3. QED
    BY <1>1, <1>2, AllIInv, AllIRInv, PTL DEF AllSpec, AllInv

(* The analyser's m_inLoop and IRGen's m_loopStack agree at every point of *)
(* every function, whatever the program: no break or continue of an        *)
(* accepted program is one that IRGen would drop.                          *)
THEOREM LoopsAlwaysAgree == AllSpec => []LoopsAgree
  <1>1. AllInv => LoopsAgree
    <2> SUFFICES ASSUME AllInv, ~InType PROVE inLoop <=> loopStack # <<>>
      BY DEF LoopsAgree
    <2>1. inLoop <=> Enclosing(frames, LoopKinds) # {}
      BY DEF AllInv, IInv, Good, Says
    <2>2. /\ frames \in Seq(FrameType) /\ irFrames \in Seq(IRFrame)
          /\ SameKinds(frames, irFrames)
      BY Stacks DEF AllInv, SideBySide
    <2>3. Enclosing(irFrames, LoopKinds) = Enclosing(frames, LoopKinds)
      BY <2>2 DEF SameKinds, Enclosing
    <2>4. \A fs, K : G!Enclosing(fs, K) = Enclosing(fs, K)
      BY DEF G!Enclosing, Enclosing
    <2>5. G!LoopKinds = LoopKinds
      BY DEF G!LoopKinds, LoopKinds
    <2>6. loopStack # <<>> <=> G!Enclosing(irFrames, G!LoopKinds) # {}
      BY LoopsListed DEF AllInv
    <2>7. QED
      BY <2>1, <2>3, <2>4, <2>5, <2>6
  <1>2. QED
    BY <1>1, AllSpecInv, PTL
=============================================================================
