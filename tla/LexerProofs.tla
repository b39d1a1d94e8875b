---------------------------- MODULE LexerProofs ----------------------------
(***************************************************************************)
(* Theorems about Lexer, for every set of characters and sources of any    *)
(* length.                                                                 *)
(***************************************************************************)
EXTENDS Lexer, FiniteSetTheorems, WellFoundedInduction, NaturalsInduction, TLAPS

-----------------------------------------------------------------------------
(* Concatenations.  FlattenSeq is a recursive function over the positions  *)
(* of its argument; it exists, and is known, up to every position.         *)
LEMMA LeastExists ==
  ASSUME NEW S \in SUBSET Nat, S # {}
  PROVE  \E k \in S : \A j \in S : k <= j
  <1> DEFINE R == OpToRel(<, Nat)
  <1>1. IsWellFoundedOn(R, Nat)
    BY NatLessThanWellFounded
  <1>2. \A x, y \in Nat : y < x => <<y, x>> \in R
    BY DEF OpToRel
  <1> HIDE DEF R
  <1>3. PICK k \in S : \A y \in S : ~(<<y, k>> \in R)
    BY <1>1, WFMin
  <1>4. \A y \in S : y \in Nat /\ k \in Nat /\ ~(y < k)
    BY <1>2, <1>3
  <1>5. \A y \in S : k <= y
    BY <1>4
  <1>6. QED
    BY <1>5

(* f is the concatenation of the first parts of ss, up to n of them.       *)
Flattens(f, ss, n) ==
  f = [i \in 1 .. n |-> IF i = 1 THEN ss[i] ELSE f[i - 1] \o ss[i]]

LEMMA FlattensExtends ==
  ASSUME NEW n \in Nat, NEW ss, NEW f, Flattens(f, ss, n)
  PROVE  \E g : Flattens(g, ss, n + 1)
  <1> DEFINE last == IF n = 0 THEN ss[1] ELSE f[n] \o ss[n + 1]
             g == [i \in 1 .. n + 1 |-> IF i = n + 1 THEN last ELSE f[i]]
  <1>1. \A i \in 1 .. n : f[i] = IF i = 1 THEN ss[i] ELSE f[i - 1] \o ss[i]
    BY DEF Flattens
  <1>2. \A i \in 1 .. n + 1 : i = n + 1 \/ (i \in 1 .. n /\ i # n + 1 /\ (i # 1 => i - 1 \in 1 .. n /\ i - 1 # n + 1))
    OBVIOUS
  <1>3. \A i \in 1 .. n + 1 : g[i] = IF i = 1 THEN ss[i] ELSE g[i - 1] \o ss[i]
    <2> SUFFICES ASSUME NEW i \in 1 .. n + 1
                 PROVE  g[i] = IF i = 1 THEN ss[i] ELSE g[i - 1] \o ss[i]
      OBVIOUS
    <2>1. CASE i = n + 1
      <3>1. g[i] = last
        BY <2>1
      <3>2. n # 0 => n \in 1 .. n + 1 /\ n # n + 1 /\ g[n] = f[n] /\ i - 1 = n /\ i # 1
        BY <2>1
      <3>3. n = 0 => i = 1
        BY <2>1
      <3>4. QED
        BY <2>1, <3>1, <3>2, <3>3
    <2>2. CASE i # n + 1
      <3>1. i \in 1 .. n /\ (i # 1 => i - 1 \in 1 .. n /\ i - 1 \in 1 .. n + 1 /\ i - 1 # n + 1)
        BY <2>2
      <3>2. g[i] = f[i] /\ (i # 1 => g[i - 1] = f[i - 1])
        BY <2>2, <3>1
      <3>3. QED
        BY <1>1, <3>1, <3>2
    <2>3. QED
      BY <2>1, <2>2
  <1>4. g = [i \in 1 .. n + 1 |-> g[i]]
    OBVIOUS
  <1>5. Flattens(g, ss, n + 1)
    <2> HIDE DEF g
    <2>1. QED
      BY <1>3, <1>4 DEF Flattens
  <1>6. QED
    BY <1>5

LEMMA FlattensExists ==
  ASSUME NEW n \in Nat, NEW ss
  PROVE  \E f : Flattens(f, ss, n)
  <1> DEFINE Bad == {m \in Nat : ~\E f : Flattens(f, ss, m)}
  <1>1. SUFFICES Bad = {}
    OBVIOUS
  <1>2. SUFFICES ASSUME Bad # {} PROVE FALSE
    OBVIOUS
  <1>3. PICK m \in Bad : \A j \in Bad : m <= j
    BY <1>2, LeastExists
  <1>4. m # 0
    <2>1. Flattens([i \in 1 .. 0 |-> 0], ss, 0)
      BY DEF Flattens
    <2>2. QED
      BY <2>1
  <1>5. m - 1 \in Nat /\ ~(m <= m - 1) /\ (m - 1) + 1 = m
    BY <1>4
  <1>6. m - 1 \notin Bad
    BY <1>3, <1>5
  <1>7. QED
    BY <1>3, <1>5, <1>6, FlattensExtends

(* Concatenations of equal parts are equal as far as the parts are.        *)
LEMMA FlattensUnique ==
  ASSUME NEW n \in Nat, NEW m \in Nat, n <= m, NEW ss, NEW tt, NEW f, NEW g,
         Flattens(f, ss, n), Flattens(g, tt, m), \A i \in 1 .. n : ss[i] = tt[i]
  PROVE  \A i \in 1 .. n : f[i] = g[i]
  <1> DEFINE Bad == {i \in 1 .. n : f[i] # g[i]}
  <1>1. SUFFICES ASSUME Bad # {} PROVE FALSE
    OBVIOUS
  <1>2. PICK k \in Bad : \A j \in Bad : k <= j
    <2>1. Bad \in SUBSET Nat
      OBVIOUS
    <2>2. QED
      BY <1>1, <2>1, LeastExists
  <1>3. k \in 1 .. n /\ k \in 1 .. m /\ (k # 1 => k - 1 \in 1 .. n /\ ~(k <= k - 1))
    BY <1>2
  <1>4. /\ f[k] = IF k = 1 THEN ss[k] ELSE f[k - 1] \o ss[k]
        /\ g[k] = IF k = 1 THEN tt[k] ELSE g[k - 1] \o tt[k]
    BY <1>3 DEF Flattens
  <1>5. k # 1 => f[k - 1] = g[k - 1]
    BY <1>2, <1>3
  <1>6. QED
    BY <1>2, <1>3, <1>4, <1>5

LEMMA FlattenIs ==
  ASSUME NEW ss, Len(ss) \in Nat \ {0}
  PROVE  \E f : Flattens(f, ss, Len(ss)) /\ FlattenSeq(ss) = f[Len(ss)]
  <1> DEFINE f == CHOOSE f : f = [i \in 1 .. Len(ss) |-> IF i = 1 THEN ss[i] ELSE f[i - 1] \o ss[i]]
  <1>1. FlattenSeq(ss) = f[Len(ss)]
    BY DEF FlattenSeq
  <1>2. Flattens(f, ss, Len(ss))
    BY FlattensExists DEF Flattens
  <1>3. QED
    BY <1>1, <1>2

LEMMA FlattenNone == FlattenSeq(<<>>) = <<>>
  BY DEF FlattenSeq

(* A part more.                                                            *)
LEMMA FlattenMore ==
  ASSUME NEW S, NEW n \in Nat, NEW ss, NEW tt, Len(ss) = n, Len(tt) = n + 1,
         n = 0 => ss = <<>>, \A i \in 1 .. n : tt[i] = ss[i], tt[n + 1] \in Seq(S)
  PROVE  FlattenSeq(tt) = FlattenSeq(ss) \o tt[n + 1]
  <1>1. PICK g : Flattens(g, tt, n + 1) /\ FlattenSeq(tt) = g[n + 1]
    BY FlattenIs
  <1>2. g[n + 1] = IF n = 0 THEN tt[n + 1] ELSE g[n] \o tt[n + 1]
    <2>1. n + 1 \in 1 .. n + 1 /\ (n + 1) - 1 = n /\ (n + 1 = 1 <=> n = 0)
      OBVIOUS
    <2>2. \A i \in 1 .. n + 1 : g[i] = IF i = 1 THEN tt[i] ELSE g[i - 1] \o tt[i]
      BY <1>1 DEF Flattens
    <2>3. QED
      BY <2>1, <2>2
  <1>3. CASE n = 0
    <2>1. FlattenSeq(ss) = <<>> /\ g[n + 1] = tt[n + 1]
      BY <1>2, <1>3, FlattenNone
    <2>2. <<>> \o tt[n + 1] = tt[n + 1]
      OBVIOUS
    <2>3. QED
      BY <1>1, <2>1, <2>2
  <1>4. CASE n # 0
    <2>1. PICK f : Flattens(f, ss, n) /\ FlattenSeq(ss) = f[n]
      BY <1>4, FlattenIs
    <2>2. n \in 1 .. n /\ n + 1 \in Nat /\ n <= n + 1
      BY <1>4
    <2>3. f[n] = g[n]
      BY <1>1, <2>1, <2>2, FlattensUnique
    <2>4. g[n + 1] = g[n] \o tt[n + 1]
      BY <1>2, <1>4
    <2>5. QED
      BY <1>1, <2>1, <2>3, <2>4
  <1>5. QED
    BY <1>3, <1>4

-----------------------------------------------------------------------------
(* What is escaped, from left to right.                                    *)
LEMMA EscapedNext ==
  ASSUME NEW s, NEW k \in Nat \ {0}
  PROVE  /\ ~Escaped(s, 1)
         /\ Escaped(s, k + 1) <=> s[k] = "bs" /\ ~Escaped(s, k)
  <1> DEFINE Run(n) == {j \in 1 .. (n - 1) : \A i \in j .. (n - 1) : s[i] = "bs"}
  <1>1. \A n \in Nat : Escaped(s, n) <=> Cardinality(Run(n)) % 2 = 1
    BY DEF Escaped
  <1>2. Run(1) = {} /\ k + 1 \in Nat /\ 1 \in Nat
    OBVIOUS
  <1>3. ~Escaped(s, 1)
    BY <1>1, <1>2, FS_EmptySet
  <1>4. CASE s[k] # "bs"
    <2>1. Run(k + 1) = {}
      BY <1>4
    <2>2. QED
      BY <1>1, <1>2, <1>3, <1>4, <2>1, FS_EmptySet
  <1>5. CASE s[k] = "bs"
    <2>1. \A i : i \in Run(k + 1) <=> i \in Run(k) \/ i = k
      <3>1. (k + 1) - 1 = k /\ k \in 1 .. k /\ \A j \in 1 .. k - 1 : j \in 1 .. k
        OBVIOUS
      <3>2. \A j \in 1 .. k : \A i \in j .. k : i \in j .. k - 1 \/ i = k
        OBVIOUS
      <3>3. \A j \in 1 .. k : j = k \/ j \in 1 .. k - 1
        OBVIOUS
      <3>4. \A j \in 1 .. k : \A i \in j .. k - 1 : i \in j .. k
        OBVIOUS
      <3>5. \A i \in k .. k : i = k
        OBVIOUS
      <3>6. QED
        BY <1>5, <3>1, <3>2, <3>3, <3>4, <3>5
    <2>2. k \notin Run(k) /\ IsFiniteSet(Run(k))
      <3>1. IsFiniteSet(1 .. k - 1) /\ Run(k) \subseteq 1 .. k - 1
        BY FS_Interval
      <3>2. QED
        BY <3>1, FS_Subset
    <2>3. Run(k + 1) = Run(k) \cup {k}
      BY <2>1
    <2> HIDE DEF Run
    <2>4. Cardinality(Run(k + 1)) = Cardinality(Run(k)) + 1 /\ Cardinality(Run(k)) \in Nat
      BY <2>2, <2>3, FS_AddElement, FS_CardinalityType
    <2>5. \A n \in Nat : (n + 1) % 2 = 1 <=> ~(n % 2 = 1)
      OBVIOUS
    <2>6. QED
      BY <1>1, <1>2, <1>3, <1>5, <2>4, <2>5
  <1>6. QED
    BY <1>3, <1>4, <1>5

LEMMA EscapedSame ==
  ASSUME NEW s, NEW t, NEW k \in Nat, \A i \in 1 .. k - 1 : s[i] = t[i]
  PROVE  Escaped(s, k) <=> Escaped(t, k)
  <1>1. \A j \in 1 .. k - 1 : \A i \in j .. k - 1 : i \in 1 .. k - 1
    OBVIOUS
  <1>2. {j \in 1 .. (k - 1) : \A i \in j .. (k - 1) : s[i] = "bs"} =
        {j \in 1 .. (k - 1) : \A i \in j .. (k - 1) : t[i] = "bs"}
    BY <1>1
  <1>3. QED
    BY <1>2 DEF Escaped

-----------------------------------------------------------------------------
(* What bodies mean, for a table e of what an escaped character stands for.*)
Given == UNION {input.chars : input \in Inputs}
Chars == Given \cup {"nl", "cr", "nul", "bs", "n", "r", "quo", "apo", "other"}
Piece(s, e, k) ==
  IF Escaped(s, k) THEN e[s[k]] ELSE IF s[k] = "bs" THEN <<>> ELSE <<s[k]>>
Means(s, e) == FlattenSeq([k \in 1 .. Len(s) |-> Piece(s, e, k)])

StringTable == [c \in Chars |-> StringEscape(c)]
CharTable   == [c \in Chars |-> CharEscape(c)]
CTable      == [c \in Chars |-> CEscape(c)]

LEMMA CharsAre == {"nl", "cr", "nul", "bs", "n", "r", "quo", "apo", "other"} \subseteq Chars
  BY DEF Chars

LEMMA TablesType ==
  /\ StringTable \in [Chars -> Seq(Chars)] /\ CharTable \in [Chars -> Seq(Chars)]
  /\ CTable \in [Chars -> Seq(Chars)]
  <1>1. \A c \in Chars : StringEscape(c) \in Seq(Chars) /\ CharEscape(c) \in Seq(Chars)
                         /\ CEscape(c) \in Seq(Chars)
    BY CharsAre DEF StringEscape, CharEscape, CEscape
  <1>2. QED
    BY <1>1 DEF StringTable, CharTable, CTable

LEMMA MeaningIs ==
  ASSUME NEW s \in Seq(Chars)
  PROVE  /\ Meaning(s, StringEscape) = Means(s, StringTable)
         /\ Meaning(s, CharEscape) = Means(s, CharTable)
         /\ Meaning(s, CEscape) = Means(s, CTable)
  <1>1. \A k \in 1 .. Len(s) : s[k] \in Chars
    OBVIOUS
  <1>2. \A k \in 1 .. Len(s) :
          /\ StringTable[s[k]] = StringEscape(s[k])
          /\ CharTable[s[k]] = CharEscape(s[k])
          /\ CTable[s[k]] = CEscape(s[k])
    BY <1>1 DEF StringTable, CharTable, CTable
  <1>3. [k \in 1 .. Len(s) |-> IF Escaped(s, k) THEN StringEscape(s[k])
                               ELSE IF s[k] = "bs" THEN <<>> ELSE <<s[k]>>]
        = [k \in 1 .. Len(s) |-> Piece(s, StringTable, k)]
    BY <1>2 DEF Piece
  <1>4. [k \in 1 .. Len(s) |-> IF Escaped(s, k) THEN CharEscape(s[k])
                               ELSE IF s[k] = "bs" THEN <<>> ELSE <<s[k]>>]
        = [k \in 1 .. Len(s) |-> Piece(s, CharTable, k)]
    BY <1>2 DEF Piece
  <1>5. [k \in 1 .. Len(s) |-> IF Escaped(s, k) THEN CEscape(s[k])
                               ELSE IF s[k] = "bs" THEN <<>> ELSE <<s[k]>>]
        = [k \in 1 .. Len(s) |-> Piece(s, CTable, k)]
    BY <1>2 DEF Piece
  <1>6. QED
    BY <1>3, <1>4, <1>5 DEF Meaning, Means

LEMMA FlattenChars ==
  ASSUME NEW n \in Nat, NEW ss, NEW tt, Len(ss) = n, Len(tt) = n + 1,
         n = 0 => ss = <<>>, \A i \in 1 .. n : tt[i] = ss[i], tt[n + 1] \in Seq(Chars)
  PROVE  FlattenSeq(tt) = FlattenSeq(ss) \o tt[n + 1]
  BY FlattenMore, SMT

LEMMA AppendIs ==
  ASSUME NEW S, NEW s \in Seq(S), NEW c \in S
  PROVE  /\ Append(s, c) \in Seq(S) /\ Len(s) \in Nat /\ Len(Append(s, c)) = Len(s) + 1
         /\ Append(s, c)[Len(s) + 1] = c
         /\ \A i \in 1 .. Len(s) : Append(s, c)[i] = s[i]
  OBVIOUS

LEMMA EmptyMeans ==
  ASSUME NEW e
  PROVE  Means(<<>>, e) = <<>> /\ ~Escaped(<<>>, 1)
  <1>1. [k \in 1 .. Len(<<>>) |-> Piece(<<>>, e, k)] = <<>>
    OBVIOUS
  <1>2. Means(<<>>, e) = <<>>
    BY <1>1, FlattenNone DEF Means
  <1>3. QED
    BY <1>2, EscapedNext

(* A character more.                                                       *)
LEMMA MeansMore ==
  ASSUME NEW s \in Seq(Chars), NEW c \in Chars, NEW e \in [Chars -> Seq(Chars)],
         Means(s, e) \in Seq(Chars)
  PROVE  LET t == Append(s, c)
             escaped == Escaped(s, Len(s) + 1)
         IN  /\ Means(t, e) = Means(s, e) \o (IF escaped THEN e[c] ELSE IF c = "bs" THEN <<>> ELSE <<c>>)
             /\ Means(t, e) \in Seq(Chars)
             /\ Escaped(t, Len(s) + 1) <=> escaped
             /\ Escaped(t, Len(t) + 1) <=> c = "bs" /\ ~escaped
             /\ \A k \in 1 .. Len(s) : Escaped(t, k) <=> Escaped(s, k)
  <1> DEFINE t == Append(s, c)
             n == Len(s)
             escaped == Escaped(s, n + 1)
             ss == [k \in 1 .. n |-> Piece(s, e, k)]
             tt == [k \in 1 .. n + 1 |-> Piece(t, e, k)]
             last == IF escaped THEN e[c] ELSE IF c = "bs" THEN <<>> ELSE <<c>>
  <1>1. n \in Nat /\ Len(t) = n + 1 /\ t[n + 1] = c /\ \A i \in 1 .. n : t[i] = s[i]
    BY AppendIs
  <1>2. \A k \in 1 .. n + 1 : k \in Nat /\ \A i \in 1 .. k - 1 : i \in 1 .. n
    BY <1>1
  <1>3. \A k \in 1 .. n + 1 : Escaped(t, k) <=> Escaped(s, k)
    BY <1>1, <1>2, EscapedSame
  <1>4. n + 1 \in 1 .. n + 1 /\ n + 1 \in Nat \ {0} /\ \A k \in 1 .. n : k \in 1 .. n + 1
    BY <1>1
  <1>5. Escaped(t, Len(t) + 1) <=> c = "bs" /\ ~escaped
    <2> HIDE DEF t, n
    <2>1. Escaped(t, (n + 1) + 1) <=> t[n + 1] = "bs" /\ ~Escaped(t, n + 1)
      BY <1>4, EscapedNext
    <2>2. QED
      BY <1>1, <1>3, <1>4, <2>1
  <1>6. last \in Seq(Chars)
    OBVIOUS
  <1>7. tt[n + 1] = last
    BY <1>1, <1>3, <1>4 DEF Piece
  <1>8. \A k \in 1 .. n : tt[k] = ss[k]
    BY <1>1, <1>3, <1>4 DEF Piece
  <1>9. Len(ss) = n /\ Len(tt) = n + 1 /\ (n = 0 => ss = <<>>)
    BY <1>1
  <1>10. Means(s, e) = FlattenSeq(ss) /\ Means(t, e) = FlattenSeq(tt)
    BY <1>1 DEF Means
  <1> HIDE DEF ss, tt, last, t, n
  <1>11. FlattenSeq(tt) = FlattenSeq(ss) \o tt[n + 1]
    <2>1. tt[n + 1] \in Seq(Chars)
      BY <1>6, <1>7
    <2>2. n \in Nat
      BY <1>1
    <2>3. QED
      BY <1>8, <1>9, <2>1, <2>2, FlattenChars
  <1>12. Means(t, e) = Means(s, e) \o last
    BY <1>7, <1>10, <1>11
  <1>13. Means(t, e) \in Seq(Chars)
    BY <1>6, <1>12
  <1>14. \A k \in 1 .. n : Escaped(t, k) <=> Escaped(s, k)
    BY <1>3, <1>4
  <1>15. QED
    BY <1>3, <1>4, <1>5, <1>12, <1>13, <1>14 DEF t, n, last

-----------------------------------------------------------------------------
(* What the C back end writes, and what C reads in it.                     *)
Quotes == {"quo", "apo"}

(* enc is the body of a C literal in the quotes q, and stands for val.     *)
Writes(q, enc, val) ==
  /\ enc \in Seq(Chars)
  /\ Means(enc, CTable) = val
  /\ ~Escaped(enc, Len(enc) + 1)
  /\ \A k \in 1 .. Len(enc) : enc[k] \notin {"nl", "cr"} /\ (enc[k] = q => Escaped(enc, k))

LEMMA WritesNothing ==
  ASSUME NEW q
  PROVE  Writes(q, <<>>, <<>>)
  BY EmptyMeans DEF Writes

LEMMA WritesPlain ==
  ASSUME NEW q \in Quotes, NEW val \in Seq(Chars), NEW enc, Writes(q, enc, val),
         NEW c \in Chars, c \notin {"nl", "cr", "bs", q}
  PROVE  Writes(q, Append(enc, c), Append(val, c))
  <1> DEFINE t == Append(enc, c)
  <1>1. enc \in Seq(Chars) /\ Means(enc, CTable) = val /\ ~Escaped(enc, Len(enc) + 1)
    BY DEF Writes
  <1>2. /\ Means(t, CTable) = val \o <<c>>
        /\ ~Escaped(t, Len(t) + 1)
        /\ \A k \in 1 .. Len(enc) : Escaped(t, k) <=> Escaped(enc, k)
    BY <1>1, MeansMore, TablesType
  <1>3. /\ t \in Seq(Chars) /\ Len(enc) \in Nat /\ Len(t) = Len(enc) + 1
        /\ t[Len(enc) + 1] = c /\ \A i \in 1 .. Len(enc) : t[i] = enc[i]
    BY <1>1, AppendIs
  <1>4. \A k \in 1 .. Len(t) : k \in 1 .. Len(enc) \/ k = Len(enc) + 1
    BY <1>3
  <1>5. \A k \in 1 .. Len(t) : t[k] \notin {"nl", "cr"} /\ (t[k] = q => Escaped(t, k))
    BY <1>2, <1>3, <1>4 DEF Writes
  <1>6. Append(val, c) = val \o <<c>>
    OBVIOUS
  <1> HIDE DEF t
  <1>7. QED
    BY <1>2, <1>3, <1>5, <1>6 DEF Writes, t

LEMMA WritesEscape ==
  ASSUME NEW q \in Quotes, NEW val \in Seq(Chars), NEW enc, Writes(q, enc, val),
         NEW c \in Chars, NEW d \in {"n", "r", "quo", "apo", "bs"}, CEscape(d) = <<c>>
  PROVE  Writes(q, Append(Append(enc, "bs"), d), Append(val, c))
  <1> DEFINE u == Append(enc, "bs")
             t == Append(u, d)
             n == Len(enc)
  <1>1. enc \in Seq(Chars) /\ Means(enc, CTable) = val /\ ~Escaped(enc, n + 1)
    BY DEF Writes
  <1>2. "bs" \in Chars /\ d \in Chars /\ d \notin {"nl", "cr"}
    BY CharsAre
  <1>3. /\ Means(u, CTable) = val \o <<>> /\ Means(u, CTable) \in Seq(Chars)
        /\ Escaped(u, Len(u) + 1)
        /\ ~Escaped(u, n + 1)
        /\ \A k \in 1 .. n : Escaped(u, k) <=> Escaped(enc, k)
    BY <1>1, <1>2, MeansMore, TablesType
  <1>4. /\ u \in Seq(Chars) /\ n \in Nat /\ Len(u) = n + 1
        /\ u[n + 1] = "bs" /\ \A i \in 1 .. n : u[i] = enc[i]
    BY <1>1, <1>2, AppendIs
  <1> HIDE DEF u
  <1>5. /\ Means(t, CTable) = Means(u, CTable) \o CTable[d]
        /\ Escaped(t, Len(u) + 1)
        /\ ~Escaped(t, Len(t) + 1)
        /\ \A k \in 1 .. Len(u) : Escaped(t, k) <=> Escaped(u, k)
    BY <1>2, <1>3, <1>4, MeansMore, TablesType
  <1>6. /\ t \in Seq(Chars) /\ Len(t) = Len(u) + 1
        /\ t[Len(u) + 1] = d /\ \A i \in 1 .. Len(u) : t[i] = u[i]
    BY <1>2, <1>4, AppendIs
  <1> HIDE DEF t
  <1>7. \A k \in 1 .. Len(t) : k \in 1 .. n \/ k = n + 1 \/ k = Len(u) + 1
    BY <1>4, <1>6
  <1>8. n + 1 \in 1 .. Len(u) /\ \A k \in 1 .. n : k \in 1 .. Len(u)
    BY <1>4
  <1>9. \A k \in 1 .. Len(t) : t[k] \notin {"nl", "cr"} /\ (t[k] = q => Escaped(t, k))
    BY <1>2, <1>3, <1>4, <1>5, <1>6, <1>7, <1>8 DEF Writes, Quotes
  <1>10. CTable[d] = <<c>>
    BY <1>2 DEF CTable
  <1>11. Means(t, CTable) = Append(val, c)
    BY <1>3, <1>5, <1>10
  <1>12. QED
    BY <1>5, <1>6, <1>9, <1>11 DEF Writes, t, u

LEMMA ConcatIs ==
  ASSUME NEW S, NEW s \in Seq(S), NEW c \in S, NEW d \in S
  PROVE  s \o <<c>> = Append(s, c) /\ s \o <<c, d>> = Append(Append(s, c), d)
  OBVIOUS

(* One character is written so that C reads it again.                      *)
Escape(q, c) == IF q = "quo" THEN EscapeInString(c) ELSE EscapeInChar(c)
LEMMA WritesOne ==
  ASSUME NEW q \in Quotes, NEW val \in Seq(Chars), NEW enc, Writes(q, enc, val), NEW c \in Chars,
         q = "quo" \/ c # "cr"
  PROVE  Writes(q, enc \o Escape(q, c), Append(val, c)) /\ Escape(q, c) \in Seq(Chars)
  <1>1. enc \in Seq(Chars) /\ q \in Chars
    BY CharsAre DEF Writes, Quotes
  <1>2. CASE c = "nl"
    <2>1. Escape(q, c) = <<"bs", "n">> /\ CEscape("n") = <<c>>
      BY <1>2 DEF Escape, EscapeInString, EscapeInChar, CEscape, Quotes
    <2>2. enc \o <<"bs", "n">> = Append(Append(enc, "bs"), "n") /\ <<"bs", "n">> \in Seq(Chars)
      BY <1>1, CharsAre, ConcatIs
    <2>3. QED
      BY <2>1, <2>2, WritesEscape
  <1>3. CASE c \in {q, "bs"}
    <2>1. Escape(q, c) = <<"bs", c>> /\ CEscape(c) = <<c>> /\ c \in {"n", "r", "quo", "apo", "bs"}
      BY <1>3 DEF Escape, EscapeInString, EscapeInChar, CEscape, Quotes
    <2>2. enc \o <<"bs", c>> = Append(Append(enc, "bs"), c) /\ <<"bs", c>> \in Seq(Chars)
      BY <1>1, CharsAre, ConcatIs
    <2>3. QED
      BY <2>1, <2>2, WritesEscape
  <1>4. CASE c = "cr"
    <2>1. Escape(q, c) = <<"bs", "r">> /\ CEscape("r") = <<c>>
      BY <1>4 DEF Escape, EscapeInString, CEscape
    <2>2. enc \o <<"bs", "r">> = Append(Append(enc, "bs"), "r") /\ <<"bs", "r">> \in Seq(Chars)
      BY <1>1, CharsAre, ConcatIs
    <2>3. QED
      BY <2>1, <2>2, WritesEscape
  <1>5. CASE c \notin {"nl", "cr", q, "bs"}
    <2>1. Escape(q, c) = <<c>>
      BY <1>5 DEF Escape, EscapeInString, EscapeInChar, Quotes
    <2>2. enc \o <<c>> = Append(enc, c) /\ <<c>> \in Seq(Chars)
      BY <1>1, ConcatIs
    <2>3. QED
      BY <1>5, <2>1, <2>2, WritesPlain
  <1>6. QED
    BY <1>2, <1>3, <1>4, <1>5

(* A text, character by character.                                         *)
LEMMA WritesText ==
  ASSUME NEW txt \in Seq(Chars)
  PROVE  Writes("quo", FlattenSeq([k \in 1 .. Len(txt) |-> EscapeInString(txt[k])]), txt)
  <1> DEFINE part(n) == [k \in 1 .. n |-> EscapeInString(txt[k])]
             Good(n) == Writes("quo", FlattenSeq(part(n)), SubSeq(txt, 1, n))
             Bad == {n \in 0 .. Len(txt) : ~Good(n)}
  <1>1. Good(0)
    <2>1. part(0) = <<>> /\ SubSeq(txt, 1, 0) = <<>>
      OBVIOUS
    <2>2. QED
      BY <2>1, FlattenNone, WritesNothing
  <1>2. ASSUME NEW n \in 0 .. Len(txt) - 1, Good(n)
        PROVE  Good(n + 1)
    <2>1. n \in Nat /\ n + 1 \in 1 .. Len(txt) /\ txt[n + 1] \in Chars /\ n + 1 \in 1 .. n + 1
      OBVIOUS
    <2>2. SubSeq(txt, 1, n) \in Seq(Chars) /\ SubSeq(txt, 1, n + 1) = Append(SubSeq(txt, 1, n), txt[n + 1])
      BY <2>1
    <2>3. /\ Writes("quo", FlattenSeq(part(n)) \o EscapeInString(txt[n + 1]), SubSeq(txt, 1, n + 1))
          /\ EscapeInString(txt[n + 1]) \in Seq(Chars)
      BY <1>2, <2>1, <2>2, WritesOne DEF Escape, Quotes
    <2>4. part(n + 1)[n + 1] = EscapeInString(txt[n + 1]) /\ \A k \in 1 .. n : part(n + 1)[k] = part(n)[k]
      BY <2>1
    <2>5. Len(part(n)) = n /\ Len(part(n + 1)) = n + 1 /\ (n = 0 => part(n) = <<>>)
      BY <2>1
    <2> HIDE DEF part
    <2>6. FlattenSeq(part(n + 1)) = FlattenSeq(part(n)) \o EscapeInString(txt[n + 1])
      <3>1. part(n + 1)[n + 1] \in Seq(Chars)
        BY <2>3, <2>4
      <3>2. FlattenSeq(part(n + 1)) = FlattenSeq(part(n)) \o part(n + 1)[n + 1]
        BY <2>1, <2>4, <2>5, <3>1, FlattenChars
      <3>3. QED
        BY <2>4, <3>2
    <2>7. QED
      BY <2>3, <2>6
  <1> HIDE DEF part
  <1>3. Bad = {}
    <2> SUFFICES ASSUME Bad # {} PROVE FALSE
      OBVIOUS
    <2>1. PICK m \in Bad : \A j \in Bad : m <= j
      <3>1. Bad \in SUBSET Nat
        OBVIOUS
      <3>2. QED
        BY <3>1, LeastExists
    <2>2. m # 0 /\ m \in 0 .. Len(txt) /\ ~Good(m)
      BY <1>1
    <2>3. m - 1 \in 0 .. Len(txt) - 1 /\ (m - 1) + 1 = m /\ ~(m <= m - 1) /\ m - 1 \in 0 .. Len(txt)
      BY <2>2
    <2>4. Good(m - 1)
      BY <2>1, <2>3
    <2> HIDE DEF Good
    <2>5. QED
      BY <1>2, <2>2, <2>3, <2>4
  <1>4. Len(txt) \in 0 .. Len(txt) /\ SubSeq(txt, 1, Len(txt)) = txt
    OBVIOUS
  <1>5. QED
    BY <1>3, <1>4 DEF part

(* A body between its quotes.                                              *)
LEMMA BodyIs ==
  ASSUME NEW S, NEW q \in S, NEW enc \in Seq(S)
  PROVE  LET lit == <<q>> \o enc \o <<q>> IN
         Body(lit) = enc /\ Len(lit) - 2 = Len(enc) /\ Len(lit) - 1 = Len(enc) + 1
  <1> DEFINE lit == <<q>> \o enc \o <<q>>
  <1>1. lit \in Seq(S) /\ Len(lit) = Len(enc) + 2 /\ Len(enc) \in Nat
        /\ \A k \in 1 .. Len(enc) : lit[k + 1] = enc[k]
    OBVIOUS
  <1> HIDE DEF lit
  <1>2. Len(Body(lit)) = Len(enc) /\ Body(lit) \in Seq(S)
        /\ \A k \in 1 .. Len(enc) : Body(lit)[k] = enc[k]
    BY <1>1 DEF Body
  <1>3. Body(lit) = enc
    BY <1>2
  <1>4. QED
    BY <1>1, <1>3 DEF lit

LEMMA LiteralIs ==
  ASSUME NEW q \in Quotes, NEW enc, NEW val, Writes(q, enc, val)
  PROVE  LET lit == <<q>> \o enc \o <<q>> IN IsCLiteral(lit, q) /\ CReads(lit) = val
  <1> DEFINE lit == <<q>> \o enc \o <<q>>
  <1>1. enc \in Seq(Chars) /\ q \in Chars
    BY CharsAre DEF Writes, Quotes
  <1>2. Body(lit) = enc /\ Len(lit) - 2 = Len(enc) /\ Len(lit) - 1 = Len(enc) + 1
    BY <1>1, BodyIs
  <1> HIDE DEF lit
  <1>3. IsCLiteral(lit, q)
    BY <1>2 DEF IsCLiteral, Writes
  <1>4. CReads(lit) = val
    BY <1>1, <1>2, MeaningIs DEF CReads, Writes
  <1>5. QED
    BY <1>3, <1>4 DEF lit

-----------------------------------------------------------------------------
(* The inductive invariant: what is known of the literals read so far, and *)
(* of the one being read.                                                  *)
Kinds  == {"nl", "int", "float", "string", "char", "ident", "op"}
TokenT == [kind : Kinds, first : Nat \ {0}, last : Nat, text : Seq(Chars)]

TypeOK ==
  /\ source \in Seq(Chars) /\ "end" \notin Given
  /\ pos \in 1 .. Len(source) + 1
  /\ mode \in {"scan", "comment", "string", "stringEnd", "done"}
  /\ text \in Seq(Chars)
  /\ tokens \in Seq(TokenT)
  /\ failed \in BOOLEAN
  /\ mode \in {"string", "stringEnd"} => open \in 1 .. pos - 1

(* What readString has is what the body read so far means.                 *)
Reading ==
  /\ mode = "string" =>
       LET body == SubSeq(source, open + 1, pos - 1) IN
       ~Escaped(body, Len(body) + 1) /\ text = Means(body, StringTable)
  /\ mode = "stringEnd" => failed

Good(t) ==
  /\ t.kind = "string" => SourceMeans(t) = t.text
  /\ t.kind = "char"   => CharValue(t.text) \in Chars /\ SourceMeans(t) = <<CharValue(t.text)>>

AllGood == \A k \in DOMAIN tokens : Good(tokens[k])

TInv == TypeOK /\ Reading /\ (~failed => AllGood)

(* A good literal survives, unless it is the character literal that is not *)
(* escaped.                                                                *)
LEMMA GoodSurvives ==
  ASSUME NEW t \in TokenT, Good(t), t.kind \in {"string", "char"}
  PROVE  Survives(t) <=> ~(t.kind = "char" /\ SourceMeans(t) = <<"cr">>)
  <1>1. CASE t.kind = "string"
    <2> DEFINE enc == FlattenSeq([k \in 1 .. Len(t.text) |-> EscapeInString(t.text[k])])
    <2>1. Writes("quo", enc, t.text)
      BY WritesText DEF TokenT, Quotes
    <2>2. CLiteral(t) = <<"quo">> \o enc \o <<"quo">>
      BY <1>1 DEF CLiteral
    <2> HIDE DEF enc
    <2>3. IsCLiteral(CLiteral(t), "quo") /\ CReads(CLiteral(t)) = t.text
      BY <2>1, <2>2, LiteralIs DEF Quotes
    <2>4. QED
      BY <1>1, <2>3 DEF Good, Survives
  <1>2. CASE t.kind = "char" /\ CharValue(t.text) # "cr"
    <2> DEFINE enc == EscapeInChar(CharValue(t.text))
    <2>1. CharValue(t.text) \in Chars
      BY <1>2 DEF Good
    <2>2. Writes("apo", <<>> \o enc, Append(<<>>, CharValue(t.text))) /\ enc \in Seq(Chars)
      <3>1. Writes("apo", <<>>, <<>>) /\ <<>> \in Seq(Chars) /\ "apo" \in Quotes
        BY WritesNothing DEF Quotes
      <3> HIDE DEF enc
      <3>2. Writes("apo", <<>> \o Escape("apo", CharValue(t.text)), Append(<<>>, CharValue(t.text)))
            /\ Escape("apo", CharValue(t.text)) \in Seq(Chars)
        BY <1>2, <2>1, <3>1, WritesOne, Zenon
      <3>3. Escape("apo", CharValue(t.text)) = enc
        BY DEF enc, Escape
      <3>4. QED
        BY <3>2, <3>3
    <2>3. CLiteral(t) = <<"apo">> \o enc \o <<"apo">>
      BY <1>2 DEF CLiteral
    <2> HIDE DEF enc
    <2>4. <<>> \o enc = enc /\ Append(<<>>, CharValue(t.text)) = <<CharValue(t.text)>>
      BY <2>2
    <2>5. IsCLiteral(CLiteral(t), "apo") /\ CReads(CLiteral(t)) = <<CharValue(t.text)>>
      BY <2>2, <2>3, <2>4, LiteralIs DEF Quotes
    <2>6. SourceMeans(t) = <<CharValue(t.text)>>
      BY <1>2 DEF Good
    <2>7. SourceMeans(t) # <<"cr">>
      BY <1>2, <2>6
    <2>8. QED
      BY <1>2, <2>5, <2>6, <2>7 DEF Survives
  <1>3. CASE t.kind = "char" /\ CharValue(t.text) = "cr"
    <2>1. SourceMeans(t) = <<"cr">>
      BY <1>3 DEF Good
    <2>2. CLiteral(t) = <<"apo">> \o <<"cr">> \o <<"apo">>
      BY <1>3 DEF CLiteral, EscapeInChar
    <2>3. Body(CLiteral(t)) = <<"cr">> /\ Len(CLiteral(t)) - 2 = 1
      <3>1. <<"cr">> \in Seq(Chars) /\ "apo" \in Chars /\ Len(<<"cr">>) = 1
        BY CharsAre
      <3>2. QED
        BY <2>2, <3>1, BodyIs
    <2>4. 1 \in 1 .. Len(CLiteral(t)) - 2 /\ Body(CLiteral(t))[1] = "cr"
      BY <2>3
    <2>5. ~IsCLiteral(CLiteral(t), "apo")
      BY <2>4 DEF IsCLiteral
    <2>6. QED
      BY <1>3, <2>1, <2>5 DEF Survives
  <1>4. QED
    BY <1>1, <1>2, <1>3

LEMMA InvSurvives == TInv => LiteralsSurvive
  <1> SUFFICES ASSUME TInv, ~failed, NEW k \in 1 .. Len(tokens)
               PROVE  LET t == tokens[k] IN
                      t.kind \in {"string", "char"} =>
                        (Survives(t) <=> ~(t.kind = "char" /\ SourceMeans(t) = <<"cr">>))
    BY DEF LiteralsSurvive
  <1>1. tokens[k] \in TokenT /\ Good(tokens[k])
    BY DEF TInv, TypeOK, AllGood
  <1>2. QED
    BY <1>1, GoodSurvives

LEMMA InitTInv == Init => TInv
  <1> SUFFICES ASSUME Init PROVE TInv
    OBVIOUS
  <1>1. PICK input \in Inputs : source \in BoundedSeq(input.chars, input.max)
    BY DEF Init
  <1>2. input.chars \subseteq Given
    BY DEF Given
  <1>3. source \in Seq(input.chars)
    BY <1>1, InputsAssumption DEF BoundedSeq, SeqOf
  <1>4. source \in Seq(Chars)
    BY <1>2, <1>3 DEF Chars
  <1>5. "end" \notin Given
    BY InputsAssumption DEF Given
  <1>6. pos = 1 /\ mode = "scan" /\ text = <<>> /\ tokens = <<>> /\ failed = FALSE
    BY DEF Init
  <1>7. pos \in 1 .. Len(source) + 1 /\ text \in Seq(Chars) /\ tokens \in Seq(TokenT)
    BY <1>4, <1>6
  <1>8. TypeOK
    BY <1>4, <1>5, <1>6, <1>7 DEF TypeOK
  <1>9. Reading /\ AllGood
    BY <1>6 DEF Reading, AllGood
  <1>10. QED
    BY <1>8, <1>9 DEF TInv

-----------------------------------------------------------------------------
(* Positions: a run ends within the source.                                *)
LEMMA RunEndIs ==
  ASSUME TypeOK, NEW chars, "end" \notin chars, NEW i \in 1 .. Len(source) + 1
  PROVE  /\ RunEnd(chars, i) \in i .. Len(source) + 1
         /\ At(RunEnd(chars, i)) \notin chars
         /\ \A k \in i .. RunEnd(chars, i) - 1 : source[k] \in chars
  <1> DEFINE Stops == {j \in i .. Len(source) + 1 : At(j) \notin chars}
  <1>1. Len(source) \in Nat
    BY DEF TypeOK
  <1>2. Len(source) + 1 \in Stops /\ Stops \in SUBSET Nat
    BY <1>1 DEF At
  <1>3. PICK j \in Stops : \A k \in Stops : j <= k
    BY <1>2, LeastExists
  <1>4. \A k \in i .. j - 1 : k \in i .. Len(source) + 1 /\ k <= Len(source) /\ ~(j <= k)
    BY <1>1
  <1>5. \A k \in i .. j - 1 : At(k) \in chars
    BY <1>3, <1>4
  <1>6. \A k \in i .. j - 1 : source[k] \in chars
    BY <1>4, <1>5 DEF At
  <1>7. \E n \in i .. (Len(source) + 1) : At(n) \notin chars /\ \A k \in i .. (n - 1) : source[k] \in chars
    BY <1>3, <1>6
  <1>8. QED
    BY <1>7 DEF RunEnd

LEMMA InSource ==
  ASSUME TypeOK, NEW i \in Nat \ {0}
  PROVE  /\ Len(source) \in Nat
         /\ At(i) # "end" => i \in 1 .. Len(source) /\ At(i) = source[i] /\ At(i) \in Chars
         /\ At(i) = "end" => i > Len(source) \/ source[i] = "end"
         /\ i \in 1 .. Len(source) => At(i) = source[i] /\ source[i] \in Chars /\ source[i] # "end"
  <1>1. Len(source) \in Nat /\ \A k \in 1 .. Len(source) : source[k] \in Chars
    BY DEF TypeOK
  <1>2. "end" \notin Chars
    BY DEF TypeOK, Chars
  <1>3. QED
    BY <1>1, <1>2 DEF At

(* A number ends within the source, after its first digit.                 *)
LEMMA NumberEndIs ==
  ASSUME TypeOK, At(pos) \in Digits
  PROVE  NumberEnd.to \in pos + 1 .. Len(source) + 1 /\ NumberEnd.kind \in {"int", "float"}
  <1> DEFINE whole    == RunEnd(Digits, pos)
             fraction == IF At(whole) = "." /\ At(whole + 1) \in Digits
                         THEN RunEnd(Digits, whole + 1) ELSE whole
             sign     == fraction + (IF At(fraction + 1) \in {"+", "-"} THEN 2 ELSE 1)
             exponent == IF At(fraction) # "e" THEN fraction ELSE RunEnd(Digits, sign)
  <1>1. NumberEnd =
          IF At(pos) = "0" /\ At(pos + 1) = "x" THEN [kind |-> "int", to |-> RunEnd(HexDigits, pos + 2)]
          ELSE IF At(pos) = "0" /\ At(pos + 1) = "b" THEN [kind |-> "int", to |-> RunEnd(Digits, pos + 2)]
          ELSE [kind |-> IF exponent = whole THEN "int" ELSE "float", to |-> exponent]
    BY DEF NumberEnd
  <1>2. "end" \notin Digits /\ "end" \notin HexDigits
    BY DEF Digits, HexDigits
  <1>3. pos \in Nat \ {0} /\ Len(source) \in Nat /\ pos \in 1 .. Len(source) + 1
    BY DEF TypeOK
  <1>4. \A i \in Nat \ {0} : At(i) # "end" => i <= Len(source)
    BY InSource
  <1>5. \A i \in 1 .. Len(source) + 1 :
          /\ RunEnd(Digits, i) \in i .. Len(source) + 1 /\ At(RunEnd(Digits, i)) \notin Digits
          /\ RunEnd(HexDigits, i) \in i .. Len(source) + 1
    BY <1>2, RunEndIs
  <1>6. whole \in pos .. Len(source) + 1 /\ whole # pos
    BY <1>3, <1>5
  <1> HIDE DEF whole
  <1>7. fraction \in whole .. Len(source) + 1
    <2>1. CASE At(whole) = "." /\ At(whole + 1) \in Digits
      <3>1. whole + 1 \in 1 .. Len(source) + 1
        BY <1>3, <1>4, <1>6, <2>1
      <3>2. fraction = RunEnd(Digits, whole + 1)
        BY <2>1
      <3>3. RunEnd(Digits, whole + 1) \in whole + 1 .. Len(source) + 1
        BY <1>5, <3>1
      <3>4. QED
        BY <1>3, <1>6, <3>2, <3>3
    <2>2. CASE ~(At(whole) = "." /\ At(whole + 1) \in Digits)
      BY <1>3, <1>6, <2>2
    <2>3. QED
      BY <2>1, <2>2
  <1> HIDE DEF fraction
  <1>8. exponent \in fraction .. Len(source) + 1
    <2>1. CASE At(fraction) = "e"
      <3>1. fraction \in Nat \ {0} /\ fraction <= Len(source)
        BY <1>3, <1>4, <1>6, <1>7, <2>1
      <3>2. At(fraction + 1) \in {"+", "-"} => fraction + 1 <= Len(source)
        BY <1>4, <3>1
      <3>3. sign \in 1 .. Len(source) + 1 /\ sign \in fraction .. Len(source) + 1
        BY <1>3, <3>1, <3>2
      <3> HIDE DEF sign
      <3>4. QED
        BY <1>3, <1>5, <1>7, <2>1, <3>3
    <2>2. CASE At(fraction) # "e"
      BY <1>3, <1>6, <1>7, <2>2
    <2>3. QED
      BY <2>1, <2>2
  <1> HIDE DEF exponent
  <1>9. exponent \in pos + 1 .. Len(source) + 1
    BY <1>3, <1>6, <1>7, <1>8
  <1>10. At(pos + 1) \in {"x", "b"} => pos + 2 \in 1 .. Len(source) + 1
    BY <1>3, <1>4
  <1>11. At(pos + 1) \in {"x", "b"} =>
           /\ RunEnd(Digits, pos + 2) \in pos + 2 .. Len(source) + 1
           /\ RunEnd(HexDigits, pos + 2) \in pos + 2 .. Len(source) + 1
    BY <1>5, <1>10
  <1>12. At(pos + 1) \in {"x", "b"} =>
           /\ RunEnd(Digits, pos + 2) \in pos + 1 .. Len(source) + 1
           /\ RunEnd(HexDigits, pos + 2) \in pos + 1 .. Len(source) + 1
    BY <1>3, <1>11
  <1>13. QED
    BY <1>1, <1>9, <1>12

-----------------------------------------------------------------------------
(* The readers.                                                            *)
LEMMA TokensMore ==
  ASSUME TInv, NEW t \in TokenT, ~failed' => ~failed /\ Good(t), tokens' = Append(tokens, t),
         UNCHANGED source
  PROVE  tokens' \in Seq(TokenT) /\ (~failed' => AllGood')
  <1>1. tokens \in Seq(TokenT)
    BY DEF TInv, TypeOK
  <1>2. \A u : Good(u)' <=> Good(u)
    BY DEF Good, SourceMeans
  <1>3. /\ tokens' \in Seq(TokenT) /\ DOMAIN tokens' = 1 .. Len(tokens) + 1
        /\ \A k \in 1 .. Len(tokens) + 1 :
             (k \in DOMAIN tokens /\ tokens'[k] = tokens[k]) \/ tokens'[k] = t
    BY <1>1
  <1>4. QED
    BY <1>2, <1>3 DEF TInv, AllGood

LEMMA TokensKept ==
  ASSUME TInv, ~failed' => ~failed, UNCHANGED <<source, tokens>>
  PROVE  tokens' \in Seq(TokenT) /\ (~failed' => AllGood')
  <1>1. \A u : Good(u)' <=> Good(u)
    BY DEF Good, SourceMeans
  <1>2. QED
    BY <1>1 DEF TInv, TypeOK, AllGood

(* A reader that leaves no literal open.                                   *)
LEMMA ReadTInv ==
  ASSUME TInv, NEW kind \in Kinds, NEW to \in 1 .. Len(source) + 1, NEW val \in Seq(Chars),
         mode = "scan", Read(kind, to, val), failed' \in BOOLEAN,
         ~failed' => ~failed /\ Good(Token(kind, pos, to, val))
  PROVE  TInv'
  <1>1. Token(kind, pos, to, val) \in TokenT
    BY DEF Token, TokenT, TInv, TypeOK
  <1>2. /\ UNCHANGED <<source, mode, open, text>> /\ pos' = to
        /\ tokens' = Append(tokens, Token(kind, pos, to, val))
    BY DEF Read
  <1>3. tokens' \in Seq(TokenT) /\ (~failed' => AllGood')
    BY <1>1, <1>2, TokensMore
  <1>4. TypeOK' /\ Reading'
    BY <1>2, <1>3 DEF TInv, TypeOK, Reading
  <1>5. QED
    BY <1>3, <1>4 DEF TInv

LEMMA SkipTInv ==
  ASSUME TInv, UNCHANGED <<source, tokens>>, pos' \in 1 .. Len(source) + 1,
         mode' \in {"scan", "comment", "done"}, failed' \in BOOLEAN, ~failed' => ~failed,
         UNCHANGED text
  PROVE  TInv'
  BY TokensKept DEF TInv, TypeOK, Reading

LEMMA Scanned ==
  ASSUME TInv, NEW chars, Scanning(chars)
  PROVE  /\ mode = "scan" /\ At(pos) \in chars
         /\ pos \in Nat \ {0} /\ pos \in 1 .. Len(source) + 1 /\ Len(source) \in Nat
         /\ failed \in BOOLEAN /\ <<>> \in Seq(Chars)
         /\ "end" \notin chars => pos + 1 \in 1 .. Len(source) + 1
         /\ At(pos + 1) # "end" => pos + 2 \in 1 .. Len(source) + 1
  <1>1. TypeOK /\ pos \in Nat \ {0} /\ pos \in 1 .. Len(source) + 1 /\ Len(source) \in Nat /\ failed \in BOOLEAN
    BY DEF TInv, TypeOK
  <1>2. At(pos) # "end" => pos \in 1 .. Len(source)
    BY <1>1, InSource
  <1>3. At(pos + 1) # "end" => pos + 1 \in 1 .. Len(source)
    BY <1>1, InSource
  <1>4. QED
    BY <1>1, <1>2, <1>3 DEF Scanning

LEMMA SkipBlankTInv == TInv /\ SkipBlank => TInv'
  <1> SUFFICES ASSUME TInv, SkipBlank PROVE TInv'
    OBVIOUS
  <1>1. Scanning(Blanks) /\ pos' = pos + 1 /\ UNCHANGED <<source, mode, text, tokens, failed>>
    BY DEF SkipBlank
  <1>2. "end" \notin Blanks
    BY DEF Blanks
  <1>3. QED
    BY <1>1, <1>2, Scanned, SkipTInv

LEMMA PlainGood ==
  ASSUME NEW kind \in Kinds \ {"string", "char"}, NEW from, NEW to, NEW val
  PROVE  Good(Token(kind, from, to, val)) /\ kind \in Kinds
  BY DEF Good, Token

LEMMA NewlineTInv == TInv /\ Newline => TInv'
  <1> SUFFICES ASSUME TInv, Newline PROVE TInv'
    OBVIOUS
  <1>1. Scanning({"nl"}) /\ UNCHANGED failed
    BY DEF Newline
  <1>2. mode = "scan" /\ pos + 1 \in 1 .. Len(source) + 1 /\ failed \in BOOLEAN /\ <<>> \in Seq(Chars)
    BY <1>1, Scanned
  <1>3. CASE Read("nl", pos + 1, <<>>)
    <2>1. "nl" \in Kinds \ {"string", "char"}
      BY DEF Kinds
    <2>2. Good(Token("nl", pos, pos + 1, <<>>)) /\ "nl" \in Kinds
      BY <2>1, PlainGood
    <2>3. QED
      BY <1>1, <1>2, <1>3, <2>2, ReadTInv
  <1>4. CASE pos' = pos + 1 /\ UNCHANGED <<source, mode, open, text, tokens>>
    BY <1>1, <1>2, <1>4, SkipTInv
  <1>5. QED
    BY <1>3, <1>4 DEF Newline

LEMMA ReadNumberTInv == TInv /\ ReadNumber => TInv'
  <1> SUFFICES ASSUME TInv, ReadNumber PROVE TInv'
    OBVIOUS
  <1>1. Scanning(Digits) /\ Read(NumberEnd.kind, NumberEnd.to, <<>>) /\ UNCHANGED failed
    BY DEF ReadNumber
  <1>2. mode = "scan" /\ pos \in 1 .. Len(source) + 1 /\ failed \in BOOLEAN /\ <<>> \in Seq(Chars)
        /\ At(pos) \in Digits /\ TypeOK /\ Len(source) \in Nat
    BY <1>1, Scanned DEF TInv
  <1>3. NumberEnd.to \in pos + 1 .. Len(source) + 1 /\ NumberEnd.kind \in {"int", "float"}
    BY <1>2, NumberEndIs
  <1>4. NumberEnd.to \in 1 .. Len(source) + 1
    BY <1>2, <1>3
  <1>5. NumberEnd.kind \in Kinds \ {"string", "char"}
    BY <1>3 DEF Kinds
  <1>6. Good(Token(NumberEnd.kind, pos, NumberEnd.to, <<>>)) /\ NumberEnd.kind \in Kinds
    BY <1>5, PlainGood
  <1>7. QED
    BY <1>1, <1>2, <1>4, <1>6, ReadTInv

LEMMA ReadIdentTInv == TInv /\ ReadIdent => TInv'
  <1> SUFFICES ASSUME TInv, ReadIdent PROVE TInv'
    OBVIOUS
  <1> DEFINE to == RunEnd(Letters \cup Digits, pos)
  <1>1. Scanning(Letters) /\ Read("ident", to, <<>>) /\ UNCHANGED failed
    BY DEF ReadIdent
  <1>2. mode = "scan" /\ pos \in 1 .. Len(source) + 1 /\ failed \in BOOLEAN /\ <<>> \in Seq(Chars)
        /\ TypeOK /\ Len(source) \in Nat
    BY <1>1, Scanned DEF TInv
  <1>3. "end" \notin Letters \cup Digits
    BY DEF Letters, Digits
  <1>4. to \in pos .. Len(source) + 1
    BY <1>2, <1>3, RunEndIs
  <1> HIDE DEF to
  <1>5. to \in 1 .. Len(source) + 1 /\ "ident" \in Kinds \ {"string", "char"}
    BY <1>2, <1>4 DEF Kinds
  <1>6. Good(Token("ident", pos, to, <<>>)) /\ "ident" \in Kinds
    BY <1>5, PlainGood
  <1>7. QED
    BY <1>1, <1>2, <1>5, <1>6, ReadTInv

LEMMA ReadOperatorTInv == TInv /\ ReadOperator => TInv'
  <1> SUFFICES ASSUME TInv, ReadOperator PROVE TInv'
    OBVIOUS
  <1> DEFINE to == IF <<At(pos), At(pos + 1)>> \in Pairs THEN pos + 2 ELSE pos + 1
  <1>1. Scanning(Singles \cup {"!"}) /\ Read("op", to, <<>>) /\ UNCHANGED failed
    BY DEF ReadOperator
  <1>2. "end" \notin Singles \cup {"!"} /\ \A a, b : <<a, b>> \in Pairs => b # "end"
    BY DEF Singles, Pairs
  <1>3. mode = "scan" /\ failed \in BOOLEAN /\ <<>> \in Seq(Chars) /\ to \in 1 .. Len(source) + 1
    BY <1>1, <1>2, Scanned
  <1> HIDE DEF to
  <1>4. "op" \in Kinds \ {"string", "char"}
    BY DEF Kinds
  <1>5. Good(Token("op", pos, to, <<>>)) /\ "op" \in Kinds
    BY <1>4, PlainGood
  <1>6. QED
    BY <1>1, <1>3, <1>5, ReadTInv

LEMMA LineCommentTInv == TInv /\ LineComment => TInv'
  <1> SUFFICES ASSUME TInv, LineComment PROVE TInv'
    OBVIOUS
  <1> DEFINE chars == {source[k] : k \in 1 .. Len(source)} \ {"nl"}
  <1>1. Scanning({"/"}) /\ pos' = RunEnd(chars, pos) /\ UNCHANGED <<source, mode, open, text, tokens, failed>>
    BY DEF LineComment
  <1>2. mode = "scan" /\ pos \in 1 .. Len(source) + 1 /\ failed \in BOOLEAN /\ TypeOK /\ Len(source) \in Nat
    BY <1>1, Scanned DEF TInv
  <1>3. \A k \in 1 .. Len(source) : source[k] # "end"
    BY <1>2, InSource
  <1>4. "end" \notin chars
    BY <1>3
  <1> HIDE DEF chars
  <1>5. pos' \in pos .. Len(source) + 1
    BY <1>1, <1>2, <1>4, RunEndIs
  <1>6. pos' \in 1 .. Len(source) + 1
    BY <1>2, <1>5
  <1>7. QED
    BY <1>1, <1>2, <1>6, SkipTInv

LEMMA OpenCommentTInv == TInv /\ OpenComment => TInv'
  <1> SUFFICES ASSUME TInv, OpenComment PROVE TInv'
    OBVIOUS
  <1>1. Scanning({"/"}) /\ At(pos + 1) = "*" /\ pos' = pos + 2 /\ mode' = "comment"
        /\ UNCHANGED <<source, open, text, tokens, failed>>
    BY DEF OpenComment
  <1>2. failed \in BOOLEAN /\ pos + 2 \in 1 .. Len(source) + 1
    BY <1>1, Scanned
  <1>3. QED
    BY <1>1, <1>2, SkipTInv

LEMMA CommentTInv == TInv /\ (InComment \/ CommentRunsOut) => TInv'
  <1> SUFFICES ASSUME TInv, InComment \/ CommentRunsOut PROVE TInv'
    OBVIOUS
  <1>1. failed \in BOOLEAN /\ pos \in 1 .. Len(source) + 1 /\ Len(source) \in Nat /\ TypeOK
    BY DEF TInv, TypeOK
  <1>2. CASE InComment
    <2>1. pos <= Len(source)
      BY <1>1, <1>2 DEF InComment, AtEnd
    <2>2. At(pos + 1) = "/" => pos + 1 \in 1 .. Len(source)
      BY <1>1, InSource
    <2>3. pos' \in 1 .. Len(source) + 1 /\ mode' \in {"scan", "comment"}
      BY <1>1, <1>2, <2>1, <2>2 DEF InComment
    <2>4. QED
      BY <1>1, <1>2, <2>3, SkipTInv DEF InComment
  <1>3. CASE CommentRunsOut
    BY <1>1, <1>3, SkipTInv DEF CommentRunsOut
  <1>4. QED
    BY <1>2, <1>3

LEMMA UnexpectedTInv == TInv /\ Unexpected => TInv'
  <1> SUFFICES ASSUME TInv, Unexpected PROVE TInv'
    OBVIOUS
  <1>1. mode = "scan" /\ At(pos) # "end"
    BY DEF Unexpected, Stray, Scanning
  <1>2. failed \in BOOLEAN /\ pos \in 1 .. Len(source) + 1 /\ Len(source) \in Nat /\ TypeOK
    BY DEF TInv, TypeOK
  <1>3. pos \in 1 .. Len(source)
    BY <1>1, <1>2, InSource
  <1>4. QED
    BY <1>1, <1>2, <1>3, SkipTInv DEF Unexpected

-----------------------------------------------------------------------------
(* readString.                                                             *)
LEMMA SubSeqMore ==
  ASSUME NEW S, NEW s \in Seq(S), NEW a \in Nat \ {0}, NEW b \in Nat, a <= b + 1, b + 1 <= Len(s)
  PROVE  SubSeq(s, a, b + 1) = Append(SubSeq(s, a, b), s[b + 1]) /\ SubSeq(s, a, b) \in Seq(S)
         /\ s[b + 1] \in S
  OBVIOUS

LEMMA PairIs ==
  ASSUME NEW S, NEW a \in S, NEW b \in S
  PROVE  Append(<<a>>, b) = <<a, b>>
  <1> DEFINE s == Append(<<a>>, b)
             t == <<a, b>>
  <1>1. <<a>> \in Seq(S) /\ Len(<<a>>) = 1 /\ <<a>>[1] = a
    OBVIOUS
  <1>2. s \in Seq(S) /\ Len(s) = 2 /\ s[1] = a /\ s[2] = b
    BY <1>1
  <1>3. t \in Seq(S) /\ Len(t) = 2 /\ t[1] = a /\ t[2] = b
    OBVIOUS
  <1> HIDE DEF s, t
  <1>4. \A i \in 1 .. 2 : s[i] = t[i]
    BY <1>2, <1>3
  <1>5. s = t
    BY <1>2, <1>3, <1>4
  <1>6. QED
    BY <1>5 DEF s, t

LEMMA ShortSubSeq ==
  ASSUME NEW S, NEW s \in Seq(S), NEW a \in Nat \ {0}
  PROVE  /\ a <= Len(s) => SubSeq(s, a, a) = <<s[a]>> /\ s[a] \in S
         /\ a + 1 <= Len(s) => SubSeq(s, a, a + 1) = <<s[a], s[a + 1]>> /\ s[a + 1] \in S
  <1>1. CASE a <= Len(s)
    <2>1. SubSeq(s, a, (a - 1) + 1) = Append(SubSeq(s, a, a - 1), s[(a - 1) + 1]) /\ s[(a - 1) + 1] \in S
      BY <1>1, SubSeqMore
    <2>2. SubSeq(s, a, a - 1) = <<>> /\ (a - 1) + 1 = a
      OBVIOUS
    <2>3. \A x : Append(<<>>, x) = <<x>>
      OBVIOUS
    <2>4. SubSeq(s, a, a) = <<s[a]>> /\ s[a] \in S
      BY <2>1, <2>2, <2>3
    <2>5. ASSUME a + 1 <= Len(s)
          PROVE  SubSeq(s, a, a + 1) = <<s[a], s[a + 1]>> /\ s[a + 1] \in S
      <3>1. SubSeq(s, a, a + 1) = Append(SubSeq(s, a, a), s[a + 1]) /\ s[a + 1] \in S
        BY <2>5, SubSeqMore
      <3>2. QED
        BY <2>4, <3>1, PairIs
    <2>6. QED
      BY <2>4, <2>5
  <1>2. CASE ~(a <= Len(s))
    <2>1. ~(a + 1 <= Len(s))
      BY <1>2
    <2>2. QED
      BY <1>2, <2>1
  <1>3. QED
    BY <1>1, <1>2

LEMMA OpenStringTInv == TInv /\ OpenString => TInv'
  <1> SUFFICES ASSUME TInv, OpenString PROVE TInv'
    OBVIOUS
  <1>1. Scanning({"quo"}) /\ pos' = pos + 1 /\ open' = pos /\ mode' = "string" /\ text' = <<>>
        /\ UNCHANGED <<source, tokens, failed>>
    BY DEF OpenString
  <1>2. pos + 1 \in 1 .. Len(source) + 1 /\ pos \in Nat \ {0} /\ <<>> \in Seq(Chars)
    BY <1>1, Scanned
  <1>3. tokens' \in Seq(TokenT) /\ (~failed' => AllGood')
    BY <1>1, TokensKept
  <1>4. TypeOK'
    BY <1>1, <1>2, <1>3 DEF TInv, TypeOK
  <1>5. SubSeq(source, pos + 1, (pos + 1) - 1) = <<>>
    <2>1. source \in Seq(Chars)
      BY DEF TInv, TypeOK
    <2>2. QED
      BY <1>2, <2>1
  <1>6. Reading'
    <2>1. ~Escaped(<<>>, Len(<<>>) + 1) /\ <<>> = Means(<<>>, StringTable)
      BY EmptyMeans
    <2>2. QED
      BY <1>1, <1>5, <2>1 DEF Reading
  <1>7. QED
    BY <1>3, <1>4, <1>6 DEF TInv

(* What readString has after a plain character, and after an escape.       *)
LEMMA ReadsPlain ==
  ASSUME NEW body \in Seq(Chars), ~Escaped(body, Len(body) + 1),
         NEW txt \in Seq(Chars), txt = Means(body, StringTable), NEW c \in Chars, c # "bs"
  PROVE  LET b == Append(body, c) IN
         ~Escaped(b, Len(b) + 1) /\ Append(txt, c) = Means(b, StringTable)
  <1>1. Means(Append(body, c), StringTable) = txt \o <<c>>
        /\ ~Escaped(Append(body, c), Len(Append(body, c)) + 1)
    BY MeansMore, TablesType
  <1>2. QED
    BY <1>1

LEMMA ReadsEscape ==
  ASSUME NEW body \in Seq(Chars), ~Escaped(body, Len(body) + 1),
         NEW txt \in Seq(Chars), txt = Means(body, StringTable), NEW c \in Chars
  PROVE  LET b == Append(Append(body, "bs"), c) IN
         ~Escaped(b, Len(b) + 1) /\ txt \o StringEscape(c) = Means(b, StringTable)
         /\ txt \o StringEscape(c) \in Seq(Chars)
  <1> DEFINE u == Append(body, "bs")
             b == Append(u, c)
  <1>1. "bs" \in Chars /\ Means(body, StringTable) \in Seq(Chars)
    BY CharsAre
  <1>2. /\ Means(u, StringTable) = txt \o <<>> /\ Means(u, StringTable) \in Seq(Chars)
        /\ Escaped(u, Len(u) + 1) /\ u \in Seq(Chars)
    <2>1. u \in Seq(Chars)
      BY <1>1, AppendIs
    <2>2. /\ Means(u, StringTable) = Means(body, StringTable) \o <<>>
          /\ Means(u, StringTable) \in Seq(Chars) /\ Escaped(u, Len(u) + 1)
      BY <1>1, MeansMore, TablesType
    <2>3. QED
      BY <2>1, <2>2
  <1> HIDE DEF u
  <1>3. /\ Means(b, StringTable) = Means(u, StringTable) \o StringTable[c]
        /\ ~Escaped(b, Len(b) + 1) /\ Means(b, StringTable) \in Seq(Chars)
    BY <1>2, MeansMore, TablesType
  <1>4. StringTable[c] = StringEscape(c)
    BY DEF StringTable
  <1>5. Means(u, StringTable) = txt
    BY <1>2
  <1>6. QED
    BY <1>3, <1>4, <1>5 DEF u

LEMMA InString1 ==
  ASSUME TInv, mode = "string"
  PROVE  /\ open \in Nat \ {0} /\ pos \in Nat \ {0} /\ open + 1 <= pos
         /\ Len(source) \in Nat /\ pos <= Len(source) + 1
         /\ source \in Seq(Chars) /\ text \in Seq(Chars)
         /\ LET body == SubSeq(source, open + 1, pos - 1) IN
            /\ body \in Seq(Chars) /\ ~Escaped(body, Len(body) + 1)
            /\ text = Means(body, StringTable)
  <1>1. open \in 1 .. pos - 1 /\ pos \in 1 .. Len(source) + 1 /\ source \in Seq(Chars) /\ text \in Seq(Chars)
    BY DEF TInv, TypeOK
  <1>2. SubSeq(source, open + 1, pos - 1) \in Seq(Chars)
    BY <1>1
  <1>3. QED
    BY <1>1, <1>2 DEF TInv, Reading

LEMMA InStringTInv == TInv /\ InString => TInv'
  <1> SUFFICES ASSUME TInv, InString PROVE TInv'
    OBVIOUS
  <1> DEFINE body == SubSeq(source, open + 1, pos - 1)
  <1>1. /\ mode = "string" /\ pos <= Len(source) /\ At(pos) # "bs"
        /\ text' = Append(text, At(pos)) /\ pos' = pos + 1
        /\ UNCHANGED <<source, mode, open, tokens, failed>>
    BY InString1 DEF InString, AtEnd
  <1>2. /\ open \in Nat \ {0} /\ pos \in Nat \ {0} /\ open + 1 <= pos /\ Len(source) \in Nat
        /\ source \in Seq(Chars) /\ text \in Seq(Chars)
        /\ body \in Seq(Chars) /\ ~Escaped(body, Len(body) + 1) /\ text = Means(body, StringTable)
    BY <1>1, InString1
  <1>3. At(pos) = source[pos] /\ At(pos) \in Chars
    BY <1>1, <1>2, InSource DEF TInv
  <1>4. SubSeq(source, open + 1, (pos - 1) + 1) = Append(body, source[(pos - 1) + 1])
    BY <1>1, <1>2, SubSeqMore
  <1>5. (pos - 1) + 1 = pos /\ (pos + 1) - 1 = pos
    BY <1>2
  <1>6. SubSeq(source, open + 1, pos) = Append(body, At(pos))
    BY <1>3, <1>4, <1>5
  <1> HIDE DEF body
  <1>7. LET b == Append(body, At(pos)) IN
        ~Escaped(b, Len(b) + 1) /\ text' = Means(b, StringTable)
    BY <1>1, <1>2, <1>3, ReadsPlain
  <1>8. Reading'
    BY <1>1, <1>5, <1>6, <1>7 DEF Reading
  <1>9. tokens' \in Seq(TokenT) /\ (~failed' => AllGood')
    BY <1>1, TokensKept
  <1>10. text' \in Seq(Chars) /\ pos' \in 1 .. Len(source) + 1 /\ open \in 1 .. pos' - 1
    BY <1>1, <1>2, <1>3
  <1>11. TypeOK'
    BY <1>1, <1>9, <1>10 DEF TInv, TypeOK
  <1>12. QED
    BY <1>8, <1>9, <1>11 DEF TInv

LEMMA InStringEscapeTInv == TInv /\ InStringEscape => TInv'
  <1> SUFFICES ASSUME TInv, InStringEscape PROVE TInv'
    OBVIOUS
  <1> DEFINE body == SubSeq(source, open + 1, pos - 1)
             c == At(pos + 1)
  <1>1. /\ mode = "string" /\ pos < Len(source) /\ At(pos) = "bs"
        /\ text' = text \o StringEscape(c) /\ pos' = pos + 2
        /\ UNCHANGED <<source, mode, open, tokens, failed>>
    BY DEF InStringEscape
  <1>2. /\ open \in Nat \ {0} /\ pos \in Nat \ {0} /\ open + 1 <= pos /\ Len(source) \in Nat
        /\ source \in Seq(Chars) /\ text \in Seq(Chars)
        /\ body \in Seq(Chars) /\ ~Escaped(body, Len(body) + 1) /\ text = Means(body, StringTable)
    BY <1>1, InString1
  <1>3. source[pos] = "bs" /\ c = source[pos + 1] /\ c \in Chars
    <2>1. pos \in 1 .. Len(source) /\ pos + 1 \in 1 .. Len(source) /\ pos + 1 \in Nat \ {0}
      BY <1>1, <1>2
    <2>2. QED
      BY <1>1, <1>2, <2>1, InSource DEF TInv
  <1>4. SubSeq(source, open + 1, (pos - 1) + 1) = Append(body, source[(pos - 1) + 1])
    BY <1>1, <1>2, SubSeqMore
  <1>5. (pos - 1) + 1 = pos /\ (pos + 2) - 1 = pos + 1
    BY <1>2
  <1>6. SubSeq(source, open + 1, pos) = Append(body, "bs")
    BY <1>3, <1>4, <1>5
  <1>7. SubSeq(source, open + 1, pos + 1) = Append(SubSeq(source, open + 1, pos), source[pos + 1])
    BY <1>1, <1>2, SubSeqMore
  <1>8. SubSeq(source, open + 1, pos + 1) = Append(Append(body, "bs"), c)
    BY <1>3, <1>6, <1>7
  <1> HIDE DEF body, c
  <1>9. LET b == Append(Append(body, "bs"), c) IN
        ~Escaped(b, Len(b) + 1) /\ text' = Means(b, StringTable) /\ text' \in Seq(Chars)
    BY <1>1, <1>2, <1>3, ReadsEscape
  <1>10. Reading'
    BY <1>1, <1>5, <1>8, <1>9 DEF Reading
  <1>11. tokens' \in Seq(TokenT) /\ (~failed' => AllGood')
    BY <1>1, TokensKept
  <1>12. pos' \in 1 .. Len(source) + 1 /\ open \in 1 .. pos' - 1
    BY <1>1, <1>2
  <1>13. TypeOK'
    BY <1>1, <1>9, <1>11, <1>12 DEF TInv, TypeOK
  <1>14. QED
    BY <1>10, <1>11, <1>13 DEF TInv

LEMMA StringBreaksTInv == TInv /\ StringBreaks => TInv'
  <1> SUFFICES ASSUME TInv, StringBreaks PROVE TInv'
    OBVIOUS
  <1>1. /\ mode = "string" /\ At(pos) # "end" /\ pos' = pos + 1 /\ mode' = "stringEnd" /\ failed' = TRUE
        /\ UNCHANGED <<source, open, text, tokens>>
    BY DEF StringBreaks
  <1>2. open \in Nat \ {0} /\ pos \in Nat \ {0} /\ open + 1 <= pos /\ Len(source) \in Nat
    BY <1>1, InString1
  <1>3. pos \in 1 .. Len(source)
    BY <1>1, <1>2, InSource DEF TInv
  <1>4. tokens' \in Seq(TokenT) /\ (~failed' => AllGood')
    BY <1>1, TokensKept
  <1>5. pos' \in 1 .. Len(source) + 1 /\ open \in 1 .. pos' - 1
    BY <1>1, <1>2, <1>3
  <1>6. TypeOK' /\ Reading'
    BY <1>1, <1>4, <1>5 DEF TInv, TypeOK, Reading
  <1>7. QED
    BY <1>4, <1>6 DEF TInv

LEMMA CloseStringTInv == TInv /\ CloseString => TInv'
  <1> SUFFICES ASSUME TInv, CloseString PROVE TInv'
    OBVIOUS
  <1> DEFINE t == Token("string", open, pos', text)
  <1>1. /\ mode \in {"string", "stringEnd"}
        /\ pos' = IF AtEnd THEN pos ELSE pos + 1
        /\ failed' = (failed \/ AtEnd)
        /\ tokens' = Append(tokens, t)
        /\ mode' = "scan" /\ text' = <<>> /\ UNCHANGED source
    BY DEF CloseString
  <1>2. /\ open \in 1 .. pos - 1 /\ pos \in 1 .. Len(source) + 1 /\ Len(source) \in Nat
        /\ source \in Seq(Chars) /\ text \in Seq(Chars) /\ failed \in BOOLEAN
    BY <1>1 DEF TInv, TypeOK
  <1>3. pos' \in 1 .. Len(source) + 1 /\ <<>> \in Seq(Chars)
    BY <1>1, <1>2 DEF AtEnd
  <1>4. t \in TokenT
    <2>1. open \in Nat \ {0} /\ "string" \in Kinds
      BY <1>2 DEF Kinds
    <2>2. pos \in Nat \ {0}
      BY <1>2
    <2>3. pos' \in Nat \ {0}
      <3>1. CASE AtEnd
        BY <1>1, <2>2, <3>1
      <3>2. CASE ~AtEnd
        BY <1>1, <2>2, <3>2
      <3>3. QED
        BY <3>1, <3>2
    <2>4. pos' - 1 \in Nat
      <3>1. \A n \in Nat \ {0} : n - 1 \in Nat
        OBVIOUS
      <3>2. QED
        BY <2>3, <3>1, Zenon
    <2>5. QED
      BY <1>2, <2>1, <2>4 DEF Token, TokenT
  <1>5. ~failed' => ~failed /\ Good(t)
    <2> SUFFICES ASSUME ~failed' PROVE Good(t)
      BY <1>1
    <2>1. mode = "string" /\ pos' = pos + 1
      BY <1>1 DEF TInv, Reading
    <2>2. t.kind = "string" /\ t.first = open /\ t.last = (pos + 1) - 1 /\ t.text = text
      BY <2>1 DEF Token
    <2>3. t.last - 1 = pos - 1
      BY <1>2, <2>2
    <2>4. LET body == SubSeq(source, open + 1, pos - 1) IN
          body \in Seq(Chars) /\ text = Means(body, StringTable)
      BY <2>1, InString1
    <2>5. SourceMeans(t) = Means(SubSeq(source, open + 1, pos - 1), StringTable)
      BY <2>2, <2>3, <2>4, MeaningIs DEF SourceMeans
    <2>6. QED
      BY <2>2, <2>4, <2>5 DEF Good
  <1> HIDE DEF t
  <1>6. tokens' \in Seq(TokenT) /\ (~failed' => AllGood')
    BY <1>1, <1>4, <1>5, TokensMore
  <1>7. TypeOK' /\ Reading'
    BY <1>1, <1>2, <1>3, <1>6 DEF TInv, TypeOK, Reading
  <1>8. QED
    BY <1>6, <1>7 DEF TInv

-----------------------------------------------------------------------------
(* readChar.                                                               *)
LEMMA CharBodyIs ==
  ASSUME TInv, Scanning({"apo"})
  PROVE  /\ CharBody.to \in pos + 1 .. Len(source) + 1 /\ CharBody.text \in Seq(Chars)
         /\ At(CharBody.to) = "apo" =>
              \/ CharBody.to = pos + 1 /\ CharBody.text = <<>>
              \/ /\ CharBody.to = pos + 2 /\ source[pos + 1] # "bs"
                 /\ CharBody.text = <<source[pos + 1]>>
              \/ /\ CharBody.to = pos + 3 /\ source[pos + 1] = "bs"
                 /\ CharBody.text = CharEscape(source[pos + 2])
         /\ At(CharBody.to) = "apo" => CharBody.to \in 1 .. Len(source)
  <1>1. /\ pos \in Nat \ {0} /\ Len(source) \in Nat /\ pos + 1 \in 1 .. Len(source) + 1
        /\ <<>> \in Seq(Chars) /\ TypeOK
    BY Scanned DEF TInv
  <1>2. \A i \in Nat \ {0} :
          /\ At(i) # "end" => i \in 1 .. Len(source) /\ At(i) = source[i] /\ At(i) \in Chars
          /\ i \in 1 .. Len(source) => At(i) # "end"
    BY <1>1, InSource
  <1>3. pos + 1 \in Nat \ {0} /\ pos + 2 \in Nat \ {0} /\ pos + 3 \in Nat \ {0}
    BY <1>1
  <1>4. CASE At(pos + 1) \in {"apo", "end"}
    <2>1. CharBody = [to |-> pos + 1, text |-> <<>>]
      BY <1>4 DEF CharBody
    <2>2. At(pos + 1) = "apo" => pos + 1 \in 1 .. Len(source)
      BY <1>2, <1>3
    <2>3. QED
      BY <1>1, <2>1, <2>2
  <1>5. CASE At(pos + 1) = "bs" /\ At(pos + 2) # "end"
    <2>1. CharBody = [to |-> pos + 3, text |-> CharEscape(At(pos + 2))]
      BY <1>5 DEF CharBody
    <2>2. /\ pos + 1 \in 1 .. Len(source) /\ source[pos + 1] = "bs"
          /\ pos + 2 \in 1 .. Len(source) /\ At(pos + 2) = source[pos + 2] /\ At(pos + 2) \in Chars
      BY <1>2, <1>3, <1>5
    <2>3. CharEscape(At(pos + 2)) \in Seq(Chars)
      BY <2>2, CharsAre DEF CharEscape
    <2>4. At(pos + 3) = "apo" => pos + 3 \in 1 .. Len(source)
      BY <1>2, <1>3
    <2>5. pos + 3 \in pos + 1 .. Len(source) + 1
      BY <1>1, <2>2
    <2>6. QED
      BY <2>1, <2>2, <2>3, <2>4, <2>5
  <1>6. CASE At(pos + 1) \notin {"apo", "end"} /\ ~(At(pos + 1) = "bs" /\ At(pos + 2) # "end")
    <2>1. CharBody = [to |-> pos + 2, text |-> <<At(pos + 1)>>]
      BY <1>6 DEF CharBody
    <2>2. pos + 1 \in 1 .. Len(source) /\ At(pos + 1) = source[pos + 1] /\ At(pos + 1) \in Chars
      BY <1>2, <1>3, <1>6
    <2>3. At(pos + 2) = "apo" => pos + 2 \in 1 .. Len(source) /\ source[pos + 1] # "bs"
      BY <1>2, <1>3, <1>6, <2>2
    <2>4. pos + 2 \in pos + 1 .. Len(source) + 1 /\ <<At(pos + 1)>> \in Seq(Chars)
      BY <1>1, <2>2
    <2>5. QED
      BY <2>1, <2>2, <2>3, <2>4
  <1>7. QED
    BY <1>4, <1>5, <1>6

(* What the body of a character literal means.                             *)
LEMMA OneMeans ==
  ASSUME NEW c \in Chars
  PROVE  /\ c # "bs" => Means(<<c>>, CharTable) = <<c>>
         /\ \A d \in Chars : Means(<<"bs", d>>, CharTable) = CharEscape(d)
  <1>1. /\ <<>> \in Seq(Chars) /\ Means(<<>>, CharTable) = <<>> /\ ~Escaped(<<>>, Len(<<>>) + 1)
        /\ "bs" \in Chars
    BY EmptyMeans, CharsAre
  <1>2. \A b \in Chars :
          /\ Means(Append(<<>>, b), CharTable) = Means(<<>>, CharTable) \o (IF b = "bs" THEN <<>> ELSE <<b>>)
          /\ Means(Append(<<>>, b), CharTable) \in Seq(Chars)
          /\ Escaped(Append(<<>>, b), Len(Append(<<>>, b)) + 1) <=> b = "bs"
    <2> DEFINE none == <<>>
    <2> SUFFICES ASSUME NEW b \in Chars
                 PROVE  /\ Means(Append(none, b), CharTable) = Means(none, CharTable) \o (IF b = "bs" THEN <<>> ELSE <<b>>)
                        /\ Means(Append(none, b), CharTable) \in Seq(Chars)
                        /\ Escaped(Append(none, b), Len(Append(none, b)) + 1) <=> b = "bs"
      OBVIOUS
    <2>1. none \in Seq(Chars) /\ Means(none, CharTable) \in Seq(Chars) /\ ~Escaped(none, Len(none) + 1)
      BY <1>1
    <2> HIDE DEF none
    <2>2. QED
      BY <2>1, MeansMore, TablesType
  <1>3. \A b \in Chars : Append(<<>>, b) = <<b>> /\ <<b>> \in Seq(Chars) /\ <<>> \o <<b>> = <<b>>
    OBVIOUS
  <1>4. c # "bs" => Means(<<c>>, CharTable) = <<c>>
    BY <1>1, <1>2, <1>3
  <1>5. ASSUME NEW d \in Chars PROVE Means(<<"bs", d>>, CharTable) = CharEscape(d)
    <2> DEFINE u == <<"bs">>
    <2>1. u \in Seq(Chars) /\ Means(u, CharTable) = <<>> /\ Means(u, CharTable) \in Seq(Chars)
          /\ Escaped(u, Len(u) + 1)
      BY <1>1, <1>2, <1>3
    <2>2. Append(u, d) = <<"bs", d>>
      BY <1>1, PairIs
    <2> HIDE DEF u
    <2>3. Means(Append(u, d), CharTable) = Means(u, CharTable) \o CharTable[d]
      BY <2>1, MeansMore, TablesType
    <2>4. CharTable[d] = CharEscape(d) /\ CharTable[d] \in Seq(Chars)
      BY TablesType DEF CharTable
    <2>5. QED
      BY <2>1, <2>2, <2>3, <2>4
  <1>6. QED
    BY <1>4, <1>5

LEMMA ReadCharTInv == TInv /\ ReadChar => TInv'
  <1> SUFFICES ASSUME TInv, ReadChar PROVE TInv'
    OBVIOUS
  <1> DEFINE closed == At(CharBody.to) = "apo"
             to == IF closed THEN CharBody.to + 1 ELSE CharBody.to
             t == Token("char", pos, to, CharBody.text)
  <1>1. Scanning({"apo"}) /\ Read("char", to, CharBody.text) /\ failed' = (failed \/ ~closed)
    BY DEF ReadChar
  <1>2. /\ mode = "scan" /\ failed \in BOOLEAN /\ pos \in Nat \ {0} /\ Len(source) \in Nat
        /\ source \in Seq(Chars)
    BY <1>1, Scanned DEF TInv, TypeOK
  <1>3. /\ CharBody.to \in pos + 1 .. Len(source) + 1 /\ CharBody.text \in Seq(Chars)
        /\ closed => CharBody.to \in 1 .. Len(source)
        /\ closed =>
              \/ CharBody.to = pos + 1 /\ CharBody.text = <<>>
              \/ /\ CharBody.to = pos + 2 /\ source[pos + 1] # "bs"
                 /\ CharBody.text = <<source[pos + 1]>>
              \/ /\ CharBody.to = pos + 3 /\ source[pos + 1] = "bs"
                 /\ CharBody.text = CharEscape(source[pos + 2])
    BY <1>1, CharBodyIs
  <1>4. to \in 1 .. Len(source) + 1
    BY <1>2, <1>3
  <1>5. ASSUME closed PROVE Good(t)
    <2> DEFINE body == SubSeq(source, pos + 1, CharBody.to - 1)
    <2>1. t.kind = "char" /\ t.first = pos /\ t.last = (CharBody.to + 1) - 1 /\ t.text = CharBody.text
      BY <1>5 DEF Token
    <2>2. t.last - 1 = CharBody.to - 1
      BY <1>3, <1>5, <2>1
    <2>3. CharBody.to \in 1 .. Len(source)
      BY <1>3, <1>5
    <2>4. body \in Seq(Chars)
      BY <1>2, <2>3
    <2>5. SourceMeans(t) = <<CharValue(Means(body, CharTable))>>
      BY <2>1, <2>2, <2>4, MeaningIs DEF SourceMeans
    <2>6. CASE CharBody.to = pos + 1 /\ CharBody.text = <<>>
      <3>1. body = <<>>
        BY <1>2, <2>6
      <3>2. Means(body, CharTable) = <<>>
        BY <3>1, EmptyMeans
      <3>3. CharValue(<<>>) \in Chars
        BY CharsAre DEF CharValue
      <3>4. QED
        BY <2>1, <2>5, <2>6, <3>2, <3>3 DEF Good
    <2>7. CASE CharBody.to = pos + 2 /\ source[pos + 1] # "bs" /\ CharBody.text = <<source[pos + 1]>>
      <3>1. body = <<source[pos + 1]>> /\ source[pos + 1] \in Chars
        <4>1. CharBody.to - 1 = pos + 1 /\ pos + 1 <= Len(source) /\ pos + 1 \in Nat \ {0}
          BY <1>2, <2>3, <2>7
        <4>2. QED
          BY <1>2, <4>1, ShortSubSeq
      <3>2. Means(body, CharTable) = CharBody.text
        BY <2>7, <3>1, OneMeans
      <3>3. CharValue(CharBody.text) \in Chars
        BY <2>7, <3>1 DEF CharValue
      <3>4. QED
        BY <2>1, <2>5, <3>2, <3>3 DEF Good
    <2>8. CASE CharBody.to = pos + 3 /\ source[pos + 1] = "bs" /\ CharBody.text = CharEscape(source[pos + 2])
      <3>1. body = <<source[pos + 1], source[pos + 2]>> /\ source[pos + 2] \in Chars
        <4>1. /\ CharBody.to - 1 = (pos + 1) + 1 /\ (pos + 1) + 1 = pos + 2
              /\ (pos + 1) + 1 <= Len(source) /\ pos + 1 \in Nat \ {0}
          BY <1>2, <2>3, <2>8
        <4>2. SubSeq(source, pos + 1, (pos + 1) + 1) = <<source[pos + 1], source[(pos + 1) + 1]>>
              /\ source[(pos + 1) + 1] \in Chars
          BY <1>2, <4>1, ShortSubSeq
        <4>3. QED
          BY <4>1, <4>2
      <3>2. Means(body, CharTable) = CharBody.text
        BY <2>8, <3>1, OneMeans
      <3>3. CharValue(CharBody.text) \in Chars
        BY <2>8, <3>1, CharsAre DEF CharValue, CharEscape
      <3>4. QED
        BY <2>1, <2>5, <3>2, <3>3 DEF Good
    <2>9. QED
      BY <1>3, <1>5, <2>6, <2>7, <2>8
  <1>6. "char" \in Kinds
    BY DEF Kinds
  <1>7. failed' \in BOOLEAN /\ (~failed' => ~failed /\ Good(t))
    BY <1>1, <1>2, <1>5
  <1> HIDE DEF to
  <1>8. QED
    BY <1>1, <1>2, <1>3, <1>4, <1>6, <1>7, ReadTInv

-----------------------------------------------------------------------------
LEMMA EndOfSourceTInv == TInv /\ EndOfSource => TInv'
  <1> SUFFICES ASSUME TInv, EndOfSource PROVE TInv'
    OBVIOUS
  <1> DEFINE S == {i \in 1 .. Len(tokens) : tokens[i].kind # "nl"}
             m == IF S # {} THEN Max(S) ELSE 0
  <1>1. tokens' = SubSeq(tokens, 1, m) /\ mode' = "done" /\ UNCHANGED <<source, pos, open, text, failed>>
    BY DEF EndOfSource, SelectLastInSeq
  <1>2. tokens \in Seq(TokenT) /\ Len(tokens) \in Nat
    BY DEF TInv, TypeOK
  <1>3. m \in 0 .. Len(tokens)
    <2>1. CASE S # {}
      <3> DEFINE T == {Len(tokens) - i : i \in S}
      <3>1. \A i \in S : i \in 1 .. Len(tokens)
        OBVIOUS
      <3>2. T \in SUBSET Nat /\ T # {}
        BY <1>2, <2>1, <3>1
      <3>3. PICK k \in T : \A j \in T : k <= j
        BY <3>2, LeastExists
      <3>4. PICK i \in S : k = Len(tokens) - i
        BY <3>3
      <3>5. \A j \in S : i >= j
        <4>1. \A j \in S : k <= Len(tokens) - j
          BY <3>3
        <4>2. \A j \in 1 .. Len(tokens) : Len(tokens) - i <= Len(tokens) - j => i >= j
          BY <1>2, <3>1
        <4>3. QED
          BY <3>1, <3>4, <4>1, <4>2
      <3> HIDE DEF S
      <3>6. \E x \in S : \A y \in S : x >= y
        BY <3>5
      <3>7. Max(S) \in S
        BY <3>6 DEF Max
      <3>8. QED
        BY <1>2, <2>1, <3>1, <3>7
    <2>2. CASE S = {}
      BY <1>2, <2>2
    <2>3. QED
      BY <2>1, <2>2
  <1> HIDE DEF m
  <1>4. tokens' \in Seq(TokenT) /\ DOMAIN tokens' = 1 .. m
        /\ \A k \in 1 .. m : k \in DOMAIN tokens /\ tokens'[k] = tokens[k]
    BY <1>1, <1>2, <1>3
  <1>5. \A u : Good(u)' <=> Good(u)
    BY <1>1 DEF Good, SourceMeans
  <1>6. ~failed' => AllGood'
    BY <1>1, <1>4, <1>5 DEF TInv, AllGood
  <1>7. TypeOK' /\ Reading'
    BY <1>1, <1>4 DEF TInv, TypeOK, Reading
  <1>8. QED
    BY <1>6, <1>7 DEF TInv

LEMMA NextTInv == TInv /\ [Next]_vars => TInv'
  <1> SUFFICES ASSUME TInv, [Next]_vars PROVE TInv'
    OBVIOUS
  <1>1. CASE Next
    BY <1>1, SkipBlankTInv, NewlineTInv, ReadNumberTInv, ReadIdentTInv, LineCommentTInv,
       OpenCommentTInv, CommentTInv, OpenStringTInv, InStringTInv, InStringEscapeTInv,
       StringBreaksTInv, CloseStringTInv, ReadCharTInv, ReadOperatorTInv, UnexpectedTInv,
       EndOfSourceTInv DEF Next
  <1>2. CASE UNCHANGED vars
    <2>1. UNCHANGED <<source, pos, mode, open, text, tokens, failed>>
      BY <1>2 DEF vars
    <2>2. tokens' \in Seq(TokenT) /\ (~failed' => AllGood')
      BY <2>1, TokensKept
    <2>3. TypeOK' /\ Reading'
      BY <2>1, <2>2 DEF TInv, TypeOK, Reading
    <2>4. QED
      BY <2>2, <2>3 DEF TInv
  <1>3. QED
    BY <1>1, <1>2

LEMMA AlwaysTInv == Spec => []TInv
  BY InitTInv, NextTInv, PTL DEF Spec

-----------------------------------------------------------------------------
(* The lexemes of a source.  Lexemes is a recursive function over          *)
(* positions, each of whose values needs one further on: it exists, and is *)
(* known, from the last position back to the first.                        *)
LexemeKinds == {"blank", "nl", "int", "float", "string", "char", "ident", "comment", "unclosed", "op"}
LexemeT == [kind : LexemeKinds \cup {"none"}, first : Nat, last : Nat]

LEMMA MostExists ==
  ASSUME NEW n \in Nat, NEW E, E \subseteq 0 .. n, E # {}
  PROVE  \E j \in E : \A k \in E : k <= j
  <1> DEFINE T == {n - k : k \in E}
  <1>1. T \in SUBSET Nat /\ T # {}
    <2>1. \A k \in 0 .. n : n - k \in Nat
      OBVIOUS
    <2>2. \A k \in E : n - k \in Nat
      BY <2>1
    <2>3. QED
      BY <2>2
  <1>2. PICK t \in T : \A u \in T : t <= u
    <2> HIDE DEF T
    <2>1. QED
      BY <1>1, LeastExists
  <1>3. PICK j \in E : t = n - j
    BY <1>2
  <1>4. \A k \in E : n - j <= n - k
    BY <1>2, <1>3
  <1>5. \A k \in 0 .. n : n - j <= n - k => k <= j
    BY <1>3
  <1>6. QED
    BY <1>3, <1>4, <1>5

LEMMA KindsAre == \A s : KindsOf(s) \subseteq LexemeKinds
  BY DEF KindsOf, LexemeKinds

LEMMA LexemeAtType ==
  ASSUME NEW src, Len(src) \in Nat, NEW i \in 1 .. Len(src)
  PROVE  /\ LexemeAt(src, i) \in LexemeT /\ LexemeAt(src, i).first = i
         /\ LexemeAt(src, i).last \in i .. Len(src)
  <1> DEFINE Ends == {j \in i .. Len(src) : KindsOf(SubSeq(src, i, j)) # {}}
             last == CHOOSE j \in Ends : \A k \in Ends : k <= j
             kind == CHOOSE k \in KindsOf(SubSeq(src, i, last)) : TRUE
  <1>1. LexemeAt(src, i) = IF Ends = {} THEN [kind |-> "none", first |-> i, last |-> i]
                           ELSE [kind |-> kind, first |-> i, last |-> last]
    BY DEF LexemeAt
  <1>2. i \in Nat /\ i \in i .. Len(src)
    OBVIOUS
  <1>3. CASE Ends = {}
    BY <1>1, <1>2, <1>3 DEF LexemeT
  <1>4. CASE Ends # {}
    <2>1. Ends \subseteq 0 .. Len(src) /\ Ends \subseteq i .. Len(src)
      OBVIOUS
    <2>2. last \in Ends
      <3> HIDE DEF Ends
      <3>1. QED
        BY <1>4, <2>1, MostExists
    <2>3. KindsOf(SubSeq(src, i, last)) # {}
      <3> HIDE DEF last
      <3>1. QED
        BY <2>2
    <2> HIDE DEF last
    <2>4. kind \in KindsOf(SubSeq(src, i, last))
      BY <2>3
    <2>5. kind \in LexemeKinds
      BY <2>4, KindsAre
    <2> HIDE DEF kind
    <2>6. last \in i .. Len(src) /\ last \in Nat
      BY <2>1, <2>2
    <2> HIDE DEF Ends
    <2>7. QED
      BY <1>1, <1>2, <1>4, <2>5, <2>6 DEF LexemeT
  <1>5. QED
    BY <1>3, <1>4

(* What the recursion says of f at i.                                      *)
FromHere(f, src, i) ==
  IF i > Len(src) THEN <<>>
  ELSE LET here == LexemeAt(src, i) IN <<here>> \o f[here.last + 1]
Partial(f, src, n) ==
  /\ f \in [n .. Len(src) + 1 -> Seq(LexemeT)]
  /\ \A i \in n .. Len(src) + 1 : f[i] = FromHere(f, src, i)

LEMMA PartialExtends ==
  ASSUME NEW src, Len(src) \in Nat, NEW n \in 1 .. Len(src), NEW f, Partial(f, src, n + 1)
  PROVE  \E g : Partial(g, src, n)
  <1> DEFINE here == LexemeAt(src, n)
             g == [i \in n .. Len(src) + 1 |-> IF i = n THEN <<here>> \o f[here.last + 1] ELSE f[i]]
  <1>1. here \in LexemeT /\ here.last \in n .. Len(src)
    BY LexemeAtType
  <1>2. /\ f \in [n + 1 .. Len(src) + 1 -> Seq(LexemeT)]
        /\ \A i \in n + 1 .. Len(src) + 1 : f[i] = FromHere(f, src, i)
    BY DEF Partial
  <1>3. here.last + 1 \in n + 1 .. Len(src) + 1 /\ here.last + 1 # n
        /\ here.last + 1 \in n .. Len(src) + 1
    <2> HIDE DEF here
    <2>1. QED
      BY <1>1
  <1>4. \A i \in n .. Len(src) + 1 : i # n => i \in n + 1 .. Len(src) + 1
    OBVIOUS
  <1>5. \A i \in n + 1 .. Len(src) + 1 : i \in n .. Len(src) + 1 /\ i # n
    OBVIOUS
  <1> HIDE DEF here
  <1>6. <<here>> \o f[here.last + 1] \in Seq(LexemeT)
    BY <1>1, <1>2, <1>3
  <1>7. g \in [n .. Len(src) + 1 -> Seq(LexemeT)]
    BY <1>2, <1>4, <1>6
  <1>8. \A i \in n + 1 .. Len(src) + 1 : g[i] = f[i]
    BY <1>5
  <1>9. ASSUME NEW i \in n .. Len(src) + 1
        PROVE  g[i] = FromHere(g, src, i)
    <2>1. CASE i = n
      <3>1. g[i] = <<here>> \o f[here.last + 1] /\ g[here.last + 1] = f[here.last + 1] /\ ~(i > Len(src))
        BY <1>3, <1>8, <2>1
      <3> HIDE DEF g
      <3>2. QED
        BY <2>1, <3>1 DEF FromHere, here
    <2>2. CASE i # n
      <3>1. i \in n + 1 .. Len(src) + 1
        BY <1>4, <2>2
      <3>2. g[i] = f[i] /\ f[i] = FromHere(f, src, i)
        BY <1>2, <1>8, <3>1
      <3>3. i <= Len(src) => g[LexemeAt(src, i).last + 1] = f[LexemeAt(src, i).last + 1]
        <4> SUFFICES ASSUME i <= Len(src)
                     PROVE  g[LexemeAt(src, i).last + 1] = f[LexemeAt(src, i).last + 1]
          OBVIOUS
        <4>1. i \in 1 .. Len(src)
          BY <3>1
        <4>2. LexemeAt(src, i).last \in i .. Len(src)
          BY <4>1, LexemeAtType
        <4>3. LexemeAt(src, i).last + 1 \in n + 1 .. Len(src) + 1
          BY <3>1, <4>2
        <4> HIDE DEF g
        <4>4. QED
          BY <1>8, <4>3
      <3> HIDE DEF g
      <3>4. i > Len(src) \/ i <= Len(src)
        BY <3>1
      <3>5. QED
        BY <3>2, <3>3, <3>4 DEF FromHere
    <2>3. QED
      BY <2>1, <2>2
  <1> HIDE DEF g
  <1>10. QED
    BY <1>7, <1>9 DEF Partial

LEMMA PartialExists ==
  ASSUME NEW src, Len(src) \in Nat
  PROVE  \E f : Partial(f, src, 1)
  <1> DEFINE N == Len(src) + 1
             Bad == {d \in 0 .. Len(src) : ~\E f : Partial(f, src, N - d)}
  <1>1. SUFFICES ASSUME Len(src) \in Bad PROVE FALSE
    <2>1. Len(src) \in 0 .. Len(src) /\ N - Len(src) = 1
      OBVIOUS
    <2>2. QED
      BY <2>1
  <1>2. Bad \in SUBSET Nat /\ Bad # {}
    BY <1>1
  <1>3. PICK d \in Bad : \A e \in Bad : d <= e
    <2> HIDE DEF Bad
    <2>1. QED
      BY <1>2, LeastExists
  <1>4. CASE d = 0
    <2> DEFINE f == [i \in N .. N |-> <<>>]
    <2>1. f \in [N .. Len(src) + 1 -> Seq(LexemeT)]
      OBVIOUS
    <2>2. \A i \in N .. Len(src) + 1 : f[i] = <<>> /\ i > Len(src)
      OBVIOUS
    <2> HIDE DEF f
    <2>3. Partial(f, src, N)
      BY <2>1, <2>2 DEF Partial, FromHere
    <2>4. N - 0 = N
      OBVIOUS
    <2>5. QED
      BY <1>3, <1>4, <2>3, <2>4
  <1>5. CASE d # 0
    <2>1. d - 1 \in 0 .. Len(src) /\ ~(d <= d - 1) /\ N - (d - 1) = (N - d) + 1 /\ N - d \in 1 .. Len(src)
      BY <1>3, <1>5
    <2>2. PICK f : Partial(f, src, (N - d) + 1)
      BY <1>3, <2>1
    <2>3. \E g : Partial(g, src, N - d)
      BY <2>1, <2>2, PartialExtends
    <2>4. QED
      BY <1>3, <2>3
  <1>6. QED
    BY <1>4, <1>5

LEMMA RecursionTyped ==
  ASSUME NEW src, Len(src) \in Nat, NEW f,
         f = [i \in 1 .. Len(src) + 1 |-> FromHere(f, src, i)]
  PROVE  Partial(f, src, 1)
  <1>1. \A i \in 1 .. Len(src) + 1 : f[i] = FromHere(f, src, i)
    OBVIOUS
  <1> DEFINE Bad == {i \in 1 .. Len(src) + 1 : f[i] \notin Seq(LexemeT)}
  <1>2. Bad = {}
    <2> SUFFICES ASSUME Bad # {} PROVE FALSE
      OBVIOUS
    <2>1. Bad \subseteq 0 .. Len(src) + 1 /\ Len(src) + 1 \in Nat
      OBVIOUS
    <2>2. PICK i \in Bad : \A j \in Bad : j <= i
      <3> HIDE DEF Bad
      <3>1. QED
        BY <2>1, MostExists
    <2>3. i \in 1 .. Len(src) + 1 /\ f[i] = FromHere(f, src, i)
      BY <1>1, <2>2
    <2>4. i <= Len(src)
      <3>1. <<>> \in Seq(LexemeT)
        OBVIOUS
      <3>2. QED
        BY <2>2, <2>3, <3>1 DEF FromHere
    <2> DEFINE here == LexemeAt(src, i)
    <2>5. here \in LexemeT /\ here.last \in i .. Len(src)
      BY <2>3, <2>4, LexemeAtType
    <2>6. f[i] = <<here>> \o f[here.last + 1]
      <3>1. ~(i > Len(src))
        BY <2>3, <2>4
      <3>2. QED
        BY <2>3, <3>1 DEF FromHere
    <2> HIDE DEF here
    <2>7. here.last + 1 \in 1 .. Len(src) + 1 /\ ~(here.last + 1 <= i)
      BY <2>3, <2>5
    <2>8. f[here.last + 1] \in Seq(LexemeT)
      BY <2>2, <2>7
    <2>9. <<here>> \o f[here.last + 1] \in Seq(LexemeT)
      BY <2>5, <2>8
    <2>10. QED
      BY <2>2, <2>6, <2>9
  <1>3. \A i \in 1 .. Len(src) + 1 : f[i] \in Seq(LexemeT)
    BY <1>2
  <1>4. f \in [1 .. Len(src) + 1 -> Seq(LexemeT)]
    <2>1. f = [i \in 1 .. Len(src) + 1 |-> f[i]]
      OBVIOUS
    <2>2. QED
      BY <1>3, <2>1
  <1>5. QED
    BY <1>1, <1>4 DEF Partial

(* The lexemes from each position on.                                      *)
After(src) == CHOOSE f : Partial(f, src, 1) /\ Lexemes(src) = f[1]

LEMMA AfterIs ==
  ASSUME NEW src, Len(src) \in Nat
  PROVE  Partial(After(src), src, 1) /\ Lexemes(src) = After(src)[1]
  <1> DEFINE g == CHOOSE f : f = [i \in 1 .. (Len(src) + 1) |-> FromHere(f, src, i)]
  <1>1. Lexemes(src) = g[1]
    BY DEF Lexemes, FromHere
  <1>2. PICK f : Partial(f, src, 1)
    BY PartialExists
  <1>3. f = [i \in 1 .. Len(src) + 1 |-> FromHere(f, src, i)]
    <2>1. f = [i \in 1 .. Len(src) + 1 |-> f[i]] /\ \A i \in 1 .. Len(src) + 1 : f[i] = FromHere(f, src, i)
      BY <1>2 DEF Partial
    <2>2. QED
      BY <2>1
  <1>4. g = [i \in 1 .. (Len(src) + 1) |-> FromHere(g, src, i)]
    BY <1>3
  <1> HIDE DEF g
  <1>5. Partial(g, src, 1)
    BY <1>4, RecursionTyped
  <1>6. QED
    BY <1>1, <1>5 DEF After

-----------------------------------------------------------------------------
(* Parts of a source, by position: what the grammar says of a string, said *)
(* of the source where the string stands.                                  *)
LEMMA SubIs ==
  ASSUME NEW S, NEW src \in Seq(S), NEW i \in 1 .. Len(src), NEW j \in i .. Len(src)
  PROVE  LET s == SubSeq(src, i, j) IN
         /\ s \in Seq(S) /\ Len(s) = (j - i) + 1 /\ Len(s) \in Nat /\ Len(s) > 0
         /\ \A k \in 1 .. Len(s) : s[k] = src[(i + k) - 1]
         /\ s[1] = src[i] /\ s[Len(s)] = src[j]
         /\ Len(s) > 1 => i + 1 \in 1 .. Len(src) /\ s[2] = src[i + 1]
  <1> DEFINE s == SubSeq(src, i, j)
  <1>1. /\ s \in Seq(S) /\ Len(s) = (j - i) + 1 /\ Len(s) \in Nat /\ Len(s) > 0
        /\ \A k \in 1 .. Len(s) : s[k] = src[(i + k) - 1]
    OBVIOUS
  <1> HIDE DEF s
  <1>2. 1 \in 1 .. Len(s) /\ Len(s) \in 1 .. Len(s) /\ (Len(s) > 1 => 2 \in 1 .. Len(s))
    BY <1>1
  <1>3. (i + 1) - 1 = i /\ (i + 2) - 1 = i + 1 /\ (i + Len(s)) - 1 = j
    BY <1>1
  <1>4. Len(s) > 1 => i + 1 \in 1 .. Len(src)
    BY <1>1
  <1>5. s[1] = src[i] /\ s[Len(s)] = src[j] /\ (Len(s) > 1 => s[2] = src[i + 1])
    BY <1>1, <1>2, <1>3
  <1>6. QED
    BY <1>1, <1>4, <1>5 DEF s

LEMMA MadeSub ==
  ASSUME NEW S, NEW src \in Seq(S), NEW a \in Nat \ {0}, NEW b \in Nat, b <= Len(src), NEW chars
  PROVE  MadeOf(SubSeq(src, a, b), chars) <=> \A p \in a .. b : src[p] \in chars
  <1> DEFINE s == SubSeq(src, a, b)
  <1>1. CASE a <= b
    <2>1. Len(s) = (b - a) + 1 /\ \A k \in 1 .. Len(s) : s[k] = src[(a + k) - 1]
      BY <1>1
    <2>2. \A p \in a .. b : (p - a) + 1 \in 1 .. Len(s) /\ (a + ((p - a) + 1)) - 1 = p
      BY <2>1
    <2>3. \A k \in 1 .. Len(s) : (a + k) - 1 \in a .. b
      BY <2>1
    <2> HIDE DEF s
    <2>4. \A p \in a .. b : s[(p - a) + 1] = src[p]
      BY <2>1, <2>2
    <2>5. MadeOf(s, chars) => \A p \in a .. b : src[p] \in chars
      BY <2>2, <2>4 DEF MadeOf
    <2>6. (\A p \in a .. b : src[p] \in chars) => MadeOf(s, chars)
      BY <2>1, <2>3 DEF MadeOf
    <2>7. QED
      BY <2>5, <2>6 DEF s
  <1>2. CASE ~(a <= b)
    <2>1. s = <<>> /\ a .. b = {}
      BY <1>2
    <2>2. QED
      BY <2>1 DEF MadeOf
  <1>3. QED
    BY <1>1, <1>2

LEMMA SubSub ==
  ASSUME NEW S, NEW src \in Seq(S), NEW i \in 1 .. Len(src), NEW j \in i .. Len(src),
         NEW a \in 1 .. (j - i) + 2, NEW b \in 0 .. (j - i) + 1
  PROVE  /\ SubSeq(SubSeq(src, i, j), a, b) = SubSeq(src, (i + a) - 1, (i + b) - 1)
         /\ (i + a) - 1 \in Nat \ {0} /\ (i + b) - 1 \in Nat /\ (i + b) - 1 <= Len(src)
  <1> DEFINE s == SubSeq(src, i, j)
             u == SubSeq(s, a, b)
             v == SubSeq(src, (i + a) - 1, (i + b) - 1)
  <1>1. s \in Seq(S) /\ Len(s) = (j - i) + 1 /\ \A k \in 1 .. Len(s) : s[k] = src[(i + k) - 1]
    BY SubIs
  <1>2. (i + a) - 1 \in Nat \ {0} /\ (i + b) - 1 \in Nat /\ (i + b) - 1 <= Len(src)
    OBVIOUS
  <1>3. CASE a <= b
    <2> HIDE DEF s
    <2>1. u \in Seq(S) /\ Len(u) = (b - a) + 1 /\ \A k \in 1 .. Len(u) : u[k] = s[(a + k) - 1]
      <3>1. a \in 1 .. Len(s) /\ b \in a .. Len(s)
        BY <1>1, <1>3
      <3>2. QED
        BY <1>1, <3>1, SubIs
    <2>2. v \in Seq(S) /\ Len(v) = (b - a) + 1 /\ \A k \in 1 .. Len(v) : v[k] = src[(((i + a) - 1) + k) - 1]
      <3> DEFINE c == (i + a) - 1
                 d == (i + b) - 1
      <3>1. c \in 1 .. Len(src) /\ d \in c .. Len(src) /\ (d - c) + 1 = (b - a) + 1
        BY <1>2, <1>3
      <3> HIDE DEF c, d
      <3>2. SubSeq(src, c, d) \in Seq(S) /\ Len(SubSeq(src, c, d)) = (d - c) + 1
            /\ \A k \in 1 .. Len(SubSeq(src, c, d)) : SubSeq(src, c, d)[k] = src[(c + k) - 1]
        BY <3>1, SubIs
      <3>3. QED
        BY <3>1, <3>2 DEF c, d
    <2>3. \A k \in 1 .. (b - a) + 1 : (a + k) - 1 \in 1 .. Len(s)
               /\ (i + ((a + k) - 1)) - 1 = (((i + a) - 1) + k) - 1
      BY <1>1, <1>3
    <2> HIDE DEF u, v
    <2>4. \A k \in 1 .. (b - a) + 1 : u[k] = v[k]
      BY <1>1, <2>1, <2>2, <2>3
    <2>5. u = v
      BY <2>1, <2>2, <2>4
    <2>6. QED
      BY <1>2, <2>5 DEF u, v, s
  <1>4. CASE ~(a <= b)
    <2>1. u = <<>>
      BY <1>1, <1>4
    <2>2. v = <<>>
      BY <1>2, <1>4
    <2>3. QED
      BY <1>2, <2>1, <2>2
  <1>5. QED
    BY <1>3, <1>4

(* The first character of a string decides what kinds it may have, as it   *)
(* decides which reader tokenize calls.                                    *)
LEMMA KindIs ==
  ASSUME NEW s
  PROVE  /\ "blank" \in KindsOf(s) <=> Len(s) = 1 /\ s[1] \in Blanks
         /\ "nl" \in KindsOf(s) <=> s = <<"nl">>
         /\ "int" \in KindsOf(s) <=> IsInt(s)
         /\ "float" \in KindsOf(s) <=> IsFloat(s)
         /\ "string" \in KindsOf(s) <=> IsString(s)
         /\ "char" \in KindsOf(s) <=> IsChar(s)
         /\ "ident" \in KindsOf(s) <=> s[1] \in Letters /\ MadeOf(s, Letters \cup Digits)
         /\ "comment" \in KindsOf(s) <=> IsComment(s)
         /\ "unclosed" \in KindsOf(s) <=> IsUnclosed(s)
         /\ "op" \in KindsOf(s) <=> s \in Pairs \/ (Len(s) = 1 /\ s[1] \in Singles)
  BY DEF KindsOf

Starts == Blanks \cup {"nl", "quo", "apo", "!"} \cup Digits \cup Letters \cup Singles

LEMMA FirstsAre ==
  ASSUME NEW S, NEW s \in Seq(S), Len(s) > 0
  PROVE  /\ "blank" \in KindsOf(s) => s[1] \in Blanks /\ Len(s) = 1
         /\ "nl" \in KindsOf(s) => s[1] = "nl" /\ Len(s) = 1
         /\ "int" \in KindsOf(s) => s[1] \in Digits
         /\ "float" \in KindsOf(s) => s[1] \in Digits
         /\ "string" \in KindsOf(s) => s[1] = "quo"
         /\ "char" \in KindsOf(s) => s[1] = "apo"
         /\ "ident" \in KindsOf(s) => s[1] \in Letters
         /\ "comment" \in KindsOf(s) => s[1] = "/" /\ Len(s) > 1
         /\ "unclosed" \in KindsOf(s) => s[1] = "/" /\ Len(s) > 1
         /\ "op" \in KindsOf(s) => s[1] \in Singles \cup {"!"} /\ (Len(s) > 1 => s[1] # "/")
  <1>1. 1 \in 1 .. Len(s) /\ Len(s) \in Nat
    OBVIOUS
  <1>2. \A chars : MadeOf(s, chars) => s[1] \in chars
    BY <1>1 DEF MadeOf
  <1>3. IsInt(s) => s[1] \in Digits
    BY <1>2 DEF IsInt, Digits
  <1>4. IsFloat(s) => s[1] \in Digits
    <2> SUFFICES ASSUME IsFloat(s) PROVE s[1] \in Digits
      OBVIOUS
    <2>1. PICK d \in 1 .. (Len(s) - 1) : MadeOf(SubSeq(s, 1, d), Digits)
      BY DEF IsFloat
    <2>2. 1 \in 1 .. d /\ d \in Nat /\ d <= Len(s) /\ 1 \in Nat \ {0}
      BY <1>1, <2>1
    <2>3. QED
      BY <2>1, <2>2, MadeSub
  <1>5. /\ IsString(s) => s[1] = "quo"
        /\ IsChar(s) => s[1] = "apo"
        /\ IsComment(s) => s[1] = "/" /\ Len(s) > 1
        /\ IsUnclosed(s) => s[1] = "/" /\ Len(s) > 1
    BY DEF IsString, IsChar, IsComment, IsUnclosed, IsBlockOpen, Quoted
  <1>6. s \in Pairs => s[1] \in Singles \cup {"!"} /\ s[1] # "/"
    BY DEF Pairs, Singles
  <1>7. "op" \in KindsOf(s) => s[1] \in Singles \cup {"!"} /\ (Len(s) > 1 => s[1] # "/")
    BY <1>1, <1>6, KindIs
  <1>8. \A x : Len(<<x>>) = 1 /\ <<x>>[1] = x
    OBVIOUS
  <1>9. /\ "blank" \in KindsOf(s) => s[1] \in Blanks /\ Len(s) = 1
        /\ "nl" \in KindsOf(s) => s[1] = "nl" /\ Len(s) = 1
    BY <1>8, KindIs
  <1>10. QED
    BY <1>3, <1>4, <1>5, <1>7, <1>9, KindIs

LEMMA KindsByFirst ==
  ASSUME NEW S, NEW s \in Seq(S), Len(s) > 0
  PROVE  /\ s[1] \in Blanks => KindsOf(s) = IF Len(s) = 1 THEN {"blank"} ELSE {}
         /\ s[1] = "nl" => KindsOf(s) = IF Len(s) = 1 THEN {"nl"} ELSE {}
         /\ s[1] \in Digits => KindsOf(s) \subseteq {"int", "float"}
         /\ s[1] \in Letters => KindsOf(s) = IF MadeOf(s, Letters \cup Digits) THEN {"ident"} ELSE {}
         /\ s[1] = "quo" => KindsOf(s) = IF IsString(s) THEN {"string"} ELSE {}
         /\ s[1] = "apo" => KindsOf(s) = IF IsChar(s) THEN {"char"} ELSE {}
         /\ s[1] = "/" => IF Len(s) = 1 THEN KindsOf(s) = {"op"} ELSE KindsOf(s) \subseteq {"comment", "unclosed"}
         /\ s[1] \in (Singles \cup {"!"}) \ {"/"} =>
              KindsOf(s) = IF s \in Pairs \/ (Len(s) = 1 /\ s[1] \in Singles) THEN {"op"} ELSE {}
         /\ s[1] \notin Starts => KindsOf(s) = {}
  <1>1. \A k : k \in KindsOf(s) => k \in LexemeKinds
    BY KindsAre
  <1> DEFINE K == KindsOf(s)
  <1>2. \A k \in K : \/ k = "blank" \/ k = "nl" \/ k = "int" \/ k = "float" \/ k = "string" \/ k = "char"
                     \/ k = "ident" \/ k = "comment" \/ k = "unclosed" \/ k = "op"
    BY <1>1 DEF LexemeKinds
  <1> HIDE DEF K
  <1>3. /\ "blank" \in K => s[1] \in Blanks /\ Len(s) = 1
        /\ "nl" \in K => s[1] = "nl" /\ Len(s) = 1
        /\ "int" \in K => s[1] \in Digits
        /\ "float" \in K => s[1] \in Digits
        /\ "string" \in K => s[1] = "quo"
        /\ "char" \in K => s[1] = "apo"
        /\ "ident" \in K => s[1] \in Letters
        /\ "comment" \in K => s[1] = "/" /\ Len(s) > 1
        /\ "unclosed" \in K => s[1] = "/" /\ Len(s) > 1
        /\ "op" \in K => s[1] \in Singles \cup {"!"} /\ (Len(s) > 1 => s[1] # "/")
    BY FirstsAre DEF K
  <1>4. Len(s) = 1 => s = <<s[1]>>
    OBVIOUS
  <1>5. /\ s[1] \in Blanks /\ Len(s) = 1 => "blank" \in K
        /\ s[1] = "nl" /\ Len(s) = 1 => "nl" \in K
    BY <1>4, KindIs DEF K
  <1>6. /\ "string" \in K <=> IsString(s)
        /\ "char" \in K <=> IsChar(s)
        /\ "ident" \in K <=> s[1] \in Letters /\ MadeOf(s, Letters \cup Digits)
        /\ "op" \in K <=> s \in Pairs \/ (Len(s) = 1 /\ s[1] \in Singles)
    BY KindIs DEF K
  <1>7. s[1] \in Blanks => K = IF Len(s) = 1 THEN {"blank"} ELSE {}
    BY <1>2, <1>3, <1>5 DEF Digits, Letters, Singles, Blanks
  <1>8. s[1] = "nl" => K = IF Len(s) = 1 THEN {"nl"} ELSE {}
    BY <1>2, <1>3, <1>5 DEF Digits, Letters, Singles, Blanks
  <1>9. s[1] \in Digits => K \subseteq {"int", "float"}
    BY <1>2, <1>3 DEF Digits, Letters, Singles, Blanks
  <1>10. s[1] \in Letters => K = IF MadeOf(s, Letters \cup Digits) THEN {"ident"} ELSE {}
    <2>1. s[1] \in Letters => K \subseteq {"ident"}
      BY <1>2, <1>3 DEF Digits, Letters, Singles, Blanks
    <2>2. QED
      BY <1>6, <2>1
  <1>11. s[1] = "quo" => K = IF IsString(s) THEN {"string"} ELSE {}
    BY <1>2, <1>3, <1>6 DEF Digits, Letters, Singles, Blanks
  <1>12. s[1] = "apo" => K = IF IsChar(s) THEN {"char"} ELSE {}
    BY <1>2, <1>3, <1>6 DEF Digits, Letters, Singles, Blanks
  <1>13. s[1] = "/" => IF Len(s) = 1 THEN K = {"op"} ELSE K \subseteq {"comment", "unclosed"}
    <2>0. Len(s) \in Nat
      OBVIOUS
    <2>1. s[1] = "/" /\ Len(s) = 1 => K \subseteq {"op"} /\ "op" \in K
      BY <1>2, <1>3, <1>6 DEF Digits, Letters, Singles, Blanks
    <2>2. s[1] = "/" /\ Len(s) > 1 => K \subseteq {"comment", "unclosed"}
      BY <1>2, <1>3 DEF Digits, Letters, Singles, Blanks
    <2>3. s[1] = "/" /\ Len(s) = 1 => K = {"op"}
      BY <2>1
    <2>4. Len(s) = 1 \/ Len(s) > 1
      <3>1. \A n \in Nat : n > 0 => n = 1 \/ n > 1
        OBVIOUS
      <3>2. QED
        BY <2>0, <3>1, Zenon
    <2>5. QED
      BY <2>2, <2>3, <2>4
  <1>14. s[1] \in (Singles \cup {"!"}) \ {"/"} =>
              K = IF s \in Pairs \/ (Len(s) = 1 /\ s[1] \in Singles) THEN {"op"} ELSE {}
    <2>1. s[1] \in (Singles \cup {"!"}) \ {"/"} => K \subseteq {"op"}
      BY <1>2, <1>3 DEF Digits, Letters, Singles, Blanks
    <2>2. QED
      BY <1>6, <2>1
  <1>15. s[1] \notin Starts => K = {}
    BY <1>2, <1>3 DEF Starts, Singles
  <1>16. QED
    BY <1>7, <1>8, <1>9, <1>10, <1>11, <1>12, <1>13, <1>14, <1>15 DEF K

(* The lexeme at a position, when the longest string with a kind is known. *)
Longest(src, i, j, kind) ==
  /\ KindsOf(SubSeq(src, i, j)) = {kind}
  /\ \A m \in j + 1 .. Len(src) : KindsOf(SubSeq(src, i, m)) = {}

LEMMA LexemeIs ==
  ASSUME NEW src, Len(src) \in Nat, NEW i \in 1 .. Len(src), NEW j \in i .. Len(src), NEW kind,
         Longest(src, i, j, kind)
  PROVE  LexemeAt(src, i) = [kind |-> kind, first |-> i, last |-> j]
  <1>0. /\ KindsOf(SubSeq(src, i, j)) = {kind}
        /\ \A m \in j + 1 .. Len(src) : KindsOf(SubSeq(src, i, m)) = {}
    BY DEF Longest
  <1> DEFINE Ends == {m \in i .. Len(src) : KindsOf(SubSeq(src, i, m)) # {}}
             last == CHOOSE m \in Ends : \A k \in Ends : k <= m
  <1>1. LexemeAt(src, i) = IF Ends = {} THEN [kind |-> "none", first |-> i, last |-> i]
                           ELSE [kind |-> CHOOSE k \in KindsOf(SubSeq(src, i, last)) : TRUE, first |-> i, last |-> last]
    BY DEF LexemeAt
  <1>2. j \in Ends
    BY <1>0
  <1>3. \A m \in i .. Len(src) : m <= j \/ m \in j + 1 .. Len(src)
    OBVIOUS
  <1>4. \A m \in Ends : m \in i .. Len(src) /\ KindsOf(SubSeq(src, i, m)) # {}
    OBVIOUS
  <1> HIDE DEF Ends
  <1>5. \A m \in Ends : m <= j
    BY <1>0, <1>3, <1>4
  <1>6. last \in Ends /\ j <= last
    BY <1>2, <1>5
  <1> HIDE DEF last
  <1>7. last = j
    BY <1>4, <1>5, <1>6
  <1>8. (CHOOSE k \in {kind} : TRUE) = kind
    OBVIOUS
  <1>9. QED
    BY <1>0, <1>1, <1>2, <1>7, <1>8

LEMMA LexemeNone ==
  ASSUME NEW src, NEW i, \A m \in i .. Len(src) : KindsOf(SubSeq(src, i, m)) = {}
  PROVE  LexemeAt(src, i) = [kind |-> "none", first |-> i, last |-> i]
  <1>1. {m \in i .. Len(src) : KindsOf(SubSeq(src, i, m)) # {}} = {}
    OBVIOUS
  <1>2. QED
    BY <1>1 DEF LexemeAt

-----------------------------------------------------------------------------
(* The lexeme at a position, by what stands there: one lemma for each way  *)
(* a reader can end.  Blanks, names, operators, comments.                  *)
LEMMA OneCharLexeme ==
  ASSUME NEW S, NEW src \in Seq(S), NEW i \in 1 .. Len(src), src[i] \in Blanks \cup {"nl"}
  PROVE  LexemeAt(src, i) = [kind |-> IF src[i] \in Blanks THEN "blank" ELSE "nl", first |-> i, last |-> i]
  <1> DEFINE kind == IF src[i] \in Blanks THEN "blank" ELSE "nl"
  <1>1. Len(src) \in Nat /\ i \in i .. Len(src)
    OBVIOUS
  <1>2. ASSUME NEW m \in i .. Len(src)
        PROVE  KindsOf(SubSeq(src, i, m)) = IF m = i THEN {kind} ELSE {}
    <2> DEFINE s == SubSeq(src, i, m)
    <2>1. s \in Seq(S) /\ Len(s) = (m - i) + 1 /\ Len(s) > 0 /\ s[1] = src[i]
      BY SubIs
    <2> HIDE DEF s
    <2>2. Len(s) = 1 <=> m = i
      BY <2>1
    <2>3. KindsOf(s) = IF Len(s) = 1 THEN {kind} ELSE {}
      BY <2>1, KindsByFirst
    <2>4. QED
      BY <2>2, <2>3 DEF s
  <1>3. \A m \in i + 1 .. Len(src) : m \in i .. Len(src) /\ m # i
    OBVIOUS
  <1> HIDE DEF kind
  <1>4. Longest(src, i, i, kind)
    BY <1>1, <1>2, <1>3 DEF Longest
  <1>5. LexemeAt(src, i) = [kind |-> kind, first |-> i, last |-> i]
    BY <1>1, <1>4, LexemeIs
  <1>6. QED
    BY <1>5 DEF kind

LEMMA IdentLexeme ==
  ASSUME NEW S, NEW src \in Seq(S), NEW i \in 1 .. Len(src), NEW to \in i + 1 .. Len(src) + 1,
         src[i] \in Letters, \A k \in i .. to - 1 : src[k] \in Letters \cup Digits,
         to <= Len(src) => src[to] \notin Letters \cup Digits
  PROVE  LexemeAt(src, i) = [kind |-> "ident", first |-> i, last |-> to - 1]
  <1>1. Len(src) \in Nat /\ to - 1 \in i .. Len(src) /\ i \in Nat \ {0}
    OBVIOUS
  <1>2. ASSUME NEW m \in i .. Len(src)
        PROVE  KindsOf(SubSeq(src, i, m)) =
                 IF \A p \in i .. m : src[p] \in Letters \cup Digits THEN {"ident"} ELSE {}
    <2> DEFINE s == SubSeq(src, i, m)
    <2>1. s \in Seq(S) /\ Len(s) > 0 /\ s[1] = src[i]
      BY SubIs
    <2>2. m \in Nat /\ m <= Len(src)
      BY <1>1
    <2>3. MadeOf(s, Letters \cup Digits) <=> \A p \in i .. m : src[p] \in Letters \cup Digits
      BY <1>1, <2>2, MadeSub
    <2> HIDE DEF s
    <2>4. KindsOf(s) = IF MadeOf(s, Letters \cup Digits) THEN {"ident"} ELSE {}
      BY <2>1, KindsByFirst
    <2>5. QED
      BY <2>3, <2>4 DEF s
  <1>3. KindsOf(SubSeq(src, i, to - 1)) = {"ident"}
    BY <1>1, <1>2
  <1>4. \A m \in (to - 1) + 1 .. Len(src) : m \in i .. Len(src) /\ to \in i .. m /\ to <= Len(src)
    OBVIOUS
  <1>5. \A m \in (to - 1) + 1 .. Len(src) : KindsOf(SubSeq(src, i, m)) = {}
    BY <1>2, <1>4
  <1>6. Longest(src, i, to - 1, "ident")
    BY <1>3, <1>5 DEF Longest
  <1>7. QED
    BY <1>1, <1>6, LexemeIs

LEMMA PairsAre ==
  \A s : s \in Pairs => Len(s) = 2 /\ s = <<s[1], s[2]>> /\ s[1] # "/" /\ s[2] # "end"
                        /\ (s[1] = "!" => s[2] = "=")
  BY DEF Pairs

LEMMA StrayLexeme ==
  ASSUME NEW S, NEW src \in Seq(S), NEW i \in 1 .. Len(src),
         \/ src[i] \notin Starts
         \/ src[i] = "!" /\ (i + 1 <= Len(src) => src[i + 1] # "=")
  PROVE  LexemeAt(src, i) = [kind |-> "none", first |-> i, last |-> i]
  <1>1. ASSUME NEW m \in i .. Len(src) PROVE KindsOf(SubSeq(src, i, m)) = {}
    <2> DEFINE s == SubSeq(src, i, m)
    <2>0. Len(src) \in Nat
      OBVIOUS
    <2>1. s \in Seq(S) /\ Len(s) > 0 /\ s[1] = src[i]
          /\ (Len(s) > 1 => i + 1 \in 1 .. Len(src) /\ s[2] = src[i + 1])
      BY SubIs
    <2> HIDE DEF s
    <2>2. CASE src[i] \notin Starts
      <3>1. KindsOf(s) = {}
        BY <2>1, <2>2, KindsByFirst
      <3>2. QED
        BY <3>1 DEF s
    <2>3. CASE src[i] = "!" /\ (i + 1 <= Len(src) => src[i + 1] # "=")
      <3>1. s[1] \in (Singles \cup {"!"}) \ {"/"} /\ s[1] \notin Singles
        BY <2>1, <2>3 DEF Singles
      <3>2. s \notin Pairs
        <4> SUFFICES ASSUME s \in Pairs PROVE FALSE
          OBVIOUS
        <4>1. Len(s) = 2 /\ s[2] = "="
          BY <2>1, <2>3, PairsAre
        <4>2. i + 1 \in 1 .. Len(src) /\ i + 1 <= Len(src) /\ src[i + 1] = "="
          BY <2>0, <2>1, <4>1
        <4>3. QED
          BY <2>1, <2>3, <4>2
      <3>3. KindsOf(s) = {}
        BY <2>1, <3>1, <3>2, KindsByFirst
      <3>4. QED
        BY <3>3 DEF s
    <2>4. QED
      BY <2>2, <2>3
  <1>2. QED
    BY <1>1, LexemeNone

LEMMA OperatorLexeme ==
  ASSUME NEW S, NEW src \in Seq(S), NEW i \in 1 .. Len(src), NEW pair \in BOOLEAN,
         src[i] \in Singles \cup {"!"},
         src[i] = "/" /\ i + 1 <= Len(src) => src[i + 1] \notin {"/", "*"},
         pair <=> i + 1 <= Len(src) /\ <<src[i], src[i + 1]>> \in Pairs,
         pair \/ src[i] # "!"
  PROVE  LexemeAt(src, i) = [kind |-> "op", first |-> i, last |-> IF pair THEN i + 1 ELSE i]
  <1> DEFINE last == IF pair THEN i + 1 ELSE i
  <1>1. Len(src) \in Nat /\ last \in i .. Len(src)
    OBVIOUS
  <1>2. ASSUME NEW m \in i .. Len(src)
        PROVE  /\ m = last => KindsOf(SubSeq(src, i, m)) = {"op"}
               /\ m > last => KindsOf(SubSeq(src, i, m)) = {}
    <2> DEFINE s == SubSeq(src, i, m)
    <2>1. s \in Seq(S) /\ Len(s) > 0 /\ s[1] = src[i] /\ Len(s) = (m - i) + 1 /\ Len(s) \in Nat
          /\ (Len(s) > 1 => i + 1 \in 1 .. Len(src) /\ s[2] = src[i + 1])
      BY SubIs
    <2>2. m = i + 1 => s = <<src[i], src[i + 1]>>
      <3>1. i \in Nat \ {0} /\ (m = i + 1 => i + 1 <= Len(src))
        OBVIOUS
      <3>2. QED
        BY <3>1, ShortSubSeq
    <2> HIDE DEF s
    <2>3. Len(s) = 1 <=> m = i
      BY <2>1
    <2>4. Len(s) = 2 <=> m = i + 1
      BY <2>1
    <2>5. CASE src[i] = "/"
      <3>1. last = i
        <4>1. ~pair
          <5> SUFFICES ASSUME pair PROVE FALSE
            OBVIOUS
          <5> DEFINE p == <<src[i], src[i + 1]>>
          <5>1. p \in Pairs /\ p[1] = src[i]
            OBVIOUS
          <5> HIDE DEF p
          <5>2. QED
            BY <2>5, <5>1, PairsAre
        <4>2. QED
          BY <4>1
      <3>2. m = last => KindsOf(s) = {"op"}
        BY <2>1, <2>3, <2>5, <3>1, KindsByFirst
      <3>3. ASSUME m > last PROVE KindsOf(s) = {}
        <4>1. Len(s) # 1 /\ Len(s) > 1
          BY <2>1, <3>1, <3>3
        <4>2. KindsOf(s) \subseteq {"comment", "unclosed"}
          BY <2>1, <2>5, <4>1, KindsByFirst
        <4>3. s[2] \notin {"/", "*"}
          BY <2>1, <2>5, <4>1
        <4>4. ~IsComment(s) /\ ~IsUnclosed(s)
          BY <4>3 DEF IsComment, IsUnclosed, IsBlockOpen
        <4>5. "comment" \notin KindsOf(s) /\ "unclosed" \notin KindsOf(s)
          BY <4>4, KindIs
        <4>6. QED
          BY <4>2, <4>5
      <3>4. QED
        BY <3>2, <3>3 DEF s
    <2>6. CASE src[i] # "/"
      <3>1. KindsOf(s) = IF s \in Pairs \/ (Len(s) = 1 /\ s[1] \in Singles) THEN {"op"} ELSE {}
        <4>1. s[1] \in (Singles \cup {"!"}) \ {"/"}
          BY <2>1, <2>6
        <4>2. QED
          BY <2>1, <4>1, KindsByFirst
      <3>2. s \in Pairs => Len(s) = 2
        BY PairsAre
      <3>3. CASE pair
        <4>1. m = last => s \in Pairs
          BY <2>2, <3>3
        <4>2. m > last => Len(s) > 2
          BY <2>1, <3>3
        <4>3. m > last => s \notin Pairs /\ Len(s) # 1
          BY <2>1, <3>2, <4>2
        <4>4. QED
          BY <3>1, <4>1, <4>3 DEF s
      <3>4. CASE ~pair
        <4>1. m = last => Len(s) = 1 /\ s[1] \in Singles
          BY <2>1, <2>3, <3>4
        <4>2. m > last => Len(s) # 1 /\ (Len(s) = 2 => s \notin Pairs)
          BY <2>1, <2>2, <2>3, <2>4, <3>4
        <4>3. QED
          BY <3>1, <3>2, <4>1, <4>2 DEF s
      <3>5. QED
        BY <3>3, <3>4
    <2>7. QED
      BY <2>5, <2>6
  <1>3. \A m \in last + 1 .. Len(src) : m \in i .. Len(src) /\ m > last
    BY <1>1
  <1> HIDE DEF last
  <1>4. Longest(src, i, last, "op")
    BY <1>1, <1>2, <1>3 DEF Longest
  <1>5. LexemeAt(src, i) = [kind |-> "op", first |-> i, last |-> last]
    BY <1>1, <1>4, LexemeIs
  <1>6. QED
    BY <1>5 DEF last

LEMMA LineCommentLexeme ==
  ASSUME NEW S, NEW src \in Seq(S), NEW i \in 1 .. Len(src), NEW to \in i + 2 .. Len(src) + 1,
         src[i] = "/", src[i + 1] = "/", \A k \in i .. to - 1 : src[k] # "nl",
         to <= Len(src) => src[to] = "nl"
  PROVE  LexemeAt(src, i) = [kind |-> "comment", first |-> i, last |-> to - 1]
  <1>1. Len(src) \in Nat /\ to - 1 \in i .. Len(src)
    OBVIOUS
  <1>2. ASSUME NEW m \in i .. Len(src), m > i
        PROVE  KindsOf(SubSeq(src, i, m)) = IF \A p \in i .. m : src[p] # "nl" THEN {"comment"} ELSE {}
    <2> DEFINE s == SubSeq(src, i, m)
    <2>1. /\ s \in Seq(S) /\ Len(s) > 0 /\ s[1] = src[i] /\ Len(s) = (m - i) + 1
          /\ (Len(s) > 1 => s[2] = src[i + 1]) /\ \A k \in 1 .. Len(s) : s[k] = src[(i + k) - 1]
      BY SubIs
    <2> HIDE DEF s
    <2>2. Len(s) > 1 /\ Len(s) # 1 /\ s[2] = "/"
      BY <1>2, <2>1
    <2>3. "nl" \in ToSet(s) <=> \E p \in i .. m : src[p] = "nl"
      <3>1. ToSet(s) = {s[k] : k \in 1 .. Len(s)}
        <4>1. DOMAIN s = 1 .. Len(s)
          BY <2>1
        <4>2. QED
          BY <4>1 DEF ToSet
      <3>2. \A k \in 1 .. Len(s) : (i + k) - 1 \in i .. m
        BY <2>1
      <3>3. \A p \in i .. m : (p - i) + 1 \in 1 .. Len(s) /\ (i + ((p - i) + 1)) - 1 = p
        BY <2>1
      <3>4. \A p \in i .. m : s[(p - i) + 1] = src[p]
        BY <2>1, <3>3
      <3>5. \A k \in 1 .. Len(s) : s[k] = "nl" => \E p \in i .. m : src[p] = "nl"
        BY <2>1, <3>2
      <3>6. \A p \in i .. m : src[p] = "nl" => \E k \in 1 .. Len(s) : s[k] = "nl"
        BY <3>3, <3>4
      <3>7. QED
        BY <3>1, <3>5, <3>6
    <2>4. KindsOf(s) \subseteq {"comment", "unclosed"}
      BY <2>1, <2>2, KindsByFirst
    <2>5. "unclosed" \notin KindsOf(s) /\ ("comment" \in KindsOf(s) <=> "nl" \notin ToSet(s))
      BY <2>1, <2>2, KindIs DEF IsComment, IsUnclosed, IsBlockOpen
    <2>6. KindsOf(s) = IF "nl" \notin ToSet(s) THEN {"comment"} ELSE {}
      BY <2>4, <2>5
    <2>7. QED
      BY <2>3, <2>6 DEF s
  <1>3. KindsOf(SubSeq(src, i, to - 1)) = {"comment"}
    BY <1>1, <1>2
  <1>4. \A m \in (to - 1) + 1 .. Len(src) : m \in i .. Len(src) /\ m > i /\ to \in i .. m /\ to <= Len(src)
    OBVIOUS
  <1>5. \A m \in (to - 1) + 1 .. Len(src) : KindsOf(SubSeq(src, i, m)) = {}
    BY <1>2, <1>4
  <1>6. Longest(src, i, to - 1, "comment")
    BY <1>3, <1>5 DEF Longest
  <1>7. QED
    BY <1>1, <1>6, LexemeIs

(* A block comment, in which the position p is the first that closes.      *)
ClosesAt(src, p) == src[p] = "*" /\ src[p + 1] = "/"

LEMMA BlockKinds ==
  ASSUME NEW S, NEW src \in Seq(S), NEW i \in 1 .. Len(src), NEW m \in i + 1 .. Len(src),
         src[i] = "/", src[i + 1] = "*"
  PROVE  /\ KindsOf(SubSeq(src, i, m)) \subseteq {"comment", "unclosed"}
         /\ "unclosed" \in KindsOf(SubSeq(src, i, m)) <=> ~\E p \in i + 2 .. m - 1 : ClosesAt(src, p)
         /\ "comment" \in KindsOf(SubSeq(src, i, m)) <=>
              m > i + 2 /\ ClosesAt(src, m - 1) /\ \A p \in i + 2 .. m - 2 : ~ClosesAt(src, p)
  <1> DEFINE s == SubSeq(src, i, m)
  <1>1. m \in i .. Len(src)
    OBVIOUS
  <1>2. /\ s \in Seq(S) /\ Len(s) > 0 /\ s[1] = src[i] /\ Len(s) = (m - i) + 1
        /\ (Len(s) > 1 => s[2] = src[i + 1]) /\ \A k \in 1 .. Len(s) : s[k] = src[(i + k) - 1]
    BY <1>1, SubIs, SMTT(30)
  <1> HIDE DEF s
  <1>3. Len(s) > 1 /\ Len(s) # 1 /\ Len(s) \in Nat /\ s[1] = "/" /\ s[2] = "*"
    BY <1>2
  <1>4. \A k \in 3 .. Len(s) - 1 : (i + k) - 1 \in i + 2 .. m - 1 /\ (Closes(s, k) <=> ClosesAt(src, (i + k) - 1))
    <2>1. \A k \in 3 .. Len(s) - 1 : /\ k \in 1 .. Len(s) /\ k + 1 \in 1 .. Len(s)
                                     /\ (i + (k + 1)) - 1 = ((i + k) - 1) + 1
                                     /\ (i + k) - 1 \in i + 2 .. m - 1
      BY <1>2
    <2>2. QED
      BY <1>2, <2>1 DEF Closes, ClosesAt
  <1>5. \A p \in i + 2 .. m - 1 : (p - i) + 1 \in 3 .. Len(s) - 1 /\ (i + ((p - i) + 1)) - 1 = p
    BY <1>2
  <1>6. \A p \in i + 2 .. m - 1 : Closes(s, (p - i) + 1) <=> ClosesAt(src, p)
    BY <1>4, <1>5
  <1>7. KindsOf(s) \subseteq {"comment", "unclosed"}
    BY <1>2, <1>3, KindsByFirst
  <1>8. IsUnclosed(s) <=> ~\E p \in i + 2 .. m - 1 : ClosesAt(src, p)
    <2>1. IsUnclosed(s) <=> ~\E k \in 3 .. Len(s) - 1 : Closes(s, k)
      BY <1>3 DEF IsUnclosed, IsBlockOpen
    <2>2. QED
      BY <1>4, <1>5, <1>6, <2>1
  <1>9. IsComment(s) <=> m > i + 2 /\ ClosesAt(src, m - 1) /\ \A p \in i + 2 .. m - 2 : ~ClosesAt(src, p)
    <2>1. IsComment(s) <=> Len(s) > 3 /\ {k \in 3 .. Len(s) - 1 : Closes(s, k)} = {Len(s) - 1}
      BY <1>3 DEF IsComment, IsBlockOpen
    <2>2. Len(s) > 3 <=> m > i + 2
      BY <1>2
    <2>3. ASSUME m > i + 2
          PROVE  {k \in 3 .. Len(s) - 1 : Closes(s, k)} = {Len(s) - 1} <=>
                   ClosesAt(src, m - 1) /\ \A p \in i + 2 .. m - 2 : ~ClosesAt(src, p)
      <3>1. Len(s) - 1 \in 3 .. Len(s) - 1 /\ (i + (Len(s) - 1)) - 1 = m - 1
        BY <1>2, <2>3
      <3>2. Closes(s, Len(s) - 1) <=> ClosesAt(src, m - 1)
        BY <1>4, <3>1
      <3>3. \A k \in 3 .. Len(s) - 1 : k # Len(s) - 1 => (i + k) - 1 \in i + 2 .. m - 2
        BY <1>2
      <3>4. \A p \in i + 2 .. m - 2 : p \in i + 2 .. m - 1 /\ (p - i) + 1 # Len(s) - 1
        BY <1>2
      <3>5. ASSUME {k \in 3 .. Len(s) - 1 : Closes(s, k)} = {Len(s) - 1}
            PROVE  ClosesAt(src, m - 1) /\ \A p \in i + 2 .. m - 2 : ~ClosesAt(src, p)
        <4>1. Closes(s, Len(s) - 1) /\ \A k \in 3 .. Len(s) - 1 : Closes(s, k) => k = Len(s) - 1
          BY <3>5
        <4>2. QED
          BY <1>5, <1>6, <3>2, <3>4, <4>1
      <3>6. ASSUME ClosesAt(src, m - 1), \A p \in i + 2 .. m - 2 : ~ClosesAt(src, p)
            PROVE  {k \in 3 .. Len(s) - 1 : Closes(s, k)} = {Len(s) - 1}
        <4>1. \A k \in 3 .. Len(s) - 1 : k # Len(s) - 1 => ~Closes(s, k)
          BY <1>4, <3>3, <3>6
        <4>2. QED
          BY <3>1, <3>2, <3>6, <4>1
      <3>7. QED
        BY <3>5, <3>6
    <2>4. QED
      BY <2>1, <2>2, <2>3
  <1>10. QED
    BY <1>7, <1>8, <1>9, KindIs DEF s

LEMMA BlockLexeme ==
  ASSUME NEW S, NEW src \in Seq(S), NEW i \in 1 .. Len(src), NEW c \in i + 2 .. Len(src) - 1,
         src[i] = "/", src[i + 1] = "*", ClosesAt(src, c), \A p \in i + 2 .. c - 1 : ~ClosesAt(src, p)
  PROVE  LexemeAt(src, i) = [kind |-> "comment", first |-> i, last |-> c + 1]
  <1>1. Len(src) \in Nat /\ c + 1 \in i .. Len(src) /\ c + 1 \in i + 1 .. Len(src)
        /\ (c + 1) - 1 = c /\ (c + 1) - 2 = c - 1 /\ c + 1 > i + 2 /\ c \in i + 2 .. (c + 1) - 1
    OBVIOUS
  <1>2. KindsOf(SubSeq(src, i, c + 1)) = {"comment"}
    <2>1. /\ KindsOf(SubSeq(src, i, c + 1)) \subseteq {"comment", "unclosed"}
          /\ "unclosed" \notin KindsOf(SubSeq(src, i, c + 1))
          /\ "comment" \in KindsOf(SubSeq(src, i, c + 1))
      BY <1>1, BlockKinds
    <2>2. QED
      BY <2>1
  <1>3. ASSUME NEW m \in (c + 1) + 1 .. Len(src) PROVE KindsOf(SubSeq(src, i, m)) = {}
    <2>1. m \in i + 1 .. Len(src) /\ c \in i + 2 .. m - 1 /\ c \in i + 2 .. m - 2
      BY <1>1
    <2>2. /\ KindsOf(SubSeq(src, i, m)) \subseteq {"comment", "unclosed"}
          /\ "unclosed" \notin KindsOf(SubSeq(src, i, m))
          /\ "comment" \notin KindsOf(SubSeq(src, i, m))
      BY <2>1, BlockKinds
    <2>3. QED
      BY <2>2
  <1>4. Longest(src, i, c + 1, "comment")
    BY <1>2, <1>3 DEF Longest
  <1>5. QED
    BY <1>1, <1>4, LexemeIs

LEMMA UnclosedLexeme ==
  ASSUME NEW S, NEW src \in Seq(S), NEW i \in 1 .. Len(src), i + 1 <= Len(src),
         src[i] = "/", src[i + 1] = "*", \A p \in i + 2 .. Len(src) - 1 : ~ClosesAt(src, p)
  PROVE  LexemeAt(src, i) = [kind |-> "unclosed", first |-> i, last |-> Len(src)]
  <1>1. Len(src) \in Nat /\ Len(src) \in i .. Len(src) /\ Len(src) \in i + 1 .. Len(src)
    OBVIOUS
  <1>2. Len(src) > i + 2 => Len(src) - 1 \in i + 2 .. Len(src) - 1
    OBVIOUS
  <1>3. KindsOf(SubSeq(src, i, Len(src))) = {"unclosed"}
    <2>1. /\ KindsOf(SubSeq(src, i, Len(src))) \subseteq {"comment", "unclosed"}
          /\ "unclosed" \in KindsOf(SubSeq(src, i, Len(src)))
          /\ "comment" \notin KindsOf(SubSeq(src, i, Len(src)))
      BY <1>1, <1>2, BlockKinds
    <2>2. QED
      BY <2>1
  <1>4. \A m \in Len(src) + 1 .. Len(src) : FALSE
    BY <1>1
  <1>5. Longest(src, i, Len(src), "unclosed")
    BY <1>3, <1>4 DEF Longest
  <1>6. QED
    BY <1>1, <1>5, LexemeIs

-----------------------------------------------------------------------------
(* String literals: whether the character at p, in the literal that begins *)
(* at i, is escaped.                                                       *)
EscapedAt(src, i, p) == Escaped(SubSeq(src, i + 1, Len(src)), p - i)

LEMMA EscapedBody ==
  ASSUME NEW S, NEW src \in Seq(S), NEW i \in 1 .. Len(src), NEW m \in i + 1 .. Len(src) + 1,
         NEW p \in i + 1 .. m
  PROVE  Escaped(SubSeq(src, i + 1, m - 1), p - i) <=> EscapedAt(src, i, p)
  <1> DEFINE b == SubSeq(src, i + 1, m - 1)
             t == SubSeq(src, i + 1, Len(src))
  <1>1. Len(src) \in Nat /\ p - i \in Nat
    OBVIOUS
  <1>2. \A k \in 1 .. (p - i) - 1 : b[k] = src[i + k]
    <2> SUFFICES ASSUME NEW k \in 1 .. (p - i) - 1 PROVE b[k] = src[i + k]
      OBVIOUS
    <2>1. i + 1 \in 1 .. Len(src) /\ m - 1 \in i + 1 .. Len(src) /\ k \in 1 .. ((m - 1) - (i + 1)) + 1
          /\ ((i + 1) + k) - 1 = i + k
      OBVIOUS
    <2>2. QED
      BY <2>1, SubIs
  <1>3. \A k \in 1 .. (p - i) - 1 : t[k] = src[i + k]
    <2> SUFFICES ASSUME NEW k \in 1 .. (p - i) - 1 PROVE t[k] = src[i + k]
      OBVIOUS
    <2>1. i + 1 \in 1 .. Len(src) /\ Len(src) \in i + 1 .. Len(src) /\ k \in 1 .. (Len(src) - (i + 1)) + 1
          /\ ((i + 1) + k) - 1 = i + k
      OBVIOUS
    <2>2. QED
      BY <2>1, SubIs
  <1> HIDE DEF b, t
  <1>4. \A k \in 1 .. (p - i) - 1 : b[k] = t[k]
    BY <1>2, <1>3
  <1>5. Escaped(b, p - i) <=> Escaped(t, p - i)
    BY <1>1, <1>4, EscapedSame
  <1>6. QED
    BY <1>5 DEF EscapedAt, b, t

LEMMA EscapedAtNext ==
  ASSUME NEW S, NEW src \in Seq(S), NEW i \in 1 .. Len(src), NEW p \in i + 1 .. Len(src)
  PROVE  /\ ~EscapedAt(src, i, i + 1)
         /\ EscapedAt(src, i, p + 1) <=> src[p] = "bs" /\ ~EscapedAt(src, i, p)
  <1> DEFINE t == SubSeq(src, i + 1, Len(src))
  <1>1. (i + 1) - i = 1 /\ (p + 1) - i = (p - i) + 1 /\ p - i \in Nat \ {0}
    OBVIOUS
  <1>2. t[p - i] = src[p]
    <2> DEFINE k == p - i
    <2>1. i + 1 \in 1 .. Len(src) /\ Len(src) \in i + 1 .. Len(src) /\ k \in 1 .. (Len(src) - (i + 1)) + 1
          /\ ((i + 1) + k) - 1 = p
      OBVIOUS
    <2> HIDE DEF k
    <2>2. t[k] = src[((i + 1) + k) - 1]
      BY <2>1, SubIs
    <2>3. QED
      BY <2>1, <2>2 DEF k
  <1> HIDE DEF t
  <1>3. ~Escaped(t, 1) /\ (Escaped(t, (p - i) + 1) <=> t[p - i] = "bs" /\ ~Escaped(t, p - i))
    BY <1>1, EscapedNext
  <1>4. QED
    BY <1>1, <1>2, <1>3 DEF EscapedAt, t

IsStringAt(src, i, m) ==
  /\ m > i /\ src[m] = "quo" /\ ~EscapedAt(src, i, m)
  /\ \A p \in i + 1 .. m - 1 : src[p] \in {"quo", "nl"} => EscapedAt(src, i, p)

LEMMA StringKinds ==
  ASSUME NEW S, NEW src \in Seq(S), NEW i \in 1 .. Len(src), NEW m \in i .. Len(src), src[i] = "quo"
  PROVE  KindsOf(SubSeq(src, i, m)) = IF IsStringAt(src, i, m) THEN {"string"} ELSE {}
  <1> DEFINE s == SubSeq(src, i, m)
             b == SubSeq(src, i + 1, m - 1)
  <1>1. s \in Seq(S) /\ Len(s) = (m - i) + 1 /\ Len(s) \in Nat /\ Len(s) > 0 /\ s[1] = src[i] /\ s[Len(s)] = src[m]
        /\ \A k \in 1 .. Len(s) : s[k] = src[(i + k) - 1]
    BY SubIs
  <1>2. KindsOf(s) = IF IsString(s) THEN {"string"} ELSE {}
    <2> HIDE DEF s
    <2>1. QED
      BY <1>1, KindsByFirst
  <1>3. CASE m = i
    <2>1. ~(Len(s) > 1) /\ ~(m > i)
      BY <1>1, <1>3
    <2> HIDE DEF s
    <2>2. ~IsString(s)
      BY <2>1 DEF IsString, Quoted
    <2>3. ~IsStringAt(src, i, m)
      BY <2>1 DEF IsStringAt
    <2>4. QED
      BY <1>2, <2>2, <2>3 DEF s
  <1>4. CASE m > i
    <2>1. Body(s) = b
      <3>1. 2 \in 1 .. (m - i) + 2 /\ Len(s) - 1 \in 0 .. (m - i) + 1 /\ (i + 2) - 1 = i + 1
            /\ (i + (Len(s) - 1)) - 1 = m - 1
        BY <1>1, <1>4
      <3> HIDE DEF b
      <3>2. SubSeq(SubSeq(src, i, m), 2, Len(s) - 1) = SubSeq(src, (i + 2) - 1, (i + (Len(s) - 1)) - 1)
        BY <3>1, SubSub
      <3> HIDE DEF s
      <3>3. QED
        BY <3>1, <3>2 DEF Body, b, s
    <2>2. Quoted(s, "quo") <=> src[m] = "quo"
      <3> HIDE DEF s
      <3>1. Len(s) > 1 /\ Last(s) = s[Len(s)]
        BY <1>1, <1>4 DEF Last
      <3>2. QED
        BY <1>1, <3>1 DEF Quoted
    <2>3. m \in i + 1 .. Len(src) + 1
      BY <1>4
    <2>4. \A p \in i + 1 .. m : Escaped(b, p - i) <=> EscapedAt(src, i, p)
      <3> HIDE DEF b
      <3> SUFFICES ASSUME NEW p \in i + 1 .. m PROVE Escaped(b, p - i) <=> EscapedAt(src, i, p)
        OBVIOUS
      <3>1. QED
        BY <2>3, EscapedBody DEF b
    <2>5. Escaped(b, Len(s) - 1) <=> EscapedAt(src, i, m)
      <3>1. Len(s) - 1 = m - i /\ m \in i + 1 .. m
        BY <1>1, <1>4
      <3> HIDE DEF b, s
      <3>2. QED
        BY <2>4, <3>1
    <2>6. \A p \in i + 1 .. m - 1 : p - i \in 1 .. Len(s) - 2 /\ b[p - i] = src[p] /\ p \in i + 1 .. m
      <3> SUFFICES ASSUME NEW p \in i + 1 .. m - 1
                   PROVE  p - i \in 1 .. Len(s) - 2 /\ b[p - i] = src[p] /\ p \in i + 1 .. m
        OBVIOUS
      <3>1. p - i \in 1 .. Len(s) - 2 /\ p \in i + 1 .. m
        BY <1>1
      <3>2. i + 1 \in 1 .. Len(src) /\ m - 1 \in i + 1 .. Len(src) /\ p - i \in 1 .. ((m - 1) - (i + 1)) + 1
          /\ ((i + 1) + (p - i)) - 1 = p
        OBVIOUS
      <3>3. b[p - i] = src[p]
        BY <3>2, SubIs
      <3>4. QED
        BY <3>1, <3>3
    <2>7. \A k \in 1 .. Len(s) - 2 : i + k \in i + 1 .. m - 1 /\ (i + k) - i = k
      BY <1>1
    <2> HIDE DEF b, s
    <2>8. (\A k \in 1 .. Len(s) - 2 : b[k] \in {"quo", "nl"} => Escaped(b, k)) <=>
          (\A p \in i + 1 .. m - 1 : src[p] \in {"quo", "nl"} => EscapedAt(src, i, p))
      <3>1. ASSUME \A k \in 1 .. Len(s) - 2 : b[k] \in {"quo", "nl"} => Escaped(b, k)
            PROVE  \A p \in i + 1 .. m - 1 : src[p] \in {"quo", "nl"} => EscapedAt(src, i, p)
        BY <2>4, <2>6, <3>1
      <3>2. ASSUME \A p \in i + 1 .. m - 1 : src[p] \in {"quo", "nl"} => EscapedAt(src, i, p)
            PROVE  \A k \in 1 .. Len(s) - 2 : b[k] \in {"quo", "nl"} => Escaped(b, k)
        <4> SUFFICES ASSUME NEW k \in 1 .. Len(s) - 2, b[k] \in {"quo", "nl"} PROVE Escaped(b, k)
          OBVIOUS
        <4>1. i + k \in i + 1 .. m - 1 /\ (i + k) - i = k
          BY <2>7
        <4>2. b[k] = src[i + k] /\ i + k \in i + 1 .. m
          BY <2>6, <4>1
        <4>3. EscapedAt(src, i, i + k)
          BY <3>2, <4>1, <4>2
        <4>4. Escaped(b, (i + k) - i)
          BY <2>4, <4>2, <4>3
        <4>5. QED
          BY <4>1, <4>4
      <3>3. QED
        BY <3>1, <3>2
    <2>9. IsString(s) <=> IsStringAt(src, i, m)
      BY <1>4, <2>1, <2>2, <2>5, <2>8 DEF IsString, IsStringAt
    <2>10. QED
      BY <1>2, <2>9 DEF s
  <1>5. m = i \/ m > i
    OBVIOUS
  <1>6. QED
    BY <1>3, <1>4, <1>5

LEMMA StringLexeme ==
  ASSUME NEW S, NEW src \in Seq(S), NEW i \in 1 .. Len(src), NEW p \in i + 1 .. Len(src),
         src[i] = "quo", src[p] = "quo", ~EscapedAt(src, i, p),
         \A q \in i + 1 .. p - 1 : src[q] \in {"quo", "nl"} => EscapedAt(src, i, q)
  PROVE  LexemeAt(src, i) = [kind |-> "string", first |-> i, last |-> p]
  <1>1. Len(src) \in Nat /\ p \in i .. Len(src) /\ p > i
    OBVIOUS
  <1>2. KindsOf(SubSeq(src, i, p)) = {"string"}
    <2>1. IsStringAt(src, i, p)
      BY <1>1 DEF IsStringAt
    <2>2. QED
      BY <1>1, <2>1, StringKinds
  <1>3. ASSUME NEW m \in p + 1 .. Len(src) PROVE KindsOf(SubSeq(src, i, m)) = {}
    <2>1. m \in i .. Len(src) /\ p \in i + 1 .. m - 1
      OBVIOUS
    <2>2. ~IsStringAt(src, i, m)
      BY <2>1 DEF IsStringAt
    <2>3. QED
      BY <2>1, <2>2, StringKinds
  <1>4. Longest(src, i, p, "string")
    BY <1>2, <1>3 DEF Longest
  <1>5. QED
    BY <1>1, <1>4, LexemeIs

(* A string that breaks off at p, or at the end.                           *)
LEMMA BrokenLexeme ==
  ASSUME NEW S, NEW src \in Seq(S), NEW i \in 1 .. Len(src), NEW p \in i + 1 .. Len(src) + 1,
         src[i] = "quo", ~EscapedAt(src, i, p),
         \A q \in i + 1 .. p - 1 : src[q] \in {"quo", "nl"} => EscapedAt(src, i, q),
         p <= Len(src) => src[p] = "nl" \/ (src[p] = "bs" /\ p = Len(src))
  PROVE  LexemeAt(src, i) = [kind |-> "none", first |-> i, last |-> i]
  <1>1. ASSUME NEW m \in i .. Len(src) PROVE KindsOf(SubSeq(src, i, m)) = {}
    <2>1. ~IsStringAt(src, i, m)
      <3> SUFFICES ASSUME IsStringAt(src, i, m) PROVE FALSE
        OBVIOUS
      <3>1. m > i /\ src[m] = "quo" /\ ~EscapedAt(src, i, m)
            /\ \A q \in i + 1 .. m - 1 : src[q] \in {"quo", "nl"} => EscapedAt(src, i, q)
        BY DEF IsStringAt
      <3>2. CASE m < p
        <4>1. m \in i + 1 .. p - 1
          BY <3>1, <3>2
        <4>2. QED
          BY <3>1, <4>1
      <3>3. CASE m = p
        BY <3>1, <3>3
      <3>4. CASE m > p
        <4>1. p \in i + 1 .. m - 1 /\ p <= Len(src) /\ p # Len(src)
          BY <3>4
        <4>2. QED
          BY <3>1, <4>1
      <3>5. QED
        BY <3>2, <3>3, <3>4
    <2>2. QED
      BY <2>1, StringKinds
  <1>2. QED
    BY <1>1, LexemeNone

(* Character literals.                                                     *)
IsCharAt(src, i, m) ==
  /\ m > i /\ src[m] = "apo"
  /\ \/ m = i + 1
     \/ m = i + 2 /\ src[i + 1] \notin {"apo", "bs"}
     \/ m = i + 3 /\ src[i + 1] = "bs"

LEMMA CharKinds ==
  ASSUME NEW S, NEW src \in Seq(S), NEW i \in 1 .. Len(src), NEW m \in i .. Len(src), src[i] = "apo"
  PROVE  KindsOf(SubSeq(src, i, m)) = IF IsCharAt(src, i, m) THEN {"char"} ELSE {}
  <1> DEFINE s == SubSeq(src, i, m)
  <1>1. s \in Seq(S) /\ Len(s) = (m - i) + 1 /\ Len(s) \in Nat /\ Len(s) > 0 /\ s[1] = src[i] /\ s[Len(s)] = src[m]
        /\ (Len(s) > 1 => s[2] = src[i + 1])
    BY SubIs
  <1> HIDE DEF s
  <1>2. KindsOf(s) = IF IsChar(s) THEN {"char"} ELSE {}
    BY <1>1, KindsByFirst
  <1>3. Quoted(s, "apo") <=> m > i /\ src[m] = "apo"
    BY <1>1 DEF Quoted, Last
  <1>4. (Len(s) = 2 <=> m = i + 1) /\ (Len(s) = 3 <=> m = i + 2) /\ (Len(s) = 4 <=> m = i + 3)
    BY <1>1
  <1>5. m > i => s[2] = src[i + 1]
    BY <1>1
  <1>6. IsChar(s) <=> IsCharAt(src, i, m)
    BY <1>3, <1>4, <1>5 DEF IsChar, IsCharAt
  <1>7. QED
    BY <1>2, <1>6 DEF s

LEMMA CharLexeme ==
  ASSUME NEW S, NEW src \in Seq(S), NEW i \in 1 .. Len(src), NEW p \in i + 1 .. Len(src),
         src[i] = "apo", IsCharAt(src, i, p)
  PROVE  LexemeAt(src, i) = [kind |-> "char", first |-> i, last |-> p]
  <1>1. Len(src) \in Nat /\ p \in i .. Len(src)
    OBVIOUS
  <1>2. KindsOf(SubSeq(src, i, p)) = {"char"}
    BY <1>1, CharKinds
  <1>3. ASSUME NEW m \in p + 1 .. Len(src) PROVE KindsOf(SubSeq(src, i, m)) = {}
    <2>1. m \in i .. Len(src) /\ m # i + 1
      OBVIOUS
    <2>2. ~IsCharAt(src, i, m)
      BY <2>1 DEF IsCharAt
    <2>3. QED
      BY <2>1, <2>2, CharKinds
  <1>4. Longest(src, i, p, "char")
    BY <1>2, <1>3 DEF Longest
  <1>5. QED
    BY <1>1, <1>4, LexemeIs

LEMMA NoCharLexeme ==
  ASSUME NEW S, NEW src \in Seq(S), NEW i \in 1 .. Len(src), src[i] = "apo",
         \A m \in i + 1 .. Len(src) : ~IsCharAt(src, i, m)
  PROVE  LexemeAt(src, i) = [kind |-> "none", first |-> i, last |-> i]
  <1>1. ASSUME NEW m \in i .. Len(src) PROVE KindsOf(SubSeq(src, i, m)) = {}
    <2>1. m = i \/ m \in i + 1 .. Len(src)
      OBVIOUS
    <2>2. ~IsCharAt(src, i, i)
      BY DEF IsCharAt
    <2>3. QED
      BY <2>1, <2>2, CharKinds
  <1>2. QED
    BY <1>1, LexemeNone

-----------------------------------------------------------------------------
(* Numbers, by position.                                                   *)
Made(src, a, b, chars) == \A p \in a .. b : src[p] \in chars

IsIntAt(src, i, m) ==
  \/ Made(src, i, m, Digits)
  \/ m > i /\ src[i] = "0" /\ src[i + 1] = "x" /\ Made(src, i + 2, m, HexDigits)
  \/ m > i /\ src[i] = "0" /\ src[i + 1] = "b" /\ Made(src, i + 2, m, Digits)
IsFractionAt(src, a, b) == b > a /\ src[a] = "." /\ Made(src, a + 1, b, Digits)
IsExponentAt(src, a, b) ==
  /\ b >= a /\ src[a] = "e"
  /\ \/ Made(src, a + 1, b, Digits)
     \/ b > a /\ src[a + 1] \in {"+", "-"} /\ Made(src, a + 2, b, Digits)
IsFloatAt(src, i, m) ==
  \E d \in i + 1 .. m, f \in i + 1 .. m + 1 :
    /\ d <= f /\ Made(src, i, d - 1, Digits)
    /\ f = d \/ IsFractionAt(src, d, f - 1)
    /\ f = m + 1 \/ IsExponentAt(src, f, m)

LEMMA TailIs ==
  ASSUME NEW S, NEW src \in Seq(S), NEW a \in 1 .. Len(src), NEW b \in a .. Len(src)
  PROVE  Tail(SubSeq(src, a, b)) = SubSeq(src, a + 1, b)
  <1> DEFINE u == SubSeq(src, a, b)
             v == SubSeq(src, a + 1, b)
  <1>1. u \in Seq(S) /\ Len(u) = (b - a) + 1 /\ \A k \in 1 .. Len(u) : u[k] = src[(a + k) - 1]
    BY SubIs
  <1>2. Len(u) \in Nat \ {0}
    BY <1>1
  <1> HIDE DEF u
  <1>3. Tail(u) \in Seq(S) /\ Len(Tail(u)) = Len(u) - 1 /\ \A k \in 1 .. Len(u) - 1 : Tail(u)[k] = u[k + 1]
    BY <1>1, <1>2
  <1>4. v \in Seq(S) /\ Len(v) = b - a /\ \A k \in 1 .. b - a : v[k] = src[a + k]
    <2>1. CASE a = b
      <3>1. v = <<>>
        BY <2>1
      <3>2. QED
        BY <2>1, <3>1
    <2>2. CASE a # b
      <3>1. a + 1 \in 1 .. Len(src) /\ b \in a + 1 .. Len(src) /\ (b - (a + 1)) + 1 = b - a
        BY <2>2
      <3>2. v \in Seq(S) /\ Len(v) = (b - (a + 1)) + 1 /\ \A k \in 1 .. Len(v) : v[k] = src[((a + 1) + k) - 1]
        BY <3>1, SubIs
      <3>3. \A k \in 1 .. b - a : ((a + 1) + k) - 1 = a + k
        OBVIOUS
      <3> HIDE DEF v
      <3>4. QED
        BY <3>1, <3>2, <3>3
    <2>3. QED
      BY <2>1, <2>2
  <1>5. Len(u) - 1 = b - a /\ \A k \in 1 .. b - a : k + 1 \in 1 .. Len(u) /\ (a + (k + 1)) - 1 = a + k
    BY <1>1
  <1> HIDE DEF v
  <1>6. \A k \in 1 .. b - a : Tail(u)[k] = v[k]
    BY <1>1, <1>3, <1>4, <1>5
  <1>7. Tail(u) = v
    <2> DEFINE t == Tail(u)
    <2>1. t \in Seq(S) /\ v \in Seq(S) /\ Len(t) = b - a /\ Len(v) = b - a /\ \A k \in 1 .. b - a : t[k] = v[k]
      BY <1>3, <1>4, <1>5, <1>6
    <2> HIDE DEF t
    <2>2. t = v
      BY <2>1
    <2>3. QED
      BY <2>2 DEF t
  <1>8. QED
    BY <1>7 DEF u, v

LEMMA FractionAt ==
  ASSUME NEW S, NEW src \in Seq(S), NEW a \in 1 .. Len(src), NEW b \in a .. Len(src)
  PROVE  IsFraction(SubSeq(src, a, b)) <=> IsFractionAt(src, a, b)
  <1> DEFINE u == SubSeq(src, a, b)
  <1>1. u \in Seq(S) /\ Len(u) = (b - a) + 1 /\ u[1] = src[a]
    BY SubIs
  <1>2. Len(u) > 1 <=> b > a
    BY <1>1
  <1>3. MadeOf(Tail(u), Digits) <=> Made(src, a + 1, b, Digits)
    <2>1. a + 1 \in Nat \ {0} /\ b \in Nat /\ b <= Len(src)
      OBVIOUS
    <2>2. MadeOf(SubSeq(src, a + 1, b), Digits) <=> \A p \in a + 1 .. b : src[p] \in Digits
      BY <2>1, MadeSub
    <2>3. Tail(u) = SubSeq(src, a + 1, b)
      BY TailIs
    <2> HIDE DEF u
    <2>4. QED
      BY <2>2, <2>3 DEF Made
  <1> HIDE DEF u
  <1>4. QED
    BY <1>1, <1>2, <1>3 DEF IsFraction, IsFractionAt, u

LEMMA ExponentAt ==
  ASSUME NEW S, NEW src \in Seq(S), NEW a \in 1 .. Len(src), NEW b \in a .. Len(src)
  PROVE  IsExponent(SubSeq(src, a, b)) <=> IsExponentAt(src, a, b)
  <1> DEFINE u == SubSeq(src, a, b)
  <1>1. u \in Seq(S) /\ Len(u) = (b - a) + 1 /\ u[1] = src[a] /\ (Len(u) > 1 => u[2] = src[a + 1]) /\ Len(u) > 0
    BY SubIs
  <1>2. (Len(u) > 1 <=> b > a) /\ u # <<>> /\ b >= a
    BY <1>1
  <1>3. MadeOf(Tail(u), Digits) <=> Made(src, a + 1, b, Digits)
    <2>1. a + 1 \in Nat \ {0} /\ b \in Nat /\ b <= Len(src)
      OBVIOUS
    <2>2. MadeOf(SubSeq(src, a + 1, b), Digits) <=> \A p \in a + 1 .. b : src[p] \in Digits
      BY <2>1, MadeSub
    <2>3. Tail(u) = SubSeq(src, a + 1, b)
      BY TailIs
    <2> HIDE DEF u
    <2>4. QED
      BY <2>2, <2>3 DEF Made
  <1>4. b > a => (MadeOf(From(u, 3), Digits) <=> Made(src, a + 2, b, Digits))
    <2> SUFFICES ASSUME b > a PROVE MadeOf(From(u, 3), Digits) <=> Made(src, a + 2, b, Digits)
      OBVIOUS
    <2>1. 3 \in 1 .. (b - a) + 2 /\ Len(u) \in 0 .. (b - a) + 1 /\ (a + 3) - 1 = a + 2 /\ (a + Len(u)) - 1 = b
          /\ a + 2 \in Nat \ {0} /\ b \in Nat /\ b <= Len(src)
      BY <1>1
    <2>2. SubSeq(SubSeq(src, a, b), 3, Len(u)) = SubSeq(src, (a + 3) - 1, (a + Len(u)) - 1)
      <3> DEFINE n == Len(u)
      <3>1. n \in 0 .. (b - a) + 1
        BY <2>1
      <3> HIDE DEF n
      <3>2. SubSeq(SubSeq(src, a, b), 3, n) = SubSeq(src, (a + 3) - 1, (a + n) - 1)
        BY <2>1, <3>1, SubSub
      <3>3. QED
        BY <3>2 DEF n
    <2>3. From(u, 3) = SubSeq(src, a + 2, b)
      BY <2>1, <2>2 DEF From
    <2>4. MadeOf(SubSeq(src, a + 2, b), Digits) <=> \A p \in a + 2 .. b : src[p] \in Digits
      BY <2>1, MadeSub
    <2>5. QED
      BY <2>3, <2>4 DEF Made
  <1> HIDE DEF u
  <1>5. QED
    BY <1>1, <1>2, <1>3, <1>4 DEF IsExponent, IsExponentAt, u

LEMMA IntAt ==
  ASSUME NEW S, NEW src \in Seq(S), NEW i \in 1 .. Len(src), NEW m \in i .. Len(src)
  PROVE  IsInt(SubSeq(src, i, m)) <=> IsIntAt(src, i, m)
  <1> DEFINE u == SubSeq(src, i, m)
  <1>1. u \in Seq(S) /\ Len(u) = (m - i) + 1 /\ u[1] = src[i] /\ (Len(u) > 1 => u[2] = src[i + 1]) /\ Len(u) > 0
    BY SubIs
  <1>2. Len(u) > 1 <=> m > i
    BY <1>1
  <1>3. MadeOf(u, Digits) <=> Made(src, i, m, Digits)
    <2>1. i \in Nat \ {0} /\ m \in Nat /\ m <= Len(src)
      OBVIOUS
    <2>2. MadeOf(SubSeq(src, i, m), Digits) <=> \A p \in i .. m : src[p] \in Digits
      BY <2>1, MadeSub
    <2>3. QED
      BY <2>2 DEF Made
  <1>4. ASSUME m > i, NEW chars
        PROVE  MadeOf(From(u, 3), chars) <=> Made(src, i + 2, m, chars)
    <2> DEFINE n == Len(u)
    <2>1. 3 \in 1 .. (m - i) + 2 /\ n \in 0 .. (m - i) + 1 /\ (i + 3) - 1 = i + 2 /\ (i + n) - 1 = m
          /\ i + 2 \in Nat \ {0} /\ m \in Nat /\ m <= Len(src)
      BY <1>1, <1>4
    <2> HIDE DEF n
    <2>2. SubSeq(SubSeq(src, i, m), 3, n) = SubSeq(src, (i + 3) - 1, (i + n) - 1)
      BY <2>1, SubSub
    <2>3. From(u, 3) = SubSeq(src, i + 2, m)
      BY <2>1, <2>2 DEF From, n
    <2>4. MadeOf(SubSeq(src, i + 2, m), chars) <=> \A p \in i + 2 .. m : src[p] \in chars
      BY <2>1, MadeSub
    <2>5. QED
      BY <2>3, <2>4 DEF Made
  <1> HIDE DEF u
  <1>5. QED
    BY <1>1, <1>2, <1>3, <1>4 DEF IsInt, IsIntAt, u

LEMMA FloatAt ==
  ASSUME NEW S, NEW src \in Seq(S), NEW i \in 1 .. Len(src), NEW m \in i .. Len(src)
  PROVE  IsFloat(SubSeq(src, i, m)) <=> IsFloatAt(src, i, m)
  <1> DEFINE u == SubSeq(src, i, m)
             Split(d, f) == /\ d <= f /\ MadeOf(SubSeq(u, 1, d), Digits)
                            /\ f = d \/ IsFraction(SubSeq(u, d + 1, f))
                            /\ f = Len(u) \/ IsExponent(From(u, f + 1))
             SplitAt(d, f) == /\ d <= f /\ Made(src, i, d - 1, Digits)
                              /\ f = d \/ IsFractionAt(src, d, f - 1)
                              /\ f = m + 1 \/ IsExponentAt(src, f, m)
  <1>1. Len(u) = (m - i) + 1 /\ Len(u) \in Nat
    BY SubIs
  <1>2. ASSUME NEW d \in 1 .. Len(u) - 1, NEW f \in 1 .. Len(u), d <= f
        PROVE  Split(d, f) <=> SplitAt(i + d, i + f)
    <2>1. SubSeq(u, 1, d) = SubSeq(src, i, (i + d) - 1)
      <3>1. 1 \in 1 .. (m - i) + 2 /\ d \in 0 .. (m - i) + 1 /\ (i + 1) - 1 = i
        BY <1>1
      <3>2. SubSeq(SubSeq(src, i, m), 1, d) = SubSeq(src, (i + 1) - 1, (i + d) - 1)
        BY <3>1, SubSub
      <3>3. QED
        BY <3>1, <3>2
    <2>2. MadeOf(SubSeq(u, 1, d), Digits) <=> Made(src, i, (i + d) - 1, Digits)
      <3>1. i \in Nat \ {0} /\ (i + d) - 1 \in Nat /\ (i + d) - 1 <= Len(src)
        BY <1>1
      <3>2. MadeOf(SubSeq(src, i, (i + d) - 1), Digits) <=> \A p \in i .. (i + d) - 1 : src[p] \in Digits
        BY <3>1, MadeSub
      <3>3. QED
        BY <2>1, <3>2 DEF Made
    <2>3. f # d => (IsFraction(SubSeq(u, d + 1, f)) <=> IsFractionAt(src, i + d, (i + f) - 1))
      <3> SUFFICES ASSUME f # d
                   PROVE  IsFraction(SubSeq(u, d + 1, f)) <=> IsFractionAt(src, i + d, (i + f) - 1)
        OBVIOUS
      <3>1. /\ d + 1 \in 1 .. (m - i) + 2 /\ f \in 0 .. (m - i) + 1 /\ (i + (d + 1)) - 1 = i + d
            /\ i + d \in 1 .. Len(src) /\ (i + f) - 1 \in i + d .. Len(src)
        BY <1>1, <1>2
      <3>2. SubSeq(SubSeq(src, i, m), d + 1, f) = SubSeq(src, (i + (d + 1)) - 1, (i + f) - 1)
        BY <3>1, SubSub
      <3>3. IsFraction(SubSeq(src, i + d, (i + f) - 1)) <=> IsFractionAt(src, i + d, (i + f) - 1)
        BY <3>1, FractionAt
      <3>4. QED
        BY <3>1, <3>2, <3>3
    <2>4. f # Len(u) => (IsExponent(From(u, f + 1)) <=> IsExponentAt(src, i + f, m))
      <3> SUFFICES ASSUME f # Len(u)
                   PROVE  IsExponent(From(u, f + 1)) <=> IsExponentAt(src, i + f, m)
        OBVIOUS
      <3> DEFINE n == Len(u)
      <3>1. /\ f + 1 \in 1 .. (m - i) + 2 /\ n \in 0 .. (m - i) + 1 /\ (i + (f + 1)) - 1 = i + f
            /\ (i + n) - 1 = m /\ i + f \in 1 .. Len(src) /\ m \in i + f .. Len(src)
        BY <1>1, <1>2
      <3> HIDE DEF n
      <3>2. SubSeq(SubSeq(src, i, m), f + 1, n) = SubSeq(src, (i + (f + 1)) - 1, (i + n) - 1)
        BY <3>1, SubSub
      <3>3. From(u, f + 1) = SubSeq(src, i + f, m)
        BY <3>1, <3>2 DEF From, n
      <3>4. IsExponent(SubSeq(src, i + f, m)) <=> IsExponentAt(src, i + f, m)
        BY <3>1, ExponentAt
      <3>5. QED
        BY <3>3, <3>4
    <2>5. i + d <= i + f /\ (i + f = i + d <=> f = d) /\ (i + f = m + 1 <=> f = Len(u))
      BY <1>1, <1>2
    <2> HIDE DEF u
    <2>6. QED
      BY <1>2, <2>2, <2>3, <2>4, <2>5
  <1>3. IsFloat(u) <=> \E d \in 1 .. Len(u) - 1, f \in 1 .. Len(u) : d <= f /\ Split(d, f)
    BY DEF IsFloat
  <1>4. IsFloatAt(src, i, m) <=> \E d \in i + 1 .. m, f \in i + 1 .. m + 1 : d <= f /\ SplitAt(d, f)
    BY DEF IsFloatAt
  <1>5. \A d \in 1 .. Len(u) - 1, f \in 1 .. Len(u) : d <= f =>
          i + d \in i + 1 .. m /\ i + f \in i + 1 .. m + 1 /\ i + d <= i + f
    BY <1>1
  <1>6. \A d \in i + 1 .. m, f \in i + 1 .. m + 1 : d <= f =>
          d - i \in 1 .. Len(u) - 1 /\ f - i \in 1 .. Len(u) /\ d - i <= f - i
          /\ i + (d - i) = d /\ i + (f - i) = f
    BY <1>1
  <1> HIDE DEF u, Split, SplitAt
  <1>7. ASSUME IsFloat(u) PROVE IsFloatAt(src, i, m)
    <2>1. PICK d \in 1 .. Len(u) - 1, f \in 1 .. Len(u) : d <= f /\ Split(d, f)
      BY <1>3, <1>7
    <2>2. SplitAt(i + d, i + f)
      BY <1>2, <2>1
    <2>3. QED
      BY <1>4, <1>5, <2>1, <2>2
  <1>8. ASSUME IsFloatAt(src, i, m) PROVE IsFloat(u)
    <2>1. PICK d \in i + 1 .. m, f \in i + 1 .. m + 1 : d <= f /\ SplitAt(d, f)
      BY <1>4, <1>8
    <2> DEFINE a == d - i
               c == f - i
    <2>2. a \in 1 .. Len(u) - 1 /\ c \in 1 .. Len(u) /\ a <= c /\ i + a = d /\ i + c = f
      BY <1>6, <2>1
    <2> HIDE DEF a, c
    <2>3. Split(a, c)
      BY <1>2, <2>1, <2>2
    <2>4. QED
      BY <1>3, <2>2, <2>3
  <1>9. QED
    BY <1>7, <1>8 DEF u

LEMMA NumberKinds ==
  ASSUME NEW S, NEW src \in Seq(S), NEW i \in 1 .. Len(src), NEW m \in i .. Len(src), src[i] \in Digits
  PROVE  KindsOf(SubSeq(src, i, m)) = {k \in {"int", "float"} :
           (k = "int" /\ IsIntAt(src, i, m)) \/ (k = "float" /\ IsFloatAt(src, i, m))}
  <1> DEFINE s == SubSeq(src, i, m)
  <1>1. s \in Seq(S) /\ Len(s) > 0 /\ s[1] = src[i]
    BY SubIs
  <1>2. (IsInt(s) <=> IsIntAt(src, i, m)) /\ (IsFloat(s) <=> IsFloatAt(src, i, m))
    BY IntAt, FloatAt
  <1> HIDE DEF s
  <1>3. KindsOf(s) \subseteq {"int", "float"}
    BY <1>1, KindsByFirst
  <1>4. ("int" \in KindsOf(s) <=> IsIntAt(src, i, m)) /\ ("float" \in KindsOf(s) <=> IsFloatAt(src, i, m))
    BY <1>2, KindIs
  <1>5. QED
    BY <1>3, <1>4 DEF s

(* A prefixed number: base says which digits follow the prefix.            *)
LEMMA PrefixedLexeme ==
  ASSUME NEW S, NEW src \in Seq(S), NEW i \in 1 .. Len(src), NEW to \in i + 2 .. Len(src) + 1,
         src[i] = "0", NEW base, base = IF src[i + 1] = "x" THEN HexDigits ELSE Digits,
         src[i + 1] \in {"x", "b"}, Made(src, i + 2, to - 1, base), to <= Len(src) => src[to] \notin base
  PROVE  LexemeAt(src, i) = [kind |-> "int", first |-> i, last |-> to - 1]
  <1>1. Len(src) \in Nat /\ to - 1 \in i .. Len(src) /\ to - 1 \in i + 1 .. Len(src) /\ src[i] \in Digits
    BY DEF Digits
  <1>2. ASSUME NEW m \in i + 1 .. Len(src)
        PROVE  KindsOf(SubSeq(src, i, m)) = IF Made(src, i + 2, m, base) THEN {"int"} ELSE {}
    <2>1. m \in i .. Len(src) /\ m > i /\ i + 1 \in i .. m
      OBVIOUS
    <2>2. ~Made(src, i, m, Digits)
      BY <2>1 DEF Made, Digits
    <2>3. IsIntAt(src, i, m) <=> Made(src, i + 2, m, base)
      BY <2>1, <2>2 DEF IsIntAt
    <2>4. ~IsFloatAt(src, i, m)
      <3> SUFFICES ASSUME IsFloatAt(src, i, m) PROVE FALSE
        OBVIOUS
      <3>1. PICK d \in i + 1 .. m, f \in i + 1 .. m + 1 :
              /\ d <= f /\ Made(src, i, d - 1, Digits)
              /\ f = d \/ IsFractionAt(src, d, f - 1)
              /\ f = m + 1 \/ IsExponentAt(src, f, m)
        BY DEF IsFloatAt
      <3>2. d = i + 1
        <4>1. d > i + 1 => i + 1 \in i .. d - 1
          OBVIOUS
        <4>2. ~(d > i + 1)
          BY <3>1, <4>1 DEF Made, Digits
        <4>3. QED
          BY <4>2
      <3>3. f = d
        BY <3>1, <3>2 DEF IsFractionAt
      <3>4. f # m + 1 /\ src[f] = "e"
        BY <3>1, <3>2, <3>3 DEF IsExponentAt
      <3>5. QED
        BY <3>2, <3>3, <3>4
    <2>5. KindsOf(SubSeq(src, i, m)) = {k \in {"int", "float"} :
           (k = "int" /\ IsIntAt(src, i, m)) \/ (k = "float" /\ IsFloatAt(src, i, m))}
      BY <1>1, <2>1, NumberKinds
    <2>6. QED
      BY <2>3, <2>4, <2>5
  <1>3. KindsOf(SubSeq(src, i, to - 1)) = {"int"}
    BY <1>1, <1>2
  <1>4. ASSUME NEW m \in (to - 1) + 1 .. Len(src) PROVE KindsOf(SubSeq(src, i, m)) = {}
    <2>1. m \in i + 1 .. Len(src) /\ to \in i + 2 .. m /\ to <= Len(src)
      OBVIOUS
    <2>2. ~Made(src, i + 2, m, base)
      BY <2>1 DEF Made
    <2>3. QED
      BY <1>2, <2>1, <2>2
  <1>5. Longest(src, i, to - 1, "int")
    BY <1>3, <1>4 DEF Longest
  <1>6. QED
    BY <1>1, <1>5, LexemeIs

LEMMA DecimalLexeme ==
  ASSUME NEW S, NEW src \in Seq(S), NEW i \in 1 .. Len(src),
         NEW whole \in i + 1 .. Len(src) + 1, NEW fraction \in whole .. Len(src) + 1,
         NEW exponent \in fraction .. Len(src) + 1, NEW sign \in 1 .. 2,
         ~(src[i] = "0" /\ i + 1 <= Len(src) /\ src[i + 1] \in {"x", "b"}),
         Made(src, i, whole - 1, Digits), whole <= Len(src) => src[whole] \notin Digits,
         fraction <= Len(src) => src[fraction] \notin Digits,
         IF whole + 1 <= Len(src) /\ src[whole] = "." /\ src[whole + 1] \in Digits
           THEN fraction > whole /\ Made(src, whole + 1, fraction - 1, Digits)
           ELSE fraction = whole,
         IF fraction <= Len(src) /\ src[fraction] = "e"
           THEN /\ sign = IF fraction + 1 <= Len(src) /\ src[fraction + 1] \in {"+", "-"} THEN 2 ELSE 1
                /\ exponent >= fraction + sign /\ Made(src, fraction + sign, exponent - 1, Digits)
                /\ exponent <= Len(src) => src[exponent] \notin Digits
           ELSE exponent = fraction
  PROVE  LexemeAt(src, i) = [kind |-> IF exponent = whole THEN "int" ELSE "float",
                             first |-> i, last |-> exponent - 1]
  <1> DEFINE N == Len(src)
             K(m) == KindsOf(SubSeq(src, i, m))
  <1>1. N \in Nat /\ i \in Nat /\ whole \in Nat /\ fraction \in Nat /\ exponent \in Nat
        /\ i < whole /\ whole <= fraction /\ fraction <= exponent /\ exponent <= N + 1
        /\ exponent - 1 \in i .. N /\ \A m \in i .. N : m \in Int /\ m <= N /\ i <= m
    OBVIOUS
  <1>2. src[i] \in Digits
    <2>1. i \in i .. whole - 1
      OBVIOUS
    <2>2. QED
      BY <2>1 DEF Made
  <1>3. \A m \in i .. N : K(m) = {k \in {"int", "float"} :
           (k = "int" /\ IsIntAt(src, i, m)) \/ (k = "float" /\ IsFloatAt(src, i, m))}
    BY <1>2, NumberKinds
  <1> HIDE DEF N, K
  <1>4. \A m \in i .. N : IsIntAt(src, i, m) <=> Made(src, i, m, Digits)
    <2> SUFFICES ASSUME NEW m \in i .. N, m > i, src[i] = "0", src[i + 1] \in {"x", "b"} PROVE FALSE
      BY DEF IsIntAt
    <2>1. i + 1 <= N
      BY <1>1
    <2>2. QED
      BY <2>1 DEF N
  <1>5. \A m \in i .. N : Made(src, i, m, Digits) <=> m < whole
    <2> SUFFICES ASSUME NEW m \in i .. N PROVE Made(src, i, m, Digits) <=> m < whole
      OBVIOUS
    <2>1. m < whole => \A p \in i .. m : p \in i .. whole - 1
      BY <1>1
    <2>2. m < whole => Made(src, i, m, Digits)
      BY <2>1 DEF Made
    <2>3. ASSUME ~(m < whole) PROVE ~Made(src, i, m, Digits)
      <3>1. whole \in i .. m /\ whole <= N
        BY <1>1, <2>3
      <3>2. src[whole] \notin Digits
        BY <3>1 DEF N
      <3>3. QED
        BY <3>1, <3>2 DEF Made
    <2>4. QED
      BY <2>2, <2>3
  (* Within the fraction ends, and the exponent.                            *)
  <1>6. ASSUME NEW d \in Int, i < d, d <= N, Made(src, i, d - 1, Digits), src[d] \notin Digits
        PROVE  d = whole
    <2>1. ~(d < whole)
      <3>1. d < whole => d \in i .. whole - 1
        BY <1>1, <1>6
      <3>2. QED
        BY <1>6, <3>1 DEF Made
    <2>2. ~(whole < d)
      <3> SUFFICES ASSUME whole < d PROVE FALSE
        OBVIOUS
      <3>1. whole \in i .. d - 1 /\ whole <= N
        BY <1>1, <1>6
      <3>2. src[whole] \notin Digits
        BY <3>1 DEF N
      <3>3. QED
        BY <1>6, <3>1, <3>2 DEF Made
    <2>3. QED
      BY <1>1, <1>6, <2>1, <2>2
  <1>7. ASSUME NEW m \in i .. N, NEW d \in i + 1 .. m, NEW f \in d + 1 .. m + 1,
               Made(src, i, d - 1, Digits), IsFractionAt(src, d, f - 1)
        PROVE  d = whole /\ f <= fraction /\ fraction > whole
               /\ whole + 1 <= N /\ src[whole] = "." /\ src[whole + 1] \in Digits
    <2>1. src[d] = "." /\ f - 1 > d /\ Made(src, d + 1, f - 1, Digits)
      BY <1>7 DEF IsFractionAt
    <2>2. d = whole
      <3>1. d \in Int /\ i < d /\ d <= N /\ src[d] \notin Digits
        BY <1>1, <2>1 DEF Digits
      <3>2. QED
        BY <1>6, <1>7, <3>1
    <2>3. d + 1 <= N /\ src[d + 1] \in Digits
      <3>1. d + 1 \in d + 1 .. f - 1 /\ d + 1 <= N
        BY <1>1, <2>1
      <3>2. QED
        BY <2>1, <3>1 DEF Made
    <2>4. whole + 1 <= Len(src) /\ src[whole] = "." /\ src[whole + 1] \in Digits
      BY <2>1, <2>2, <2>3 DEF N
    <2>5. fraction > whole /\ Made(src, whole + 1, fraction - 1, Digits)
      BY <2>4
    <2>6. ~(fraction < f)
      <3> SUFFICES ASSUME fraction < f PROVE FALSE
        OBVIOUS
      <3>1. fraction \in d + 1 .. f - 1 /\ fraction <= N
        BY <1>1, <2>2, <2>5
      <3>2. src[fraction] \notin Digits
        BY <3>1 DEF N
      <3>3. QED
        BY <2>1, <3>1, <3>2 DEF Made
    <2>7. f \in Int
      OBVIOUS
    <2>8. QED
      BY <1>1, <2>2, <2>4, <2>5, <2>6, <2>7 DEF N
  <1>8. ASSUME NEW m \in i .. N, IsExponentAt(src, fraction, m)
        PROVE  m < exponent
    <2>1. m >= fraction /\ src[fraction] = "e" /\ fraction <= Len(src)
      BY <1>1, <1>8 DEF IsExponentAt, N
    <2>2. /\ sign = IF fraction + 1 <= Len(src) /\ src[fraction + 1] \in {"+", "-"} THEN 2 ELSE 1
          /\ exponent >= fraction + sign /\ Made(src, fraction + sign, exponent - 1, Digits)
          /\ exponent <= Len(src) => src[exponent] \notin Digits
      BY <2>1
    <2> SUFFICES ASSUME exponent <= m PROVE FALSE
      BY <1>1
    <2>3. exponent <= N /\ src[exponent] \notin Digits
      BY <1>1, <2>2 DEF N
    <2>4. CASE Made(src, fraction + 1, m, Digits)
      <3>1. exponent \in fraction + 1 .. m
        BY <1>1, <2>2
      <3>2. QED
        BY <2>3, <2>4, <3>1 DEF Made
    <2>5. CASE m > fraction /\ src[fraction + 1] \in {"+", "-"} /\ Made(src, fraction + 2, m, Digits)
      <3>1. sign = 2
        BY <1>1, <2>2, <2>5 DEF N
      <3>2. exponent \in fraction + 2 .. m
        BY <1>1, <2>2, <3>1
      <3>3. QED
        BY <2>3, <2>5, <3>2 DEF Made
    <2>6. QED
      BY <1>8, <2>4, <2>5 DEF IsExponentAt
  <1>9. ASSUME NEW m \in i .. N, IsFloatAt(src, i, m)
        PROVE  m < exponent /\ ~(m < whole)
    <2>1. PICK d \in i + 1 .. m, f \in i + 1 .. m + 1 :
              /\ d <= f /\ Made(src, i, d - 1, Digits)
              /\ f = d \/ IsFractionAt(src, d, f - 1)
              /\ f = m + 1 \/ IsExponentAt(src, f, m)
      BY <1>9 DEF IsFloatAt
    <2>2. CASE f # d
      <3>1. f \in d + 1 .. m + 1
        BY <2>1, <2>2
      <3>2. d = whole /\ f <= fraction
        BY <1>7, <2>1, <2>2, <3>1
      <3>3. CASE f = m + 1
        BY <1>1, <3>2, <3>3
      <3>4. CASE f # m + 1
        <4>1. IsExponentAt(src, f, m) /\ src[f] = "e"
          BY <2>1, <3>4 DEF IsExponentAt
        <4>2. f = fraction
          <5>1. fraction > whole /\ whole + 1 <= N /\ src[whole] = "." /\ src[whole + 1] \in Digits
            BY <1>7, <2>1, <2>2, <3>1
          <5>2. Made(src, whole + 1, fraction - 1, Digits)
            BY <5>1 DEF N
          <5>3. f < fraction => f \in whole + 1 .. fraction - 1
            BY <1>1, <3>1, <3>2
          <5>4. ~(f < fraction)
            BY <4>1, <5>2, <5>3 DEF Made, Digits
          <5>5. QED
            BY <1>1, <3>1, <3>2, <5>4
        <4>3. m < exponent
          BY <1>8, <4>1, <4>2
        <4>4. QED
          BY <1>1, <3>2, <4>3
      <3>5. QED
        BY <3>3, <3>4
    <2>3. CASE f = d
      <3>1. f # m + 1
        BY <1>1, <2>1, <2>3
      <3>2. IsExponentAt(src, d, m) /\ src[d] = "e"
        BY <2>1, <2>3, <3>1 DEF IsExponentAt
      <3>3. d = whole
        <4>1. d \in Int /\ i < d /\ d <= N /\ src[d] \notin Digits
          BY <1>1, <3>2 DEF Digits
        <4>2. QED
          BY <1>6, <2>1, <4>1
      <3>4. fraction = whole
        <4>1. src[whole] # "."
          BY <3>2, <3>3
        <4>2. QED
          BY <4>1
      <3>5. m < exponent
        BY <1>8, <3>2, <3>3, <3>4
      <3>6. QED
        BY <1>1, <3>3, <3>5
    <2>4. QED
      BY <2>2, <2>3
  <1>10. ASSUME NEW m \in exponent .. N PROVE K(m) = {}
    <2>1. m \in i .. N /\ ~(m < exponent) /\ ~(m < whole)
      BY <1>1
    <2>2. ~IsIntAt(src, i, m) /\ ~IsFloatAt(src, i, m)
      BY <1>4, <1>5, <1>9, <2>1
    <2>3. QED
      BY <1>3, <2>1, <2>2
  <1> DEFINE last == exponent - 1
  <1>11. ASSUME NEW kind, K(last) = {kind}
         PROVE  LexemeAt(src, i) = [kind |-> kind, first |-> i, last |-> last]
    <2>1. \A m \in last + 1 .. Len(src) : m \in exponent .. N
      BY <1>1 DEF N
    <2>2. last \in i .. Len(src) /\ Len(src) \in Nat
      BY <1>1 DEF N
    <2> HIDE DEF last
    <2>3. Longest(src, i, last, kind)
      BY <1>10, <1>11, <2>1 DEF Longest, K
    <2>4. QED
      BY <2>2, <2>3, LexemeIs
  <1>12. CASE exponent = whole
    <2>1. IsIntAt(src, i, exponent - 1) /\ ~IsFloatAt(src, i, exponent - 1)
      <3>1. exponent - 1 < whole
        BY <1>1, <1>12
      <3> DEFINE m == exponent - 1
      <3>2. m \in i .. N /\ m < whole
        BY <1>1, <3>1
      <3> HIDE DEF m
      <3>3. IsIntAt(src, i, m) /\ ~IsFloatAt(src, i, m)
        BY <1>4, <1>5, <1>9, <3>2
      <3>4. QED
        BY <3>3 DEF m
    <2>2. K(exponent - 1) = {"int"}
      BY <1>1, <1>3, <2>1
    <2>3. QED
      BY <1>12, <1>11, <2>2
  <1>13. CASE exponent # whole
    <2> DEFINE m == exponent - 1
    <2>1. m \in i .. N /\ ~(m < whole) /\ whole \in i + 1 .. m /\ fraction \in i + 1 .. m + 1
      BY <1>1, <1>13
    <2>2. fraction # whole => IsFractionAt(src, whole, fraction - 1)
      <3> SUFFICES ASSUME fraction # whole PROVE IsFractionAt(src, whole, fraction - 1)
        OBVIOUS
      <3>1. whole + 1 <= Len(src) /\ src[whole] = "." /\ src[whole + 1] \in Digits
        OBVIOUS
      <3>2. fraction > whole /\ Made(src, whole + 1, fraction - 1, Digits)
        BY <3>1
      <3>3. fraction # whole + 1
        <4>1. fraction = whole + 1 => src[fraction] \in Digits /\ fraction <= Len(src)
          BY <3>1
        <4>2. QED
          BY <4>1
      <3>4. fraction - 1 > whole
        BY <1>1, <3>2, <3>3
      <3>5. QED
        BY <3>1, <3>2, <3>4 DEF IsFractionAt
    <2>3. fraction # m + 1 => IsExponentAt(src, fraction, m)
      <3> SUFFICES ASSUME fraction # m + 1 PROVE IsExponentAt(src, fraction, m)
        OBVIOUS
      <3>1. exponent # fraction
        BY <1>1
      <3>2. fraction <= Len(src) /\ src[fraction] = "e"
        BY <3>1
      <3>3. /\ sign = IF fraction + 1 <= Len(src) /\ src[fraction + 1] \in {"+", "-"} THEN 2 ELSE 1
            /\ exponent >= fraction + sign /\ Made(src, fraction + sign, exponent - 1, Digits)
        BY <3>2
      <3>4. sign \in {1, 2} /\ m >= fraction /\ (sign = 2 => m > fraction)
        BY <1>1, <3>3
      <3>5. QED
        BY <3>2, <3>3, <3>4 DEF IsExponentAt
    <2> HIDE DEF m
    <2>4. IsFloatAt(src, i, m)
      BY <1>1, <2>1, <2>2, <2>3 DEF IsFloatAt
    <2>5. ~IsIntAt(src, i, m)
      BY <1>4, <1>5, <2>1
    <2>6. K(m) = {"float"}
      BY <1>3, <2>1, <2>4, <2>5
    <2>7. QED
      BY <1>13, <1>11, <2>6 DEF m
  <1>14. QED
    BY <1>12, <1>13

-----------------------------------------------------------------------------
(* The tokens of a sequence of lexemes.  A newline after a token is one at *)
(* once (Kept); at the end those that separate nothing are not (Final).    *)
OneOrNone(x, yes) == IF yes THEN <<x>> ELSE <<>>
KeepsNow(all, k) == IsSolid(all[k]) \/ EndsLine(all, k)
KeepsFinally(all, k) == IsSolid(all[k]) \/ (EndsLine(all, k) /\ \E j \in k .. Len(all) : IsSolid(all[j]))
Kept(all) == FlattenSeq([k \in 1 .. Len(all) |-> OneOrNone(all[k], KeepsNow(all, k))])
Final(all) == FlattenSeq([k \in 1 .. Len(all) |-> OneOrNone(all[k], KeepsFinally(all, k))])
InLine(all) == \E i \in 1 .. Len(all) : IsSolid(all[i]) /\ \A j \in i .. Len(all) : all[j].kind # "nl"

LEMMA TokensOfIs == \A src : TokensOf(src) = Final(Lexemes(src))
  BY DEF TokensOf, Final, OneOrNone, KeepsFinally

LEMMA FlattenLexemes ==
  ASSUME NEW n \in Nat, NEW ss, NEW tt, Len(ss) = n, Len(tt) = n + 1,
         n = 0 => ss = <<>>, \A i \in 1 .. n : tt[i] = ss[i], tt[n + 1] \in Seq(LexemeT)
  PROVE  FlattenSeq(tt) = FlattenSeq(ss) \o tt[n + 1]
  BY FlattenMore, SMT

LEMMA LexemeMore ==
  ASSUME NEW all \in Seq(LexemeT), NEW x \in LexemeT
  PROVE  LET more == Append(all, x) IN
         /\ Kept(more) = Kept(all) \o OneOrNone(x, IsSolid(x) \/ (x.kind = "nl" /\ InLine(all)))
         /\ Final(more) = IF IsSolid(x) THEN Kept(all) \o <<x>> ELSE Final(all) \o <<>>
         /\ InLine(more) <=> IsSolid(x) \/ (x.kind # "nl" /\ InLine(all))
  <1> DEFINE more == Append(all, x)
             n == Len(all)
             kept == [k \in 1 .. n |-> OneOrNone(all[k], KeepsNow(all, k))]
             ends == [k \in 1 .. n |-> OneOrNone(all[k], KeepsFinally(all, k))]
             kept2 == [k \in 1 .. n + 1 |-> OneOrNone(more[k], KeepsNow(more, k))]
             ends2 == [k \in 1 .. n + 1 |-> OneOrNone(more[k], KeepsFinally(more, k))]
  <1>1. n \in Nat /\ Len(more) = n + 1 /\ more[n + 1] = x /\ \A k \in 1 .. n : more[k] = all[k]
    BY AppendIs
  <1> HIDE DEF more, n
  <1>2. Kept(all) = FlattenSeq(kept) /\ Final(all) = FlattenSeq(ends)
        /\ Kept(more) = FlattenSeq(kept2) /\ Final(more) = FlattenSeq(ends2)
    BY <1>1 DEF Kept, Final, n
  <1>3. n + 1 \in 1 .. n + 1 /\ \A k \in 1 .. n : k \in 1 .. n + 1 /\ \A i \in 1 .. k - 1 : i \in 1 .. n
    BY <1>1
  <1>4. \A k \in 1 .. n : EndsLine(more, k) <=> EndsLine(all, k)
    <2> SUFFICES ASSUME NEW k \in 1 .. n PROVE EndsLine(more, k) <=> EndsLine(all, k)
      OBVIOUS
    <2>1. \A i \in 1 .. k - 1 : i \in 1 .. n /\ more[i] = all[i]
          /\ \A j \in i .. k - 1 : j \in 1 .. n /\ more[j] = all[j]
      BY <1>1
    <2>2. more[k] = all[k]
      BY <1>1
    <2>3. QED
      BY <2>1, <2>2 DEF EndsLine
  <1>5. EndsLine(more, n + 1) <=> x.kind = "nl" /\ InLine(all)
    <2>1. (n + 1) - 1 = n /\ \A i \in 1 .. n : \A j \in i .. n : j \in 1 .. n
      BY <1>1
    <2>2. (\E i \in 1 .. n : IsSolid(more[i]) /\ \A j \in i .. n : more[j].kind # "nl") <=> InLine(all)
      BY <1>1, <2>1 DEF InLine, n
    <2>3. QED
      BY <1>1, <2>1, <2>2 DEF EndsLine
  <1>6. kept2[n + 1] = OneOrNone(x, IsSolid(x) \/ (x.kind = "nl" /\ InLine(all)))
    BY <1>1, <1>3, <1>5 DEF KeepsNow
  <1>7. \A k \in 1 .. n : kept2[k] = kept[k]
    BY <1>1, <1>3, <1>4 DEF KeepsNow
  <1>8. IsSolid(x) => x.kind # "nl"
    BY DEF IsSolid
  <1>9. ends2[n + 1] = OneOrNone(x, IsSolid(x))
    <2>1. ends2[n + 1] = OneOrNone(more[n + 1], KeepsFinally(more, n + 1))
      BY <1>3
    <2>2. \A j \in n + 1 .. n + 1 : j = n + 1
      BY <1>1
    <2>3. KeepsFinally(more, n + 1) <=> IsSolid(x)
      BY <1>1, <2>2 DEF KeepsFinally
    <2>4. KeepsFinally(more, n + 1) = IsSolid(x)
      BY <2>3 DEF KeepsFinally, IsSolid
    <2>5. QED
      BY <1>1, <2>1, <2>4
  <1>10. IsSolid(x) => \A k \in 1 .. n : ends2[k] = kept[k]
    <2> SUFFICES ASSUME IsSolid(x), NEW k \in 1 .. n PROVE ends2[k] = kept[k]
      OBVIOUS
    <2>1. n + 1 \in k .. Len(more) /\ IsSolid(more[n + 1])
      BY <1>1
    <2>2. KeepsFinally(more, k) <=> KeepsNow(all, k)
      BY <1>1, <1>4, <2>1 DEF KeepsFinally, KeepsNow
    <2>3. ends2[k] = OneOrNone(more[k], KeepsFinally(more, k)) /\ kept[k] = OneOrNone(all[k], KeepsNow(all, k))
      BY <1>3
    <2>4. QED
      BY <1>1, <2>2, <2>3 DEF OneOrNone
  <1>11. ~IsSolid(x) => \A k \in 1 .. n : ends2[k] = ends[k]
    <2> SUFFICES ASSUME ~IsSolid(x), NEW k \in 1 .. n PROVE ends2[k] = ends[k]
      OBVIOUS
    <2>1. \A j \in k .. Len(more) : j \in k .. n \/ j = n + 1
      BY <1>1
    <2>2. \A j \in k .. n : j \in k .. Len(more) /\ j \in 1 .. n
      BY <1>1
    <2>3. (\E j \in k .. Len(more) : IsSolid(more[j])) <=> \E j \in k .. n : IsSolid(all[j])
      BY <1>1, <2>1, <2>2
    <2>4. KeepsFinally(more, k) <=> KeepsFinally(all, k)
      BY <1>1, <1>4, <2>3 DEF KeepsFinally, n
    <2>5. ends2[k] = OneOrNone(more[k], KeepsFinally(more, k)) /\ ends[k] = OneOrNone(all[k], KeepsFinally(all, k))
      BY <1>3
    <2>6. QED
      BY <1>1, <2>4, <2>5 DEF OneOrNone
  <1>12. /\ Len(kept) = n /\ Len(ends) = n /\ Len(kept2) = n + 1 /\ Len(ends2) = n + 1
         /\ n = 0 => kept = <<>> /\ ends = <<>>
    BY <1>1
  <1>13. \A yes : OneOrNone(x, yes) \in Seq(LexemeT)
    BY DEF OneOrNone
  <1> HIDE DEF kept, ends, kept2, ends2
  <1>14. FlattenSeq(kept2) = FlattenSeq(kept) \o kept2[n + 1]
    <2>1. kept2[n + 1] \in Seq(LexemeT)
      BY <1>6, <1>13
    <2>2. QED
      BY <1>1, <1>7, <1>12, <2>1, FlattenLexemes
  <1>15. IsSolid(x) => FlattenSeq(ends2) = FlattenSeq(kept) \o ends2[n + 1]
    <2>1. ends2[n + 1] \in Seq(LexemeT)
      BY <1>9, <1>13
    <2>2. QED
      BY <1>1, <1>10, <1>12, <2>1, FlattenLexemes
  <1>16. ~IsSolid(x) => FlattenSeq(ends2) = FlattenSeq(ends) \o ends2[n + 1]
    <2>1. ends2[n + 1] \in Seq(LexemeT)
      BY <1>9, <1>13
    <2>2. QED
      BY <1>1, <1>11, <1>12, <2>1, FlattenLexemes
  <1>17. InLine(more) <=> IsSolid(x) \/ (x.kind # "nl" /\ InLine(all))
    <2>1. \A i \in 1 .. n + 1 : i = n + 1 \/ (i \in 1 .. n /\ \A j \in i .. n : j \in i .. n + 1 /\ j \in 1 .. n)
      BY <1>1
    <2>2. \A i \in 1 .. n + 1 : \A j \in i .. n + 1 : j = n + 1 \/ j \in i .. n
      BY <1>1
    <2>3. \A i \in 1 .. n + 1 : n + 1 \in i .. n + 1
      BY <1>1
    <2>4. ASSUME InLine(more) PROVE IsSolid(x) \/ (x.kind # "nl" /\ InLine(all))
      <3>1. PICK i \in 1 .. n + 1 : IsSolid(more[i]) /\ \A j \in i .. n + 1 : more[j].kind # "nl"
        BY <1>1, <2>4 DEF InLine
      <3>2. x.kind # "nl"
        BY <1>1, <2>3, <3>1
      <3>3. CASE i = n + 1
        BY <1>1, <3>1, <3>3
      <3>4. CASE i # n + 1
        <4>1. i \in 1 .. n /\ IsSolid(all[i]) /\ \A j \in i .. n : all[j].kind # "nl"
          BY <1>1, <2>1, <3>1, <3>4
        <4>2. QED
          BY <3>2, <4>1 DEF InLine, n
      <3>5. QED
        BY <3>3, <3>4
    <2>5. ASSUME IsSolid(x) PROVE InLine(more)
      <3>1. n + 1 \in 1 .. n + 1 /\ \A j \in n + 1 .. n + 1 : j = n + 1
        BY <1>1
      <3>2. QED
        BY <1>1, <1>8, <2>5, <3>1 DEF InLine
    <2>6. ASSUME x.kind # "nl", InLine(all) PROVE InLine(more)
      <3>1. PICK i \in 1 .. n : IsSolid(all[i]) /\ \A j \in i .. n : all[j].kind # "nl"
        BY <2>6 DEF InLine, n
      <3>2. i \in 1 .. n + 1 /\ more[i] = all[i]
        BY <1>1, <1>3
      <3>3. \A j \in i .. n + 1 : more[j].kind # "nl"
        <4>1. \A j \in i .. n + 1 : j = n + 1 \/ (j \in i .. n /\ j \in 1 .. n)
          BY <1>1
        <4>2. QED
          BY <1>1, <2>6, <3>1, <4>1
      <3>4. QED
        BY <1>1, <3>1, <3>2, <3>3 DEF InLine
    <2>7. QED
      BY <2>4, <2>5, <2>6
  <1>18. Final(more) = IF IsSolid(x) THEN Kept(all) \o <<x>> ELSE Final(all) \o <<>>
    <2>1. CASE IsSolid(x)
      <3>1. ends2[n + 1] = <<x>>
        BY <1>9, <2>1 DEF OneOrNone
      <3>2. QED
        BY <1>2, <1>15, <2>1, <3>1
    <2>2. CASE ~IsSolid(x)
      <3>1. ends2[n + 1] = <<>>
        BY <1>9, <2>2 DEF OneOrNone
      <3>2. QED
        BY <1>2, <1>16, <2>2, <3>1
    <2>3. QED
      BY <2>1, <2>2
  <1>19. QED
    BY <1>2, <1>6, <1>14, <1>17, <1>18 DEF more

LEMMA NoLexemes ==
  Kept(<<>>) = <<>> /\ Final(<<>>) = <<>> /\ ~InLine(<<>>)
  <1>1. \A e : [k \in 1 .. Len(<<>>) |-> e[k]] = <<>>
    OBVIOUS
  <1>2. [k \in 1 .. Len(<<>>) |-> OneOrNone(<<>>[k], KeepsNow(<<>>, k))] = <<>>
        /\ [k \in 1 .. Len(<<>>) |-> OneOrNone(<<>>[k], KeepsFinally(<<>>, k))] = <<>>
    OBVIOUS
  <1>3. ~InLine(<<>>)
    BY DEF InLine
  <1>4. QED
    BY <1>2, <1>3, FlattenNone DEF Kept, Final

-----------------------------------------------------------------------------
(* The tokens the lexer has, and those of the lexemes it has passed.       *)
Place(t) == [kind |-> t.kind, first |-> t.first, last |-> t.last]
Places(toks) == [k \in 1 .. Len(toks) |-> Place(toks[k])]
AfterToken(toks)   == toks # <<>> /\ Last(toks).kind # "nl"
AfterNewline(toks) == toks # <<>> /\ Last(toks).kind = "nl"

Matches(all, toks) ==
  /\ Kept(all) = Places(toks)
  /\ InLine(all) <=> AfterToken(toks)
  /\ Final(all) = IF AfterNewline(toks) THEN SubSeq(Places(toks), 1, Len(toks) - 1) ELSE Places(toks)
  /\ AfterNewline(toks) => Len(toks) > 1 /\ toks[Len(toks) - 1].kind # "nl"

LEMMA PlacesAre ==
  ASSUME NEW toks \in Seq(TokenT)
  PROVE  /\ Places(toks) \in Seq(LexemeT) /\ Len(Places(toks)) = Len(toks)
         /\ \A n \in 0 .. Len(toks) : Places(SubSeq(toks, 1, n)) = SubSeq(Places(toks), 1, n)
         /\ \A t \in TokenT : /\ Place(t) \in LexemeT
                              /\ Places(Append(toks, t)) = Places(toks) \o <<Place(t)>>
                              /\ SubSeq(Places(Append(toks, t)), 1, Len(toks)) = Places(toks)
                              /\ Append(toks, t) \in Seq(TokenT) /\ Append(toks, t) # <<>>
                              /\ Last(Append(toks, t)) = t /\ Len(Append(toks, t)) = Len(toks) + 1
                              /\ Append(toks, t)[Len(toks) + 1] = t
                              /\ \A k \in 1 .. Len(toks) : Append(toks, t)[k] = toks[k]
  <1>1. \A t \in TokenT : Place(t) \in LexemeT
    BY DEF TokenT, LexemeT, Place, Kinds, LexemeKinds
  <1>2. \A k \in 1 .. Len(toks) : toks[k] \in TokenT
    OBVIOUS
  <1>3. Places(toks) \in Seq(LexemeT) /\ Len(Places(toks)) = Len(toks) /\ Len(toks) \in Nat
        /\ \A k \in 1 .. Len(toks) : Places(toks)[k] = Place(toks[k])
    BY <1>1, <1>2 DEF Places
  <1>4. ASSUME NEW n \in 0 .. Len(toks)
        PROVE  Places(SubSeq(toks, 1, n)) = SubSeq(Places(toks), 1, n)
    <2> DEFINE u == SubSeq(toks, 1, n)
               v == SubSeq(Places(toks), 1, n)
    <2>1. Len(u) = n /\ \A k \in 1 .. n : u[k] = toks[k]
      BY <1>3
    <2>2. v \in Seq(LexemeT) /\ Len(v) = n /\ \A k \in 1 .. n : v[k] = Place(toks[k])
      <3>1. \A k \in 1 .. n : k \in 1 .. Len(toks)
        BY <1>3
      <3> DEFINE w == Places(toks)
      <3>2. w \in Seq(LexemeT) /\ Len(w) = Len(toks) /\ \A k \in 1 .. Len(toks) : w[k] = Place(toks[k])
        BY <1>3
      <3> HIDE DEF w
      <3>3. SubSeq(w, 1, n) \in Seq(LexemeT) /\ Len(SubSeq(w, 1, n)) = n /\ \A k \in 1 .. n : SubSeq(w, 1, n)[k] = w[k]
        BY <1>3, <3>2
      <3>4. QED
        BY <3>1, <3>2, <3>3 DEF w
    <2> HIDE DEF u, v
    <2>3. Places(u) = [k \in 1 .. n |-> Place(toks[k])]
      BY <2>1 DEF Places
    <2>4. v = [k \in 1 .. n |-> Place(toks[k])]
      BY <2>2
    <2>5. QED
      BY <2>3, <2>4 DEF u, v
  <1>5. ASSUME NEW t \in TokenT
        PROVE  /\ Places(Append(toks, t)) = Places(toks) \o <<Place(t)>>
               /\ SubSeq(Places(Append(toks, t)), 1, Len(toks)) = Places(toks)
               /\ Append(toks, t) \in Seq(TokenT) /\ Append(toks, t) # <<>>
               /\ Last(Append(toks, t)) = t /\ Len(Append(toks, t)) = Len(toks) + 1
               /\ Append(toks, t)[Len(toks) + 1] = t
               /\ \A k \in 1 .. Len(toks) : Append(toks, t)[k] = toks[k]
    <2> DEFINE u == Append(toks, t)
               w == Places(toks)
               x == Place(t)
               v == w \o <<x>>
               n == Len(toks)
    <2>1. u \in Seq(TokenT) /\ Len(u) = n + 1 /\ u[n + 1] = t /\ \A k \in 1 .. n : u[k] = toks[k]
      BY AppendIs
    <2>2. w \in Seq(LexemeT) /\ Len(w) = n /\ x \in LexemeT /\ n \in Nat /\ \A k \in 1 .. n : w[k] = Place(toks[k])
      BY <1>1, <1>3
    <2> HIDE DEF u, w, n, x
    <2>3. v \in Seq(LexemeT) /\ Len(v) = n + 1 /\ v[n + 1] = x /\ \A k \in 1 .. n : v[k] = w[k]
      BY <2>2
    <2>4. SubSeq(v, 1, n) = w
      BY <2>2
    <2> HIDE DEF v
    <2>5. \A k \in 1 .. n + 1 : k \in 1 .. n \/ k = n + 1
      BY <2>2
    <2>6. \A k \in 1 .. n + 1 : v[k] = Place(u[k])
      BY <2>1, <2>2, <2>3, <2>5 DEF x
    <2>7. v = [k \in 1 .. n + 1 |-> Place(u[k])]
      BY <2>3, <2>6
    <2>8. Places(u) = v
      BY <2>1, <2>7 DEF Places
    <2>9. u # <<>> /\ Last(u) = t
      BY <2>1, <2>2 DEF Last
    <2>10. QED
      BY <2>1, <2>4, <2>8, <2>9 DEF u, v, w, n, x
  <1>6. QED
    BY <1>1, <1>3, <1>4, <1>5

LEMMA MatchesStart == Matches(<<>>, <<>>)
  <1>1. Places(<<>>) = <<>>
    BY DEF Places
  <1>2. QED
    BY <1>1, NoLexemes DEF Matches, AfterToken, AfterNewline

LEMMA MatchesToken ==
  ASSUME NEW all \in Seq(LexemeT), NEW toks \in Seq(TokenT), Matches(all, toks), NEW t \in TokenT,
         NEW x \in LexemeT, x = Place(t), t.kind # "nl" \/ AfterToken(toks)
  PROVE  Matches(Append(all, x), Append(toks, t))
  <1>1. /\ Kept(all) = Places(toks) /\ (InLine(all) <=> AfterToken(toks))
        /\ Final(all) = IF AfterNewline(toks) THEN SubSeq(Places(toks), 1, Len(toks) - 1) ELSE Places(toks)
    BY DEF Matches
  <1>2. /\ Kept(Append(all, x)) = Kept(all) \o OneOrNone(x, IsSolid(x) \/ (x.kind = "nl" /\ InLine(all)))
        /\ Final(Append(all, x)) = IF IsSolid(x) THEN Kept(all) \o <<x>> ELSE Final(all) \o <<>>
        /\ InLine(Append(all, x)) <=> IsSolid(x) \/ (x.kind # "nl" /\ InLine(all))
    BY LexemeMore
  <1>3. x.kind = t.kind /\ t.kind \in Kinds
    BY DEF Place, TokenT
  <1>4. IsSolid(x) <=> t.kind # "nl"
    BY <1>3 DEF IsSolid, Kinds
  <1>5. /\ Places(toks) \in Seq(LexemeT)
        /\ Places(Append(toks, t)) = Places(toks) \o <<x>>
        /\ SubSeq(Places(Append(toks, t)), 1, Len(toks)) = Places(toks)
        /\ Append(toks, t) # <<>> /\ Last(Append(toks, t)) = t /\ Len(Append(toks, t)) = Len(toks) + 1
        /\ \A k \in 1 .. Len(toks) : Append(toks, t)[k] = toks[k]
    BY PlacesAre
  <1>6. Len(toks) \in Nat /\ (Len(toks) + 1) - 1 = Len(toks)
    OBVIOUS
  <1> DEFINE u == Append(toks, t)
             m == Append(all, x)
  <1>7. (AfterNewline(u) <=> t.kind = "nl") /\ (AfterToken(u) <=> t.kind # "nl")
    BY <1>5 DEF AfterNewline, AfterToken
  <1>8. Kept(m) = Places(u)
    <2>1. OneOrNone(x, IsSolid(x) \/ (x.kind = "nl" /\ InLine(all))) = <<x>>
      <3>1. IsSolid(x) \/ (x.kind = "nl" /\ InLine(all))
        BY <1>1, <1>3, <1>4
      <3>2. QED
        BY <3>1 DEF OneOrNone
    <2>2. QED
      BY <1>1, <1>2, <1>5, <2>1
  <1>9. InLine(m) <=> AfterToken(u)
    BY <1>2, <1>3, <1>4, <1>7
  <1>10. Final(m) = IF AfterNewline(u) THEN SubSeq(Places(u), 1, Len(u) - 1) ELSE Places(u)
    <2>1. CASE t.kind # "nl"
      BY <1>1, <1>2, <1>4, <1>5, <1>7, <2>1
    <2>2. CASE t.kind = "nl"
      <3>1. Final(all) = Places(toks)
        BY <1>1, <2>2 DEF AfterToken, AfterNewline
      <3>2. Final(m) = Final(all) \o <<>>
        BY <1>2, <1>4, <2>2
      <3>3. Places(toks) \o <<>> = Places(toks)
        BY <1>5
      <3>4. SubSeq(Places(u), 1, Len(u) - 1) = Places(toks)
        BY <1>5, <1>6
      <3>5. QED
        BY <1>7, <2>2, <3>1, <3>2, <3>3, <3>4
    <2>3. QED
      BY <2>1, <2>2
  <1>11. AfterNewline(u) => Len(u) > 1 /\ u[Len(u) - 1].kind # "nl"
    <2> SUFFICES ASSUME t.kind = "nl" PROVE Len(u) > 1 /\ u[Len(u) - 1].kind # "nl"
      BY <1>7
    <2>1. toks # <<>> /\ toks[Len(toks)].kind # "nl"
      BY DEF AfterToken, Last
    <2>2. Len(toks) \in 1 .. Len(toks)
      BY <2>1
    <2>3. QED
      BY <1>5, <1>6, <2>1, <2>2
  <1> HIDE DEF u, m
  <1>12. QED
    BY <1>8, <1>9, <1>10, <1>11 DEF Matches, u, m

LEMMA MatchesQuiet ==
  ASSUME NEW all \in Seq(LexemeT), NEW toks \in Seq(TokenT), Matches(all, toks), NEW x \in LexemeT,
         \/ x.kind \in {"blank", "comment"}
         \/ x.kind = "nl" /\ ~AfterToken(toks)
  PROVE  Matches(Append(all, x), toks)
  <1>1. /\ Kept(all) = Places(toks) /\ (InLine(all) <=> AfterToken(toks))
        /\ Final(all) = IF AfterNewline(toks) THEN SubSeq(Places(toks), 1, Len(toks) - 1) ELSE Places(toks)
        /\ AfterNewline(toks) => Len(toks) > 1 /\ toks[Len(toks) - 1].kind # "nl"
    BY DEF Matches
  <1>2. /\ Kept(Append(all, x)) = Kept(all) \o OneOrNone(x, IsSolid(x) \/ (x.kind = "nl" /\ InLine(all)))
        /\ Final(Append(all, x)) = IF IsSolid(x) THEN Kept(all) \o <<x>> ELSE Final(all) \o <<>>
        /\ InLine(Append(all, x)) <=> IsSolid(x) \/ (x.kind # "nl" /\ InLine(all))
    BY LexemeMore
  <1>3. ~IsSolid(x)
    BY DEF IsSolid
  <1>4. Places(toks) \in Seq(LexemeT) /\ Len(Places(toks)) = Len(toks)
    BY PlacesAre
  <1>5. ~(IsSolid(x) \/ (x.kind = "nl" /\ InLine(all)))
    BY <1>1, <1>3
  <1>6. OneOrNone(x, IsSolid(x) \/ (x.kind = "nl" /\ InLine(all))) = <<>>
    BY <1>5 DEF OneOrNone
  <1>7. Kept(Append(all, x)) = Places(toks)
    <2>1. Places(toks) \o <<>> = Places(toks)
      BY <1>4
    <2>2. QED
      BY <1>1, <1>2, <1>6, <2>1
  <1>8. InLine(Append(all, x)) <=> AfterToken(toks)
    BY <1>1, <1>2, <1>3
  <1>9. Final(Append(all, x)) = Final(all)
    <2>1. Final(all) \in Seq(LexemeT)
      <3> DEFINE w == Places(toks)
                 n == Len(toks)
      <3>1. w \in Seq(LexemeT) /\ n \in Nat /\ Len(w) = n /\ (AfterNewline(toks) => n > 1)
        BY <1>1, <1>4
      <3>2. Final(all) = IF AfterNewline(toks) THEN SubSeq(w, 1, n - 1) ELSE w
        BY <1>1
      <3> HIDE DEF w, n
      <3>3. n > 1 => SubSeq(w, 1, n - 1) \in Seq(LexemeT)
        BY <3>1
      <3>4. QED
        BY <3>1, <3>2, <3>3
    <2>2. Final(all) \o <<>> = Final(all)
      BY <2>1
    <2>3. QED
      BY <1>2, <1>3, <2>2
  <1>10. QED
    BY <1>1, <1>7, <1>8, <1>9 DEF Matches

LEMMA MatchesEnds ==
  ASSUME NEW all \in Seq(LexemeT), NEW toks \in Seq(TokenT), Matches(all, toks)
  PROVE  Places(SubSeq(toks, 1, SelectLastInSeq(toks, LAMBDA t : t.kind # "nl"))) = Final(all)
  <1> DEFINE I == {i \in 1 .. Len(toks) : toks[i].kind # "nl"}
             m == IF I # {} THEN Max(I) ELSE 0
             n == Len(toks)
  <1>1. SelectLastInSeq(toks, LAMBDA t : t.kind # "nl") = m
    BY DEF SelectLastInSeq
  <1>2. n \in Nat /\ \A i \in I : i \in Int
    OBVIOUS
  <1>3. \A k \in I : (\A j \in I : k >= j) => Max(I) = k
    <2> SUFFICES ASSUME NEW k \in I, \A j \in I : k >= j PROVE Max(I) = k
      OBVIOUS
    <2>1. \A i \in I : i \in Int
      BY <1>2
    <2> HIDE DEF I
    <2>2. Max(I) \in I /\ \A j \in I : Max(I) >= j
      BY DEF Max
    <2>3. Max(I) >= k /\ k >= Max(I)
      BY <2>2
    <2>4. QED
      BY <2>1, <2>2, <2>3
  <1>4. /\ Final(all) = IF AfterNewline(toks) THEN SubSeq(Places(toks), 1, n - 1) ELSE Places(toks)
        /\ AfterNewline(toks) => n > 1 /\ toks[n - 1].kind # "nl"
    BY DEF Matches
  <1>5. \A k \in 0 .. n : Places(SubSeq(toks, 1, k)) = SubSeq(Places(toks), 1, k)
    BY PlacesAre
  <1>6. CASE toks = <<>>
    <2>1. n = 0 /\ I = {} /\ m = 0
      BY <1>6
    <2>2. ~AfterNewline(toks) /\ 0 \in 0 .. n
      BY <1>6, <2>1 DEF AfterNewline
    <2>3. SubSeq(toks, 1, 0) = toks
      BY <1>6
    <2> HIDE DEF m
    <2>4. QED
      BY <1>1, <1>4, <2>1, <2>2, <2>3
  <1>7. CASE AfterNewline(toks)
    <2>1. n > 1 /\ toks[n - 1].kind # "nl" /\ toks[n].kind = "nl"
      BY <1>4, <1>7 DEF AfterNewline, Last
    <2>2. n - 1 \in I /\ \A j \in I : n - 1 >= j
      BY <1>2, <2>1
    <2>3. m = n - 1
      <3>1. I # {} /\ Max(I) = n - 1
        BY <1>3, <2>2
      <3>2. QED
        BY <3>1
    <2>4. n - 1 \in 0 .. n
      BY <1>2, <2>1
    <2> HIDE DEF m, n
    <2>5. QED
      BY <1>1, <1>4, <1>5, <1>7, <2>3, <2>4
  <1>8. CASE toks # <<>> /\ ~AfterNewline(toks)
    <2>1. n > 0 /\ toks[n].kind # "nl"
      BY <1>8 DEF AfterNewline, Last
    <2>2. n \in I /\ \A j \in I : n >= j
      BY <1>2, <2>1
    <2>3. m = n
      <3>1. I # {} /\ Max(I) = n
        BY <1>3, <2>2
      <3>2. QED
        BY <3>1
    <2>4. SubSeq(toks, 1, n) = toks
      OBVIOUS
    <2> HIDE DEF m, n
    <2>5. QED
      BY <1>1, <1>4, <1>8, <2>3, <2>4
  <1>9. QED
    BY <1>6, <1>7, <1>8

-----------------------------------------------------------------------------
(* The invariant.  As long as nothing was reported, the lexer is in the    *)
(* lexeme that begins at c, and before it are lexemes, all, whose tokens   *)
(* it has; once something was, the source is not well formed.  Bad kinds   *)
(* are those of no lexeme.                                                 *)
Bad == {"none", "unclosed"}
Sound(all) == \A k \in 1 .. Len(all) : all[k].kind \notin Bad
LeadsTo(all, c) == Lexemes(source) = all \o After(source)[c]

(* How far the lexer is in the lexeme that begins at c.                    *)
Within(c) ==
  /\ mode = "scan" => c = pos
  /\ mode = "comment" =>
       /\ source[c] = "/" /\ source[c + 1] = "*" /\ c + 2 <= pos
       /\ \A p \in c + 2 .. pos - 1 : p < Len(source) => ~ClosesAt(source, p)
  /\ mode = "string" =>
       /\ c = open /\ source[c] = "quo" /\ ~EscapedAt(source, c, pos)
       /\ \A p \in c + 1 .. pos - 1 : source[p] \in {"quo", "nl"} => EscapedAt(source, c, p)
  /\ mode # "stringEnd"
  /\ mode = "done" => c = Len(source) + 1

Stands(all, c) ==
  /\ Sound(all) /\ LeadsTo(all, c) /\ Within(c)
  /\ mode # "done" => Matches(all, tokens)
  /\ mode = "done" => Places(tokens) = Final(all)

Aligned ==
  /\ failed => ~WellFormed(source)
  /\ ~failed => \E all \in Seq(LexemeT), c \in 1 .. Len(source) + 1 : Stands(all, c)

LEMMA Prepend ==
  ASSUME NEW S, NEW s \in Seq(S), NEW x \in S, NEW r \in Seq(S)
  PROVE  s \o (<<x>> \o r) = Append(s, x) \o r
  <1> DEFINE m == <<x>> \o r
             a == Append(s, x)
             u == s \o m
             v == a \o r
  <1>1. m \in Seq(S) /\ Len(m) = Len(r) + 1 /\ m[1] = x /\ \A k \in 1 .. Len(r) : m[k + 1] = r[k]
    OBVIOUS
  <1>2. a \in Seq(S) /\ Len(a) = Len(s) + 1 /\ a[Len(s) + 1] = x /\ \A k \in 1 .. Len(s) : a[k] = s[k]
    BY AppendIs
  <1>3. Len(s) \in Nat /\ Len(r) \in Nat
    OBVIOUS
  <1> HIDE DEF m, a
  <1>4. /\ u \in Seq(S) /\ Len(u) = Len(s) + Len(m) /\ \A k \in 1 .. Len(s) : u[k] = s[k]
        /\ \A k \in 1 .. Len(m) : u[Len(s) + k] = m[k]
    BY <1>1
  <1>5. /\ v \in Seq(S) /\ Len(v) = Len(a) + Len(r) /\ \A k \in 1 .. Len(a) : v[k] = a[k]
        /\ \A k \in 1 .. Len(r) : v[Len(a) + k] = r[k]
    BY <1>2
  <1> HIDE DEF u, v
  <1>6. Len(u) = Len(v)
    BY <1>1, <1>2, <1>3, <1>4, <1>5
  <1>7. ASSUME NEW k \in 1 .. Len(u)
        PROVE  u[k] = v[k]
    <2>1. CASE k <= Len(s)
      BY <1>2, <1>3, <1>4, <1>5, <2>1
    <2>2. CASE k = Len(s) + 1
      BY <1>1, <1>2, <1>3, <1>4, <1>5, <2>2
    <2>3. CASE k > Len(s) + 1
      <3> DEFINE n == k - (Len(s) + 1)
      <3>1. n \in 1 .. Len(r) /\ k = (Len(s) + 1) + n /\ k = Len(s) + (n + 1) /\ n + 1 \in 1 .. Len(m)
        BY <1>1, <1>3, <1>4, <2>3
      <3> HIDE DEF n
      <3>2. u[k] = m[n + 1] /\ v[k] = r[n] /\ m[n + 1] = r[n]
        BY <1>1, <1>2, <1>4, <1>5, <3>1
      <3>3. QED
        BY <3>2
    <2>4. k \in Int /\ Len(s) \in Int
      BY <1>1, <1>3, <1>4
    <2>5. QED
      BY <2>1, <2>2, <2>3, <2>4
  <1>8. u = v
    BY <1>4, <1>5, <1>6, <1>7
  <1>9. QED
    BY <1>8 DEF u, v, m, a

LEMMA Consume ==
  ASSUME NEW src, Len(src) \in Nat, NEW i \in 1 .. Len(src), NEW all \in Seq(LexemeT),
         Lexemes(src) = all \o After(src)[i], NEW x, x = LexemeAt(src, i)
  PROVE  /\ x \in LexemeT /\ x.last + 1 \in 1 .. Len(src) + 1 /\ Append(all, x) \in Seq(LexemeT)
         /\ Lexemes(src) = Append(all, x) \o After(src)[x.last + 1]
         /\ x.kind \in Bad => ~WellFormed(src)
         /\ Sound(all) /\ x.kind \notin Bad => Sound(Append(all, x))
  <1> DEFINE rest == After(src)[x.last + 1]
  <1>1. x \in LexemeT /\ x.last \in i .. Len(src)
    BY LexemeAtType
  <1>2. x.last + 1 \in 1 .. Len(src) + 1 /\ i \in 1 .. Len(src) + 1 /\ ~(i > Len(src))
    BY <1>1
  <1>3. /\ After(src)[i] = FromHere(After(src), src, i)
        /\ rest \in Seq(LexemeT)
    BY <1>2, AfterIs DEF Partial
  <1>4. After(src)[i] = <<x>> \o rest
    BY <1>2, <1>3 DEF FromHere
  <1> HIDE DEF rest
  <1>5. Append(all, x) \in Seq(LexemeT) /\ Len(all) \in Nat /\ Len(Append(all, x)) = Len(all) + 1
        /\ Append(all, x)[Len(all) + 1] = x /\ \A k \in 1 .. Len(all) : Append(all, x)[k] = all[k]
    BY <1>1, AppendIs
  <1>6. all \o (<<x>> \o rest) = Append(all, x) \o rest
    <2>1. rest \in Seq(LexemeT) /\ x \in LexemeT
      BY <1>1, <1>3
    <2>2. \A y \in LexemeT, r \in Seq(LexemeT) : all \o (<<y>> \o r) = Append(all, y) \o r
      BY Prepend
    <2>3. QED
      BY <2>1, <2>2, Zenon
  <1>7. Lexemes(src) = Append(all, x) \o rest
    BY <1>4, <1>6
  <1>8. Len(all) + 1 \in 1 .. Len(Lexemes(src)) /\ Lexemes(src)[Len(all) + 1] = x
    <2> DEFINE m == Append(all, x)
               n == Len(all)
    <2>1. m \in Seq(LexemeT) /\ n \in Nat /\ Len(m) = n + 1 /\ m[n + 1] = x
      BY <1>5
    <2> HIDE DEF m, n
    <2>2. n + 1 \in 1 .. Len(m \o rest) /\ (m \o rest)[n + 1] = x
      BY <1>3, <2>1
    <2>3. QED
      BY <1>7, <2>2 DEF m, n
  <1>9. x.kind \in Bad => ~WellFormed(src)
    BY <1>8 DEF WellFormed, Bad
  <1>10. Sound(all) /\ x.kind \notin Bad => Sound(Append(all, x))
    <2>1. \A k \in 1 .. Len(all) + 1 : k \in 1 .. Len(all) \/ k = Len(all) + 1
      BY <1>5
    <2>2. QED
      BY <1>5, <2>1 DEF Sound
  <1>11. QED
    BY <1>1, <1>2, <1>5, <1>7, <1>9, <1>10 DEF rest

(* What a step makes of it: a lexeme more, a lexeme that is none, or       *)
(* nothing new.                                                            *)
LEMMA Advance ==
  ASSUME TInv, ~failed, NEW all \in Seq(LexemeT), NEW c \in 1 .. Len(source), Sound(all), LeadsTo(all, c),
         NEW x, x = LexemeAt(source, c), x.kind \notin Bad,
         x \in LexemeT => Matches(Append(all, x), tokens'),
         mode' = "scan", pos' = x.last + 1, UNCHANGED <<source, failed>>
  PROVE  Aligned'
  <1>1. Len(source) \in Nat
    BY DEF TInv, TypeOK
  <1>2. /\ x \in LexemeT /\ x.last + 1 \in 1 .. Len(source) + 1 /\ Append(all, x) \in Seq(LexemeT)
        /\ Lexemes(source) = Append(all, x) \o After(source)[x.last + 1]
        /\ Sound(Append(all, x))
    <2>1. Lexemes(source) = all \o After(source)[c]
      BY DEF LeadsTo
    <2>2. QED
      BY <1>1, <2>1, Consume
  <1> DEFINE more == Append(all, x)
             next == x.last + 1
  <1>3. /\ more \in Seq(LexemeT) /\ next \in 1 .. Len(source) + 1 /\ Sound(more)
        /\ Lexemes(source) = more \o After(source)[next] /\ pos' = next /\ Matches(more, tokens')
    BY <1>2
  <1> HIDE DEF more, next
  <1>4. LeadsTo(more, next)' /\ Within(next)' /\ Matches(more, tokens)' /\ Sound(more)'
    BY <1>3 DEF LeadsTo, Within, Sound
  <1>5. Stands(more, next)'
    BY <1>4 DEF Stands
  <1>6. ~failed' /\ next \in 1 .. Len(source') + 1
    BY <1>3
  <1>7. QED
    BY <1>3, <1>5, <1>6 DEF Aligned

LEMMA Fails ==
  ASSUME TInv, NEW all \in Seq(LexemeT), NEW c \in 1 .. Len(source), LeadsTo(all, c),
         LexemeAt(source, c).kind \in Bad, UNCHANGED source, failed' = TRUE
  PROVE  Aligned'
  <1>1. Len(source) \in Nat
    BY DEF TInv, TypeOK
  <1>2. ~WellFormed(source)
    <2>1. Lexemes(source) = all \o After(source)[c]
      BY DEF LeadsTo
    <2>2. QED
      BY <1>1, <2>1, Consume
  <1>3. QED
    BY <1>2 DEF Aligned

(* The lexeme goes on.                                                     *)
LEMMA GoesOn ==
  ASSUME NEW all \in Seq(LexemeT), NEW c \in 1 .. Len(source) + 1, Sound(all), LeadsTo(all, c), Matches(all, tokens),
         ~failed, UNCHANGED <<source, tokens, failed>>, Within(c)', mode' # "done"
  PROVE  Aligned'
  <1>1. Stands(all, c)'
    BY DEF Stands, LeadsTo, Sound
  <1>2. QED
    BY <1>1 DEF Aligned

LEMMA FailedStays ==
  ASSUME [Next]_vars, failed
  PROVE  UNCHANGED source /\ (failed' = TRUE \/ failed' = failed)
  BY DEF Next, vars, SkipBlank, Newline, ReadNumber, ReadIdent, LineComment, OpenComment, InComment,
     CommentRunsOut, OpenString, InString, InStringEscape, StringBreaks, CloseString, ReadChar, ReadOperator,
     Unexpected, EndOfSource, Read

LEMMA InitAligned == Init => Aligned
  <1> SUFFICES ASSUME Init PROVE Aligned
    OBVIOUS
  <1>1. pos = 1 /\ mode = "scan" /\ tokens = <<>> /\ failed = FALSE
    BY DEF Init
  <1>2. Len(source) \in Nat
    BY InitTInv DEF TInv, TypeOK
  <1>3. <<>> \in Seq(LexemeT) /\ 1 \in 1 .. Len(source) + 1
    BY <1>2
  <1>4. Sound(<<>>) /\ Within(1) /\ Matches(<<>>, tokens)
    BY <1>1, MatchesStart DEF Sound, Within
  <1>5. LeadsTo(<<>>, 1)
    <2>1. After(source)[1] \in Seq(LexemeT) /\ Lexemes(source) = After(source)[1]
      BY <1>2, <1>3, AfterIs DEF Partial
    <2>2. QED
      BY <2>1 DEF LeadsTo
  <1>6. Stands(<<>>, 1)
    BY <1>1, <1>4, <1>5 DEF Stands
  <1>7. QED
    BY <1>1, <1>3, <1>6 DEF Aligned

LEMMA AlignedExact == TInv /\ Aligned => ErrorsExact /\ TokensAreLexemes
  <1> SUFFICES ASSUME TInv, Aligned, Done PROVE ErrorsExact /\ TokensAreLexemes
    BY DEF ErrorsExact, TokensAreLexemes
  <1>1. Len(source) \in Nat
    BY DEF TInv, TypeOK
  <1>2. CASE failed
    BY <1>2 DEF Aligned, ErrorsExact, TokensAreLexemes
  <1>3. CASE ~failed
    <2>1. PICK all \in Seq(LexemeT), c \in 1 .. Len(source) + 1 : Stands(all, c)
      BY <1>3 DEF Aligned
    <2>2. c = Len(source) + 1 /\ Sound(all) /\ LeadsTo(all, c) /\ Places(tokens) = Final(all)
      BY <2>1 DEF Stands, Within, Done
    <2>3. After(source)[c] = <<>>
      <3>1. c > Len(source)
        BY <1>1, <2>2
      <3>2. QED
        BY <1>1, <3>1, AfterIs DEF Partial, FromHere
    <2>4. Lexemes(source) = all
      <3>1. all \o <<>> = all
        OBVIOUS
      <3>2. QED
        BY <2>2, <2>3, <3>1 DEF LeadsTo
    <2>5. WellFormed(source)
      BY <2>2, <2>4 DEF WellFormed, Sound, Bad
    <2>6. Places(tokens) = TokensOf(source)
      BY <2>2, <2>4, TokensOfIs
    <2>7. QED
      BY <1>3, <2>5, <2>6 DEF ErrorsExact, TokensAreLexemes, Places, Place
  <1>4. QED
    BY <1>2, <1>3

-----------------------------------------------------------------------------
(* The actions, one after the other: first those that begin at a lexeme.   *)
LEMMA AtLexeme ==
  ASSUME TInv, Aligned, ~failed, mode = "scan"
  PROVE  \E all \in Seq(LexemeT) : Sound(all) /\ LeadsTo(all, pos) /\ Matches(all, tokens)
  <1>1. PICK all \in Seq(LexemeT), c \in 1 .. Len(source) + 1 : Stands(all, c)
    BY DEF Aligned
  <1>2. QED
    BY <1>1 DEF Stands, Within

LEMMA InTheSource ==
  ASSUME TInv, mode = "scan", At(pos) # "end"
  PROVE  /\ pos \in 1 .. Len(source) /\ At(pos) = source[pos] /\ source \in Seq(Chars)
         /\ tokens \in Seq(TokenT) /\ Len(source) \in Nat
         /\ \A k \in 1 .. Len(source) : At(k) = source[k] /\ source[k] # "end" /\ source[k] \in Chars
  <1>1. TypeOK /\ pos \in Nat \ {0}
    BY DEF TInv, TypeOK
  <1>2. \A k \in 1 .. Len(source) : At(k) = source[k] /\ source[k] # "end" /\ source[k] \in Chars
    BY <1>1, InSource
  <1>3. QED
    BY <1>1, <1>2, InSource DEF TypeOK

LEMMA ReadsOne ==
  ASSUME TInv, Aligned, ~failed, mode = "scan", pos \in 1 .. Len(source),
         NEW kind \in Kinds, NEW to \in pos + 1 .. Len(source) + 1, NEW val \in Seq(Chars),
         LexemeAt(source, pos) = [kind |-> kind, first |-> pos, last |-> to - 1],
         kind # "nl" \/ AfterToken(tokens), Read(kind, to, val), failed' = FALSE
  PROVE  Aligned'
  <1>1. PICK all \in Seq(LexemeT) : Sound(all) /\ LeadsTo(all, pos) /\ Matches(all, tokens)
    BY AtLexeme
  <1> DEFINE t == Token(kind, pos, to, val)
             x == LexemeAt(source, pos)
  <1>2. t \in TokenT /\ t.kind = kind /\ x = Place(t) /\ x.kind = kind /\ x.last = to - 1
        /\ (to - 1) + 1 = to
    BY DEF Token, TokenT, Place, TInv, TypeOK
  <1>3. /\ tokens' = Append(tokens, t) /\ mode' = "scan" /\ pos' = to /\ source' = source
        /\ tokens \in Seq(TokenT)
    BY DEF Read, TInv, TypeOK
  <1> HIDE DEF t, x
  <1>4. x \in LexemeT => Matches(Append(all, x), tokens')
    BY <1>1, <1>2, <1>3, MatchesToken
  <1>5. x.kind \notin Bad
    BY <1>2 DEF Kinds, Bad
  <1>6. failed' = failed
    BY DEF TInv, TypeOK
  <1>7. pos' = x.last + 1
    BY <1>2, <1>3
  <1>8. QED
    BY <1>1, <1>3, <1>4, <1>5, <1>6, <1>7, Advance DEF x

LEMMA PassesOne ==
  ASSUME TInv, ~failed, NEW all \in Seq(LexemeT), NEW c \in 1 .. Len(source),
         Sound(all), LeadsTo(all, c), Matches(all, tokens), NEW to \in c + 1 .. Len(source) + 1, NEW kind,
         LexemeAt(source, c) = [kind |-> kind, first |-> c, last |-> to - 1],
         kind \in {"blank", "comment"} \/ (kind = "nl" /\ ~AfterToken(tokens)),
         pos' = to, mode' = "scan", UNCHANGED <<source, tokens, failed>>
  PROVE  Aligned'
  <1> DEFINE x == LexemeAt(source, c)
  <1>1. x.kind = kind /\ x.last = to - 1 /\ (to - 1) + 1 = to
    BY DEF TInv, TypeOK
  <1>2. tokens \in Seq(TokenT)
    BY DEF TInv, TypeOK
  <1> HIDE DEF x
  <1>3. x \in LexemeT => Matches(Append(all, x), tokens')
    BY <1>1, <1>2, MatchesQuiet
  <1>4. x.kind \notin Bad /\ pos' = x.last + 1
    BY <1>1 DEF Bad
  <1>5. QED
    BY <1>3, <1>4, Advance DEF x

LEMMA SkipBlankAligned == TInv /\ Aligned /\ ~failed /\ SkipBlank => Aligned'
  <1> SUFFICES ASSUME TInv, Aligned, ~failed, SkipBlank PROVE Aligned'
    OBVIOUS
  <1>1. mode = "scan" /\ At(pos) \in Blanks /\ pos' = pos + 1 /\ UNCHANGED <<source, mode, tokens, failed>>
    BY DEF SkipBlank, Scanning
  <1>2. pos \in 1 .. Len(source) /\ source[pos] \in Blanks /\ source \in Seq(Chars) /\ Len(source) \in Nat
    <2>1. At(pos) # "end"
      BY <1>1 DEF Blanks
    <2>2. QED
      BY <1>1, <2>1, InTheSource
  <1>3. LexemeAt(source, pos) = [kind |-> "blank", first |-> pos, last |-> pos]
    BY <1>2, OneCharLexeme
  <1>4. pos + 1 \in pos + 1 .. Len(source) + 1 /\ (pos + 1) - 1 = pos
    BY <1>2
  <1>5. PICK all \in Seq(LexemeT) : Sound(all) /\ LeadsTo(all, pos) /\ Matches(all, tokens)
    BY <1>1, AtLexeme
  <1> DEFINE to == pos + 1
  <1>6. to \in pos + 1 .. Len(source) + 1 /\ to - 1 = pos /\ pos' = to
    BY <1>1, <1>4
  <1> HIDE DEF to
  <1>7. LexemeAt(source, pos) = [kind |-> "blank", first |-> pos, last |-> to - 1]
    BY <1>3, <1>6
  <1>8. QED
    BY <1>1, <1>2, <1>5, <1>6, <1>7, PassesOne

LEMMA NewlineAligned == TInv /\ Aligned /\ ~failed /\ Newline => Aligned'
  <1> SUFFICES ASSUME TInv, Aligned, ~failed, Newline PROVE Aligned'
    OBVIOUS
  <1> DEFINE to == pos + 1
  <1>1. mode = "scan" /\ At(pos) = "nl" /\ failed' = failed /\ failed = FALSE /\ <<>> \in Seq(Chars)
    BY DEF Newline, Scanning, TInv, TypeOK
  <1>2. pos \in 1 .. Len(source) /\ source[pos] = "nl" /\ source \in Seq(Chars) /\ Len(source) \in Nat
    BY <1>1, InTheSource
  <1>3. LexemeAt(source, pos) = [kind |-> "nl", first |-> pos, last |-> pos]
    <2>1. "nl" \notin Blanks
      BY DEF Blanks
    <2>2. QED
      BY <1>2, <2>1, OneCharLexeme
  <1>4. to \in pos + 1 .. Len(source) + 1 /\ to - 1 = pos
    BY <1>2
  <1>5. IF AfterToken(tokens) THEN Read("nl", to, <<>>)
        ELSE pos' = to /\ UNCHANGED <<source, mode, open, text, tokens>>
    BY DEF Newline, AfterToken
  <1> HIDE DEF to
  <1>6. LexemeAt(source, pos) = [kind |-> "nl", first |-> pos, last |-> to - 1]
    BY <1>3, <1>4
  <1>7. CASE AfterToken(tokens)
    <2>1. "nl" \in Kinds /\ Read("nl", to, <<>>)
      BY <1>5, <1>7 DEF Kinds
    <2>2. QED
      BY <1>1, <1>2, <1>4, <1>6, <1>7, <2>1, ReadsOne
  <1>8. CASE ~AfterToken(tokens)
    <2>1. pos' = to /\ UNCHANGED <<source, mode, tokens>>
      BY <1>5, <1>8
    <2>2. PICK all \in Seq(LexemeT) : Sound(all) /\ LeadsTo(all, pos) /\ Matches(all, tokens)
      BY <1>1, AtLexeme
    <2>3. QED
      BY <1>1, <1>2, <1>4, <1>6, <1>8, <2>1, <2>2, PassesOne
  <1>9. QED
    BY <1>7, <1>8

LEMMA ReadIdentAligned == TInv /\ Aligned /\ ~failed /\ ReadIdent => Aligned'
  <1> SUFFICES ASSUME TInv, Aligned, ~failed, ReadIdent PROVE Aligned'
    OBVIOUS
  <1> DEFINE chars == Letters \cup Digits
             to == RunEnd(chars, pos)
  <1>1. mode = "scan" /\ At(pos) \in Letters /\ failed' = FALSE /\ <<>> \in Seq(Chars) /\ Read("ident", to, <<>>)
    BY DEF ReadIdent, Scanning, TInv, TypeOK
  <1>2. At(pos) # "end" /\ "end" \notin chars /\ "ident" \in Kinds
    BY <1>1 DEF Letters, Digits, Kinds
  <1>3. /\ pos \in 1 .. Len(source) /\ source[pos] \in Letters /\ source \in Seq(Chars) /\ Len(source) \in Nat
        /\ \A k \in 1 .. Len(source) : At(k) = source[k]
    BY <1>1, <1>2, InTheSource
  <1>4. /\ to \in pos .. Len(source) + 1 /\ At(to) \notin chars
        /\ \A k \in pos .. to - 1 : source[k] \in chars
    <2>1. TypeOK /\ pos \in 1 .. Len(source) + 1
      BY <1>3 DEF TInv
    <2> HIDE DEF chars
    <2>2. QED
      BY <1>2, <2>1, RunEndIs
  <1> HIDE DEF to
  <1>5. to # pos
    BY <1>1, <1>4
  <1>6. to \in pos + 1 .. Len(source) + 1 /\ (to <= Len(source) => source[to] \notin chars)
    BY <1>3, <1>4, <1>5
  <1>7. LexemeAt(source, pos) = [kind |-> "ident", first |-> pos, last |-> to - 1]
    BY <1>3, <1>4, <1>6, IdentLexeme
  <1>8. QED
    BY <1>1, <1>2, <1>3, <1>6, <1>7, ReadsOne

-----------------------------------------------------------------------------
(* readNumber.                                                             *)
LEMMA AtIs ==
  ASSUME TInv
  PROVE  /\ Len(source) \in Nat /\ source \in Seq(Chars)
         /\ \A k \in Nat \ {0} : /\ k <= Len(source) => At(k) = source[k] /\ At(k) # "end"
                                 /\ k > Len(source) => At(k) = "end"
  <1>1. TypeOK
    BY DEF TInv
  <1>2. Len(source) \in Nat /\ source \in Seq(Chars)
    BY <1>1 DEF TypeOK
  <1>3. \A k \in Nat \ {0} : k <= Len(source) => At(k) = source[k] /\ At(k) # "end"
    <2> SUFFICES ASSUME NEW k \in Nat \ {0}, k <= Len(source) PROVE At(k) = source[k] /\ At(k) # "end"
      OBVIOUS
    <2>1. k \in 1 .. Len(source)
      BY <1>2
    <2>2. QED
      BY <1>1, <2>1, InSource
  <1>4. \A k \in Nat \ {0} : k > Len(source) => At(k) = "end"
    BY <1>2 DEF At
  <1>5. QED
    BY <1>2, <1>3, <1>4

LEMMA RunIs ==
  ASSUME TInv, NEW chars, "end" \notin chars, NEW i \in 1 .. Len(source) + 1
  PROVE  /\ RunEnd(chars, i) \in i .. Len(source) + 1
         /\ Made(source, i, RunEnd(chars, i) - 1, chars)
         /\ RunEnd(chars, i) <= Len(source) => source[RunEnd(chars, i)] \notin chars
         /\ At(i) \in chars => RunEnd(chars, i) > i
  <1> DEFINE to == RunEnd(chars, i)
  <1>1. TypeOK
    BY DEF TInv
  <1>2. to \in i .. Len(source) + 1 /\ At(to) \notin chars /\ \A k \in i .. to - 1 : source[k] \in chars
    BY <1>1, RunEndIs
  <1> HIDE DEF to
  <1>3. /\ Len(source) \in Nat /\ \A k \in Nat \ {0} : k <= Len(source) => At(k) = source[k]
    BY AtIs
  <1>4. to \in Nat \ {0} /\ i \in Nat \ {0}
    BY <1>2, <1>3
  <1>5. to <= Len(source) => source[to] \notin chars
    BY <1>2, <1>3, <1>4
  <1>6. At(i) \in chars => to # i
    BY <1>2
  <1>7. At(i) \in chars => to > i
    BY <1>2, <1>4, <1>6
  <1>8. QED
    BY <1>2, <1>5, <1>7 DEF Made, to

LEMMA NumberLexeme ==
  ASSUME TInv, pos \in 1 .. Len(source), source[pos] \in Digits
  PROVE  /\ LexemeAt(source, pos) = [kind |-> NumberEnd.kind, first |-> pos, last |-> NumberEnd.to - 1]
         /\ NumberEnd.to \in pos + 1 .. Len(source) + 1 /\ NumberEnd.kind \in {"int", "float"}
  <1>1. /\ Len(source) \in Nat /\ source \in Seq(Chars)
        /\ \A k \in Nat \ {0} : /\ k <= Len(source) => At(k) = source[k] /\ At(k) # "end"
                                /\ k > Len(source) => At(k) = "end"
    BY AtIs
  <1>2. pos \in Nat \ {0} /\ At(pos) = source[pos] /\ pos + 1 \in Nat \ {0}
    BY <1>1
  <1>3. "end" \notin Digits /\ "end" \notin HexDigits
    BY DEF Digits, HexDigits
  <1>4. NumberEnd.to \in pos + 1 .. Len(source) + 1 /\ NumberEnd.kind \in {"int", "float"}
    <2>1. TypeOK /\ At(pos) \in Digits
      BY <1>2 DEF TInv
    <2>2. QED
      BY <2>1, NumberEndIs
  <1>5. \A i \in 1 .. Len(source) + 1 :
          /\ RunEnd(Digits, i) \in i .. Len(source) + 1
          /\ Made(source, i, RunEnd(Digits, i) - 1, Digits)
          /\ RunEnd(Digits, i) <= Len(source) => source[RunEnd(Digits, i)] \notin Digits
          /\ At(i) \in Digits => RunEnd(Digits, i) > i
    BY <1>3, RunIs
  <1>6. CASE At(pos) = "0" /\ At(pos + 1) \in {"x", "b"}
    <2> DEFINE base == IF source[pos + 1] = "x" THEN HexDigits ELSE Digits
               to   == RunEnd(base, pos + 2)
    <2>1. pos + 1 <= Len(source) /\ At(pos + 1) = source[pos + 1]
      BY <1>1, <1>2, <1>6
    <2>2. NumberEnd = [kind |-> "int", to |-> to]
      BY <1>6, <2>1 DEF NumberEnd
    <2>3. "end" \notin base /\ pos + 2 \in 1 .. Len(source) + 1
      BY <1>1, <1>2, <1>3, <2>1
    <2> HIDE DEF base
    <2>4. /\ to \in pos + 2 .. Len(source) + 1 /\ Made(source, pos + 2, to - 1, base)
          /\ to <= Len(source) => source[to] \notin base
      BY <2>3, RunIs
    <2> HIDE DEF to
    <2>5. source[pos] = "0" /\ source[pos + 1] \in {"x", "b"} /\ base = IF source[pos + 1] = "x" THEN HexDigits ELSE Digits
      BY <1>2, <1>6, <2>1 DEF base
    <2>6. LexemeAt(source, pos) = [kind |-> "int", first |-> pos, last |-> to - 1]
      BY <1>1, <2>4, <2>5, PrefixedLexeme
    <2>7. QED
      BY <1>4, <2>2, <2>6
  <1>7. CASE ~(At(pos) = "0" /\ At(pos + 1) \in {"x", "b"})
    <2> DEFINE whole    == RunEnd(Digits, pos)
               dotted   == At(whole) = "." /\ At(whole + 1) \in Digits
               fraction == IF dotted THEN RunEnd(Digits, whole + 1) ELSE whole
               sign     == IF At(fraction + 1) \in {"+", "-"} THEN 2 ELSE 1
               exponent == IF At(fraction) # "e" THEN fraction ELSE RunEnd(Digits, fraction + sign)
    <2>1. NumberEnd = [kind |-> IF exponent = whole THEN "int" ELSE "float", to |-> exponent]
      BY <1>7 DEF NumberEnd
    <2>2. /\ whole \in pos + 1 .. Len(source) + 1 /\ Made(source, pos, whole - 1, Digits)
          /\ whole <= Len(source) => source[whole] \notin Digits
      <3>1. pos \in 1 .. Len(source) + 1 /\ At(pos) \in Digits
        BY <1>1, <1>2
      <3>2. /\ whole \in pos .. Len(source) + 1 /\ Made(source, pos, whole - 1, Digits) /\ whole > pos
            /\ whole <= Len(source) => source[whole] \notin Digits
        BY <1>5, <3>1
      <3> HIDE DEF whole
      <3>3. QED
        BY <1>2, <3>2
    <2> HIDE DEF whole
    <2>3. whole \in Nat \ {0} /\ whole + 1 \in Nat \ {0} /\ whole \in whole .. Len(source) + 1
      BY <1>1, <1>2, <2>2
    <2>4. dotted <=> whole + 1 <= Len(source) /\ source[whole] = "." /\ source[whole + 1] \in Digits
      <3>1. whole + 1 <= Len(source) => At(whole + 1) = source[whole + 1] /\ At(whole) = source[whole]
        BY <1>1, <2>3
      <3>2. ~(whole + 1 <= Len(source)) => At(whole + 1) = "end"
        BY <1>1, <2>3
      <3>3. QED
        BY <1>3, <3>1, <3>2
    <2>5. /\ fraction \in whole .. Len(source) + 1
          /\ fraction <= Len(source) => source[fraction] \notin Digits
          /\ IF dotted THEN fraction > whole /\ Made(source, whole + 1, fraction - 1, Digits)
             ELSE fraction = whole
      <3>1. CASE dotted
        <4>1. whole + 1 \in 1 .. Len(source) + 1 /\ At(whole + 1) \in Digits
          BY <1>1, <2>3, <2>4, <3>1
        <4> DEFINE f == RunEnd(Digits, whole + 1)
        <4>2. /\ f \in whole + 1 .. Len(source) + 1 /\ Made(source, whole + 1, f - 1, Digits)
              /\ f <= Len(source) => source[f] \notin Digits
          BY <1>5, <4>1
        <4>3. fraction = f
          BY <3>1
        <4> HIDE DEF f, fraction, dotted
        <4>4. f \in whole .. Len(source) + 1 /\ f > whole
          BY <1>1, <2>3, <4>2
        <4>5. QED
          BY <3>1, <4>2, <4>3, <4>4
      <3>2. CASE ~dotted
        BY <2>2, <2>3, <3>2
      <3>3. QED
        BY <3>1, <3>2
    <2>6. IF whole + 1 <= Len(source) /\ source[whole] = "." /\ source[whole + 1] \in Digits
          THEN fraction > whole /\ Made(source, whole + 1, fraction - 1, Digits) ELSE fraction = whole
      BY <2>4, <2>5
    <2> HIDE DEF dotted, fraction
    <2>7. fraction \in Nat \ {0} /\ fraction + 1 \in Nat \ {0} /\ fraction \in fraction .. Len(source) + 1
      BY <1>1, <2>3, <2>5
    <2>8. At(fraction) = "e" <=> fraction <= Len(source) /\ source[fraction] = "e"
      BY <1>1, <2>7
    <2>9. At(fraction + 1) \in {"+", "-"} <=> fraction + 1 <= Len(source) /\ source[fraction + 1] \in {"+", "-"}
      BY <1>1, <2>7
    <2>10. sign \in 1 .. 2 /\ sign = IF fraction + 1 <= Len(source) /\ source[fraction + 1] \in {"+", "-"} THEN 2 ELSE 1
      BY <2>9
    <2>11. /\ exponent \in fraction .. Len(source) + 1
           /\ IF At(fraction) = "e"
              THEN /\ exponent >= fraction + sign /\ Made(source, fraction + sign, exponent - 1, Digits)
                   /\ exponent <= Len(source) => source[exponent] \notin Digits
              ELSE exponent = fraction
      <3>1. CASE At(fraction) = "e"
        <4>1. fraction + sign \in 1 .. Len(source) + 1
          BY <1>1, <2>7, <2>8, <2>10, <3>1
        <4> DEFINE e == RunEnd(Digits, fraction + sign)
        <4>2. /\ e \in fraction + sign .. Len(source) + 1 /\ Made(source, fraction + sign, e - 1, Digits)
              /\ e <= Len(source) => source[e] \notin Digits
          BY <1>5, <4>1
        <4>3. exponent = e
          BY <3>1
        <4>4. sign \in 1 .. 2
          BY <2>10
        <4> HIDE DEF e, exponent, sign
        <4>5. e \in fraction .. Len(source) + 1 /\ e >= fraction + sign
          BY <1>1, <2>7, <4>2, <4>4
        <4>6. QED
          BY <3>1, <4>2, <4>3, <4>5
      <3>2. CASE At(fraction) # "e"
        BY <2>7, <3>2
      <3>3. QED
        BY <3>1, <3>2
    <2> HIDE DEF sign, exponent
    <2>12. IF fraction <= Len(source) /\ source[fraction] = "e"
           THEN /\ sign = IF fraction + 1 <= Len(source) /\ source[fraction + 1] \in {"+", "-"} THEN 2 ELSE 1
                /\ exponent >= fraction + sign /\ Made(source, fraction + sign, exponent - 1, Digits)
                /\ exponent <= Len(source) => source[exponent] \notin Digits
           ELSE exponent = fraction
      BY <2>8, <2>10, <2>11
    <2>13. ~(source[pos] = "0" /\ pos + 1 <= Len(source) /\ source[pos + 1] \in {"x", "b"})
      BY <1>1, <1>2, <1>7
    <2>14. LexemeAt(source, pos) = [kind |-> IF exponent = whole THEN "int" ELSE "float",
                                    first |-> pos, last |-> exponent - 1]
      BY <1>1, <2>2, <2>5, <2>6, <2>10, <2>11, <2>12, <2>13, DecimalLexeme
    <2>15. QED
      BY <1>4, <2>1, <2>14
  <1>8. QED
    BY <1>6, <1>7

LEMMA ReadNumberAligned == TInv /\ Aligned /\ ~failed /\ ReadNumber => Aligned'
  <1> SUFFICES ASSUME TInv, Aligned, ~failed, ReadNumber PROVE Aligned'
    OBVIOUS
  <1>1. mode = "scan" /\ At(pos) \in Digits /\ failed' = FALSE /\ <<>> \in Seq(Chars)
        /\ Read(NumberEnd.kind, NumberEnd.to, <<>>)
    BY DEF ReadNumber, Scanning, TInv, TypeOK
  <1>2. At(pos) # "end"
    BY <1>1 DEF Digits
  <1>3. pos \in 1 .. Len(source) /\ source[pos] \in Digits
    BY <1>1, <1>2, InTheSource
  <1> DEFINE kind == NumberEnd.kind
             to   == NumberEnd.to
  <1>4. /\ LexemeAt(source, pos) = [kind |-> kind, first |-> pos, last |-> to - 1]
        /\ to \in pos + 1 .. Len(source) + 1 /\ kind \in {"int", "float"}
    BY <1>3, NumberLexeme
  <1>5. kind \in Kinds /\ kind # "nl"
    BY <1>4 DEF Kinds
  <1> HIDE DEF kind, to
  <1>6. Read(kind, to, <<>>)
    BY <1>1 DEF kind, to
  <1>7. QED
    BY <1>1, <1>3, <1>4, <1>5, <1>6, ReadsOne

-----------------------------------------------------------------------------
(* Operators, comments, what is no lexeme, and the end of the source.      *)
LEMMA ReadOperatorAligned == TInv /\ Aligned /\ ~failed /\ ReadOperator => Aligned'
  <1> SUFFICES ASSUME TInv, Aligned, ~failed, ReadOperator PROVE Aligned'
    OBVIOUS
  <1> DEFINE pair == <<At(pos), At(pos + 1)>> \in Pairs
             to   == IF pair THEN pos + 2 ELSE pos + 1
  <1>1. /\ mode = "scan" /\ At(pos) \in Singles \cup {"!"} /\ ~(At(pos) = "/" /\ At(pos + 1) \in {"/", "*"})
        /\ (pair \/ At(pos) # "!") /\ Read("op", to, <<>>) /\ failed' = FALSE /\ <<>> \in Seq(Chars)
    BY DEF ReadOperator, Scanning, TInv, TypeOK
  <1>2. At(pos) # "end" /\ "op" \in Kinds
    BY <1>1 DEF Singles, Kinds
  <1>3. /\ pos \in 1 .. Len(source) /\ At(pos) = source[pos] /\ source \in Seq(Chars) /\ Len(source) \in Nat
        /\ pos \in Nat \ {0} /\ pos + 1 \in Nat \ {0}
    BY <1>1, <1>2, InTheSource
  <1>4. /\ pos + 1 <= Len(source) => At(pos + 1) = source[pos + 1]
        /\ ~(pos + 1 <= Len(source)) => At(pos + 1) = "end"
    BY <1>3, AtIs
  <1>5. <<At(pos), "end">> \notin Pairs
    BY DEF Pairs
  <1>6. pair <=> pos + 1 <= Len(source) /\ <<source[pos], source[pos + 1]>> \in Pairs
    BY <1>3, <1>4, <1>5
  <1>7. pair \in BOOLEAN
    OBVIOUS
  <1>8. to \in pos + 1 .. Len(source) + 1 /\ to - 1 = IF pair THEN pos + 1 ELSE pos
    BY <1>3, <1>6
  <1> HIDE DEF pair
  <1>9. LexemeAt(source, pos) = [kind |-> "op", first |-> pos, last |-> IF pair THEN pos + 1 ELSE pos]
    <2>1. source[pos] = "/" /\ pos + 1 <= Len(source) => source[pos + 1] \notin {"/", "*"}
      BY <1>1, <1>3, <1>4
    <2>2. pair \/ source[pos] # "!"
      BY <1>1, <1>3
    <2>3. source[pos] \in Singles \cup {"!"}
      BY <1>1, <1>3
    <2>4. QED
      BY <1>3, <1>6, <1>7, <2>1, <2>2, <2>3, OperatorLexeme
  <1> HIDE DEF to
  <1>10. LexemeAt(source, pos) = [kind |-> "op", first |-> pos, last |-> to - 1]
    BY <1>8, <1>9
  <1>11. QED
    BY <1>1, <1>2, <1>3, <1>8, <1>10, ReadsOne

LEMMA LineCommentAligned == TInv /\ Aligned /\ ~failed /\ LineComment => Aligned'
  <1> SUFFICES ASSUME TInv, Aligned, ~failed, LineComment PROVE Aligned'
    OBVIOUS
  <1> DEFINE chars == {source[k] : k \in 1 .. Len(source)} \ {"nl"}
             to    == RunEnd(chars, pos)
  <1>1. mode = "scan" /\ At(pos) = "/" /\ At(pos + 1) = "/" /\ pos' = to /\ UNCHANGED <<source, mode, tokens, failed>>
    BY DEF LineComment, Scanning
  <1>2. /\ pos \in 1 .. Len(source) /\ source[pos] = "/" /\ source \in Seq(Chars) /\ Len(source) \in Nat
        /\ pos \in Nat \ {0} /\ pos + 1 \in Nat \ {0} /\ pos \in 1 .. Len(source) + 1
    BY <1>1, InTheSource
  <1>3. /\ pos + 1 <= Len(source) /\ source[pos + 1] = "/"
        /\ \A k \in Nat \ {0} : k <= Len(source) => source[k] # "end"
    BY <1>1, <1>2, AtIs
  <1>4. "end" \notin chars /\ \A k \in 1 .. Len(source) : source[k] \in chars <=> source[k] # "nl"
    BY <1>2, <1>3
  <1> HIDE DEF chars
  <1>5. /\ to \in pos .. Len(source) + 1 /\ Made(source, pos, to - 1, chars)
        /\ to <= Len(source) => source[to] \notin chars
    BY <1>2, <1>4, RunIs
  <1> HIDE DEF to
  <1>6. to \in Nat \ {0}
    BY <1>2, <1>5
  <1>7. to <= Len(source) => source[to] = "nl"
    BY <1>2, <1>4, <1>5, <1>6
  <1>8. to # pos /\ to # pos + 1
    BY <1>2, <1>3, <1>7
  <1>9. to \in pos + 2 .. Len(source) + 1 /\ to \in pos + 1 .. Len(source) + 1
    BY <1>2, <1>5, <1>8
  <1>10. \A k \in pos .. to - 1 : source[k] # "nl"
    <2> SUFFICES ASSUME NEW k \in pos .. to - 1 PROVE source[k] # "nl"
      OBVIOUS
    <2>1. source[k] \in chars
      BY <1>5 DEF Made
    <2>2. k \in 1 .. Len(source)
      BY <1>2, <1>5
    <2>3. QED
      BY <1>4, <2>1, <2>2
  <1>11. LexemeAt(source, pos) = [kind |-> "comment", first |-> pos, last |-> to - 1]
    BY <1>2, <1>3, <1>7, <1>9, <1>10, LineCommentLexeme
  <1>12. PICK all \in Seq(LexemeT) : Sound(all) /\ LeadsTo(all, pos) /\ Matches(all, tokens)
    BY <1>1, AtLexeme
  <1>13. QED
    BY <1>1, <1>2, <1>9, <1>11, <1>12, PassesOne

LEMMA UnexpectedAligned == TInv /\ Aligned /\ ~failed /\ Unexpected => Aligned'
  <1> SUFFICES ASSUME TInv, Aligned, ~failed, Unexpected PROVE Aligned'
    OBVIOUS
  <1>1. /\ mode = "scan" /\ failed' = TRUE /\ UNCHANGED source
        /\ \/ At(pos) = "!" /\ At(pos + 1) # "="
           \/ At(pos) \notin Digits \cup Letters \cup Singles \cup Blanks \cup {"nl", "quo", "apo", "!", "end"}
    BY DEF Unexpected, Stray, Scanning
  <1>2. At(pos) # "end" /\ (At(pos) \notin Starts \/ (At(pos) = "!" /\ At(pos + 1) # "="))
    BY <1>1 DEF Starts
  <1>3. /\ pos \in 1 .. Len(source) /\ At(pos) = source[pos] /\ source \in Seq(Chars) /\ pos + 1 \in Nat \ {0}
        /\ Len(source) \in Nat
    BY <1>1, <1>2, InTheSource
  <1>4. pos + 1 <= Len(source) => At(pos + 1) = source[pos + 1]
    BY <1>3, AtIs
  <1>5. LexemeAt(source, pos) = [kind |-> "none", first |-> pos, last |-> pos]
    BY <1>2, <1>3, <1>4, StrayLexeme
  <1>6. LexemeAt(source, pos).kind \in Bad
    BY <1>5 DEF Bad
  <1>7. PICK all \in Seq(LexemeT) : Sound(all) /\ LeadsTo(all, pos) /\ Matches(all, tokens)
    BY <1>1, AtLexeme
  <1>8. QED
    BY <1>1, <1>3, <1>6, <1>7, Fails

LEMMA EndOfSourceAligned == TInv /\ Aligned /\ ~failed /\ EndOfSource => Aligned'
  <1> SUFFICES ASSUME TInv, Aligned, ~failed, EndOfSource PROVE Aligned'
    OBVIOUS
  <1>1. /\ mode = "scan" /\ At(pos) = "end" /\ mode' = "done" /\ UNCHANGED <<source, pos, failed>>
        /\ tokens' = SubSeq(tokens, 1, SelectLastInSeq(tokens, LAMBDA t : t.kind # "nl"))
    BY DEF EndOfSource, Scanning
  <1>2. PICK all \in Seq(LexemeT) : Sound(all) /\ LeadsTo(all, pos) /\ Matches(all, tokens)
    BY <1>1, AtLexeme
  <1>3. Len(source) \in Nat /\ pos \in 1 .. Len(source) + 1 /\ tokens \in Seq(TokenT) /\ pos \in Nat \ {0}
    BY DEF TInv, TypeOK
  <1>4. pos = Len(source) + 1
    <2>1. ~(pos <= Len(source))
      BY <1>1, <1>3, AtIs
    <2>2. QED
      BY <1>3, <2>1
  <1>5. Places(tokens') = Final(all)
    BY <1>1, <1>2, <1>3, MatchesEnds
  <1>6. Stands(all, pos)'
    <2>1. Sound(all)' /\ LeadsTo(all, pos)'
      BY <1>1, <1>2 DEF Sound, LeadsTo
    <2>2. Within(pos)'
      BY <1>1, <1>4 DEF Within
    <2>3. QED
      BY <1>1, <1>5, <2>1, <2>2 DEF Stands
  <1>7. ~failed' /\ pos' \in 1 .. Len(source') + 1
    BY <1>1, <1>3
  <1>8. QED
    BY <1>2, <1>6, <1>7 DEF Aligned

LEMMA OpenCommentAligned == TInv /\ Aligned /\ ~failed /\ OpenComment => Aligned'
  <1> SUFFICES ASSUME TInv, Aligned, ~failed, OpenComment PROVE Aligned'
    OBVIOUS
  <1>1. mode = "scan" /\ At(pos) = "/" /\ At(pos + 1) = "*" /\ pos' = pos + 2 /\ mode' = "comment"
        /\ UNCHANGED <<source, tokens, failed>>
    BY DEF OpenComment, Scanning
  <1>2. /\ pos \in 1 .. Len(source) /\ source[pos] = "/" /\ Len(source) \in Nat
        /\ pos + 1 \in Nat \ {0}
    BY <1>1, InTheSource
  <1>3. source[pos + 1] = "*"
    <2>1. pos + 1 <= Len(source)
      BY <1>1, <1>2, AtIs
    <2>2. QED
      BY <1>1, <1>2, <2>1, AtIs
  <1>4. PICK all \in Seq(LexemeT) : Sound(all) /\ LeadsTo(all, pos) /\ Matches(all, tokens)
    BY <1>1, AtLexeme
  <1>5. pos \in 1 .. Len(source) + 1
    BY <1>2
  <1>6. \A p \in pos + 2 .. (pos + 2) - 1 : FALSE
    BY <1>2
  <1>7. PICK d \in 1 .. Len(source) + 1 : d = pos
    BY <1>5
  <1>8. Within(d)'
    <2>1. source'[d] = "/" /\ source'[d + 1] = "*" /\ d + 2 <= pos' /\ \A p \in d + 2 .. pos' - 1 : FALSE
      BY <1>1, <1>2, <1>3, <1>6, <1>7
    <2>2. QED
      BY <1>1, <2>1 DEF Within
  <1>9. QED
    BY <1>1, <1>4, <1>7, <1>8, GoesOn

(* In a block comment.                                                     *)
LEMMA InAComment ==
  ASSUME TInv, Aligned, ~failed, mode = "comment"
  PROVE  \E all \in Seq(LexemeT), c \in 1 .. Len(source) :
           /\ Sound(all) /\ LeadsTo(all, c) /\ Matches(all, tokens)
           /\ source[c] = "/" /\ source[c + 1] = "*" /\ c + 2 <= pos /\ c + 1 <= Len(source)
           /\ \A p \in c + 2 .. pos - 1 : p < Len(source) => ~ClosesAt(source, p)
  <1>1. PICK all \in Seq(LexemeT), c \in 1 .. Len(source) + 1 : Stands(all, c)
    BY DEF Aligned
  <1>2. Len(source) \in Nat /\ pos \in 1 .. Len(source) + 1
    BY DEF TInv, TypeOK
  <1>3. /\ Sound(all) /\ LeadsTo(all, c) /\ Matches(all, tokens)
        /\ source[c] = "/" /\ source[c + 1] = "*" /\ c + 2 <= pos
        /\ \A p \in c + 2 .. pos - 1 : p < Len(source) => ~ClosesAt(source, p)
    BY <1>1 DEF Stands, Within
  <1>4. c \in 1 .. Len(source) /\ c + 1 <= Len(source)
    BY <1>2, <1>3
  <1>5. QED
    BY <1>3, <1>4

LEMMA InCommentAligned == TInv /\ Aligned /\ ~failed /\ InComment => Aligned'
  <1> SUFFICES ASSUME TInv, Aligned, ~failed, InComment PROVE Aligned'
    OBVIOUS
  <1>1. mode = "comment" /\ ~(pos > Len(source)) /\ UNCHANGED <<source, tokens, failed>>
    BY DEF InComment, AtEnd
  <1>2. PICK all \in Seq(LexemeT), c \in 1 .. Len(source) :
           /\ Sound(all) /\ LeadsTo(all, c) /\ Matches(all, tokens)
           /\ source[c] = "/" /\ source[c + 1] = "*" /\ c + 2 <= pos /\ c + 1 <= Len(source)
           /\ \A p \in c + 2 .. pos - 1 : p < Len(source) => ~ClosesAt(source, p)
    BY <1>1, InAComment
  <1>3. /\ Len(source) \in Nat /\ source \in Seq(Chars) /\ pos \in Nat \ {0} /\ pos + 1 \in Nat \ {0}
        /\ pos <= Len(source) /\ At(pos) = source[pos]
    BY <1>1, AtIs DEF TInv, TypeOK
  <1>4. /\ pos + 1 <= Len(source) => At(pos + 1) = source[pos + 1]
        /\ ~(pos + 1 <= Len(source)) => At(pos + 1) = "end"
    BY <1>3, AtIs
  <1>5. CASE At(pos) = "*" /\ At(pos + 1) = "/"
    <2> DEFINE to == pos + 2
    <2>1. mode' = "scan" /\ pos' = to
      BY <1>5 DEF InComment
    <2>2. pos + 1 <= Len(source) /\ ClosesAt(source, pos)
      BY <1>3, <1>4, <1>5 DEF ClosesAt
    <2>3. \A p \in c + 2 .. pos - 1 : ~ClosesAt(source, p)
      <3>1. \A p \in c + 2 .. pos - 1 : p < Len(source)
        BY <1>3
      <3>2. QED
        BY <1>2, <3>1
    <2>4. pos \in c + 2 .. Len(source) - 1
      BY <1>2, <1>3, <2>2
    <2>5. LexemeAt(source, c) = [kind |-> "comment", first |-> c, last |-> pos + 1]
      BY <1>2, <1>3, <2>2, <2>3, <2>4, BlockLexeme
    <2>6. to \in c + 1 .. Len(source) + 1 /\ to - 1 = pos + 1
      BY <1>2, <1>3, <2>2
    <2> HIDE DEF to
    <2>7. LexemeAt(source, c) = [kind |-> "comment", first |-> c, last |-> to - 1]
      BY <2>5, <2>6
    <2>8. QED
      BY <1>1, <1>2, <2>1, <2>6, <2>7, PassesOne
  <1>6. CASE ~(At(pos) = "*" /\ At(pos + 1) = "/")
    <2>1. mode' = "comment" /\ pos' = pos + 1
      BY <1>1, <1>6 DEF InComment
    <2>2. pos < Len(source) => ~ClosesAt(source, pos)
      BY <1>3, <1>4, <1>6 DEF ClosesAt
    <2>3. \A p \in c + 2 .. (pos + 1) - 1 : p \in c + 2 .. pos - 1 \/ p = pos
      BY <1>3
    <2>4. \A p \in c + 2 .. (pos + 1) - 1 : p < Len(source) => ~ClosesAt(source, p)
      BY <1>2, <2>2, <2>3
    <2>5. c \in 1 .. Len(source) + 1 /\ c + 2 <= pos + 1
      BY <1>2, <1>3
    <2>6. Within(c)'
      <3>1. source'[c] = "/" /\ source'[c + 1] = "*" /\ c + 2 <= pos'
            /\ \A p \in c + 2 .. pos' - 1 : p < Len(source') => ~ClosesAt(source', p)
        BY <1>1, <1>2, <2>1, <2>4, <2>5, Zenon
      <3>2. QED
        BY <2>1, <3>1 DEF Within
    <2>7. mode' # "done"
      BY <2>1
    <2>8. QED
      BY <1>1, <1>2, <2>5, <2>6, <2>7, GoesOn
  <1>7. QED
    BY <1>5, <1>6

LEMMA CommentRunsOutAligned == TInv /\ Aligned /\ ~failed /\ CommentRunsOut => Aligned'
  <1> SUFFICES ASSUME TInv, Aligned, ~failed, CommentRunsOut PROVE Aligned'
    OBVIOUS
  <1>1. mode = "comment" /\ pos > Len(source) /\ failed' = TRUE /\ UNCHANGED source
    BY DEF CommentRunsOut, AtEnd
  <1>2. PICK all \in Seq(LexemeT), c \in 1 .. Len(source) :
           /\ Sound(all) /\ LeadsTo(all, c) /\ Matches(all, tokens)
           /\ source[c] = "/" /\ source[c + 1] = "*" /\ c + 2 <= pos /\ c + 1 <= Len(source)
           /\ \A p \in c + 2 .. pos - 1 : p < Len(source) => ~ClosesAt(source, p)
    BY <1>1, InAComment
  <1>3. Len(source) \in Nat /\ source \in Seq(Chars) /\ pos = Len(source) + 1
    BY <1>1 DEF TInv, TypeOK
  <1>4. \A p \in c + 2 .. Len(source) - 1 : p \in c + 2 .. pos - 1 /\ p < Len(source)
    BY <1>3
  <1>5. \A p \in c + 2 .. Len(source) - 1 : ~ClosesAt(source, p)
    BY <1>2, <1>4
  <1>6. LexemeAt(source, c) = [kind |-> "unclosed", first |-> c, last |-> Len(source)]
    BY <1>2, <1>3, <1>5, UnclosedLexeme
  <1>7. LexemeAt(source, c).kind \in Bad
    BY <1>6 DEF Bad
  <1>8. QED
    BY <1>1, <1>2, <1>7, Fails

-----------------------------------------------------------------------------
(* Strings and character literals.                                         *)
LEMMA InAString ==
  ASSUME TInv, Aligned, ~failed, mode = "string"
  PROVE  \E all \in Seq(LexemeT) :
           /\ Sound(all) /\ LeadsTo(all, open) /\ Matches(all, tokens)
           /\ open \in 1 .. Len(source) /\ pos \in open + 1 .. Len(source) + 1 /\ pos \in Nat \ {0}
           /\ Len(source) \in Nat /\ source \in Seq(Chars) /\ tokens \in Seq(TokenT)
           /\ source[open] = "quo" /\ ~EscapedAt(source, open, pos)
           /\ \A p \in open + 1 .. pos - 1 : source[p] \in {"quo", "nl"} => EscapedAt(source, open, p)
  <1>1. PICK all \in Seq(LexemeT), c \in 1 .. Len(source) + 1 : Stands(all, c)
    BY DEF Aligned
  <1>2. /\ Len(source) \in Nat /\ pos \in 1 .. Len(source) + 1 /\ open \in 1 .. pos - 1
        /\ source \in Seq(Chars) /\ tokens \in Seq(TokenT)
    BY DEF TInv, TypeOK
  <1>3. open \in 1 .. Len(source) /\ pos \in open + 1 .. Len(source) + 1 /\ pos \in Nat \ {0}
    BY <1>2
  <1>4. QED
    BY <1>1, <1>2, <1>3 DEF Stands, Within

LEMMA OpenStringAligned == TInv /\ Aligned /\ ~failed /\ OpenString => Aligned'
  <1> SUFFICES ASSUME TInv, Aligned, ~failed, OpenString PROVE Aligned'
    OBVIOUS
  <1>1. mode = "scan" /\ At(pos) = "quo" /\ pos' = pos + 1 /\ open' = pos /\ mode' = "string"
        /\ UNCHANGED <<source, tokens, failed>>
    BY DEF OpenString, Scanning
  <1>2. pos \in 1 .. Len(source) /\ source[pos] = "quo" /\ Len(source) \in Nat
    BY <1>1, InTheSource
  <1>3. PICK all \in Seq(LexemeT) : Sound(all) /\ LeadsTo(all, pos) /\ Matches(all, tokens)
    BY <1>1, AtLexeme
  <1>4. PICK c \in 1 .. Len(source) + 1 : c = pos
    BY <1>2
  <1>5. ~EscapedAt(source, c, c + 1)
    <2>1. (c + 1) - c = 1
      BY <1>2
    <2>2. QED
      BY <2>1, EscapedNext DEF EscapedAt
  <1>6. \A p \in c + 1 .. (c + 1) - 1 : FALSE
    BY <1>2
  <1>7. Within(c)'
    <2>1. c = open' /\ source'[c] = "quo" /\ ~EscapedAt(source', c, pos')
          /\ \A p \in c + 1 .. pos' - 1 : FALSE
      BY <1>1, <1>2, <1>4, <1>5, <1>6
    <2>2. QED
      BY <1>1, <2>1 DEF Within
  <1>8. mode' # "done"
    BY <1>1
  <1>9. QED
    BY <1>1, <1>3, <1>4, <1>7, <1>8, GoesOn

(* The string goes on, to the position to.                                 *)
LEMMA StringGoesOn ==
  ASSUME TInv, Aligned, ~failed, mode = "string", NEW to,
         NEW all \in Seq(LexemeT), Sound(all), LeadsTo(all, open), Matches(all, tokens), open \in 1 .. Len(source),
         Len(source) \in Nat, source[open] = "quo", ~EscapedAt(source, open, to),
         \A p \in open + 1 .. to - 1 : source[p] \in {"quo", "nl"} => EscapedAt(source, open, p),
         pos' = to, UNCHANGED <<source, mode, open, tokens, failed>>
  PROVE  Aligned'
  <1>1. PICK c \in 1 .. Len(source) + 1 : c = open
    OBVIOUS
  <1>2. c = open' /\ source'[c] = "quo" /\ ~EscapedAt(source', c, pos')
        /\ \A p \in c + 1 .. pos' - 1 : source'[p] \in {"quo", "nl"} => EscapedAt(source', c, p)
    BY <1>1, Zenon
  <1>3. mode' # "done"
    OBVIOUS
  <1>4. Within(c)'
    BY <1>2 DEF Within
  <1>5. QED
    BY <1>1, <1>3, <1>4, GoesOn

LEMMA InStringAligned == TInv /\ Aligned /\ ~failed /\ InString => Aligned'
  <1> SUFFICES ASSUME TInv, Aligned, ~failed, InString PROVE Aligned'
    OBVIOUS
  <1>1. mode = "string" /\ ~(pos > Len(source)) /\ At(pos) \notin {"quo", "bs", "nl"}
        /\ pos' = pos + 1 /\ UNCHANGED <<source, mode, open, tokens, failed>>
    BY DEF InString, AtEnd
  <1>2. PICK all \in Seq(LexemeT) :
           /\ Sound(all) /\ LeadsTo(all, open) /\ Matches(all, tokens)
           /\ open \in 1 .. Len(source) /\ pos \in open + 1 .. Len(source) + 1 /\ pos \in Nat \ {0}
           /\ Len(source) \in Nat /\ source \in Seq(Chars) /\ tokens \in Seq(TokenT)
           /\ source[open] = "quo" /\ ~EscapedAt(source, open, pos)
           /\ \A p \in open + 1 .. pos - 1 : source[p] \in {"quo", "nl"} => EscapedAt(source, open, p)
    BY <1>1, InAString
  <1>3. At(pos) = source[pos] /\ pos \in open + 1 .. Len(source)
    BY <1>1, <1>2, AtIs
  <1>4. ~EscapedAt(source, open, pos + 1)
    BY <1>1, <1>2, <1>3, EscapedAtNext
  <1>5. \A p \in open + 1 .. (pos + 1) - 1 : p \in open + 1 .. pos - 1 \/ p = pos
    BY <1>2
  <1>6. \A p \in open + 1 .. (pos + 1) - 1 : source[p] \in {"quo", "nl"} => EscapedAt(source, open, p)
    BY <1>1, <1>2, <1>3, <1>5
  <1>7. QED
    BY <1>1, <1>2, <1>4, <1>6, StringGoesOn

LEMMA InStringEscapeAligned == TInv /\ Aligned /\ ~failed /\ InStringEscape => Aligned'
  <1> SUFFICES ASSUME TInv, Aligned, ~failed, InStringEscape PROVE Aligned'
    OBVIOUS
  <1>1. mode = "string" /\ At(pos) = "bs" /\ pos < Len(source)
        /\ pos' = pos + 2 /\ UNCHANGED <<source, mode, open, tokens, failed>>
    BY DEF InStringEscape
  <1>2. PICK all \in Seq(LexemeT) :
           /\ Sound(all) /\ LeadsTo(all, open) /\ Matches(all, tokens)
           /\ open \in 1 .. Len(source) /\ pos \in open + 1 .. Len(source) + 1 /\ pos \in Nat \ {0}
           /\ Len(source) \in Nat /\ source \in Seq(Chars) /\ tokens \in Seq(TokenT)
           /\ source[open] = "quo" /\ ~EscapedAt(source, open, pos)
           /\ \A p \in open + 1 .. pos - 1 : source[p] \in {"quo", "nl"} => EscapedAt(source, open, p)
    BY <1>1, InAString
  <1>3. source[pos] = "bs" /\ pos \in open + 1 .. Len(source) /\ pos + 1 \in open + 1 .. Len(source)
        /\ (pos + 1) + 1 = pos + 2
    BY <1>1, <1>2, AtIs
  <1>4. EscapedAt(source, open, pos + 1)
    BY <1>2, <1>3, EscapedAtNext
  <1> DEFINE next == pos + 1
  <1>5. next \in open + 1 .. Len(source) /\ EscapedAt(source, open, next) /\ next + 1 = pos + 2
    BY <1>3, <1>4
  <1> HIDE DEF next
  <1>6. ~EscapedAt(source, open, next + 1)
    BY <1>2, <1>5, EscapedAtNext
  <1>7. \A p \in open + 1 .. (pos + 2) - 1 : p \in open + 1 .. pos - 1 \/ p = pos \/ p = next
    BY <1>2 DEF next
  <1>8. \A p \in open + 1 .. (pos + 2) - 1 : source[p] \in {"quo", "nl"} => EscapedAt(source, open, p)
    BY <1>2, <1>3, <1>5, <1>7
  <1>9. ~EscapedAt(source, open, pos + 2)
    BY <1>5, <1>6
  <1>10. QED
    BY <1>1, <1>2, <1>8, <1>9, StringGoesOn

LEMMA StringBreaksAligned == TInv /\ Aligned /\ ~failed /\ StringBreaks => Aligned'
  <1> SUFFICES ASSUME TInv, Aligned, ~failed, StringBreaks PROVE Aligned'
    OBVIOUS
  <1>1. mode = "string" /\ (At(pos) = "nl" \/ (At(pos) = "bs" /\ pos = Len(source)))
        /\ failed' = TRUE /\ UNCHANGED source
    BY DEF StringBreaks
  <1>2. PICK all \in Seq(LexemeT) :
           /\ Sound(all) /\ LeadsTo(all, open) /\ Matches(all, tokens)
           /\ open \in 1 .. Len(source) /\ pos \in open + 1 .. Len(source) + 1 /\ pos \in Nat \ {0}
           /\ Len(source) \in Nat /\ source \in Seq(Chars) /\ tokens \in Seq(TokenT)
           /\ source[open] = "quo" /\ ~EscapedAt(source, open, pos)
           /\ \A p \in open + 1 .. pos - 1 : source[p] \in {"quo", "nl"} => EscapedAt(source, open, p)
    BY <1>1, InAString
  <1>3. pos <= Len(source) => source[pos] = "nl" \/ (source[pos] = "bs" /\ pos = Len(source))
    BY <1>1, <1>2, AtIs
  <1>4. LexemeAt(source, open) = [kind |-> "none", first |-> open, last |-> open]
    BY <1>2, <1>3, BrokenLexeme
  <1>5. LexemeAt(source, open).kind \in Bad
    BY <1>4 DEF Bad
  <1>6. QED
    BY <1>1, <1>2, <1>5, Fails

LEMMA CloseStringAligned == TInv /\ Aligned /\ ~failed /\ CloseString => Aligned'
  <1> SUFFICES ASSUME TInv, Aligned, ~failed, CloseString PROVE Aligned'
    OBVIOUS
  <1>1. mode = "string"
    BY DEF CloseString, Aligned, Stands, Within
  <1>2. PICK all \in Seq(LexemeT) :
           /\ Sound(all) /\ LeadsTo(all, open) /\ Matches(all, tokens)
           /\ open \in 1 .. Len(source) /\ pos \in open + 1 .. Len(source) + 1 /\ pos \in Nat \ {0}
           /\ Len(source) \in Nat /\ source \in Seq(Chars) /\ tokens \in Seq(TokenT)
           /\ source[open] = "quo" /\ ~EscapedAt(source, open, pos)
           /\ \A p \in open + 1 .. pos - 1 : source[p] \in {"quo", "nl"} => EscapedAt(source, open, p)
    BY <1>1, InAString
  <1>3. At(pos) \in {"quo", "end"} /\ source' = source /\ mode' = "scan"
        /\ pos' = (IF pos > Len(source) THEN pos ELSE pos + 1)
        /\ failed' = (failed \/ pos > Len(source)) /\ tokens' = Append(tokens, Token("string", open, pos', text))
    BY <1>1 DEF CloseString, AtEnd
  <1>4. CASE At(pos) = "quo"
    <2>1. pos \in open + 1 .. Len(source) /\ source[pos] = "quo" /\ ~(pos > Len(source))
      BY <1>2, <1>4, AtIs
    <2> DEFINE to == pos + 1
               t  == Token("string", open, to, text)
               x  == LexemeAt(source, open)
    <2>2. LexemeAt(source, open) = [kind |-> "string", first |-> open, last |-> pos]
      BY <1>2, <2>1, StringLexeme
    <2>3. t \in TokenT /\ t.kind = "string"
      <3>1. text \in Seq(Chars) /\ open \in Nat \ {0} /\ to - 1 = pos /\ pos \in Nat
        BY <1>2 DEF TInv, TypeOK
      <3>2. QED
        BY <3>1 DEF Token, TokenT, Kinds
    <2>4. x = Place(t) /\ x.kind = "string" /\ x.last + 1 = to
      <3>1. to - 1 = pos
        BY <1>2
      <3>2. QED
        BY <2>2, <3>1 DEF Token, Place
    <2>5. tokens' = Append(tokens, t) /\ pos' = to /\ (failed' <=> FALSE) /\ failed' \in BOOLEAN
      BY <1>3, <2>1
    <2> HIDE DEF to, t, x
    <2>6. x \in LexemeT => Matches(Append(all, x), tokens')
      BY <1>2, <2>3, <2>4, <2>5, MatchesToken
    <2>7. x.kind \notin Bad /\ pos' = x.last + 1
      BY <2>4, <2>5 DEF Bad
    <2>8. failed' = failed
      BY <2>5 DEF TInv, TypeOK
    <2>9. QED
      BY <1>2, <1>3, <2>6, <2>7, <2>8, Advance DEF x
  <1>5. CASE At(pos) = "end"
    <2>1. ~(pos <= Len(source))
      BY <1>2, <1>5, AtIs
    <2>2. LexemeAt(source, open) = [kind |-> "none", first |-> open, last |-> open]
      BY <1>2, <2>1, BrokenLexeme
    <2>3. LexemeAt(source, open).kind \in Bad
      BY <2>2 DEF Bad
    <2>4. pos > Len(source)
      BY <1>2, <2>1
    <2>5. failed' = TRUE
      BY <1>3, <2>4
    <2>6. QED
      BY <1>2, <1>3, <2>3, <2>5, Fails
  <1>6. QED
    BY <1>3, <1>4, <1>5

LEMMA ReadCharAligned == TInv /\ Aligned /\ ~failed /\ ReadChar => Aligned'
  <1> SUFFICES ASSUME TInv, Aligned, ~failed, ReadChar PROVE Aligned'
    OBVIOUS
  <1> DEFINE p == CharBody.to
  <1>1. /\ mode = "scan" /\ At(pos) = "apo" /\ Scanning({"apo"})
        /\ Read("char", IF At(p) = "apo" THEN p + 1 ELSE p, CharBody.text)
        /\ failed' = (failed \/ At(p) # "apo") /\ source' = source
    BY DEF ReadChar, Scanning, Read
  <1>2. /\ pos \in 1 .. Len(source) /\ source[pos] = "apo" /\ source \in Seq(Chars) /\ Len(source) \in Nat
        /\ pos \in Nat \ {0} /\ pos + 1 \in Nat \ {0} /\ pos + 2 \in Nat \ {0}
    BY <1>1, InTheSource
  <1>3. PICK all \in Seq(LexemeT) : Sound(all) /\ LeadsTo(all, pos) /\ Matches(all, tokens)
    BY <1>1, AtLexeme
  <1>4. /\ p \in pos + 1 .. Len(source) + 1 /\ CharBody.text \in Seq(Chars)
    BY <1>1, CharBodyIs
  <1>5. LET c == At(pos + 1) IN
        p = IF c \in {"apo", "end"} THEN pos + 1
            ELSE IF c = "bs" /\ At(pos + 2) # "end" THEN pos + 3 ELSE pos + 2
    BY DEF CharBody
  <1>6. \A k \in Nat \ {0} : /\ k <= Len(source) => At(k) = source[k] /\ At(k) # "end"
                             /\ k > Len(source) => At(k) = "end"
    BY AtIs
  <1>7. p \in Nat \ {0}
    BY <1>2, <1>4
  <1> HIDE DEF p
  <1>8. CASE At(p) = "apo"
    <2> DEFINE to == p + 1
    <2>1. p <= Len(source) /\ source[p] = "apo"
      BY <1>2, <1>4, <1>6, <1>7, <1>8
    <2>2. p \in pos + 1 .. Len(source)
      BY <1>2, <1>4, <2>1
    <2>3. pos + 1 <= Len(source) /\ At(pos + 1) = source[pos + 1]
      BY <1>2, <1>6, <2>2
    <2>4. IsCharAt(source, pos, p)
      BY <1>2, <1>5, <2>1, <2>2, <2>3, <1>6 DEF IsCharAt
    <2>5. LexemeAt(source, pos) = [kind |-> "char", first |-> pos, last |-> p]
      BY <1>2, <2>2, <2>4, CharLexeme
    <2>6. to \in pos + 1 .. Len(source) + 1 /\ to - 1 = p /\ "char" \in Kinds
      BY <1>2, <2>2 DEF Kinds
    <2>7. Read("char", to, CharBody.text)
      BY <1>1, <1>8
    <2>8. failed' = FALSE
      BY <1>1, <1>8
    <2> HIDE DEF to
    <2>9. LexemeAt(source, pos) = [kind |-> "char", first |-> pos, last |-> to - 1]
      BY <2>5, <2>6
    <2>10. QED
      BY <1>1, <1>2, <1>4, <2>6, <2>7, <2>8, <2>9, ReadsOne
  <1>9. CASE At(p) # "apo"
    <2>1. ASSUME NEW m \in pos + 1 .. Len(source), IsCharAt(source, pos, m)
          PROVE  FALSE
      <3>1. /\ source[m] = "apo" /\ m \in Nat \ {0} /\ m <= Len(source) /\ pos + 1 <= Len(source)
            /\ \/ m = pos + 1
               \/ m = pos + 2 /\ source[pos + 1] \notin {"apo", "bs"}
               \/ m = pos + 3 /\ source[pos + 1] = "bs"
        BY <1>2, <2>1 DEF IsCharAt
      <3>2. At(m) = "apo" /\ At(pos + 1) = source[pos + 1] /\ At(pos + 1) # "end"
        BY <1>2, <1>6, <3>1
      <3>3. m = pos + 3 => At(pos + 2) # "end"
        BY <1>2, <1>6, <3>1
      <3>4. m = p
        BY <1>5, <3>1, <3>2, <3>3
      <3>5. QED
        BY <1>9, <3>2, <3>4
    <2>2. LexemeAt(source, pos) = [kind |-> "none", first |-> pos, last |-> pos]
      BY <1>2, <2>1, NoCharLexeme
    <2>3. LexemeAt(source, pos).kind \in Bad
      BY <2>2 DEF Bad
    <2>4. failed' = TRUE
      BY <1>1, <1>9
    <2>5. QED
      BY <1>1, <1>2, <1>3, <2>3, <2>4, Fails
  <1>10. QED
    BY <1>8, <1>9

LEMMA NextAligned == TInv /\ Aligned /\ [Next]_vars => Aligned'
  <1> SUFFICES ASSUME TInv, Aligned, [Next]_vars PROVE Aligned'
    OBVIOUS
  <1>1. CASE failed
    BY <1>1, FailedStays DEF Aligned, TInv, TypeOK
  <1>2. CASE ~failed /\ Next
    BY <1>2, SkipBlankAligned, NewlineAligned, ReadNumberAligned, ReadIdentAligned, LineCommentAligned,
       OpenCommentAligned, InCommentAligned, CommentRunsOutAligned, OpenStringAligned, InStringAligned,
       InStringEscapeAligned, StringBreaksAligned, CloseStringAligned, ReadCharAligned,
       ReadOperatorAligned, UnexpectedAligned, EndOfSourceAligned DEF Next
  <1>3. CASE UNCHANGED vars
    <2>1. UNCHANGED <<source, pos, mode, open, text, tokens, failed>>
      BY <1>3 DEF vars
    <2>2. Aligned' <=> Aligned
      BY <2>1 DEF Aligned, Stands, Sound, LeadsTo, Within
    <2>3. QED
      BY <2>2
  <1>4. QED
    BY <1>1, <1>2, <1>3

LEMMA AlwaysAligned == Spec => [](TInv /\ Aligned)
  <1>1. Init => TInv /\ Aligned
    BY InitTInv, InitAligned
  <1>2. TInv /\ Aligned /\ [Next]_vars => TInv' /\ Aligned'
    BY NextTInv, NextAligned
  <1>3. QED
    BY <1>1, <1>2, PTL DEF Spec

-----------------------------------------------------------------------------
(* tokenize stays within its source: m_pos is never more than one past the *)
(* last character, an open string begins before it, and what a token keeps *)
(* is two positions and a text of known characters.                        *)
THEOREM LexerTypeCorrect == Spec => []TypeOK
  <1>1. TInv => TypeOK
    BY DEF TInv
  <1>2. QED
    BY <1>1, AlwaysTInv, PTL

(* A string or character literal of any length, in a source without errors *)
(* and outside trigraphs, becomes a literal of C with the meaning it had:  *)
(* what readString and readChar decode is what visitStringLitExpr and      *)
(* visitCharLitExpr encode, and a C compiler reads again.                  *)
THEOREM LiteralsAlwaysSurvive == Spec => []LiteralsSurvive
  BY AlwaysTInv, InvSurvives, PTL

(* tokenize reports an error exactly when its source, of any length and    *)
(* any characters, is not made of lexemes.                                 *)
THEOREM ErrorsAlwaysExact == Spec => []ErrorsExact
  BY AlwaysAligned, AlignedExact, PTL

(* The tokens tokenize returns for a source without errors are its lexemes *)
(* by longest match, whatever its length: a reader that went by runs of    *)
(* characters, with no look back, has cut where a definition by sets of    *)
(* strings cuts.                                                           *)
THEOREM TokensAreTheLexemes == Spec => []TokensAreLexemes
  BY AlwaysAligned, AlignedExact, PTL
=============================================================================
