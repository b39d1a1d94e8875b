------------------------------ MODULE SemaProofs ------------------------------
(***************************************************************************)
(* Theorems about the analyser's types and scopes.                         *)
(*                                                                         *)
(* TypeFlow, for every set of types, however deep, and any number of       *)
(* operands and variables.  That a name loses the parameters of a type is  *)
(* harmless because what inferExprType finds under a name is the type      *)
(* itself or nothing: Known says so of operands and of symbols, and the    *)
(* three properties follow from it.                                        *)
(*                                                                         *)
(* ScopeStack, for every set of names and symbols and every bound on the   *)
(* depth.                                                                  *)
(***************************************************************************)
EXTENDS TypeFlow, ScopeStack, TLAPS

-----------------------------------------------------------------------------
(* The types.                                                              *)
Word  == DOMAIN CWord \cup {"any"}
Types == {t \in Seq(Word) : t # <<>> /\ t[Len(t)] # "array"}

(* What the registry finds is the type, or nothing.                        *)
Known(t, is) == is = Any \/ Lookup(t) \in {NoType, is}

GoodOperands ==
  {e \in [is : Types, resolved : Seq(Word), ir : Seq(Word), added : BOOLEAN] :
     /\ Known(e.resolved, e.is)
     /\ ~e.added => Approximates(e.ir, e.is)}

GoodVariable(v) ==
  /\ v.is \in Types /\ v.symbol \in Seq(Word) /\ v.ir \in Seq(Word) /\ v.added \in BOOLEAN
  /\ Known(v.symbol, v.is)
  /\ ~v.added => Approximates(v.ir, v.is)
  /\ v.untyped /\ v.symbol # NoType /\ v.is # Any => v.c = Held(v.region, CType(v.is))
GoodVariables(vs) ==
  /\ vs \in Seq({vs[k] : k \in DOMAIN vs})
  /\ \A k \in DOMAIN vs : GoodVariable(vs[k])

(* The inductive invariant.                                                *)
FInv ==
  /\ operands \in Seq(GoodOperands)
  /\ GoodVariables(variables)
  /\ falseAlarm = FALSE

-----------------------------------------------------------------------------
(* Sequences of words.                                                     *)
LEMMA WordsAre ==
  {"any", "unknown", "struct", "bool", "int", "ref", "ptr", "array"} \subseteq Word
  BY DEF Word, CWord

LEMMA SingleIs ==
  ASSUME NEW S, NEW w \in S
  PROVE  <<w>> \in Seq(S) /\ <<w>> # <<>> /\ Len(<<w>>) = 1 /\ <<w>>[1] = w
  OBVIOUS

LEMMA Single ==
  ASSUME NEW w \in Word
  PROVE  /\ <<w>> \in Seq(Word) /\ <<w>> # <<>> /\ Len(<<w>>) = 1 /\ <<w>>[1] = w
         /\ w # "array" => <<w>> \in Types
         /\ \A v : v # w => <<v>> # <<w>>
  <1>1. <<w>> \in Seq(Word) /\ <<w>> # <<>> /\ Len(<<w>>) = 1 /\ <<w>>[1] = w
    BY SingleIs, Zenon
  <1>2. w # "array" => <<w>> \in Types
    <2>1. <<w>>[Len(<<w>>)] = w
      BY <1>1
    <2>2. QED
      BY <1>1, <2>1, Zenon DEF Types
  <1>3. \A v : v # w => <<v>> # <<w>>
    OBVIOUS
  <1>4. QED
    BY <1>1, <1>2, <1>3

LEMMA Cons ==
  ASSUME NEW S, NEW w \in S, NEW t \in Seq(S)
  PROVE  /\ <<w>> \o t \in Seq(S) /\ Len(<<w>> \o t) = Len(t) + 1 /\ Len(t) \in Nat
         /\ <<w>> \o t # <<>>
         /\ (<<w>> \o t)[1] = w /\ \A k \in 1 .. Len(t) : (<<w>> \o t)[k + 1] = t[k]
  OBVIOUS

LEMMA Uncons ==
  ASSUME NEW S, NEW t \in Seq(S), t # <<>>
  PROVE  /\ Tail(t) \in Seq(S) /\ Len(Tail(t)) = Len(t) - 1 /\ Len(t) \in Nat \ {0}
         /\ \A k \in 1 .. Len(t) - 1 : Tail(t)[k] = t[k + 1]
  OBVIOUS

LEMMA Prefix ==
  ASSUME NEW S, NEW t \in Seq(S), NEW n \in 0 .. Len(t)
  PROVE  /\ SubSeq(t, 1, n) \in Seq(S) /\ Len(SubSeq(t, 1, n)) = n
         /\ \A k \in 1 .. n : SubSeq(t, 1, n)[k] = t[k]
  OBVIOUS

LEMMA SamePrefix ==
  ASSUME NEW S, NEW s \in Seq(S), NEW t \in Seq(S), NEW n \in Nat, n <= Len(s), n <= Len(t)
  PROVE  SubSeq(s, 1, n) = SubSeq(t, 1, n) <=> \A k \in 1 .. n : s[k] = t[k]
  <1>1. n \in 0 .. Len(s) /\ n \in 0 .. Len(t)
    OBVIOUS
  <1> DEFINE a == SubSeq(s, 1, n)
             b == SubSeq(t, 1, n)
  <1>2. /\ a \in Seq(S) /\ Len(a) = n /\ \A k \in 1 .. n : a[k] = s[k]
        /\ b \in Seq(S) /\ Len(b) = n /\ \A k \in 1 .. n : b[k] = t[k]
    BY <1>1, Prefix
  <1> HIDE DEF a, b
  <1>3. a = b <=> \A k \in 1 .. n : a[k] = b[k]
    BY <1>2
  <1>4. a = b <=> \A k \in 1 .. n : s[k] = t[k]
    BY <1>2, <1>3
  <1>5. QED
    BY <1>4 DEF a, b

-----------------------------------------------------------------------------
(* Types: what a type, a name and a look-up are.                           *)
LEMMA Words ==
  /\ NoType \in Seq(Word) /\ Any \in Types /\ Unknown \in Types /\ <<"struct">> \in Types
  /\ <<"bool">> \in Types /\ <<"int">> \in Types
  /\ Lookup(NoType) = NoType /\ Lookup(Unknown) = NoType
  /\ Any # Unknown /\ Any # <<"struct">> /\ Any # NoType /\ Unknown # NoType
  <1>1. NoType \in Seq(Word)
    BY DEF NoType
  <1>2. /\ Any \in Types /\ Unknown \in Types /\ <<"struct">> \in Types
        /\ <<"bool">> \in Types /\ <<"int">> \in Types
    BY WordsAre, Single DEF Any, Unknown
  <1>3. Any # Unknown /\ Any # <<"struct">> /\ Any # NoType /\ Unknown # NoType
    BY WordsAre, Single DEF Any, Unknown, NoType
  <1>4. Unknown[1] = "unknown"
    BY WordsAre, Single DEF Unknown
  <1>5. QED
    BY <1>1, <1>2, <1>3, <1>4 DEF Lookup

LEMMA NotEmpty ==
  ASSUME NEW t \in Types
  PROVE  t \in Seq(Word) /\ t # NoType /\ Len(t) \in Nat \ {0} /\ t[Len(t)] # "array"
  BY DEF Types, NoType

LEMMA LookupIs ==
  ASSUME NEW t
  PROVE  /\ Lookup(t) \in {NoType, t}
         /\ Lookup(Lookup(t)) = Lookup(t)
         /\ Lookup(t) # NoType => t[1] \notin Pointers \cup {"array", "unknown"} /\ t # NoType
  BY DEF Lookup

LEMMA NameIs ==
  ASSUME NEW t \in Seq(Word)
  PROVE  Name(t) \in Seq(Word) /\ Lookup(Name(t)) = Lookup(t)
  BY Words, NotEmpty DEF Name

LEMMA ResolvedIs ==
  ASSUME NEW te \in Types
  PROVE  Resolve(te) \in Types
  <1> DEFINE r == Resolve(te)
  <1>1. PICK n \in Nat \ {0} : n = Len(te)
    BY NotEmpty
  <1>2. DOMAIN te = 1 .. n /\ te[n] # "array" /\ \A k \in 1 .. n : te[k] \in Word
    BY <1>1, NotEmpty
  <1>3. r = [k \in 1 .. n |-> IF te[k] = "u8" THEN "int" ELSE te[k]]
    BY <1>2 DEF Resolve
  <1> HIDE DEF r
  <1>4. \A k \in 1 .. n : r[k] = IF te[k] = "u8" THEN "int" ELSE te[k]
    BY <1>3, Zenon
  <1>5. r = [k \in 1 .. n |-> r[k]]
    BY <1>3, <1>4
  <1>6. \A k \in 1 .. n : r[k] \in Word
    BY <1>2, <1>4, WordsAre
  <1>7. r \in Seq(Word) /\ Len(r) = n
    BY <1>5, <1>6
  <1>8. r[n] # "array"
    BY <1>2, <1>4
  <1>9. r # <<>>
    BY <1>7
  <1>10. QED
    BY <1>7, <1>8, <1>9 DEF Types, r

LEMMA Written ==
  /\ \A te \in Annotations \cup FieldTypes : te \in Types
  /\ \A t \in Literals : <<t>> \in Types
  BY WrittenAssumption, Single DEF Types, Word

LEMMA ConsType ==
  ASSUME NEW w \in Word, NEW t \in Types
  PROVE  <<w>> \o t \in Types
  <1> DEFINE s == <<w>> \o t
  <1>1. /\ s \in Seq(Word) /\ Len(s) = Len(t) + 1 /\ s # <<>>
        /\ s[Len(t) + 1] = t[Len(t)]
    <2>1. Len(t) \in 1 .. Len(t)
      BY NotEmpty
    <2>2. QED
      BY <2>1, NotEmpty, Cons
  <1> HIDE DEF s
  <1>2. s \in Types
    BY <1>1, NotEmpty DEF Types
  <1>3. QED
    BY <1>2 DEF s

LEMMA TailType ==
  ASSUME NEW t \in Types, t[1] = "array"
  PROVE  Tail(t) \in Types
  <1>1. PICK n \in Nat \ {0} : n = Len(t)
    BY NotEmpty
  <1>2. t \in Seq(Word) /\ t # <<>> /\ t[n] # "array"
    BY <1>1, NotEmpty DEF NoType
  <1>3. n # 1
    BY <1>2
  <1> DEFINE s == Tail(t)
  <1>4. s \in Seq(Word) /\ Len(s) = n - 1 /\ \A k \in 1 .. n - 1 : s[k] = t[k + 1]
    BY <1>1, <1>2, Uncons
  <1> HIDE DEF s
  <1>5. n - 1 \in 1 .. n - 1 /\ (n - 1) + 1 = n
    BY <1>3
  <1>6. s[n - 1] = t[n]
    BY <1>4, <1>5
  <1>7. s # <<>>
    BY <1>3, <1>4
  <1>8. s \in Types
    BY <1>2, <1>4, <1>6, <1>7 DEF Types
  <1>9. QED
    BY <1>8 DEF s

LEMMA ApproximatesSelf ==
  ASSUME NEW t PROVE Approximates(t, t) /\ Approximates(NoType, t) /\ Approximates(t, Any)
  BY DEF Approximates

LEMMA ApproximatesUnknown ==
  ASSUME NEW t \in Seq(Word) PROVE Approximates(Unknown, t)
  BY DEF Approximates, Unknown

(* A reference to what is approximated.                                    *)
LEMMA ApproximatesRef ==
  ASSUME NEW t \in Seq(Word), NEW is \in Types, Approximates(t, is)
  PROVE  Approximates(<<"ref">> \o Name(t), RefTo(is))
  <1> DEFINE s == <<"ref">> \o Name(t)
             u == <<"ref">> \o is
  <1>1. CASE is = Any
    BY <1>1 DEF RefTo, Approximates
  <1>2. CASE is # Any /\ t = is
    BY <1>2, NotEmpty, ApproximatesSelf DEF RefTo, Name
  <1>3. ASSUME is # Any, NEW n \in Nat, NEW m \in Seq(Word), Name(t) = m,
               Len(m) = n + 1, m[n + 1] = "unknown", n <= Len(is),
               \A k \in 1 .. n : m[k] = is[k]
        PROVE  Approximates(<<"ref">> \o Name(t), RefTo(is))
    <2>1. /\ s \in Seq(Word) /\ Len(s) = n + 2 /\ s[1] = "ref"
          /\ \A k \in 1 .. n + 1 : s[k + 1] = m[k]
      <3>1. "ref" \in Word /\ s = <<"ref">> \o m
        BY <1>3, WordsAre
      <3>2. PICK w \in Word : w = "ref"
        BY <3>1
      <3>3. s = <<w>> \o m
        BY <3>1, <3>2
      <3> HIDE DEF s
      <3>4. /\ s \in Seq(Word) /\ Len(s) = Len(m) + 1 /\ s[1] = w
            /\ \A k \in 1 .. Len(m) : s[k + 1] = m[k]
        BY <1>3, <3>3, Cons
      <3>5. QED
        BY <1>3, <3>2, <3>4
    <2>2. /\ u \in Seq(Word) /\ Len(u) = Len(is) + 1 /\ u[1] = "ref"
          /\ \A k \in 1 .. Len(is) : u[k + 1] = is[k]
      <3>1. "ref" \in Word /\ is \in Seq(Word)
        BY NotEmpty, WordsAre
      <3>2. PICK w \in Word : w = "ref"
        BY <3>1
      <3>3. u = <<w>> \o is
        BY <3>2
      <3> HIDE DEF u
      <3>4. QED
        BY <3>1, <3>2, <3>3, Cons
    <2>3. Len(is) \in Nat
      BY NotEmpty
    <2> HIDE DEF s, u
    <2>4. \A k \in 1 .. n + 1 : s[k] = u[k]
      <3> SUFFICES ASSUME NEW k \in 1 .. n + 1 PROVE s[k] = u[k]
        OBVIOUS
      <3>1. CASE k = 1
        BY <2>1, <2>2, <3>1
      <3>2. CASE k # 1
        <4>1. PICK j \in 1 .. n : j + 1 = k
          BY <3>2
        <4>2. j \in 1 .. n + 1 /\ j \in 1 .. Len(is)
          BY <1>3, <2>3
        <4>3. s[j + 1] = m[j] /\ u[j + 1] = is[j] /\ m[j] = is[j]
          BY <1>3, <2>1, <2>2, <4>2
        <4>4. QED
          BY <4>1, <4>3
      <3>3. QED
        BY <3>1, <3>2
    <2>5. n + 1 \in Nat /\ n + 1 <= Len(s) /\ n + 1 <= Len(u) /\ Len(s) - 1 = n + 1
      BY <1>3, <2>1, <2>2, <2>3
    <2>6. SubSeq(s, 1, n + 1) = SubSeq(u, 1, n + 1)
      BY <2>1, <2>2, <2>4, <2>5, SamePrefix
    <2>7. s[Len(s)] = "unknown"
      <3>1. n + 1 \in 1 .. n + 1 /\ (n + 1) + 1 = n + 2
        OBVIOUS
      <3>2. QED
        BY <1>3, <2>1, <3>1
    <2>8. Approximates(s, u)
      BY <2>5, <2>6, <2>7 DEF Approximates
    <2>9. QED
      BY <1>3, <2>8 DEF RefTo, s, u
  <1>4. CASE is # Any /\ t = NoType
    <2>1. Name(t) = <<"unknown">>
      BY <1>4 DEF Name, Unknown
    <2>2. PICK m \in Seq(Word) : m = <<"unknown">>
      BY WordsAre, Single
    <2>3. PICK n \in Nat : n = 0
      OBVIOUS
    <2>4. Len(m) = n + 1 /\ m[n + 1] = "unknown"
      BY WordsAre, <2>2, <2>3, Single
    <2>5. n <= Len(is) /\ \A k \in 1 .. n : m[k] = is[k]
      BY <2>3, NotEmpty
    <2>6. QED
      BY <1>3, <1>4, <2>1, <2>2, <2>4, <2>5
  <1>5. CASE /\ is # Any /\ t # NoType
             /\ t[Len(t)] = "unknown" /\ Len(t) - 1 <= Len(is)
             /\ SubSeq(t, 1, Len(t) - 1) = SubSeq(is, 1, Len(t) - 1)
    <2>1. PICK n \in Nat : Len(t) = n + 1
      <3>1. Len(t) \in Nat \ {0}
        BY <1>5 DEF NoType
      <3>2. Len(t) - 1 \in Nat /\ Len(t) = (Len(t) - 1) + 1
        BY <3>1
      <3>3. QED
        BY <3>2
    <2>2. Len(t) - 1 = n /\ n <= Len(t)
      BY <2>1
    <2>3. is \in Seq(Word)
      BY NotEmpty
    <2>4. \A k \in 1 .. n : t[k] = is[k]
      BY <1>5, <2>2, <2>3, SamePrefix
    <2>5. Name(t) = t
      BY <1>5 DEF Name
    <2>6. QED
      BY <1>3, <1>5, <2>1, <2>2, <2>4, <2>5
  <1>6. QED
    BY <1>1, <1>2, <1>4, <1>5 DEF Approximates

-----------------------------------------------------------------------------
(* Operands: what the visitors of sema.cpp make of what is known.          *)
LEMMA OperandIs ==
  ASSUME NEW is \in Types, NEW resolved \in Seq(Word), NEW ir \in Seq(Word),
         NEW added \in BOOLEAN, Known(resolved, is), ~added => Approximates(ir, is),
         NEW e, e = [is |-> is, resolved |-> resolved, ir |-> ir, added |-> added]
  PROVE  e \in GoodOperands
  BY DEF GoodOperands

LEMMA GoodIs ==
  ASSUME NEW e \in GoodOperands
  PROVE  /\ e.is \in Types /\ e.resolved \in Seq(Word) /\ e.ir \in Seq(Word)
         /\ e.added \in BOOLEAN
         /\ Known(e.resolved, e.is) /\ (~e.added => Approximates(e.ir, e.is))
         /\ e = [is |-> e.is, resolved |-> e.resolved, ir |-> e.ir, added |-> e.added]
  BY DEF GoodOperands

LEMMA PlainGood == ASSUME NEW t \in Types PROVE Plain(t) \in GoodOperands
  <1>1. t \in Seq(Word) /\ Known(t, t) /\ Approximates(t, t)
    BY NotEmpty, LookupIs, ApproximatesSelf DEF Known
  <1>2. QED
    BY <1>1, OperandIs DEF Plain, Operand

(* A name known to stand for a type is known when it is looked up again.   *)
LEMMA KnownName ==
  ASSUME NEW t \in Seq(Word), NEW is \in Types, Known(t, is)
  PROVE  Name(t) \in Seq(Word) /\ Known(Name(t), is)
  BY NameIs DEF Known

LEMMA KnownLookup ==
  ASSUME NEW t \in Seq(Word), NEW is \in Types, Known(t, is)
  PROVE  Lookup(t) \in Seq(Word) /\ Known(Lookup(t), is)
  BY LookupIs, Words DEF Known

(* After a push or a replacement all operands are good.                    *)
LEMMA PushGood ==
  ASSUME operands \in Seq(GoodOperands), NEW e \in GoodOperands, Push(e)
  PROVE  operands' \in Seq(GoodOperands) /\ UNCHANGED <<variables, falseAlarm>>
  BY DEF Push

LEMMA ReplaceGood ==
  ASSUME operands \in Seq(GoodOperands), NEW e \in GoodOperands, NEW n \in Nat, Replace(n, e)
  PROVE  operands' \in Seq(GoodOperands) /\ UNCHANGED <<variables, falseAlarm>>
  <1>1. Len(operands) - n \in 0 .. Len(operands)
    BY DEF Replace
  <1>2. SubSeq(operands, 1, Len(operands) - n) \in Seq(GoodOperands)
    BY <1>1, Prefix
  <1>3. QED
    BY <1>2 DEF Replace

LEMMA OperandAt ==
  ASSUME operands \in Seq(GoodOperands), NEW k \in DOMAIN operands
  PROVE  operands[k] \in GoodOperands
  OBVIOUS

LEMMA TopGood ==
  ASSUME operands \in Seq(GoodOperands), operands # <<>>
  PROVE  Top \in GoodOperands
  BY DEF Top

LEMMA LeftGood ==
  ASSUME operands \in Seq(GoodOperands), Len(operands) >= 2
  PROVE  operands[Len(operands) - 1] \in GoodOperands
  OBVIOUS

(* How the operations that are written with EXCEPT come out.               *)
LEMMA ExceptTwo ==
  ASSUME NEW a, NEW b, NEW c, NEW d, NEW e,
         e = [is |-> a, resolved |-> b, ir |-> c, added |-> d],
         NEW is, NEW resolved, NEW f, f = [e EXCEPT !.is = is, !.resolved = resolved]
  PROVE  f = [is |-> is, resolved |-> resolved, ir |-> c, added |-> d]
  <1>1. PICK g : g = [e EXCEPT !.is = is]
    OBVIOUS
  <1>2. g = [is |-> is, resolved |-> b, ir |-> c, added |-> d]
    BY <1>1
  <1>3. f = [g EXCEPT !.resolved = resolved]
    BY <1>1
  <1>4. QED
    BY <1>2, <1>3

LEMMA ExceptThree ==
  ASSUME NEW a, NEW b, NEW c, NEW d, NEW e,
         e = [is |-> a, resolved |-> b, ir |-> c, added |-> d],
         NEW is, NEW resolved, NEW ir,
         NEW f, f = [e EXCEPT !.is = is, !.resolved = resolved, !.ir = ir]
  PROVE  f = [is |-> is, resolved |-> resolved, ir |-> ir, added |-> d]
  <1>1. PICK g : g = [e EXCEPT !.is = is, !.resolved = resolved]
    OBVIOUS
  <1>2. g = [is |-> is, resolved |-> resolved, ir |-> c, added |-> d]
    BY <1>1, ExceptTwo
  <1>3. f = [g EXCEPT !.ir = ir]
    BY <1>1
  <1>4. QED
    BY <1>2, <1>3

LEMMA AddedIs ==
  ASSUME NEW is, NEW resolved, NEW ir, NEW added,
         NEW f, f = [Operand(is, resolved, ir) EXCEPT !.added = added]
  PROVE  f = [is |-> is, resolved |-> resolved, ir |-> ir, added |-> added]
  BY DEF Operand

LEMMA RefGood == ASSUME operands \in Seq(GoodOperands), Ref PROVE
    operands' \in Seq(GoodOperands) /\ UNCHANGED <<variables, falseAlarm>>
  <1>1. operands # <<>> /\ Top \in GoodOperands
    BY TopGood DEF Ref
  <1> DEFINE e == Top
             r == <<"ref">> \o Name(Inferred(e))
             i == <<"ref">> \o Name(e.ir)
             s == RefTo(e.is)
             f == [e EXCEPT !.is = s, !.resolved = r, !.ir = i]
  <1>2. Replace(1, [e EXCEPT !.is = RefTo(@), !.resolved = r, !.ir = <<"ref">> \o Name(@)])
    BY DEF Ref
  <1>3. Replace(1, f)
    BY <1>2
  <1>4. /\ e.is \in Types /\ e.resolved \in Seq(Word) /\ e.ir \in Seq(Word)
        /\ e.added \in BOOLEAN /\ (~e.added => Approximates(e.ir, e.is))
    BY <1>1, GoodIs
  <1> HIDE DEF e
  <1>5. s \in Types
    BY <1>4, Words, ConsType, WordsAre DEF RefTo
  <1>6. Inferred(e) \in Seq(Word)
    BY <1>4, LookupIs, Words DEF Inferred
  <1>7. Name(Inferred(e)) \in Seq(Word) /\ Name(e.ir) \in Seq(Word)
    BY <1>4, <1>6, NameIs
  <1>8. r \in Seq(Word) /\ i \in Seq(Word) /\ r[1] = "ref"
    <2>1. PICK w \in Word : w = "ref"
      BY WordsAre
    <2>2. \A t \in Seq(Word) : <<w>> \o t \in Seq(Word) /\ (<<w>> \o t)[1] = w
      BY Cons
    <2>3. QED
      BY <1>7, <2>1, <2>2
  <1>9. ~e.added => Approximates(i, s)
    BY <1>4, ApproximatesRef
  <1> HIDE DEF r, i, s
  <1>10. Known(r, s)
    BY <1>8 DEF Known, Lookup, Pointers
  <1>11. f = [is |-> s, resolved |-> r, ir |-> i, added |-> e.added]
    <2>1. e = [is |-> e.is, resolved |-> e.resolved, ir |-> e.ir, added |-> e.added]
      BY <1>1, GoodIs DEF e
    <2>2. PICK g : g = f
      OBVIOUS
    <2>3. g = [is |-> s, resolved |-> r, ir |-> i, added |-> e.added]
      BY <2>1, <2>2, ExceptThree
    <2>4. QED
      BY <2>2, <2>3
  <1> HIDE DEF f
  <1>12. f \in GoodOperands
    BY <1>4, <1>5, <1>8, <1>9, <1>10, <1>11, OperandIs
  <1>13. QED
    BY <1>3, <1>12, ReplaceGood

(* A step that puts one more operand on the stack, or one in place of some. *)
LEMMA MemberGood ==
  ASSUME operands \in Seq(GoodOperands), NEW field \in FieldTypes \cup {Unknown}, Member(field)
  PROVE  operands' \in Seq(GoodOperands) /\ UNCHANGED <<variables, falseAlarm>>
  <1> DEFINE found(t) == IF t = <<"struct">> THEN Resolve(field)
                         ELSE IF t = Any THEN t ELSE Unknown
             s == found(Top.is)
             r == found(Inferred(Top))
  <1>1. Top \in GoodOperands /\ Replace(1, Operand(s, r, NoType))
    BY TopGood DEF Member
  <1>2. field \in Types
    BY Written, Words
  <1>3. Resolve(field) \in Types
    BY <1>2, ResolvedIs
  <1>4. /\ s \in Types /\ r \in Types
    BY <1>3, Words
  <1>5. Known(r, s)
    <2>1. Known(Top.resolved, Top.is)
      BY <1>1, GoodIs
    <2>2. CASE Top.is = Any
      BY <2>2, Words DEF Known
    <2>3. CASE Inferred(Top) = Top.is
      BY <2>3, LookupIs DEF Known
    <2>4. CASE Inferred(Top) = NoType
      <3>1. NoType # <<"struct">> /\ NoType # Any
        BY Words, NotEmpty
      <3>2. r = Unknown
        BY <2>4, <3>1
      <3>3. QED
        BY <3>2, Words DEF Known
    <2>5. QED
      BY <2>1, <2>2, <2>3, <2>4 DEF Known, Inferred
  <1> HIDE DEF s, r
  <1>6. Operand(s, r, NoType) \in GoodOperands
    BY <1>4, <1>5, NotEmpty, Words, ApproximatesSelf, OperandIs DEF Operand
  <1>7. QED
    BY <1>1, <1>6, ReplaceGood

LEMMA IndexGood ==
  ASSUME operands \in Seq(GoodOperands), Index
  PROVE  operands' \in Seq(GoodOperands) /\ UNCHANGED <<variables, falseAlarm>>
  <1> DEFINE array == operands[Len(operands) - 1]
             s == Element(array.is)
             r == Element(Inferred(array))
  <1>1. array \in GoodOperands /\ Replace(2, Operand(s, r, NoType))
    BY LeftGood DEF Index
  <1>2. array.is \in Types /\ array.resolved \in Seq(Word) /\ Known(array.resolved, array.is)
    BY <1>1, GoodIs
  <1>3. s \in Types
    BY <1>2, TailType, Words DEF Element
  <1>4. r = IF Inferred(array) = Any THEN Any ELSE Unknown
    <2>1. Inferred(array) = NoType \/ Inferred(array)[1] # "array"
      BY DEF Inferred, Lookup
    <2>2. QED
      BY <2>1 DEF Element
  <1>5. r \in {Any, Unknown} /\ r \in Types /\ (r = Any => Inferred(array) = Any)
    <2> HIDE DEF r
    <2>1. QED
      BY <1>4, Words
  <1>6. Known(r, s)
    <2>1. CASE r = Unknown
      BY <2>1, Words DEF Known
    <2>2. CASE r = Any
      <3>1. array.is = Any
        BY <1>2, <1>5, <2>2, Words DEF Known, Inferred
      <3>2. Any[1] = "any"
        BY Single, WordsAre DEF Any
      <3>3. s = Any
        BY <3>1, <3>2 DEF Element
      <3>4. QED
        BY <3>3 DEF Known
    <2>3. QED
      BY <1>5, <2>1, <2>2
  <1> HIDE DEF s, r, array
  <1>7. Operand(s, r, NoType) \in GoodOperands
    BY <1>3, <1>5, <1>6, NotEmpty, Words, ApproximatesSelf, OperandIs DEF Operand
  <1>8. QED
    BY <1>1, <1>7, ReplaceGood

LEMMA BinaryGood ==
  ASSUME operands \in Seq(GoodOperands), NEW op \in {"==", "is", "+"}, Binary(op)
  PROVE  operands' \in Seq(GoodOperands) /\ UNCHANGED <<variables, falseAlarm>>
  <1> DEFINE left == operands[Len(operands) - 1]
             s == IF Inferred(left) # NoType /\ ~(left.is = <<"int">> /\ Top.is = <<"double">>)
                  THEN left.is ELSE Any
             r == IF Inferred(left) # NoType THEN left.resolved ELSE <<"int">>
             b == [Operand(<<"bool">>, <<"bool">>, left.ir) EXCEPT !.added = TRUE]
             f == [left EXCEPT !.is = s, !.resolved = r]
  <1>1. left \in GoodOperands
    BY LeftGood DEF Binary
  <1>2. Replace(2, Plain(<<"bool">>)) \/ Replace(2, b) \/ Replace(2, f)
    BY DEF Binary
  <1>3. /\ left.is \in Types /\ left.resolved \in Seq(Word) /\ left.ir \in Seq(Word)
        /\ left.added \in BOOLEAN
        /\ Known(left.resolved, left.is) /\ (~left.added => Approximates(left.ir, left.is))
    BY <1>1, GoodIs
  <1>4. f = [is |-> s, resolved |-> r, ir |-> left.ir, added |-> left.added]
    <2>1. PICK g : g = f
      OBVIOUS
    <2>2. left = [is |-> left.is, resolved |-> left.resolved, ir |-> left.ir,
                  added |-> left.added]
      BY <1>1, GoodIs
    <2> HIDE DEF left, s, r
    <2>3. g = [is |-> s, resolved |-> r, ir |-> left.ir, added |-> left.added]
      BY <2>1, <2>2, ExceptTwo
    <2>4. QED
      BY <2>1, <2>3
  <1>5. b = [is |-> <<"bool">>, resolved |-> <<"bool">>, ir |-> left.ir, added |-> TRUE]
    BY AddedIs
  <1>6. <<"bool">> \in Types /\ <<"int">> \in Types /\ Any \in Types
    BY Words
  <1>7. <<"bool">> \in Seq(Word) /\ <<"int">> \in Seq(Word)
    BY <1>6, NotEmpty
  <1> HIDE DEF left
  <1>8. s \in Types /\ r \in Seq(Word)
    BY <1>3, <1>6, <1>7
  <1>9. Known(r, s)
    BY <1>3 DEF Known
  <1>10. ~left.added => Approximates(left.ir, s)
    BY <1>3, ApproximatesSelf
  <1> HIDE DEF s, r
  <1>11. f \in GoodOperands
    BY <1>3, <1>4, <1>8, <1>9, <1>10, OperandIs
  <1>12. b \in GoodOperands
    <2>1. Known(<<"bool">>, <<"bool">>)
      BY LookupIs DEF Known
    <2>2. QED
      BY <1>3, <1>5, <1>6, <1>7, <2>1, OperandIs
  <1>13. Plain(<<"bool">>) \in GoodOperands
    BY <1>6, PlainGood
  <1> HIDE DEF b, f
  <1>14. QED
    BY <1>2, <1>11, <1>12, <1>13, ReplaceGood

-----------------------------------------------------------------------------
(* Variables.                                                              *)
LEMMA DeclareGood ==
  ASSUME GoodVariables(variables), NEW v, GoodVariable(v), Declare(v)
  PROVE  GoodVariables(variables')
  <1> DEFINE vs == variables
             S  == {vs[k] : k \in DOMAIN vs} \cup {v}
             ws == Append(vs, v)
             n  == Len(vs)
  <1>1. vs \in Seq(S) /\ v \in S
    BY DEF GoodVariables
  <1> HIDE DEF S, vs
  <1>2. /\ ws \in Seq(S) /\ n \in Nat /\ DOMAIN vs = 1 .. n /\ DOMAIN ws = 1 .. n + 1
        /\ ws[n + 1] = v /\ \A k \in 1 .. n : ws[k] = vs[k]
    BY <1>1
  <1> HIDE DEF ws
  <1>3. ws \in Seq({ws[k] : k \in DOMAIN ws})
    BY <1>2
  <1>4. \A k \in 1 .. n + 1 : k \in 1 .. n \/ k = n + 1
    BY <1>2
  <1>5. \A k \in 1 .. n : GoodVariable(vs[k])
    BY <1>2 DEF GoodVariables, vs
  <1>6. \A k \in DOMAIN ws : GoodVariable(ws[k])
    BY <1>2, <1>4, <1>5
  <1>7. GoodVariables(ws)
    BY <1>3, <1>6 DEF GoodVariables
  <1>8. QED
    BY <1>7 DEF Declare, ws, vs

LEMMA LeaveGood ==
  ASSUME GoodVariables(variables), Leave
  PROVE  GoodVariables(variables') /\ UNCHANGED <<operands, falseAlarm>>
  <1> DEFINE vs == variables
             S  == {vs[k] : k \in DOMAIN vs}
             n  == Len(vs)
             ws == SubSeq(vs, 1, n - 1)
  <1>1. vs \in Seq(S) /\ vs # <<>>
    BY DEF GoodVariables, Leave
  <1> HIDE DEF S
  <1>2. n \in Nat \ {0} /\ n - 1 \in 0 .. Len(vs) /\ DOMAIN vs = 1 .. n
    BY <1>1
  <1>3. ws \in Seq(S) /\ Len(ws) = n - 1 /\ \A k \in 1 .. n - 1 : ws[k] = vs[k]
    BY <1>1, <1>2, Prefix
  <1> HIDE DEF ws, n, vs
  <1>4. DOMAIN ws = 1 .. n - 1 /\ \A k \in 1 .. n - 1 : k \in DOMAIN vs
    BY <1>2, <1>3
  <1>5. ws \in Seq({ws[k] : k \in DOMAIN ws})
    BY <1>3
  <1>6. \A k \in DOMAIN ws : GoodVariable(ws[k])
    BY <1>3, <1>4 DEF GoodVariables, vs
  <1>7. GoodVariables(ws)
    BY <1>5, <1>6 DEF GoodVariables
  <1>8. QED
    BY <1>7 DEF Leave, ws, vs, n

LEMMA DeclaredGood == ASSUME NEW te \in Types, NEW region PROVE GoodVariable(Declared(te, region))
  <1>1. Resolve(te) \in Types /\ Resolve(te) \in Seq(Word)
    BY ResolvedIs, NotEmpty
  <1>2. Known(Resolve(te), Resolve(te)) /\ Approximates(Resolve(te), Resolve(te))
    BY LookupIs, ApproximatesSelf DEF Known
  <1>3. QED
    BY <1>1, <1>2 DEF Declared, GoodVariable

LEMMA UntypedGood ==
  ASSUME NEW e \in GoodOperands, NEW region,
         NEW v, v = [is |-> e.is, symbol |-> Inferred(e), ir |-> e.ir,
                     c |-> Held(region, IF e.resolved = Unknown THEN <<"int64_t">>
                                        ELSE CName(e.resolved)),
                     region |-> region, untyped |-> TRUE, added |-> e.added]
  PROVE  GoodVariable(v)
  <1>1. /\ e.is \in Types /\ e.resolved \in Seq(Word) /\ e.ir \in Seq(Word)
        /\ e.added \in BOOLEAN
        /\ Known(e.resolved, e.is) /\ (~e.added => Approximates(e.ir, e.is))
    BY GoodIs
  <1>2. Inferred(e) \in Seq(Word) /\ Known(Inferred(e), e.is)
    BY <1>1, KnownLookup DEF Inferred
  <1>3. ASSUME Inferred(e) # NoType, e.is # Any
        PROVE  v.c = Held(v.region, CType(e.is))
    <2>1. e.resolved = e.is
      BY <1>1, <1>3, LookupIs DEF Known, Inferred
    <2>2. e.resolved # Unknown /\ e.resolved[1] \notin Pointers
      BY <1>3, LookupIs, Words DEF Inferred
    <2>3. QED
      BY <2>1, <2>2 DEF CName
  <1>4. QED
    BY <1>1, <1>2, <1>3 DEF GoodVariable

LEMMA NothingKnownGood ==
  ASSUME NEW is \in Types, NEW c, NEW region,
         NEW v, v = [is |-> is, symbol |-> Unknown, ir |-> Unknown, c |-> c,
                     region |-> region, untyped |-> FALSE, added |-> FALSE]
  PROVE  GoodVariable(v)
  <1>1. Unknown \in Seq(Word) /\ Known(Unknown, is) /\ Approximates(Unknown, is)
    BY Words, NotEmpty, ApproximatesUnknown DEF Known
  <1>2. QED
    BY <1>1 DEF GoodVariable

LEMMA ElementGood ==
  ASSUME NEW is \in Types
  PROVE  Element(is) \in Types
  BY TailType, Words DEF Element

-----------------------------------------------------------------------------
(* A type that is known and is found not to match does not match.          *)
LEMMA CheckGood ==
  ASSUME FInv, NEW e \in GoodOperands, NEW declared, NEW is,
         is = Any \/ declared \in {NoType, is}, Check(e, declared, is)
  PROVE  falseAlarm' = FALSE
  <1>1. Known(e.resolved, e.is)
    BY GoodIs
  <1>2. SUFFICES ASSUME ~IsCompatible(Inferred(e), declared), Any \notin {e.is, is}
                 PROVE  ~IsCompatible(e.is, is)
    BY DEF Check, FInv
  <1>3. Inferred(e) # NoType /\ declared # NoType
    BY <1>2 DEF IsCompatible
  <1>4. Inferred(e) = e.is /\ declared = is
    BY <1>1, <1>2, <1>3 DEF Known, Inferred
  <1>5. QED
    BY <1>2, <1>4

LEMMA InitFInv == Init => FInv
  BY DEF Init, FInv, GoodVariables

LEMMA NextFInv == FInv /\ [Next]_vars => FInv'
  <1> SUFFICES ASSUME FInv, [Next]_vars PROVE FInv'
    OBVIOUS
  <1>1. operands \in Seq(GoodOperands) /\ GoodVariables(variables) /\ falseAlarm = FALSE
    BY DEF FInv
  <1>2. ASSUME operands' \in Seq(GoodOperands), UNCHANGED <<variables, falseAlarm>>
        PROVE  FInv'
    BY <1>1, <1>2 DEF FInv, GoodVariables
  <1>3. ASSUME operands' = <<>> \/ UNCHANGED operands, GoodVariables(variables'),
               falseAlarm' = FALSE
        PROVE  FInv'
    <2>1. operands' \in Seq(GoodOperands)
      <3>1. CASE operands' = <<>>
        <4>1. <<>> \in Seq(GoodOperands)
          OBVIOUS
        <4>2. QED
          BY <3>1, <4>1, Zenon
      <3>2. CASE UNCHANGED operands
        BY <1>1, <3>2, Zenon
      <3>3. QED
        BY <1>3, <3>1, <3>2
    <2>2. QED
      BY <1>3, <2>1 DEF FInv, GoodVariables
  <1>4. ASSUME Len(operands) = 1
        PROVE  operands # <<>> /\ Top \in GoodOperands
    BY <1>1, <1>4, TopGood
  <1>5. ASSUME NEW te \in Annotations
        PROVE  te \in Types /\ Resolve(te) \in Types /\ Resolve(te) \in Seq(Word)
    BY Written, ResolvedIs, NotEmpty
  <1>6. CASE UNCHANGED vars
    BY <1>1, <1>6 DEF vars, FInv, GoodVariables
  <1>7. ASSUME NEW t \in Literals, Literal(t) PROVE FInv'
    BY <1>1, <1>2, <1>7, Written, PlainGood, PushGood DEF Literal
  <1>8. ASSUME NEW k \in DOMAIN variables, UseVariable(k) PROVE FInv'
    <2> DEFINE v == variables[k]
               e == [Operand(v.is, Name(v.symbol), v.ir) EXCEPT !.added = v.added]
    <2>1. /\ v.is \in Types /\ v.symbol \in Seq(Word) /\ v.ir \in Seq(Word)
          /\ v.added \in BOOLEAN /\ Known(v.symbol, v.is)
          /\ ~v.added => Approximates(v.ir, v.is)
      BY <1>1 DEF GoodVariables, GoodVariable
    <2>2. e = [is |-> v.is, resolved |-> Name(v.symbol), ir |-> v.ir, added |-> v.added]
      BY AddedIs
    <2>3. Push(e)
      BY <1>8 DEF UseVariable
    <2> HIDE DEF v, e
    <2>4. e \in GoodOperands
      BY <2>1, <2>2, KnownName, OperandIs
    <2>5. QED
      BY <1>1, <1>2, <2>3, <2>4, PushGood
  <1>9. CASE Set
    <2> DEFINE target == operands[1]
    <2>1. /\ Len(operands) = 2 /\ operands' = <<>> /\ UNCHANGED variables
          /\ Check(Top, Inferred(target), target.is)
      BY <1>9 DEF Set
    <2>2. target \in GoodOperands /\ Top \in GoodOperands
      BY <1>1, <2>1, TopGood
    <2>3. Known(target.resolved, target.is)
      BY <2>2, GoodIs
    <2>4. falseAlarm' = FALSE
      BY <2>1, <2>2, <2>3, CheckGood DEF Known, Inferred
    <2>5. QED
      BY <1>1, <1>3, <2>1, <2>4
  <1>10. ASSUME NEW te \in Annotations, UseGlobal(te) \/ Call(te) \/ New(te) PROVE FInv'
    <2> DEFINE r == Resolve(te)
    <2>1. r \in Types /\ r \in Seq(Word)
      BY <1>5
    <2>2. /\ Operand(r, r, Lookup(r)) \in GoodOperands
          /\ Operand(r, Unknown, NoType) \in GoodOperands
          /\ Plain(<<"ptr">> \o r) \in GoodOperands
      <3> HIDE DEF r
      <3>1. Lookup(r) \in Seq(Word) /\ Approximates(Lookup(r), r) /\ Known(r, r)
        BY <2>1, LookupIs, Words, ApproximatesSelf DEF Known
      <3>2. Operand(r, r, Lookup(r)) \in GoodOperands
        BY <2>1, <3>1, OperandIs DEF Operand
      <3>3. /\ Unknown \in Seq(Word) /\ NoType \in Seq(Word)
            /\ Known(Unknown, r) /\ Approximates(NoType, r)
        BY Words, NotEmpty, ApproximatesSelf DEF Known
      <3>4. Operand(r, Unknown, NoType) \in GoodOperands
        BY <2>1, <3>3, OperandIs DEF Operand
      <3>5. <<"ptr">> \o r \in Types
        BY <2>1, ConsType, WordsAre
      <3>6. QED
        BY <3>2, <3>4, <3>5, PlainGood
    <2>3. Push(Operand(r, r, Lookup(r))) \/ Push(Operand(r, Unknown, NoType))
            \/ Push(Plain(<<"ptr">> \o r))
      BY <1>10 DEF UseGlobal, Call, New
    <2>4. QED
      BY <1>1, <1>2, <2>2, <2>3, PushGood
  <1>11. ASSUME NEW v, GoodVariable(v), Given(v) PROVE FInv'
    <2>1. GoodVariables(variables')
      BY <1>1, <1>11, DeclareGood DEF Given
    <2>2. QED
      BY <1>1, <1>3, <1>11, <2>1 DEF Given
  <1>12. ASSUME NEW te \in Annotations, NEW region, LetTyped(te, region) PROVE FInv'
    <2>1. GoodVariables(variables')
      BY <1>1, <1>5, <1>12, DeclaredGood, DeclareGood DEF LetTyped
    <2>2. falseAlarm' = FALSE
      BY <1>4, <1>12, CheckGood DEF LetTyped
    <2>3. QED
      BY <1>3, <1>12, <2>1, <2>2 DEF LetTyped
  <1>13. ASSUME NEW te \in Annotations, Return(te) PROVE FInv'
    <2>1. falseAlarm' = FALSE
      BY <1>4, <1>13, CheckGood DEF Return
    <2>2. QED
      BY <1>1, <1>3, <1>13, <2>1 DEF Return
  <1>14. CASE SameType
    <2> DEFINE e == Top
               r == Name(Inferred(e))
               f == [e EXCEPT !.resolved = r]
    <2>1. e \in GoodOperands /\ Replace(1, f)
      BY <1>1, <1>14, TopGood DEF SameType
    <2>2. /\ e.is \in Types /\ e.resolved \in Seq(Word) /\ e.ir \in Seq(Word)
          /\ e.added \in BOOLEAN
          /\ Known(e.resolved, e.is) /\ (~e.added => Approximates(e.ir, e.is))
          /\ e = [is |-> e.is, resolved |-> e.resolved, ir |-> e.ir, added |-> e.added]
      BY <2>1, GoodIs
    <2> HIDE DEF e
    <2>3. r \in Seq(Word) /\ Known(r, e.is)
      BY <2>2, KnownLookup, KnownName DEF Inferred
    <2> HIDE DEF r
    <2>4. PICK g : g = f
      OBVIOUS
    <2>5. g = [is |-> e.is, resolved |-> r, ir |-> e.ir, added |-> e.added]
      BY <2>2, <2>4
    <2> HIDE DEF f
    <2>6. f \in GoodOperands
      BY <2>2, <2>3, <2>4, <2>5, OperandIs
    <2>7. QED
      BY <1>1, <1>2, <2>1, <2>6, ReplaceGood
  <1>15. CASE Not
    <2>1. Plain(<<"bool">>) \in GoodOperands
      BY Words, PlainGood
    <2>2. QED
      BY <1>1, <1>2, <1>15, <2>1, ReplaceGood DEF Not
  <1>16. CASE Ref \/ Index
    BY <1>1, <1>2, <1>16, RefGood, IndexGood
  <1>17. ASSUME NEW field \in FieldTypes \cup {Unknown}, Member(field) PROVE FInv'
    BY <1>1, <1>2, <1>17, MemberGood
  <1>18. ASSUME NEW op \in {"==", "is", "+"}, Binary(op) PROVE FInv'
    BY <1>1, <1>2, <1>18, BinaryGood
  <1>19. ASSUME NEW region, LetUntyped(region) PROVE FInv'
    <2>1. PICK v : v = [is |-> Top.is, symbol |-> Inferred(Top), ir |-> Top.ir,
                        c |-> Held(region, IF Top.resolved = Unknown THEN <<"int64_t">>
                                           ELSE CName(Top.resolved)),
                        region |-> region, untyped |-> TRUE, added |-> Top.added]
      OBVIOUS
    <2>2. Len(operands) = 1 /\ Declare(v) /\ operands' = <<>> /\ UNCHANGED falseAlarm
      BY <1>19, <2>1 DEF LetUntyped
    <2>3. GoodVariable(v)
      BY <1>4, <2>1, <2>2, UntypedGood
    <2>4. QED
      BY <1>1, <1>3, <2>2, <2>3, DeclareGood
  <1>20. CASE LoopVariable
    <2>1. PICK v : v = [is |-> Element(Top.is), symbol |-> Unknown, ir |-> Unknown,
                        c |-> <<"*", "void">>, region |-> "stack", untyped |-> FALSE,
                        added |-> FALSE]
      OBVIOUS
    <2>2. Len(operands) = 1 /\ Declare(v) /\ operands' = <<>> /\ UNCHANGED falseAlarm
      BY <1>20, <2>1 DEF LoopVariable
    <2>3. Element(Top.is) \in Types
      BY <1>4, <2>2, GoodIs, ElementGood
    <2>4. GoodVariable(v)
      BY <2>1, <2>3, NothingKnownGood
    <2>5. QED
      BY <1>1, <1>3, <2>2, <2>4, DeclareGood
  <1>21. CASE Leave
    BY <1>1, <1>3, <1>21, LeaveGood
  <1>22. ASSUME NEW te \in Annotations, NEW region, Parameter(te) \/ LetNoValue(te, region) PROVE FInv'
    BY <1>5, <1>11, <1>22, DeclaredGood DEF Parameter, LetNoValue
  <1>23. ASSUME NEW region, LetBare(region) PROVE FInv'
    <2>1. PICK v : v = [is |-> Any, symbol |-> Unknown, ir |-> Unknown,
                        c |-> Held(region, <<"*", "void">>), region |-> region,
                        untyped |-> FALSE, added |-> FALSE]
      OBVIOUS
    <2>2. Given(v)
      BY <1>23, <2>1 DEF LetBare
    <2>3. GoodVariable(v)
      BY <2>1, Words, NothingKnownGood
    <2>4. QED
      BY <1>11, <2>2, <2>3
  <1>24. QED
    BY <1>6, <1>7, <1>8, <1>9, <1>10, <1>12, <1>13, <1>14, <1>15, <1>16, <1>17, <1>18,
       <1>19, <1>20, <1>21, <1>22, <1>23 DEF Next

LEMMA SpecFInv == Spec => []FInv
  BY InitFInv, NextFInv, PTL DEF Spec

(* No mismatch is reported of types that match, whatever the types and     *)
(* however many variables and operators a type went through by name.       *)
THEOREM MismatchesAlwaysReal == Spec => []MismatchesAreReal
  <1>1. FInv => MismatchesAreReal
    BY DEF FInv, MismatchesAreReal
  <1>2. QED
    BY <1>1, SpecFInv, PTL

(* The IR never gives a value a type that it has not: what it says of a    *)
(* type is right as far as it goes, for types of any depth.                *)
THEOREM IRTypesAlwaysHold == Spec => []IRTypesHold
  <1>1. FInv => IRTypesHold
    BY OperandAt, GoodIs DEF FInv, IRTypesHold
  <1>2. QED
    BY <1>1, SpecFInv, PTL

(* A variable declared without a type is declared in C with the type of    *)
(* its value whenever the analyser knew it, or in the heap region with a   *)
(* pointer to that type.                                                   *)
THEOREM CTypesAlwaysHold == Spec => []CTypesHold
  <1>1. FInv => CTypesHold
    BY DEF FInv, CTypesHold, GoodVariables, GoodVariable, Held
  <1>2. QED
    BY <1>1, SpecFInv, PTL

-----------------------------------------------------------------------------
(* The scopes.                                                             *)
USE NoSymbolAssumption, MaxDepthAssumption

LEMMA EmptyTableType == EmptyTable \in SymbolTable
  BY DEF EmptyTable, SymbolTable

(* What the analyser's first state and the warm one have in common.        *)
LEMMA InitIInv == ScopesInit => IInv
  BY DEF ScopesInit, IInv, TypeOK, Linked, DanglingBelowGrowth, WalkSound, Busy

LEMMA WarmInitIInv == WarmInit => IInv
  <1> SUFFICES ASSUME WarmInit PROVE IInv
    OBVIOUS
  <1>1. PICK t \in SymbolTable : scopes = <<t>>
    BY DEF WarmInit
  <1>2. cap \in Nat /\ cap >= 1 /\ buffer \in Nat
    BY DEF WarmInit
  <1>3. parent = <<Null>> /\ Null \in Pointer
    BY DEF WarmInit, Null, Pointer
  <1>4. ~Dangling(1)
    BY <1>3 DEF Dangling
  <1>5. TypeOK
    BY <1>1, <1>2, <1>3 DEF WarmInit, TypeOK
  <1>6. Linked /\ DanglingBelowGrowth
    BY <1>2, <1>3, <1>4 DEF Linked, DanglingBelowGrowth, WarmInit
  <1>7. WalkSound
    BY DEF WarmInit, WalkSound, Busy
  <1>8. QED
    BY <1>5, <1>6, <1>7 DEF IInv

-----------------------------------------------------------------------------
LEMMA PushIInv == ASSUME IInv, PushScope PROVE IInv'
  <1> USE DEF IInv, TypeOK, PushScope, Busy
  <1> DEFINE n == Len(scopes)
             p == ParentOfNewTop
  <1>1. /\ n \in Nat
        /\ buffer' \in Nat /\ buffer <= buffer'
        /\ cap' \in Nat /\ n + 1 <= cap'
        /\ scopes' = Append(scopes, EmptyTable)
    BY DEF EmplaceBack
  <1>2. p \in Pointer /\ (n = 0 => p = Null)
        /\ (n > 0 => p.idx = n /\ p.buf = buffer')
    BY <1>1 DEF ParentOfNewTop, Null, Pointer
  <1>3. /\ parent' = Append(parent, p)
        /\ DOMAIN parent' = 1 .. n + 1
        /\ parent'[n + 1] = p
        /\ \A i \in 1 .. n : parent'[i] = parent[i]
    BY <1>1, <1>2
  <1>4. TypeOK'
    BY <1>1, <1>2, <1>3, EmptyTableType
  <1>5. buffer' >= 1
    BY DEF EmplaceBack, Linked
  <1>6. Linked'
    BY <1>1, <1>2, <1>3, <1>5 DEF Linked
  <1>7. \A i \in 1 .. n + 1 : Dangling(i)' => i # n + 1
    BY <1>2, <1>3 DEF Dangling
  <1>8. \A i \in 1 .. n : parent[i] # Null => i > 1
    BY DEF Linked
  <1>9. DanglingBelowGrowth'
    <2>1. CASE n = cap
      <3>1. 2 * n <= cap'
        BY <2>1, <1>1 DEF EmplaceBack
      <3>2. \A i \in 1 .. n : i > 1 => Dangling(i)'
        <4> TAKE i \in 1 .. n
        <4> HAVE i > 1
        <4>1. parent[i].buf <= buffer /\ parent[i].buf >= 1
          BY DEF Linked
        <4>2. buffer' = buffer + 1
          BY <2>1 DEF EmplaceBack
        <4>3. parent'[i].buf # buffer' /\ parent'[i] # Null
          BY <4>1, <4>2, <1>3 DEF Null
        <4>4. QED
          BY <4>3 DEF Dangling
      <3>3. QED
        BY <3>1, <3>2, <1>1, <1>3, <1>7 DEF DanglingBelowGrowth
    <2>2. CASE n # cap
      <3>1. buffer' = buffer /\ cap' = cap
        BY <2>2 DEF EmplaceBack
      <3>2. \A i \in 1 .. n : Dangling(i)' <=> Dangling(i)
        BY <3>1, <1>3 DEF Dangling
      <3>3. DOMAIN parent = 1 .. n
        OBVIOUS
      <3>4. \A i \in 1 .. n + 1 : Dangling(i)' => i \in 1 .. n /\ Dangling(i)
        BY <3>2, <1>1, <1>7
      <3>5. QED
        BY <3>1, <3>2, <3>3, <3>4, <1>1, <1>3 DEF DanglingBelowGrowth
    <2>3. QED
      BY <2>1, <2>2
  <1>10. WalkSound'
    BY DEF WalkSound
  <1>11. QED
    BY <1>4, <1>6, <1>9, <1>10

LEMMA PopIInv == ASSUME IInv, PopScope PROVE IInv'
  <1> USE DEF IInv, TypeOK, PopScope, Busy
  <1> DEFINE n == Len(scopes)
  <1>1. n \in Nat \ {0} /\ n = Len(parent)
    BY DEF SymbolTable
  <1>2. /\ parent' = SubSeq(parent, 1, n - 1)
        /\ scopes' = SubSeq(scopes, 1, n - 1)
        /\ DOMAIN parent' = 1 .. n - 1
        /\ \A i \in 1 .. n - 1 : parent'[i] = parent[i]
    BY <1>1
  <1>3. TypeOK'
    BY <1>1, <1>2
  <1>4. Linked'
    BY <1>1, <1>2 DEF Linked
  <1>5. \A i \in 1 .. n - 1 : Dangling(i)' <=> Dangling(i)
    BY <1>2 DEF Dangling
  <1>6. DanglingBelowGrowth'
    <2>1. DOMAIN parent = 1 .. n
      BY <1>1
    <2>2. \A i \in 1 .. n - 1 : i \in DOMAIN parent
      BY <1>1, <2>1
    <2>3. \A i \in 1 .. n - 1 : Dangling(i)' => 2 * i <= cap'
      BY <1>5, <2>2 DEF DanglingBelowGrowth
    <2>4. \A i, j \in 1 .. n - 1 : (i < j /\ Dangling(j)') => (i = 1 \/ Dangling(i)')
      BY <1>5, <2>2 DEF DanglingBelowGrowth
    <2>5. QED
      BY <1>2, <2>3, <2>4 DEF DanglingBelowGrowth
  <1>7. WalkSound'
    BY DEF WalkSound
  <1>8. QED
    BY <1>3, <1>4, <1>6, <1>7

LEMMA DefineIInv ==
  ASSUME IInv, NEW x \in Names, NEW s \in Symbols, Define(x, s)
  PROVE  IInv'
  <1> USE DEF IInv, TypeOK, Define, Busy
  <1>1. Len(scopes) \in 1 .. Len(scopes)
    OBVIOUS
  <1>2. [scopes[Len(scopes)] EXCEPT ![x] = s] \in SymbolTable
    BY <1>1 DEF SymbolTable
  <1>3. scopes' \in Seq(SymbolTable) /\ Len(scopes') = Len(scopes)
    BY <1>1, <1>2
  <1>4. Linked' /\ DanglingBelowGrowth'
    BY DEF Linked, DanglingBelowGrowth, Dangling
  <1>5. QED
    BY <1>3, <1>4 DEF WalkSound

LEMMA LookupIInv == ASSUME IInv, NEW x \in Names, LookupAll(x) PROVE IInv'
  <1> USE DEF IInv, TypeOK, LookupAll, Busy
  <1>1. at' \in 0 .. Len(scopes')
    OBVIOUS
  <1>2. Linked' /\ DanglingBelowGrowth'
    BY DEF Linked, DanglingBelowGrowth, Dangling
  <1>3. QED
    BY <1>1, <1>2 DEF WalkSound

(* A lookup under way is in an open scope and reads a symbol from it.      *)
LEMMA HereType ==
  ASSUME IInv, Busy
  PROVE  at \in DOMAIN scopes /\ at \in DOMAIN parent /\ Here \in Symbols \cup {NoSymbol}
  BY DEF IInv, TypeOK, Busy, Here, SymbolTable

LEMMA WalkIInv == ASSUME IInv, Walk PROVE IInv'
  <1>1. ASSUME NEW s \in Symbols \cup {NoSymbol}, Reply(s) PROVE IInv'
    <2> USE <1>1 DEF IInv, Reply
    <2>1. TypeOK'
      BY DEF TypeOK
    <2>2. Linked' /\ DanglingBelowGrowth'
      BY DEF Linked, DanglingBelowGrowth, Dangling
    <2>3. QED
      BY <2>1, <2>2 DEF WalkSound, Busy
  <1>2. CASE Found
    BY <1>1, <1>2, HereType DEF Found
  <1>3. CASE ClimbToFreed
    BY <1>1, <1>3 DEF ClimbToFreed
  <1>4. CASE NotFound
    BY <1>1, <1>4 DEF NotFound
  <1>5. CASE Climb
    <2> USE <1>5 DEF IInv, Climb
    <2>1. at \in DOMAIN scopes /\ at \in DOMAIN parent
      BY HereType
    <2>2. at \in Nat /\ at > 1 /\ at' = at - 1
      BY <2>1 DEF Linked, TypeOK
    <2>3. TypeOK'
      BY <2>1, <2>2 DEF TypeOK
    <2>4. Linked' /\ DanglingBelowGrowth'
      BY DEF Linked, DanglingBelowGrowth, Dangling
    <2>5. scopes[at][asked] = NoSymbol /\ ~Dangling(at)
      BY DEF Here
    <2>6. WalkSound'
      BY <2>2, <2>5 DEF WalkSound, Busy, Dangling, TypeOK
    <2>7. QED
      BY <2>3, <2>4, <2>6
  <1>6. QED
    BY <1>2, <1>3, <1>4, <1>5 DEF Walk

LEMMA NextIInv == IInv /\ [ScopesNext]_scopesVars => IInv'
  <1> SUFFICES ASSUME IInv, [ScopesNext]_scopesVars PROVE IInv'
    OBVIOUS
  <1>1. CASE PushScope
    BY <1>1, PushIInv
  <1>2. CASE PopScope
    BY <1>2, PopIInv
  <1>3. CASE \E x \in Names, s \in Symbols : Define(x, s)
    BY <1>3, DefineIInv
  <1>4. CASE \E x \in Names : LookupAll(x)
    BY <1>4, LookupIInv
  <1>5. CASE Walk
    BY <1>5, WalkIInv
  <1>6. CASE UNCHANGED scopesVars
    BY <1>6 DEF scopesVars, IInv, TypeOK, Linked, DanglingBelowGrowth, WalkSound,
                Dangling, Busy
  <1>7. QED
    BY <1>1, <1>2, <1>3, <1>4, <1>5, <1>6 DEF ScopesNext

(* Every state of the scope stack satisfies the inductive invariant.       *)
LEMMA Invariance == ScopesSpec => []IInv
  BY InitIInv, NextIInv, PTL DEF ScopesSpec

LEMMA WarmInvariance == WarmSpec => []IInv
  BY WarmInitIInv, NextIInv, PTL DEF WarmSpec

(* Type correctness of the vector, its links and the walk.                 *)
THEOREM TypeCorrect == ScopesSpec => []TypeOK
  BY Invariance, PTL DEF IInv

(* pushScope and popScope: freed parents stay in the lower half of the     *)
(* buffer and below every sound link, however scopes come and go.          *)
THEOREM DanglingIsBounded == ScopesSpec => []DanglingBelowGrowth
  BY Invariance, PTL DEF IInv

-----------------------------------------------------------------------------
(* The innermost declaration of x is the one in scope i when i declares x  *)
(* and no scope above does.                                                *)
LEMMA InnermostAt ==
  ASSUME NEW tables \in Seq(SymbolTable), NEW x \in Names, NEW i \in DOMAIN tables,
         tables[i][x] # NoSymbol,
         \A j \in DOMAIN tables : j > i => tables[j][x] = NoSymbol
  PROVE  L!Innermost(tables, x) = tables[i][x]
  <1> DEFINE D == L!Declaring(tables, x)
             IsTop(k) == \A j \in D : j <= k
  <1>1. i \in D /\ D \subseteq Nat
    BY DEF L!Declaring
  <1>2. \A j \in D : j <= i
    BY DEF L!Declaring
  <1>3. \A k \in D : IsTop(k) => k = i
    BY <1>1, <1>2
  <1>4. (CHOOSE k \in D : IsTop(k)) = i
    <2> HIDE DEF D
    <2>1. (CHOOSE k \in D : IsTop(k)) \in D /\ IsTop(CHOOSE k \in D : IsTop(k))
      BY <1>1, <1>2
    <2>2. QED
      BY <2>1, <1>3
  <1>5. QED
    BY <1>1, <1>4 DEF L!Innermost

(* A walk that ends in memory it may read returns the innermost symbol.    *)
LEMMA WalkExact ==
  ASSUME IInv, Found \/ NotFound
  PROVE  answer' = L!Innermost(scopes, asked)
  <1>1. at \in DOMAIN scopes /\ at \in DOMAIN parent /\ scopes \in Seq(SymbolTable)
        /\ asked \in Names /\ Busy
    BY HereType DEF IInv, TypeOK, Found, NotFound
  <1>2. \A i \in DOMAIN scopes : i > at => scopes[i][asked] = NoSymbol
    BY <1>1 DEF IInv, WalkSound
  <1>3. CASE Found
    BY <1>1, <1>2, <1>3, InnermostAt DEF Found, Here, Reply
  <1>4. CASE NotFound
    <2>1. at = 1
      BY <1>1, <1>4 DEF NotFound, IInv, Linked, TypeOK, Null
    <2>2. \A i \in DOMAIN scopes : scopes[i][asked] = NoSymbol
      BY <1>1, <1>2, <1>4, <2>1 DEF NotFound, Here
    <2>3. L!Declaring(scopes, asked) = {}
      BY <2>2 DEF L!Declaring
    <2>4. QED
      BY <1>4, <2>3 DEF NotFound, Reply, L!Innermost
  <1>5. QED
    BY <1>3, <1>4

(* A lookup that is leaving through a freed link has no declaration within *)
(* reach.                                                                  *)
LEMMA FreedIsOutOfReach ==
  ASSUME IInv, ClimbToFreed
  PROVE  Reach \cap L!Declaring(scopes, asked) = {}
  <1>1. at \in DOMAIN scopes /\ Dangling(at) /\ scopes[at][asked] = NoSymbol
    BY HereType DEF ClimbToFreed, Here
  <1>2. \A i \in DOMAIN scopes : i > at => scopes[i][asked] = NoSymbol
    BY DEF IInv, WalkSound, ClimbToFreed
  <1>3. \A i \in Reach : i \in DOMAIN scopes /\ ~(at > i)
    BY <1>1 DEF Reach
  <1>4. at \in Nat /\ DOMAIN scopes \subseteq Nat
    BY <1>1 DEF IInv, TypeOK
  <1>5. \A i \in Reach : scopes[i][asked] = NoSymbol
    BY <1>1, <1>2, <1>3, <1>4
  <1>6. QED
    BY <1>5 DEF L!Declaring

(* A step that ends a lookup is one of the three returns of lookupAll.     *)
LEMMA LookupEnds ==
  ASSUME IInv, [ScopesNext]_scopesVars, Busy, at' = 0
  PROVE  Found \/ NotFound \/ ClimbToFreed
  <1>1. ~Climb
    BY HereType DEF Climb, IInv, TypeOK, Linked, Busy, Null
  <1>2. QED
    BY <1>1 DEF ScopesNext, Walk, PushScope, PopScope, Define, LookupAll, scopesVars, Busy

(* lookupAll returns the innermost declaration that sound links reach.     *)
THEOREM ExactInReach == ScopesSpec => LookupExactInReach
  <1> DEFINE A == (Busy /\ at' = 0 /\ Reach \cap L!Declaring(scopes, asked) # {})
                    => answer' = L!Innermost(scopes, asked)
  <1>1. IInv /\ [ScopesNext]_scopesVars => A
    BY LookupEnds, WalkExact, FreedIsOutOfReach
  <1>2. IInv /\ [ScopesNext]_scopesVars => [A]_scopesVars
    BY <1>1
  <1>3. QED
    BY <1>2, Invariance, PTL DEF ScopesSpec, LookupExactInReach

-----------------------------------------------------------------------------
(* On a warm stack no link is ever freed: the buffer stays.                *)
WarmInv == IInv /\ Warm

LEMMA WarmInvNext == WarmInv /\ [ScopesNext]_scopesVars => WarmInv'
  <1> SUFFICES ASSUME WarmInv, [ScopesNext]_scopesVars PROVE WarmInv'
    OBVIOUS
  <1>1. IInv'
    BY NextIInv DEF WarmInv
  <1>2. CASE PushScope
    <2>1. buffer' = buffer /\ cap' = cap
      BY <1>2 DEF PushScope, EmplaceBack, WarmInv, Warm, IInv, TypeOK
    <2>2. parent' = Append(parent, ParentOfNewTop) /\ parent \in Seq(Pointer)
          /\ Len(parent) = Len(scopes)
      BY <1>2 DEF PushScope, WarmInv, IInv, TypeOK
    <2>3. ParentOfNewTop = Null \/ ParentOfNewTop.buf = buffer
      BY <2>1 DEF ParentOfNewTop
    <2>4. DOMAIN parent' = 1 .. Len(parent) + 1
          /\ parent'[Len(parent) + 1] = ParentOfNewTop
          /\ \A i \in DOMAIN parent : parent'[i] = parent[i]
      BY <2>2
    <2>5. \A i \in DOMAIN parent' : i \in DOMAIN parent \/ i = Len(parent) + 1
      BY <2>2, <2>4
    <2>6. QED
      BY <1>1, <2>1, <2>3, <2>4, <2>5 DEF WarmInv, Warm, Dangling
  <1>3. CASE PopScope
    <2>1. \A i \in DOMAIN parent' : i \in DOMAIN parent /\ parent'[i] = parent[i]
      BY <1>3 DEF PopScope, WarmInv, IInv, TypeOK
    <2>2. QED
      BY <1>1, <1>3, <2>1 DEF PopScope, WarmInv, Warm, Dangling
  <1>4. CASE UNCHANGED <<parent, buffer, cap>>
    BY <1>1, <1>4 DEF WarmInv, Warm, Dangling
  <1>5. QED
    BY <1>2, <1>3, <1>4
       DEF ScopesNext, Define, LookupAll, Walk, Found, NotFound, Climb, ClimbToFreed,
           Reply, scopesVars

(* On a warm stack every step is a step of lexical scopes.                 *)
LEMMA WarmStep == WarmInv /\ [ScopesNext]_scopesVars => [L!Next]_(L!vars)
  <1> SUFFICES ASSUME WarmInv, [ScopesNext]_scopesVars PROVE [L!Next]_(L!vars)
    OBVIOUS
  <1>1. CASE PushScope
    BY <1>1 DEF PushScope, EmplaceBack, EmptyTable, L!EmptyTable, L!Push, L!Next, Busy
  <1>2. CASE PopScope
    BY <1>2 DEF PopScope, L!Pop, L!Next, Busy
  <1>3. CASE \E x \in Names, s \in Symbols : Define(x, s)
    BY <1>3 DEF Define, L!Define, L!Next, Busy
  <1>4. CASE \E x \in Names : LookupAll(x)
    BY <1>4 DEF LookupAll, L!Ask, L!Next, Busy, WarmInv, IInv, TypeOK
  <1>5. CASE Found \/ NotFound
    BY <1>5, WalkExact DEF Found, NotFound, Reply, L!Answer, L!Next, Busy, WarmInv
  <1>6. CASE Climb
    BY <1>6, HereType DEF Climb, L!vars, Busy, WarmInv, IInv, Linked, TypeOK
  <1>7. CASE ClimbToFreed
    BY <1>7, HereType DEF ClimbToFreed, WarmInv, Warm
  <1>8. CASE UNCHANGED scopesVars
    BY <1>8 DEF scopesVars, L!vars, Busy
  <1>9. QED
    BY <1>1, <1>2, <1>3, <1>4, <1>5, <1>6, <1>7, <1>8 DEF ScopesNext, Walk

(* However the stack came to be warm, from then on the analyser resolves   *)
(* names lexically (sema.cpp, pushScope and lookupAll).                    *)
THEOREM WarmLexical == ScopesSpec => WarmIsLexical
  <1>1. IInv /\ [ScopesNext]_scopesVars => (Warm => Warm' /\ [L!Next]_(L!vars))
    BY WarmInvNext, WarmStep DEF WarmInv
  <1>2. IInv /\ [ScopesNext]_scopesVars => [Warm => Warm' /\ [L!Next]_(L!vars)]_scopesVars
    BY <1>1
  <1>3. QED
    BY <1>2, Invariance, PTL DEF ScopesSpec, WarmIsLexical

(* From a warm start, between top-level declarations, the analyser's scope *)
(* stack implements lexical scopes.                                        *)
THEOREM WarmRefinement == WarmSpec => WarmImplements
  <1>1. WarmInit => L!Init /\ WarmInv
    <2> SUFFICES ASSUME WarmInit PROVE L!Init /\ WarmInv
      OBVIOUS
    <2>1. L!Init
      BY DEF WarmInit, L!Init, Busy, SymbolTable, L!SymbolTable
    <2>2. parent = <<Null>> /\ cap >= MaxDepth /\ cap \in Nat
      BY DEF WarmInit
    <2>3. \A i \in DOMAIN parent : ~Dangling(i)
      BY <2>2 DEF Dangling
    <2>4. QED
      BY <2>1, <2>2, <2>3, WarmInitIInv DEF WarmInv, Warm
  <1>2. QED
    BY <1>1, WarmStep, WarmInvNext, PTL DEF WarmSpec, WarmImplements, L!Spec
=============================================================================
