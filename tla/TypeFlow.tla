------------------------------ MODULE TypeFlow ------------------------------
(***************************************************************************)
(* The type of an expression, found three times over: by the analyser      *)
(* (sema.cpp), by the IR generator (irgen.cpp), and, for a variable        *)
(* declared without one, by the C back end (codegen.cpp).  The analyser    *)
(* hands types on by name: a visitor leaves the name of the type in        *)
(* resolvedType, and inferExprType looks it up again in the registry       *)
(* (types.cpp), which knows no name with parameters.  The visitors run in  *)
(* postorder, so an expression is a stack of operands, each with what the  *)
(* passes take it for and, as "is", the type it has in the language, or    *)
(* Any where the analyser had to guess it and nothing is claimed.          *)
(***************************************************************************)
EXTENDS Naturals, Sequences

CONSTANTS
  Annotations,  \* the types that are written out in the program
  Literals,     \* the types of the literals that occur
  FieldTypes,   \* the types of the fields of the declared type, as written
  MaxInPlay,    \* bound: operands under way and variables in scope
  MaxVariables, \* bound: variables in scope
  MaxNested     \* bound: length of a type

ASSUME BoundsAssumption == {MaxInPlay, MaxVariables, MaxNested} \subseteq Nat

VARIABLES
  operands,   \* the expression under way
  variables,  \* the symbols, IR slots and C declarations in scope
  falseAlarm  \* history: a mismatch was reported of types that match

vars == <<operands, variables, falseAlarm>>

(* A type is its constructors from the outside in; the declared type is    *)
(* "struct".  NoType is a null TypePtr.                                    *)
NoType  == <<>>
Any     == <<"any">>
Unknown == <<"unknown">>
Pointers == {"ptr", "ref"}
Numeric  == {"int", "double"}

(* TypeRegistry: aliases, and a name, which is all of a type without       *)
(* parameters.                                                             *)
Resolve(te) == [k \in DOMAIN te |-> IF te[k] = "u8" THEN "int" ELSE te[k]]
Lookup(t)   == IF t = NoType \/ t[1] \in Pointers \cup {"array", "unknown"} THEN NoType ELSE t
Name(t)     == IF t = NoType THEN Unknown ELSE t

IsCompatible(from, to) ==
  from # NoType /\ to # NoType =>
    \A k \in DOMAIN from \cap DOMAIN to :
      (\A j \in 1..(k - 1) : from[j] = to[j]) =>
        \/ from[k] = to[k]
        \/ "unknown" \in {from[k], to[k]}
        \/ from[k] = "null" /\ to[k] \in Pointers
        \/ {from[k], to[k]} \subseteq Numeric

(* The C type of each constructor.                                         *)
CWord == [int |-> "int64_t", u8 |-> "uint8_t", double |-> "double", string |-> "const char*",
          bool |-> "int", null |-> "void*", struct |-> "struct", ptr |-> "*", ref |-> "*",
          array |-> "NSLArray", unknown |-> "unknown"]

(* A written type has a name, and an array its element type: resolve makes *)
(* one of unknown where none is written.                                   *)
ASSUME WrittenAssumption ==
  /\ \A te \in Annotations \cup FieldTypes :
       te \in Seq(DOMAIN CWord) /\ te # <<>> /\ te[Len(te)] # "array"
  /\ Literals \subseteq DOMAIN CWord \ {"array"}

(* cTypeName of a type as it is written, and of the name of a type, whose  *)
(* inner type is copied as it stands.                                      *)
CType(te) ==
  LET upTo == {k \in DOMAIN te : \A j \in 1..(k - 1) : te[j] # "array"} IN
  [k \in upTo |-> CWord[te[k]]]
CName(t) == IF t[1] \in Pointers THEN <<"*">> \o Tail(t) ELSE CType(t)

-----------------------------------------------------------------------------
(* An operand: its type; resolvedType; the type of its IR value; and       *)
(* whether the IR adds, for an "is".                                       *)
Operand(is, resolved, ir) == [is |-> is, resolved |-> resolved, ir |-> ir, added |-> FALSE]
Plain(t) == Operand(t, t, t)
Inferred(e) == Lookup(e.resolved)          \* inferExprType

Top  == operands[Len(operands)]
Short(e) == \A t \in {e.is, e.resolved, e.ir} : Len(t) <= MaxNested
Room == Len(operands) + Len(variables) < MaxInPlay
Push(e) ==
  /\ Room /\ Short(e)
  /\ operands' = Append(operands, e)
  /\ UNCHANGED <<variables, falseAlarm>>
Replace(n, e) ==
  /\ Len(operands) >= n /\ Short(e)
  /\ operands' = Append(SubSeq(operands, 1, Len(operands) - n), e)
  /\ UNCHANGED <<variables, falseAlarm>>

Init == operands = <<>> /\ variables = <<>> /\ falseAlarm = FALSE

Literal(t) == Push(Plain(<<t>>))
(* A variable: its symbol, and a load from its slot.                       *)
UseVariable(k) ==
  LET v == variables[k] IN
  Push([Operand(v.is, Name(v.symbol), v.ir) EXCEPT !.added = v.added])
(* A constant, or the name of a function, has no slot in the IR.           *)
UseGlobal(te) == Push(Operand(Resolve(te), Resolve(te), Lookup(Resolve(te))))
Call(te)      == Push(Operand(Resolve(te), Unknown, NoType))
New(te)       == Push(Plain(<<"ptr">> \o Resolve(te)))
(* move, copy, await and the sign.                                         *)
SameType ==
  /\ operands # <<>>
  /\ Replace(1, [Top EXCEPT !.resolved = Name(Inferred(Top))])
Not == Replace(1, Plain(<<"bool">>))
RefTo(is) == IF is = Any THEN Any ELSE <<"ref">> \o is
RefOfValue ==          \* mutant of Ref: the IR gives the type of what is referred to
  /\ operands # <<>>
  /\ Replace(1, [Top EXCEPT !.is = RefTo(@), !.resolved = <<"ref">> \o Name(Inferred(Top))])
Ref ==
  /\ operands # <<>>
  /\ Replace(1, [Top EXCEPT !.is = RefTo(@), !.resolved = <<"ref">> \o Name(Inferred(Top)),
                            !.ir = <<"ref">> \o Name(@)])
(* A field, or (Unknown) a name that is none.                              *)
Member(field) ==
  /\ operands # <<>>
  /\ LET found(t) == IF t = <<"struct">> THEN Resolve(field) ELSE IF t = Any THEN t ELSE Unknown IN
     Replace(1, Operand(found(Top.is), found(Inferred(Top)), NoType))
Element(t) ==
  IF t # NoType /\ t[1] = "array" THEN Tail(t) ELSE IF t = Any THEN t ELSE Unknown
Index ==
  /\ Len(operands) >= 2
  /\ LET array == operands[Len(operands) - 1]
     IN  Replace(2, Operand(Element(array.is), Element(Inferred(array)), NoType))

(* Comparisons, "is", and arithmetic, which has the type of its left       *)
(* operand, or int where there is none; but 1 + 2.5 is a double.           *)
BinaryOfLeft(op) ==    \* mutant of Binary: an "is" has the type of its left operand
  /\ Len(operands) >= 2
  /\ LET left == operands[Len(operands) - 1] IN
     IF op = "==" THEN Replace(2, Plain(<<"bool">>))
     ELSE IF op = "is"
     THEN Replace(2, [Operand(<<"bool">>, Name(Inferred(left)), left.ir) EXCEPT !.added = TRUE])
     ELSE Replace(2, [left EXCEPT !.resolved = IF Inferred(left) = NoType THEN <<"int">> ELSE @])
Binary(op) ==
  /\ Len(operands) >= 2
  /\ LET left  == operands[Len(operands) - 1]
         known == Inferred(left) # NoType
         widens == left.is = <<"int">> /\ Top.is = <<"double">> IN
     CASE op = "==" -> Replace(2, Plain(<<"bool">>))
       [] op = "is" -> Replace(2, [Operand(<<"bool">>, <<"bool">>, left.ir) EXCEPT !.added = TRUE])
       [] op = "+"  -> Replace(2, [left EXCEPT
                                     !.is       = IF known /\ ~widens THEN @ ELSE Any,
                                     !.resolved = IF known THEN @ ELSE <<"int">>])

-----------------------------------------------------------------------------
(* A declaration of a variable: its symbol, its IR slot, its C type, which *)
(* in the heap is a pointer to the one written or found; "stack" stands    *)
(* for the other regions, and for none.                                    *)
Regions == {"heap", "stack"}
HeldAsItIs(region, c) == c      \* mutant of Held: the region is passed over
Held(region, c) == IF region = "heap" THEN <<"*">> \o c ELSE c
Declared(te, region) ==
  [is |-> Resolve(te), symbol |-> Resolve(te), ir |-> Resolve(te), c |-> Held(region, CType(te)),
   region |-> region, untyped |-> FALSE, added |-> FALSE]
Declare(v) ==
  /\ Len(variables) < MaxVariables
  /\ variables' = Append(variables, v)

(* checkType: a mismatch, and whether it is one.                           *)
Check(e, declared, is) ==
  falseAlarm' = (falseAlarm \/ (/\ ~IsCompatible(Inferred(e), declared)
                                /\ Any \notin {e.is, is} /\ IsCompatible(e.is, is)))

(* Parameters, and catch variables with a type; let without a value, and  *)
(* with neither value nor type.                                            *)
Given(v) ==
  /\ operands = <<>> /\ Room
  /\ Declare(v)
  /\ UNCHANGED <<operands, falseAlarm>>
Parameter(te) == Given(Declared(te, "stack"))
LetNoValue(te, region) == Given(Declared(te, region))
LetBare(region) ==
  Given([is |-> Any, symbol |-> Unknown, ir |-> Unknown, c |-> Held(region, <<"*", "void">>),
         region |-> region, untyped |-> FALSE, added |-> FALSE])
LetTyped(te, region) ==
  /\ Len(operands) = 1
  /\ Declare(Declared(te, region))
  /\ Check(Top, Resolve(te), Resolve(te))
  /\ operands' = <<>>
(* let without a type: the C back end reads the initialiser's resolvedType.*)
LetUntyped(region) ==
  /\ Len(operands) = 1
  /\ Declare([is |-> Top.is, symbol |-> Inferred(Top), ir |-> Top.ir,
              c |-> Held(region, IF Top.resolved = Unknown THEN <<"int64_t">>
                                 ELSE CName(Top.resolved)),
              region |-> region, untyped |-> TRUE, added |-> Top.added])
  /\ operands' = <<>>
  /\ UNCHANGED falseAlarm
(* A loop variable: what the analyser infers is never an array.            *)
LoopVariable ==
  /\ Len(operands) = 1
  /\ Declare([is |-> Element(Top.is), symbol |-> Unknown, ir |-> Unknown, c |-> <<"*", "void">>,
              region |-> "stack", untyped |-> FALSE, added |-> FALSE])
  /\ operands' = <<>>
  /\ UNCHANGED falseAlarm
(* The target, any expression the parser takes, is visited first.          *)
Set ==
  /\ Len(operands) = 2
  /\ Check(Top, Inferred(operands[1]), operands[1].is)
  /\ operands' = <<>>
  /\ UNCHANGED variables
Return(te) ==
  /\ Len(operands) = 1
  /\ Check(Top, Resolve(te), Resolve(te))
  /\ operands' = <<>>
  /\ UNCHANGED variables
Leave ==
  /\ operands = <<>> /\ variables # <<>>
  /\ variables' = SubSeq(variables, 1, Len(variables) - 1)
  /\ UNCHANGED <<operands, falseAlarm>>

Next ==
  \/ \E t \in Literals : Literal(t)
  \/ \E k \in DOMAIN variables : UseVariable(k)
  \/ \E te \in Annotations : UseGlobal(te) \/ Call(te) \/ New(te) \/ Parameter(te) \/ Return(te)
  \/ \E te \in Annotations, region \in Regions : LetNoValue(te, region) \/ LetTyped(te, region)
  \/ \E region \in Regions : LetUntyped(region) \/ LetBare(region)
  \/ SameType \/ Not \/ Ref \/ Index
  \/ \E field \in FieldTypes \cup {Unknown} : Member(field)
  \/ \E op \in {"==", "is", "+"} : Binary(op)
  \/ Set \/ LoopVariable \/ Leave

Spec == Init /\ [][Next]_vars
-----------------------------------------------------------------------------
(* A mismatch is reported (sema.hpp, checkType) only of types that do not  *)
(* match, however the type reached the check: by name, through variables   *)
(* and fields, or not at all.  Where arithmetic made the analyser guess,   *)
(* nothing is claimed.                                                     *)
MismatchesAreReal == ~falseAlarm

(* A type as far as it is known.                                           *)
Approximates(t, is) ==
  LET n == Len(t) IN
  \/ t \in {NoType, is} \/ is = Any
  \/ t[n] = "unknown" /\ n - 1 <= Len(is) /\ SubSeq(t, 1, n - 1) = SubSeq(is, 1, n - 1)

(* The IR gives a value the type it has, or none, although it takes types  *)
(* from slots where the analyser takes them from symbols; but it adds for  *)
(* an "is", and shares the analyser's rule for arithmetic.                 *)
IRTypesHold ==
  \A k \in DOMAIN operands :
    LET e == operands[k] IN ~e.added => Approximates(e.ir, e.is)

(* A variable declared without a type gets the C type of its value,        *)
(* whenever the analyser knows that type when it meets the declaration; in *)
(* the heap region it gets a pointer to that type, as every heap variable  *)
(* does, also one whose value is a pointer ("let player: ptr<Player> in    *)
(* heap = new Player()", README.md, has the type Player** in the C).       *)
CTypesHold ==
  \A k \in DOMAIN variables :
    LET v     == variables[k]
        value == CType(v.is) IN
    v.untyped /\ v.symbol # NoType /\ v.is # Any =>
      v.c = IF v.region = "heap" THEN <<"*">> \o value ELSE value
=============================================================================
