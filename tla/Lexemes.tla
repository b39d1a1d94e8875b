------------------------------ MODULE Lexemes ------------------------------
(***************************************************************************)
(* The lexical grammar the lexer is meant to accept, as sets of strings,   *)
(* and the tokens of a source by longest match.  Nothing here scans.       *)
(* Characters are classes: "sp" a blank, "cr" a carriage return, "nl" a    *)
(* newline, "quo" and "apo" the quotes, "bs" a backslash, "(" any bracket  *)
(* or other single character, "$" one that starts nothing; "end" is no     *)
(* character.                                                              *)
(***************************************************************************)
EXTENDS Naturals, Sequences, FiniteSets, SequencesExt

Digits    == {"0", "1"}
HexDigits == Digits \cup {"a", "b", "e"}
Letters   == {"a", "b", "e", "n", "r", "x"}
Blanks    == {"sp", "cr"}
Pairs     == {<<"-", ">">>, <<"=", "=">>, <<"!", "=">>, <<"<", "=">>, <<">", "=">>}
Singles   == {"+", "-", "*", "/", "=", "<", ">", ".", "("}

MadeOf(s, chars) == \A k \in 1..Len(s) : s[k] \in chars
From(s, k)       == SubSeq(s, k, Len(s))

(* In the body of a literal, the character at k is escaped when an odd run *)
(* of backslashes stands before it.                                        *)
Escaped(body, k) ==
  LET run == {j \in 1..(k - 1) : \A i \in j..(k - 1) : body[i] = "bs"}
  IN  Cardinality(run) % 2 = 1
(* What a body stands for, when esc(c) is what an escaped c stands for.    *)
Meaning(body, esc(_)) ==
  FlattenSeq([k \in 1..Len(body) |->
    IF Escaped(body, k) THEN esc(body[k])
    ELSE IF body[k] = "bs" THEN <<>> ELSE <<body[k]>>])

Body(s) == SubSeq(s, 2, Len(s) - 1)
Quoted(s, q) == Len(s) > 1 /\ s[1] = q /\ Last(s) = q

IsInt(s) ==
  \/ MadeOf(s, Digits)
  \/ Len(s) > 1 /\ s[1] = "0" /\ s[2] = "x" /\ MadeOf(From(s, 3), HexDigits)
  \/ Len(s) > 1 /\ s[1] = "0" /\ s[2] = "b" /\ MadeOf(From(s, 3), Digits)
IsFraction(s) == Len(s) > 1 /\ s[1] = "." /\ MadeOf(Tail(s), Digits)
IsExponent(s) ==
  /\ s # <<>> /\ s[1] = "e"
  /\ \/ MadeOf(Tail(s), Digits)
     \/ Len(s) > 1 /\ s[2] \in {"+", "-"} /\ MadeOf(From(s, 3), Digits)
IsFloat(s) ==
  \E d \in 1..(Len(s) - 1), f \in 1..Len(s) :
    /\ d <= f
    /\ MadeOf(SubSeq(s, 1, d), Digits)
    /\ f = d \/ IsFraction(SubSeq(s, d + 1, f))
    /\ f = Len(s) \/ IsExponent(From(s, f + 1))
IsString(s) ==
  /\ Quoted(s, "quo")
  /\ ~Escaped(Body(s), Len(s) - 1)
  /\ \A k \in 1..(Len(s) - 2) : Body(s)[k] \in {"quo", "nl"} => Escaped(Body(s), k)
(* A character literal may be empty, and may hold a bare newline.          *)
IsChar(s) ==
  /\ Quoted(s, "apo")
  /\ \/ Len(s) = 2
     \/ Len(s) = 3 /\ s[2] \notin {"apo", "bs"}
     \/ Len(s) = 4 /\ s[2] = "bs"
IsBlockOpen(s) == Len(s) > 1 /\ s[1] = "/" /\ s[2] = "*"
Closes(s, k)   == s[k] = "*" /\ s[k + 1] = "/"
IsComment(s) ==
  \/ Len(s) > 1 /\ s[1] = "/" /\ s[2] = "/" /\ "nl" \notin ToSet(s)
  \/ IsBlockOpen(s) /\ Len(s) > 3 /\ {k \in 3..(Len(s) - 1) : Closes(s, k)} = {Len(s) - 1}
IsUnclosed(s) == IsBlockOpen(s) /\ ~\E k \in 3..(Len(s) - 1) : Closes(s, k)

(* The kinds a nonempty string may have.                                   *)
KindsOf(s) ==
  {k \in {"blank", "nl", "int", "float", "string", "char", "ident", "comment", "unclosed", "op"} :
    CASE k = "blank"    -> Len(s) = 1 /\ s[1] \in Blanks
      [] k = "nl"       -> s = <<"nl">>
      [] k = "int"      -> IsInt(s)
      [] k = "float"    -> IsFloat(s)
      [] k = "string"   -> IsString(s)
      [] k = "char"     -> IsChar(s)
      [] k = "ident"    -> s[1] \in Letters /\ MadeOf(s, Letters \cup Digits)
      [] k = "comment"  -> IsComment(s)
      [] k = "unclosed" -> IsUnclosed(s)
      [] k = "op"       -> s \in Pairs \/ (Len(s) = 1 /\ s[1] \in Singles)}

(* The lexeme at position i: the longest string there that has a kind.     *)
LexemeAt(source, i) ==
  LET Ends == {j \in i..Len(source) : KindsOf(SubSeq(source, i, j)) # {}}
      last == CHOOSE j \in Ends : \A k \in Ends : k <= j
  IN  IF Ends = {} THEN [kind |-> "none", first |-> i, last |-> i]
      ELSE [kind |-> CHOOSE k \in KindsOf(SubSeq(source, i, last)) : TRUE,
            first |-> i, last |-> last]
(* All lexemes, from left to right.                                        *)
Lexemes(source) ==
  LET after[i \in 1..(Len(source) + 1)] ==
        IF i > Len(source) THEN <<>>
        ELSE LET here == LexemeAt(source, i) IN <<here>> \o after[here.last + 1]
  IN  after[1]

(* A source is well formed when it is made of lexemes, and its tokens are  *)
(* those, without blanks and comments, where newlines only separate.       *)
WellFormed(source) ==
  \A k \in 1..Len(Lexemes(source)) : Lexemes(source)[k].kind \notin {"none", "unclosed"}
IsSolid(x) == x.kind \notin {"blank", "comment", "nl"}
(* A newline ends a line of tokens when it is the first after a token.     *)
EndsLine(all, k) ==
  /\ all[k].kind = "nl"
  /\ \E i \in 1..(k - 1) : IsSolid(all[i]) /\ \A j \in i..(k - 1) : all[j].kind # "nl"
TokensOf(source) ==
  LET all == Lexemes(source)
      Separates(k) == EndsLine(all, k) /\ \E j \in k..Len(all) : IsSolid(all[j])
  IN  FlattenSeq([k \in 1..Len(all) |->
        IF IsSolid(all[k]) \/ Separates(k) THEN <<all[k]>> ELSE <<>>])
=============================================================================
