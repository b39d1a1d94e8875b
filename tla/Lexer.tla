------------------------------- MODULE Lexer -------------------------------
(***************************************************************************)
(* The lexer (lexer.cpp): tokenize, whose loop looks at one character to   *)
(* choose what to read, and the readers it calls, which go by runs of      *)
(* characters or, in strings and block comments, character by character.   *)
(* Then what the C back end makes of the literals (codegen.cpp).  The      *)
(* characters are those of Lexemes; "nul" is the character '\0'.  A token  *)
(* is the positions it was read from and, for a quoted one, its text.      *)
(* Keywords are identifiers here: keywordKind only looks up the word.      *)
(***************************************************************************)
EXTENDS Lexemes

CONSTANT Inputs
  \* the kinds of source that occur, each [chars |-> the characters it is
  \* made of, max |-> the most it has of them (bound)]

ASSUME InputsAssumption == \A input \in Inputs : input.max \in Nat /\ "end" \notin input.chars

VARIABLES
  source,   \* m_source
  pos,      \* m_pos, from 1
  mode,     \* where the lexer is: in tokenize, in a reader, or returned
  open,     \* where the string or comment being read began
  text,     \* value, the text of the string being read
  tokens,   \* the tokens so far
  failed    \* whether an error was reported

vars == <<source, pos, mode, open, text, tokens, failed>>

At(i)  == IF i <= Len(source) THEN source[i] ELSE "end"
AtEnd  == pos > Len(source)
(* The first position from i on whose character is not one of chars.       *)
RunEnd(chars, i) ==
  CHOOSE j \in i..(Len(source) + 1) :
    At(j) \notin chars /\ \A k \in i..(j - 1) : source[k] \in chars

Token(kind, from, to, val) == [kind |-> kind, first |-> from, last |-> to - 1, text |-> val]
(* A reader that begins at pos returns with m_pos = to.                    *)
Read(kind, to, val) ==
  /\ tokens' = Append(tokens, Token(kind, pos, to, val))
  /\ pos' = to
  /\ UNCHANGED <<source, mode, open, text>>

Init ==
  /\ \E input \in Inputs : source \in BoundedSeq(input.chars, input.max)
  /\ pos = 1 /\ mode = "scan" /\ open = 0 /\ text = <<>>
  /\ tokens = <<>> /\ failed = FALSE

Scanning(chars) == mode = "scan" /\ At(pos) \in chars

(* Blanks separate.                                                        *)
SkipBlank ==
  /\ Scanning(Blanks)
  /\ pos' = pos + 1
  /\ UNCHANGED <<source, mode, open, text, tokens, failed>>

(* A newline counts once, and not before the first token.                  *)
Newline ==
  /\ Scanning({"nl"})
  /\ IF tokens # <<>> /\ Last(tokens).kind # "nl" THEN Read("nl", pos + 1, <<>>)
     ELSE pos' = pos + 1 /\ UNCHANGED <<source, mode, open, text, tokens>>
  /\ UNCHANGED failed

(* A slip: a dot alone begins a fraction.                                  *)
NumberEndAnyDot ==
  LET whole    == RunEnd(Digits, pos)
      fraction == IF At(whole) = "." THEN RunEnd(Digits, whole + 1) ELSE whole
  IN  [kind |-> IF fraction = whole THEN "int" ELSE "float", to |-> fraction]
(* readNumber: a prefixed integer, or digits, a fraction, an exponent.     *)
NumberEnd ==
  LET whole    == RunEnd(Digits, pos)
      fraction == IF At(whole) = "." /\ At(whole + 1) \in Digits
                  THEN RunEnd(Digits, whole + 1) ELSE whole
      exponent == IF At(fraction) # "e" THEN fraction
                  ELSE RunEnd(Digits, fraction + (IF At(fraction + 1) \in {"+", "-"} THEN 2 ELSE 1))
  IN  IF At(pos) = "0" /\ At(pos + 1) = "x" THEN [kind |-> "int", to |-> RunEnd(HexDigits, pos + 2)]
      ELSE IF At(pos) = "0" /\ At(pos + 1) = "b" THEN [kind |-> "int", to |-> RunEnd(Digits, pos + 2)]
      ELSE [kind |-> IF exponent = whole THEN "int" ELSE "float", to |-> exponent]
ReadNumber ==
  /\ Scanning(Digits)
  /\ Read(NumberEnd.kind, NumberEnd.to, <<>>)
  /\ UNCHANGED failed
ReadIdent ==
  /\ Scanning(Letters)
  /\ Read("ident", RunEnd(Letters \cup Digits, pos), <<>>)
  /\ UNCHANGED failed

(* Comments leave no token; the newline after a line comment stays.        *)
LineComment ==
  /\ Scanning({"/"}) /\ At(pos + 1) = "/"
  /\ pos' = RunEnd({source[k] : k \in 1..Len(source)} \ {"nl"}, pos)
  /\ UNCHANGED <<source, mode, open, text, tokens, failed>>
OpenComment ==
  /\ Scanning({"/"}) /\ At(pos + 1) = "*"
  /\ pos' = pos + 2
  /\ mode' = "comment"
  /\ UNCHANGED <<source, open, text, tokens, failed>>
InComment ==
  /\ mode = "comment" /\ ~AtEnd
  /\ IF At(pos) = "*" /\ At(pos + 1) = "/" THEN mode' = "scan" /\ pos' = pos + 2
     ELSE mode' = mode /\ pos' = pos + 1
  /\ UNCHANGED <<source, open, text, tokens, failed>>
(* A slip: the comment is left without a word.                             *)
CommentRunsOutQuietly ==
  /\ mode = "comment" /\ AtEnd
  /\ mode' = "scan"
  /\ UNCHANGED <<source, pos, open, text, tokens, failed>>
CommentRunsOut ==
  /\ mode = "comment" /\ AtEnd
  /\ mode' = "scan"
  /\ failed' = TRUE
  /\ UNCHANGED <<source, pos, open, text, tokens>>

(* readString, one character or escape at a time.                          *)
StringEscape(c) ==
  CASE c = "n" -> <<"nl">> [] c = "r" -> <<"cr">> [] c = "0" -> <<"nul">> [] c \in {"quo", "bs"} -> <<c>>
    [] OTHER -> <<"bs", c>>
OpenString ==
  /\ Scanning({"quo"})
  /\ pos' = pos + 1 /\ open' = pos
  /\ mode' = "string" /\ text' = <<>>
  /\ UNCHANGED <<source, tokens, failed>>
InString ==
  /\ mode = "string" /\ ~AtEnd /\ At(pos) \notin {"quo", "bs", "nl"}
  /\ text' = Append(text, At(pos))
  /\ pos' = pos + 1
  /\ UNCHANGED <<source, mode, open, tokens, failed>>
InStringEscape ==
  /\ mode = "string" /\ At(pos) = "bs" /\ pos < Len(source)
  /\ text' = text \o StringEscape(At(pos + 1))
  /\ pos' = pos + 2
  /\ UNCHANGED <<source, mode, open, tokens, failed>>
(* A backslash at the end of the source, or a bare newline, ends the loop. *)
StringBreaks ==
  /\ mode = "string" /\ (At(pos) = "nl" \/ (At(pos) = "bs" /\ pos = Len(source)))
  /\ pos' = pos + 1
  /\ mode' = "stringEnd"
  /\ failed' = TRUE
  /\ UNCHANGED <<source, open, text, tokens>>
(* Then one character is taken for the closing quote, whatever it is.      *)
CloseString ==
  /\ mode = "stringEnd" \/ (mode = "string" /\ At(pos) \in {"quo", "end"})
  /\ pos' = IF AtEnd THEN pos ELSE pos + 1
  /\ failed' = (failed \/ AtEnd)
  /\ tokens' = Append(tokens, Token("string", open, pos', text))
  /\ mode' = "scan" /\ text' = <<>> /\ open' = 0
  /\ UNCHANGED source
(* readChar.  The escape '\0' gives an empty text.                         *)
CharEscape(c) ==
  CASE c = "n" -> <<"nl">> [] c = "r" -> <<"cr">> [] c = "0" -> <<>> [] c \in {"apo", "bs"} -> <<c>>
    [] OTHER -> <<"bs", c>>
CharBody ==
  LET c == At(pos + 1) IN
  CASE c \in {"apo", "end"} -> [to |-> pos + 1, text |-> <<>>]
    [] c = "bs" /\ At(pos + 2) # "end" -> [to |-> pos + 3, text |-> CharEscape(At(pos + 2))]
    [] OTHER -> [to |-> pos + 2, text |-> <<c>>]
ReadChar ==
  /\ Scanning({"apo"})
  /\ LET closed == At(CharBody.to) = "apo" IN
       /\ Read("char", IF closed THEN CharBody.to + 1 ELSE CharBody.to, CharBody.text)
       /\ failed' = (failed \/ ~closed)

(* readOperatorOrPunct; what is no operator is reported and dropped.       *)
ReadOperator ==
  /\ Scanning(Singles \cup {"!"}) /\ ~(At(pos) = "/" /\ At(pos + 1) \in {"/", "*"})
  /\ <<At(pos), At(pos + 1)>> \in Pairs \/ At(pos) # "!"
  /\ Read("op", IF <<At(pos), At(pos + 1)>> \in Pairs THEN pos + 2 ELSE pos + 1, <<>>)
  /\ UNCHANGED failed
Stray ==
  \/ Scanning({"!"}) /\ At(pos + 1) # "="
  \/ mode = "scan" /\ At(pos) \notin Digits \cup Letters \cup Singles \cup Blanks \cup
                        {"nl", "quo", "apo", "!", "end"}
(* A slip: the character is reported, not consumed.                        *)
StrayStays ==
  Stray /\ failed' = TRUE /\ UNCHANGED <<source, pos, mode, open, text, tokens>>
Unexpected ==
  /\ Stray
  /\ pos' = pos + 1
  /\ failed' = TRUE
  /\ UNCHANGED <<source, mode, open, text, tokens>>

(* tokenize returns; newlines at the end are taken back.                   *)
EndOfSource ==
  /\ Scanning({"end"})
  /\ tokens' = SubSeq(tokens, 1, SelectLastInSeq(tokens, LAMBDA t : t.kind # "nl"))
  /\ mode' = "done"
  /\ UNCHANGED <<source, pos, open, text, failed>>

Next ==
  \/ SkipBlank \/ Newline \/ ReadNumber \/ ReadIdent
  \/ LineComment \/ OpenComment \/ InComment \/ CommentRunsOut
  \/ OpenString \/ InString \/ InStringEscape \/ StringBreaks \/ CloseString
  \/ ReadChar \/ ReadOperator \/ Unexpected \/ EndOfSource

Spec == Init /\ [][Next]_vars /\ WF_vars(Next)
-----------------------------------------------------------------------------
(* What the C back end writes for a character of a string                  *)
(* (visitStringLitExpr) and of a character literal (visitCharLitExpr, which *)
(* leaves a carriage return as it is); the parser takes the value of the   *)
(* latter from the text.                                                   *)
(* A slip: backslashes are left alone.                                     *)
EscapeQuoteOnly(c) ==
  CASE c = "nl" -> <<"bs", "n">> [] c = "cr" -> <<"bs", "r">> [] c = "quo" -> <<"bs", c>> [] OTHER -> <<c>>
EscapeInString(c) ==
  CASE c = "nl" -> <<"bs", "n">> [] c = "cr" -> <<"bs", "r">> [] c \in {"quo", "bs"} -> <<"bs", c>>
    [] OTHER -> <<c>>
EscapeInChar(c) == CASE c = "nl" -> <<"bs", "n">> [] c \in {"apo", "bs"} -> <<"bs", c>> [] OTHER -> <<c>>
CharValue(val) == IF val = <<>> THEN "nul" ELSE val[1]
CLiteral(t) ==
  IF t.kind = "string"
  THEN <<"quo">> \o FlattenSeq([k \in 1..Len(t.text) |-> EscapeInString(t.text[k])]) \o <<"quo">>
  ELSE <<"apo">> \o EscapeInChar(CharValue(t.text)) \o <<"apo">>

(* What a C compiler reads in a literal; an octal escape or an unknown one *)
(* is nothing the generator should write.  A carriage return ends a line   *)
(* of C, as a newline does: for clang, which the driver tries first.       *)
CEscape(c) ==
  CASE c = "n" -> <<"nl">> [] c = "r" -> <<"cr">> [] c \in {"quo", "apo", "bs"} -> <<c>> [] OTHER -> <<"other">>
CReads(lit) == Meaning(Body(lit), CEscape)
IsCLiteral(lit, q) ==
  /\ ~Escaped(Body(lit), Len(lit) - 1)
  /\ \A k \in 1..(Len(lit) - 2) :
       Body(lit)[k] \notin {"nl", "cr"} /\ (Body(lit)[k] = q => Escaped(Body(lit), k))
(* Under -std=c99 (compiler.cpp), "??" with one of nine characters, here   *)
(* "/" or "=", is replaced before C looks at the literal.                  *)
HasTrigraph(lit) ==
  \E k \in 1..(Len(lit) - 2) : lit[k] = "?" /\ lit[k + 1] = "?" /\ lit[k + 2] \in {"/", "=", "(", "!", "<", ">", "-"}

(* What the language says a literal is: the first character, for a         *)
(* character literal.                                                      *)
SourceMeans(t) ==
  LET body == SubSeq(source, t.first + 1, t.last - 1) IN
  IF t.kind = "string" THEN Meaning(body, StringEscape)
  ELSE <<CharValue(Meaning(body, CharEscape))>>
-----------------------------------------------------------------------------
Done == mode = "done"

(* tokenize reports an error exactly when the source is not made of        *)
(* lexemes: an unclosed literal or comment, or a stray character, is       *)
(* noticed wherever it stands, and nothing else is complained about.       *)
ErrorsExact == Done => (failed <=> ~WellFormed(source))

(* The tokens of a source without errors are its lexemes by longest match, *)
(* the very positions, without blanks and comments, and with one newline   *)
(* where lines of tokens meet.                                             *)
TokensAreLexemes ==
  Done /\ ~failed =>
    [k \in 1..Len(tokens) |-> [kind |-> tokens[k].kind, first |-> tokens[k].first,
                               last |-> tokens[k].last]] = TokensOf(source)

(* The literals of an accepted source that become a literal of C with the  *)
(* meaning they had are all but one: what readString and readChar decode,  *)
(* visitStringLitExpr and visitCharLitExpr encode again, except for a      *)
(* carriage return in a character literal, which has no case in the latter *)
(* and never survives.  Literals with a trigraph, which the C compiler     *)
(* replaces first, are left out.                                           *)
Survives(t) ==
  /\ IsCLiteral(CLiteral(t), IF t.kind = "string" THEN "quo" ELSE "apo")
  /\ CReads(CLiteral(t)) = SourceMeans(t)
LiteralsSurvive ==
  Done /\ ~failed =>
    \A k \in 1..Len(tokens) :
      LET t == tokens[k] IN
      t.kind \in {"string", "char"} /\ ~HasTrigraph(CLiteral(t)) =>
        (Survives(t) <=> ~(t.kind = "char" /\ SourceMeans(t) = <<"cr">>))

(* The lexer returns, on every source: none of its loops stays where it is *)
(* at the end of the source or after an error.                             *)
Terminates == <>Done
=============================================================================
