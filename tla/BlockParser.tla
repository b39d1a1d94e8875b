----------------------------- MODULE BlockParser -----------------------------
(***************************************************************************)
(* The block structure of Parser (parser.cpp): parseProgram, parseTopDecl, *)
(* parseTypeDecl, parseFunctionDecl, parseBlock, parseStmt and the visits  *)
(* they make of nested blocks, as one machine over the parser's call       *)
(* stack.  A token stands for a whole header or simple statement: "if" for *)
(* "if <expr>", "loop" for the header of any loop, "fn" for a function's,  *)
(* "let" for a field, in a block for any other simple statement, "const"   *)
(* for a constant, "use" for an import, an export or a context, "macro"    *)
(* for the header of a macro, "case" also for default, "public" also for   *)
(* private, "static" also for virtual; "return" and "throw" have no value  *)
(* (with one they are a "let"); "nl" is a newline.  The expression parser  *)
(* takes a keyword for a name, so a keyword that starts no statement is    *)
(* swallowed as an expression, and so is one that a return or a throw      *)
(* takes for its value.  Tokens are drawn when they are looked at.         *)
(***************************************************************************)
EXTENDS Naturals, Sequences, FiniteSets

CONSTANT Files
  \* the kinds of file that occur, each [tokens |-> which tokens it is made of,
  \* max |-> the most it has before its end (bound)]

ASSUME FilesAssumption == \A file \in Files : file.max \in Nat

VARIABLES
  file,       \* the kind of the file
  tokens,     \* m_tokens, as far as the parser has looked
  pos,        \* m_pos
  stack,      \* open parse functions; empty when parseProgram returned
  errorAt,    \* positions where an error was reported
  swallowed   \* positions of keywords taken for an expression

vars == <<file, tokens, pos, stack, errorAt, swallowed>>

Top  == stack[Len(stack)]
Rest == SubSeq(stack, 1, Len(stack) - 1)
Push(kind)    == Append(stack, kind)
Replace(kind) == Append(Rest, kind)

(* Kinds that parseBlock fills, and the keywords that end the block.       *)
BlockKinds == {"fn", "macro", "then", "else", "loop", "case", "try", "catch"}

Terminators(kind) ==
  CASE kind = "then" -> {"else", "end"}
    [] kind = "case" -> {"case", "end"}
    [] kind = "try"  -> {"catch", "end"}
    [] OTHER         -> {"end"}

(* The statements with blocks, and what their parse function fills first.  *)
Openers == {"if", "loop", "try", "match"}
First(opener) == IF opener = "if" THEN "then" ELSE opener

(* The statements of one token, and the modifiers of a declaration.        *)
Simple    == {"let", "const", "return", "throw"}
Modifiers == {"public", "static"}

(* What a return and a throw do not take for their value.                  *)
NoValue(word) == {"nl", "end", "eof"} \cup (IF word = "return" THEN {"else"} ELSE {})

Closed == (BlockKinds \ {"case"}) \cup {"match", "type"}   \* end with an "end"

Init ==
  /\ file \in Files
  /\ tokens = <<>>
  /\ pos = 1
  /\ stack = <<"program">>
  /\ errorAt = {}
  /\ swallowed = {}

-----------------------------------------------------------------------------
Read ==
  /\ stack # <<>>
  /\ pos > Len(tokens)
  /\ \E t \in {"eof"} \cup (IF Len(tokens) < file.max THEN file.tokens ELSE {}) :
       tokens' = Append(tokens, t)
  /\ UNCHANGED <<file, pos, stack, errorAt, swallowed>>

Token == tokens[pos]

(* The token before is a return or a throw that was read as a statement,   *)
(* and it takes the current token for its value.                           *)
IsValue ==
  /\ Top \in BlockKinds
  /\ pos > 1 /\ pos - 1 \notin swallowed
  /\ tokens[pos - 1] \in {"return", "throw"}
  /\ Token \notin NoValue(tokens[pos - 1])

(* The function that looks at the current token, between statements.       *)
At(kinds) == stack # <<>> /\ pos <= Len(tokens) /\ Top \in kinds /\ ~IsValue

(* Mutant of Advance: no look whether the file has ended.                  *)
AdvancePastEnd == pos' = pos + 1

Advance     == pos' = IF Token = "eof" THEN pos ELSE pos + 1
Fine        == UNCHANGED <<errorAt, swallowed>>
ReportError == errorAt' = errorAt \cup {pos} /\ UNCHANGED swallowed

(* A keyword read as a name; what followed it, a function's parameters or  *)
(* the "= ..." of a let, may be reported then.                             *)
Swallow ==
  /\ swallowed' = swallowed \cup {pos}
  /\ \/ UNCHANGED errorAt
     \/ Token \in {"fn", "let", "const"} /\ errorAt' = errorAt \cup {pos}

SkipNewline ==
  /\ stack # <<>> /\ At({Top} \ {"modifiedMember"})
  /\ Token = "nl"
  /\ Advance /\ Fine
  /\ UNCHANGED <<file, tokens, stack>>

(* parseStmt, for a token that does not end the block.                     *)
Statement ==
  /\ At(BlockKinds)
  /\ Token \notin Terminators(Top) \cup {"nl", "eof"}
  /\ Advance
  /\ IF Token \in Openers
     THEN stack' = Push(First(Token)) /\ Fine
     ELSE UNCHANGED stack /\ IF Token \in Simple THEN Fine ELSE Swallow
  /\ UNCHANGED <<file, tokens>>

(* parseReturnStmt and parseThrowStmt, on the keyword after theirs.        *)
Value ==
  /\ stack # <<>> /\ pos <= Len(tokens)
  /\ IsValue
  /\ Advance /\ Swallow
  /\ UNCHANGED <<file, tokens, stack>>

(* expect(KW_END)                                                          *)
End ==
  /\ At(Closed)
  /\ Token = "end"
  /\ Advance /\ Fine
  /\ stack' = Rest
  /\ UNCHANGED <<file, tokens>>

(* parseIfStmt at an else: newlines are skipped before the look for an if. *)
Else ==
  /\ At({"then"})
  /\ Token = "else"
  /\ Advance /\ Fine
  /\ stack' = Replace("afterElse")
  /\ UNCHANGED <<file, tokens>>

(* Mutant of AfterElse: always a plain block.                              *)
AfterElsePlain ==
  /\ At({"afterElse"})
  /\ Token # "nl"
  /\ UNCHANGED pos /\ stack' = Replace("else")
  /\ Fine
  /\ UNCHANGED <<file, tokens>>

AfterElse ==
  /\ At({"afterElse"})
  /\ Token # "nl"
  /\ IF Token = "if" THEN Advance /\ stack' = Replace("then")
                     ELSE UNCHANGED pos /\ stack' = Replace("else")
  /\ Fine
  /\ UNCHANGED <<file, tokens>>

Catch ==
  /\ At({"try"})
  /\ Token = "catch"
  /\ Advance /\ Fine
  /\ stack' = Replace("catch")
  /\ UNCHANGED <<file, tokens>>

(* parseMatchStmt between cases.                                           *)
Case ==
  /\ At({"match"})
  /\ Token = "case"
  /\ Advance /\ Fine
  /\ stack' = Push("case")
  /\ UNCHANGED <<file, tokens>>

CaseEnds ==
  /\ At({"case"})
  /\ Token \in Terminators("case") \cup {"eof"}
  /\ stack' = Rest
  /\ Fine
  /\ UNCHANGED <<file, tokens, pos>>

(* Mutant of NotACase: no advance over the unexpected token.               *)
NotACaseStays ==
  /\ At({"match"})
  /\ Token \notin {"nl", "case", "end", "eof"}
  /\ ReportError
  /\ UNCHANGED <<file, tokens, pos, stack>>

NotACase ==
  /\ At({"match"})
  /\ Token \notin {"nl", "case", "end", "eof"}
  /\ Advance /\ ReportError
  /\ UNCHANGED <<file, tokens, stack>>

(* parseTypeDecl: a method, a field, a modifier, or an error.              *)
Member ==
  /\ At({"type"})
  /\ Token \notin {"nl", "end", "eof"}
  /\ Advance
  /\ CASE Token = "fn"     -> stack' = Push("fn") /\ Fine
       [] Token = "let"    -> UNCHANGED stack /\ Fine
       [] Token = "public" -> stack' = Push("modifiedMember") /\ Fine
       [] OTHER            -> UNCHANGED stack /\ ReportError
  /\ UNCHANGED <<file, tokens>>

(* After a modifier only a field, without a newline between.               *)
ModifiedMember ==
  /\ At({"modifiedMember"})
  /\ Advance
  /\ IF Token = "let" THEN Fine ELSE ReportError
  /\ stack' = Rest
  /\ UNCHANGED <<file, tokens>>

(* parseTopDecl; after a modifier it is called again.                      *)
TopDecl ==
  /\ At({"program", "modified"})
  /\ Token # "nl" /\ (Token = "eof" => Top = "modified")
  /\ Advance
  /\ LET below == IF Top = "modified" THEN Rest ELSE stack IN
       CASE Token \in {"fn", "macro", "type"} -> stack' = Append(below, Token) /\ Fine
         [] Token \in Modifiers               -> stack' = Append(below, "modified") /\ Fine
         [] Token \in {"const", "use"}        -> stack' = below /\ Fine
         [] OTHER                             -> stack' = below /\ ReportError
  /\ UNCHANGED <<file, tokens>>

(* The end of the file: every expect(KW_END) fails, parseProgram returns.  *)
EndOfFile ==
  /\ At(Closed \cup {"program"})
  /\ Token = "eof"
  /\ stack' = Rest
  /\ IF Top = "program" THEN Fine ELSE ReportError
  /\ UNCHANGED <<file, tokens, pos>>

Next ==
  \/ Read \/ SkipNewline \/ Statement \/ Value \/ End
  \/ Else \/ AfterElse \/ Catch \/ Case \/ CaseEnds \/ NotACase
  \/ Member \/ ModifiedMember \/ TopDecl \/ EndOfFile

(* The parser is one loop: it takes its next step.                         *)
Spec == Init /\ [][Next]_vars /\ WF_vars(Next)

-----------------------------------------------------------------------------
StackKinds == BlockKinds \cup {"program", "modified", "type", "modifiedMember",
                               "match", "afterElse"}

(* Every variable has its type, and the parser never looks past the end of *)
(* the file: peek and advance stay on the last token.                      *)
TypeOK ==
  /\ file \in Files
  /\ tokens \in Seq(file.tokens \cup {"eof"})
  /\ Len(tokens) <= file.max + 1
  /\ \A i \in 1 .. Len(tokens) - 1 : tokens[i] # "eof"
  /\ pos \in 1 .. Len(tokens) + 1
  /\ stack \in Seq(StackKinds)
  /\ errorAt \subseteq DOMAIN tokens
  /\ swallowed \subseteq DOMAIN tokens

Done     == stack = <<>>
Accepted == errorAt = {} /\ swallowed = {}

(* The grammar, told from the tokens alone.  What the code accepts differs *)
(* in three places from what its comments say.  Each is a quirk, and the   *)
(* grammar is told with the quirks given; without any it is the one of the *)
(* comments:                                                               *)
(*   "chain"   an if below an else is a link of the else-if chain also     *)
(*             when newlines are between them ("or a plain block",         *)
(*             ast.hpp:262)                                                *)
(*   "fields"  in a type a modifier stands before a field, not a method    *)
(*             ("Access modifiers on fields/methods", parser.cpp:321)      *)
(*   "value"   a return or a throw without a value stands before a newline *)
(*             or an end, a return also before an else, and not before the *)
(*             catch or case that ends its block ("Return value is         *)
(*             optional; if the next token starts an expression, parse     *)
(*             it", parser.cpp:481)                                        *)
Quirks == {"chain", "fields", "value"}

Text == {i \in DOMAIN tokens : tokens[i] # "eof"}
Words(S) == {i \in S \cap Text : tokens[i] # "nl"}
Greatest(S) == CHOOSE i \in S : \A j \in S : j <= i
Least(S)    == CHOOSE i \in S : \A j \in S : j >= i

Linked(i, quirks) ==
  LET before == IF "chain" \in quirks THEN Words(1 .. i - 1) ELSE (1 .. i - 1) IN
  tokens[i] = "if" /\ before # {} /\ tokens[Greatest(before)] = "else"

Opens(i, quirks) ==
  \/ tokens[i] \in {"fn", "macro", "type", "loop", "try", "match"}
  \/ tokens[i] = "if" /\ ~Linked(i, quirks)

Depth(i, quirks) ==
  <<Cardinality({j \in Text : j <= i /\ Opens(j, quirks)}),
    Cardinality({j \in Text : j <= i /\ tokens[j] = "end"})>>
Deeper(a, b) == a[1] + b[2] >= b[1] + a[2]    \* depth a is at least depth b

(* The construct token i stands in: the last one still open; 0 for none.   *)
Owner(i, quirks) ==
  LET D(k) == Depth(k, quirks)
      open == {j \in Text : /\ j < i /\ Opens(j, quirks)
                            /\ \A k \in j .. i - 1 : Deeper(D(k), D(j))}
  IN  IF open = {} THEN 0 ELSE Greatest(open)

(* Token i stands where the token before it would have its value.          *)
AsValue(i) ==
  /\ i > 1 /\ tokens[i - 1] \in {"return", "throw"}
  /\ tokens[i] \notin NoValue(tokens[i - 1])

Placed(i, quirks) ==
  LET o == Owner(i, quirks)
      in(kinds) == o # 0 /\ tokens[o] \in kinds
      marks(t)  == {k \in Text : k < i /\ tokens[k] = t /\ Owner(k, quirks) = o}
      after(S)  == IF S = {} THEN "eof" ELSE tokens[Least(S)]
      next      == after({k \in Text : k > i})
      statement == in({"fn", "macro", "if", "loop", "try"}) \/ (in({"match"}) /\ marks("case") # {})
      word      == tokens[i]
  IN
  /\ "value" \in quirks => ~AsValue(i)
  /\ \/ word = "nl"
     \/ word = "end" /\ o # 0
     \/ word = "fn" /\ (o = 0 \/ in({"type"}))
     \/ word \in {"type", "macro", "use"} /\ o = 0
     \/ word = "let" /\ (in({"type"}) \/ statement)
     \/ word = "const" /\ (o = 0 \/ statement)
     \/ word \in Openers \cup {"return", "throw"} /\ statement
     \/ word = "else" /\ in({"if"})
          /\ \A k \in marks("else") :
               \E l \in Text : /\ l > k /\ Linked(l, quirks)
                               /\ \A m \in Words(k + 1 .. l - 1) : FALSE
     \/ word = "catch" /\ in({"try"}) /\ marks("catch") = {}
     \/ word = "case" /\ in({"match"})
     \/ word \in Modifiers /\ o = 0
          /\ after(Words({k \in Text : k > i})) \in {"fn", "type", "macro", "use", "const"} \cup Modifiers
     \/ word = "public" /\ in({"type"})
          /\ (next = "let" \/ ("fields" \notin quirks /\ next = "fn"))

WellFormed(quirks) ==
  /\ \A i \in Text : Placed(i, quirks)
  /\ LET d == Depth(Len(tokens), quirks) IN d[1] = d[2]

(* The parser accepts exactly the token sequences of the grammar with the  *)
(* three quirks: nothing is rejected that is well formed, and what is      *)
(* accepted is well formed unless a keyword was taken for a name.  So what *)
(* is well formed only without a quirk, such as a public method, is what   *)
(* the comments promise and the parser rejects or reads otherwise.         *)
AcceptsGrammar == Done => (Accepted <=> WellFormed(Quirks))

(* The parse functions return on every input: each one that goes round     *)
(* again has consumed a token.                                             *)
Terminates == <>Done

(* "else can be a single IfStmt (else-if chain) or a plain block"          *)
(* (ast.hpp:262), "Expected 'end' to close if block" (parser.cpp:510): an  *)
(* if on a line of its own below an else belongs to a plain block and has  *)
(* its own end.                                                            *)
ElseBlockMayStartWithIf == Done => (WellFormed(Quirks \ {"chain"}) => Accepted)
=============================================================================
