----------------------------- MODULE ExprParser -----------------------------
(***************************************************************************)
(* The expression parser (parser.cpp): parseExpr, which climbs             *)
(* precedences, parsePrimary and parsePostfix, as one machine over their   *)
(* call stack.  "id" stands for an identifier, a literal, "new" with its   *)
(* type, or the name of a region (stack, heap), all of which are an        *)
(* operand that may be called; "move" also for copy; one operator for each *)
(* precedence.  Behind a dot every keyword is a name (mem.copy); the       *)
(* others are also taken for one where an operand should be.  The tree is  *)
(* the set of its inner nodes, each the position it stands at and the      *)
(* first and last token below it.                                          *)
(* Tokens are drawn when they are looked at.                               *)
(***************************************************************************)
EXTENDS Naturals, Sequences, FiniteSets

CONSTANT Inputs
  \* the kinds of input that occur, each [tokens |-> which tokens it is made of,
  \* max |-> the most it has before its end (bound)]

ASSUME InputsAssumption == \A input \in Inputs : input.max \in Nat

VARIABLES
  input,      \* the kind of the input
  tokens,     \* m_tokens, as far as the parser has looked
  pos,        \* m_pos
  stack,      \* open calls, with the arguments and locals that are used again
  doing,      \* what the innermost call does next
  value,      \* the tokens below the expression just parsed
  tree,       \* the nodes made so far
  errorAt,    \* positions where an error was reported
  swallowed   \* positions of keywords taken for an operand

vars == <<input, tokens, pos, stack, doing, value, tree, errorAt, swallowed>>

(* getBinaryPrec; -1 for the other tokens.                                 *)
Operators == {"or", "and", "is", "==", "<", "+", "-", "*"}
Prec(t) ==
  CASE t = "or" -> 1 [] t = "and" -> 2 [] t = "is" -> 3 [] t = "==" -> 4
    [] t = "<" -> 5 [] t \in {"+", "-"} -> 6 [] t = "*" -> 7

Unary    == {"-", "not", "move", "ref"}
Keywords == {"or", "and", "is", "not", "move", "ref", "await"}

Span(lo, hi)     == [lo |-> lo, hi |-> hi]
Node(at, lo, hi) == [at |-> at, lo |-> lo, hi |-> hi]

(* Calls on the stack: at is the token that began them.                    *)
Call(kind, at, lo) == [kind |-> kind, at |-> at, lo |-> lo, min |-> 0]
Expr(min)          == [kind |-> "expr", at |-> 0, lo |-> 0, min |-> min]

Top  == stack[Len(stack)]
Rest == SubSeq(stack, 1, Len(stack) - 1)

Init ==
  /\ input \in Inputs
  /\ tokens = <<>>
  /\ pos = 1
  /\ stack = <<Expr(0)>>
  /\ doing = "operand"
  /\ value = Span(0, 0)
  /\ tree = {}
  /\ errorAt = {}
  /\ swallowed = {}

-----------------------------------------------------------------------------
(* The current token and peek(1).                                          *)
Known == pos < Len(tokens) \/ (pos = Len(tokens) /\ tokens[pos] = "eof")

Read ==
  /\ stack # <<>>
  /\ ~Known
  /\ \E t \in {"eof"} \cup (IF Len(tokens) < input.max THEN input.tokens ELSE {}) :
       tokens' = Append(tokens, t)
  /\ UNCHANGED <<input, pos, stack, doing, value, tree, errorAt, swallowed>>

Doing(what) == stack # <<>> /\ Known /\ doing = what
Token       == tokens[pos]

(* m_pos after advance().                                                  *)
After == IF Token = "eof" THEN pos ELSE pos + 1

Fine        == UNCHANGED <<errorAt, swallowed>>
ReportError == errorAt' = errorAt \cup {pos} /\ UNCHANGED swallowed
Return(v, next) == value' = v /\ doing' = next

(* parsePrimary.  "ref" before "<" is a type, and so a name like any other *)
(* keyword.                                                                *)
IsUnary == Token \in Unary /\ (Token = "ref" => tokens[pos + 1] # "<")

Prefix ==
  /\ Doing("operand")
  /\ IsUnary
  /\ pos' = After
  /\ stack' = Append(stack, Call("prefix", pos, pos))
  /\ Fine
  /\ UNCHANGED <<input, tokens, doing, value, tree>>

(* await and "(" are followed by an expression of their own.               *)
Nested ==
  /\ Doing("operand")
  /\ Token \in {"await", "("}
  /\ pos' = After
  /\ stack' = stack \o <<Call(IF Token = "(" THEN "group" ELSE "await", pos, pos), Expr(0)>>
  /\ Fine
  /\ UNCHANGED <<input, tokens, doing, value, tree>>

Name ==
  /\ Doing("operand")
  /\ Token \in ({"id"} \cup Keywords) \ {"await"}
  /\ ~IsUnary
  /\ pos' = After
  /\ Return(Span(pos, pos), "postfix")
  /\ swallowed' = IF Token = "id" THEN swallowed ELSE swallowed \cup {pos}
  /\ UNCHANGED <<input, tokens, stack, tree, errorAt>>

Unexpected ==
  /\ Doing("operand")
  /\ Token \notin {"id", "("} \cup Keywords \cup Unary
  /\ pos' = After
  /\ Return(Span(pos, pos), "back")
  /\ ReportError
  /\ UNCHANGED <<input, tokens, stack, tree>>

-----------------------------------------------------------------------------
(* parsePostfix: members, calls and indices, until none follows.           *)
(* Any keyword may name a member.                                          *)
MemberNames == {"id"} \cup Keywords

(* Mutant of Member: the dot is only consumed with a name after it.        *)
MemberStays ==
  /\ Doing("postfix")
  /\ Token = "."
  /\ pos' = IF tokens[pos + 1] \in MemberNames THEN pos + 2 ELSE pos
  /\ tree' = tree \cup {Node(pos, value.lo, pos + 1)}
  /\ Return(Span(value.lo, pos + 1), "postfix")
  /\ Fine
  /\ UNCHANGED <<input, tokens, stack>>

(* Mutant of Member: a member's name is an identifier.                     *)
MemberIdentifier ==
  /\ Doing("postfix")
  /\ Token = "."
  /\ IF tokens[pos + 1] = "id"
     THEN pos' = pos + 2 /\ UNCHANGED errorAt
     ELSE pos' = pos + 1 /\ errorAt' = errorAt \cup {pos + 1}
  /\ tree' = tree \cup {Node(pos, value.lo, pos' - 1)}
  /\ Return(Span(value.lo, pos' - 1), "postfix")
  /\ UNCHANGED <<input, tokens, stack, swallowed>>

Member ==
  /\ Doing("postfix")
  /\ Token = "."
  /\ IF tokens[pos + 1] \in MemberNames
     THEN pos' = pos + 2 /\ UNCHANGED errorAt
     ELSE pos' = pos + 1 /\ errorAt' = errorAt \cup {pos + 1}
  /\ tree' = tree \cup {Node(pos, value.lo, pos' - 1)}
  /\ Return(Span(value.lo, pos' - 1), "postfix")
  /\ UNCHANGED <<input, tokens, stack, swallowed>>

CallOrIndex ==
  /\ Doing("postfix")
  /\ Token \in {"(", "["}
  /\ pos' = After
  /\ IF Token = "("
     THEN /\ stack' = Append(stack, Call("args", pos, value.lo))
          /\ doing' = "args"
     ELSE /\ stack' = stack \o <<Call("index", pos, value.lo), Expr(0)>>
          /\ doing' = "operand"
  /\ Fine
  /\ UNCHANGED <<input, tokens, value, tree>>

PostfixEnds ==
  /\ Doing("postfix")
  /\ Token \notin {".", "(", "["}
  /\ Return(value, "back")
  /\ Fine
  /\ UNCHANGED <<input, tokens, pos, stack, tree>>

(* expect(): the closing bracket, or an error and no advance.              *)
Close(bracket) ==
  /\ IF Token = bracket THEN pos' = After /\ Fine ELSE UNCHANGED pos /\ ReportError
  /\ stack' = Rest
  /\ tree' = IF Top.kind = "group" THEN tree
             ELSE tree \cup {Node(Top.at, Top.lo, pos' - 1)}
  /\ Return(Span(Top.lo, pos' - 1), "postfix")
  /\ UNCHANGED <<input, tokens>>

Argument ==
  /\ Doing("args")
  /\ Token \notin {")", "eof"}
  /\ stack' = Append(stack, Expr(0))
  /\ doing' = "operand"
  /\ Fine
  /\ UNCHANGED <<input, tokens, pos, value, tree>>

NoArgument ==
  /\ Doing("args")
  /\ Token \in {")", "eof"}
  /\ Close(")")

-----------------------------------------------------------------------------
(* What each call does with the expression it asked for.                   *)
Back(kinds) == Doing("back") /\ Top.kind \in kinds

PrefixEnds ==
  /\ Back({"prefix", "await"})
  /\ tree' = tree \cup {Node(Top.at, Top.at, value.hi)}
  /\ Return(Span(Top.at, value.hi), "postfix")
  /\ stack' = Rest
  /\ Fine
  /\ UNCHANGED <<input, tokens, pos>>

ArgumentEnds ==
  /\ Back({"args"})
  /\ IF Token = ","
     THEN /\ pos' = After
          /\ doing' = "args"
          /\ Fine
          /\ UNCHANGED <<input, tokens, stack, value, tree>>
     ELSE Close(")")

GroupEnds == Back({"group"}) /\ Close(")")
IndexEnds == Back({"index"}) /\ Close("]")

(* parseExpr: the left operand so far, with the right one just parsed.     *)
Lhs == IF Top.at = 0 THEN value ELSE Span(Top.lo, value.hi)
Fold == tree' = IF Top.at = 0 THEN tree ELSE tree \cup {Node(Top.at, Top.lo, value.hi)}

Binds == Token \in Operators /\ Prec(Token) >= Top.min

(* Mutant of Operator: the right operand takes operators of the same       *)
(* precedence, too.                                                        *)
OperatorRight ==
  /\ Back({"expr"})
  /\ Binds
  /\ Fold
  /\ pos' = After
  /\ stack' = Append(Rest, [Top EXCEPT !.at = pos, !.lo = Lhs.lo])
                \o <<Expr(Prec(Token))>>
  /\ doing' = "operand"
  /\ Fine
  /\ UNCHANGED <<input, tokens, value>>

Operator ==
  /\ Back({"expr"})
  /\ Binds
  /\ Fold
  /\ pos' = After
  /\ stack' = Append(Rest, [Top EXCEPT !.at = pos, !.lo = Lhs.lo])
                \o <<Expr(Prec(Token) + 1)>>
  /\ doing' = "operand"
  /\ Fine
  /\ UNCHANGED <<input, tokens, value>>

ExprEnds ==
  /\ Back({"expr"})
  /\ ~Binds
  /\ Fold
  /\ stack' = Rest
  /\ Return(Lhs, "back")
  /\ Fine
  /\ UNCHANGED <<input, tokens, pos>>

Next ==
  \/ Read \/ Prefix \/ Nested \/ Name \/ Unexpected
  \/ Member \/ CallOrIndex \/ PostfixEnds \/ Argument \/ NoArgument
  \/ PrefixEnds \/ ArgumentEnds \/ GroupEnds \/ IndexEnds \/ Operator \/ ExprEnds

(* The parser is one thread: it takes its next step.                       *)
Spec == Init /\ [][Next]_vars /\ WF_vars(Next)

-----------------------------------------------------------------------------
Done     == stack = <<>>
Accepted == errorAt = {} /\ swallowed = {}

(* The grammar, told from the first n tokens alone.  A keyword behind a    *)
(* dot is the name of a member, as in mem.copy and mem.set (README.md).    *)
Text == [i \in 1 .. Len(tokens) |->
           IF i > 1 /\ tokens[i - 1] = "." /\ tokens[i] \in Keywords THEN "id" ELSE tokens[i]]

IsOpen(i)   == Text[i] \in {"(", "["}
IsClose(i)  == Text[i] \in {")", "]"}
AfterOperand(i) == i > 1 /\ Text[i - 1] \in {"id", ")", "]"}
IsBinary(i) == Text[i] \in Operators /\ AfterOperand(i)
IsPrefix(i) == Text[i] \in Unary /\ ~IsBinary(i)
IsPostfix(i) == Text[i] \in {".", "(", "["} /\ AfterOperand(i)

(* How many brackets token i is inside; a closing one counts as inside.    *)
Opened(i) == Cardinality({j \in 1 .. i - 1 : IsOpen(j)})
Closed(i) == Cardinality({j \in 1 .. i - 1 : IsClose(j)})
Beside(i, j) == Opened(i) + Closed(j) = Opened(j) + Closed(i)
Around(j, i) == j < i /\ IsOpen(j) /\ Opened(i) + Closed(j) = Opened(j) + Closed(i) + 1

Greatest(S) == CHOOSE i \in S : \A j \in S : j <= i
Least(S)    == CHOOSE i \in S : \A j \in S : j >= i
Opener(i)   == LET S == {j \in 1 .. i : Around(j, i)} IN IF S = {} THEN 0 ELSE Greatest(S)

Fits(i) ==
  LET free   == ~AfterOperand(i)
      follows(t) == i > 1 /\ Text[i - 1] = t
      isType == Text[i] = "ref" /\ i < Len(Text) /\ Text[i + 1] = "<"
      o      == Opener(i)
  IN
    \/ Text[i] = "id" /\ free
    \/ Text[i] \in Unary \cup {"await", "("} /\ free /\ ~follows(".") /\ ~isType
    \/ IsBinary(i) \/ IsPostfix(i)
    \/ Text[i] = ")" /\ o # 0 /\ Text[o] = "("
         /\ (AfterOperand(i) \/ (IsPostfix(o) /\ (o = i - 1 \/ follows(","))))
    \/ Text[i] = "]" /\ o # 0 /\ Text[o] = "[" /\ AfterOperand(i)
    \/ Text[i] = "," /\ o # 0 /\ Text[o] = "(" /\ IsPostfix(o) /\ AfterOperand(i)

WellFormed(n) ==
  /\ n > 0 /\ AfterOperand(n + 1)
  /\ \A i \in 1 .. n : Fits(i)
  /\ Opened(n + 1) = Closed(n + 1)

(* Where an expression that token i is part of can begin and end, given    *)
(* what else bounds it; an await takes everything up to its bracket.       *)
From(i, bounds) ==
  1 + Greatest({0} \cup {k \in 1 .. i - 1 :
        \/ Around(k, i)
        \/ Beside(k, i) /\ (Text[k] \in {",", "await"} \/ k \in bounds)})
UpTo(i, n, bounds) ==
  Least({n + 1} \cup {k \in i + 1 .. n :
        /\ Beside(k, i)
        /\ \/ Text[k] = "," \/ IsClose(k)
           \/ k \in bounds /\ ~\E m \in i + 1 .. k - 1 : Beside(m, i) /\ Text[m] = "await"}) - 1

(* The tree the precedences ask for: a binary operator has on its left     *)
(* everything up to the next looser operator, on its right everything up   *)
(* to the next that is not tighter; a prefix has one operand with its      *)
(* postfixes, a postfix the operand before it.                             *)
TreeOf(n) ==
  LET binary  == {i \in 1 .. n : IsBinary(i)}
      prefix  == {i \in 1 .. n : IsPrefix(i)}
      looser(i)     == {k \in binary : Prec(Text[k]) < Prec(Text[i])}
      notTighter(i) == {k \in binary : Prec(Text[k]) <= Prec(Text[i])}
  IN {Node(i, From(i, looser(i)), UpTo(i, n, notTighter(i))) : i \in binary}
     \cup {Node(i, i, UpTo(i, n, binary)) : i \in prefix}
     \cup {Node(i, i, UpTo(i, n, {})) : i \in {j \in 1 .. n : Text[j] = "await"}}
     \cup {Node(i, From(i, binary \cup prefix),
              IF Text[i] = "." THEN i + 1
              ELSE Least({k \in i + 1 .. n : IsClose(k) /\ Opener(k) = i})) :
             i \in {j \in 1 .. n : IsPostfix(j)}}

(* What is parsed without an error gets the tree of its precedences        *)
(* (getBinaryPrec), left to right among equals, whatever prefixes, awaits, *)
(* calls and brackets it is nested in.                                     *)
PrecedenceHolds == (Done /\ Accepted) => tree = TreeOf(pos - 1)

(* What is consumed without an error is an expression, the longest there   *)
(* is, and members may have keywords for names; the first error, or        *)
(* keyword taken for an operand, is at a token that fits no expression     *)
(* with the tokens before it.                                              *)
AcceptsExpressions ==
  /\ (Done /\ Accepted) => WellFormed(pos - 1) /\ (tokens[pos] = "eof" \/ ~Fits(pos))
  /\ errorAt \cup swallowed # {} =>
       LET i == Least(errorAt \cup swallowed) IN
       IF tokens[i] = "eof" THEN ~WellFormed(i - 1) ELSE ~Fits(i)

(* The functions return on every input, however broken.                    *)
Terminates == <>Done
=============================================================================
