# A TLA+ model of nslc, the NSL compiler

`nslc` turns one NSL source file into C and then, through the system's C
compiler, into a binary. It is a single-threaded C++ program of a pipeline of
passes; what is hard about it is not threads but long sequences of legal calls:
recursive walks that save and restore context, raw pointers into a vector that
grows, names and types resolved again by every pass in tables of its own, labels
made in one visitor and placed in another, a scanner and a parser whose error
branches have to make progress, a C runtime whose exceptions share one buffer,
and a driver whose temporary file is shared by every process that compiles a
source of the same name.

Paths below are relative to `src/src/` unless they say otherwise.

## 1. Inventory

| part | state it keeps | operations | talks to | modelled in |
|---|---|---|---|---|
| command line, `main.cpp` | `CompilerOptions` | parse arguments, `--version`, missing input | constructs `Compiler`, returns its code | `CompilerDriver`, in part |
| driver, `compiler.cpp` | options, `DiagnosticEngine`, a temporary C file, the output | `run`: read, lex, parse, analyse, lower or generate, write, compile, clean up | every pass; the file system; the C compiler through `std::system` | `CompilerDriver` |
| diagnostics, `diagnostics.cpp` | list of messages, error count | `error`, `warning`, `note`, `printAll` | all passes report through it; `Compiler` reads `hasErrors` between stages | the error count, in `SemaWalk` and `CompilerDriver` |
| lexer, `lexer.cpp`, `token.hpp` | position, line, column, token list | `tokenize`, one reader per token class | hands a vector that ends in EOF to the parser | `Lexer`, `Lexemes` |
| parser: blocks, `parser.cpp` | `m_tokens`, `m_pos`, the call stack | `parseProgram`, `parseTopDecl`, `parseTypeDecl`, `parseBlock`, one function per statement | errors go to a callback; with one installed nothing is ever thrown | `BlockParser` |
| parser: expressions | the same | `parseExpr`, `parsePrimary`, `parsePostfix` | called for every operand, condition and argument | `ExprParser` |
| parser: types, memory specs | the same | `parseTypeExpr`, `parseMemorySpec` | headers and `let` | not modelled; what a region does to a variable's C type is in `TypeFlow` |
| syntax tree, `ast.hpp` | tree of owned nodes | visitors | built by the parser, walked by the three passes below | its nesting, `Constructs` |
| types, `types.cpp` | registry name -> type | `registerType`, `lookup`, `resolve`, `isCompatibleWith` | analyser, IR generator, C generator | `TypeFlow`, in part |
| analyser: scopes, `sema.cpp` | `std::vector<Scope>`, each with symbols and a raw parent pointer | `pushScope`, `popScope`, `define`, `lookup`, `lookupAll` | every visitor of the analyser | `ScopeStack`, `LexicalScopes` |
| analyser: statements | `m_inLoop`, `m_inAsync`, `m_currentReturnType` | `firstPass`, one visitor per declaration and statement | scopes, types, diagnostics | `SemaWalk`, `Bindings` |
| analyser: expressions | `resolvedType` of every node | one visitor per expression, `inferExprType`, `checkType` | as above | `TypeFlow` |
| IR builder and generator: control, `ir.cpp`, `irgen.cpp` | current function, its blocks, label counter, `m_loopStack` | one visitor per construct | only for `--emit-ir`, after the analyser accepted | `IRGen`, `FrontEnd`, `Loops` |
| IR builder and generator: values | variable scopes, register counter | one visitor per expression, allocas, loads, stores | as above | slots in `Bindings`, types in `TypeFlow` |
| C generator, `codegen.cpp` | output stream, indentation, name counter | runtime header, one visitor per construct | text for the C compiler | blocks in `Bindings`, types in `TypeFlow`, literals in `Lexer`, loops and match in `Loops` |
| a generated program | `__nsl_jmp_buf`, `__nsl_current_exception`, the C stack | try, catch, throw, return, loops, match | the runtime header written into it | `Exceptions`, `Loops` |

What makes each part correct, and what could break it:

* **Lexer.** It returns on every source, reports an error exactly when the
  source is not made of tokens, and cuts the rest by longest match; the text of
  a literal survives being decoded here and encoded again by the C generator,
  which has one list of escapes for strings and another for characters.
* **Parser.** It returns on every input, accepts exactly the grammar as far as
  code and documentation agree on one, and gives expressions the tree of their
  precedences.
* **Scopes.** A lookup answers with the innermost open declaration. `pushScope`
  appends to a vector; when it grows, the parent pointers that were moved along
  keep naming the freed buffer. Which pointers dangle depends on the history of
  the vector, not on the program text at hand.
* **Names.** Analyser, IR generator and the C compiler each resolve a name in
  tables of their own. They agree with lexical scoping, and so with each other,
  as far as each can represent the declaration.
* **Types.** The type of an expression travels from visitor to visitor by name
  and gets lost on the way; what is left never contradicts the type it has.
* **Analyser walk.** The saved and restored members say at each point what the
  nesting of constructs says; errors are reported exactly for misplaced
  `break`, `continue`, `await` and `return` values.
* **IR control flow.** No jump without a block, no label twice, loops found on
  `m_loopStack`; the generator trusts the analyser, a separate walk, to have
  refused what it would drop.
* **Generated code at run time.** A loop takes every element once, a match runs
  its first case that fits; a throw reaches the innermost running try, in any
  function, whatever tries ended before.
* **Driver.** An error stops the run with status 1; a successful run leaves the
  binary of its own source; the temporary file has somebody who will remove it.

## 2. Modules

| module | models | kind |
|---|---|---|
| `Lexemes` | the lexical grammar as sets of strings, and tokens by longest match | abstract |
| `Lexer` | `tokenize` and its readers; the literals the C generator writes | component |
| `LexerProofs` | theorems about `Lexer`, lemmas about texts, escapes and lexemes | proofs |
| `BlockParser` | block structure of the parser, with its error branches | component |
| `BlockParserProofs` | theorems about `BlockParser`, lemmas about its grammar | proofs |
| `ExprParser` | precedence climbing, prefixes, postfixes | component |
| `ExprParserProofs` | theorems about `ExprParser`, lemmas about levels, bounds and stacks of calls | proofs |
| `LexicalScopes` | what scopes promise: a stack of tables, lookups answer with the innermost declaration | abstract |
| `ScopeStack` | the scope vector, its growth, parent pointers, every step of `lookupAll` | component |
| `Bindings` | one name in analyser, IR generator and C, from top level to the innermost block | composition |
| `BindingsProofs` | theorems about `Bindings` | proofs |
| `TypeFlow` | the types the three passes give expressions and variables | composition |
| `SemaProofs` | theorems about `ScopeStack` and about `TypeFlow` | proofs |
| `Constructs` | the kinds of nested constructs and operators on their stack | shared |
| `SemaWalk` | the declaration and statement visitors of the analyser | component |
| `IRGen` | the statement visitors of the IR generator, with blocks and labels | component |
| `FrontEnd` | analyser and generator on the same program | composition |
| `FrontEndProofs` | theorems about `SemaWalk`, about `IRGen` and about the two together; lemmas about stacks of frames | proofs |
| `ForEach`, `Loops` | what a for loop means; the loop, with a match in it, as IR and as C | abstract, component |
| `HandlerStack`, `Exceptions` | what try, throw and catch mean; the runtime's single `jmp_buf` | abstract, component |
| `RuntimeProofs` | theorems about `Loops` and about `Exceptions` | proofs |
| `CompilerDriver` | `Compiler::run` in several processes, with its files | component |
| `CompilerDriverProofs` | theorems about `CompilerDriver` | proofs |
| `MC...` | values of the constants for TLC | instances |

### How state and actions correspond to the code

**Lexer.** `pos`, `tokens` and `source` are the members; `mode`, `open` and
`text` are what `readString` and `skipBlockComment` keep in locals, since those
two go character by character, with several ways out of their loops. A reader
that only runs over a class of characters is one action. A character stands for
its class: two digits (a `0` begins a prefix), the letters that occur in
prefixes, exponents and escapes, one bracket. A keyword is an identifier with
another kind, and is not told apart. A token keeps the positions it was read
from and, if quoted, its text. `Lexemes` says the same as sets of strings and
has no position, so that the two can be compared. `CLiteral` is what
`visitStringLitExpr` (`EscapeInString`) and `visitCharLitExpr` (`EscapeInChar`, which
has no case for a carriage return) write for a token, `IsCLiteral` and `CReads`
(external) what a C compiler makes of it.

**BlockParser, ExprParser.** `stack` is the parser's call stack, `pos` is
`m_pos`; tokens are drawn when they are first looked at, so one behaviour is one
input and every input within the bound is covered. A token of `BlockParser` is a
whole header or simple statement; a token of `ExprParser` stands for all tokens
of its class and precedence. A keyword where an operand is expected is taken for
a name by `parsePrimary` (`parser.cpp:886`); the history variable `swallowed`
keeps where, since the acceptance properties have to allow for it. Behind a dot
`parsePostfix` takes a keyword for a member's name on purpose (`mem.copy`,
`MemberNames`), and that is no swallowing. `return` and `throw` are tokens of their
own when they have no value: whatever is not in their list (`NoValue`) goes to
`parseExpr` (`Value`), a keyword included.

**ScopeStack.** `scopes` and `parent` are the elements of `m_scopeStack`
(`m_symbols` and `m_parent`); a pointer is a pair of buffer number and index, so
it dangles when its buffer is not the present one. `PushScope` is
`emplace_back` followed by `setParent`, `PopScope` is `pop_back`, `Define`
writes the top scope, and `LookupAll` with the `Walk` actions is the recursion
of `lookupAll`, one call per step. A lookup through a freed pointer
(`ClimbToFreed`) may return any symbol or none, which is what a read of freed
memory that does not crash can do. Growth by doubling is libstdc++'s; it is marked
external in the map.

**Bindings.** Every table treats every name on its own, so one name is enough:
a table is what it has for that name, a declaration or 0. `sema` is
`m_scopeStack`, `ir` is `m_varScopes`, `c` are the blocks of the C text around
the present place, on top of what precedes it at file scope. Declarations are
numbered in the order they are met. `VisitTop` is the second pass over the top
level, whose first pass is in `Init`; `EnterFunction` to `EnterCatch` are the
constructs that open scopes, each with or without a declaration of the name
(parameter, loop or catch variable), and `Leave` closes all a construct opened:
two scopes for a method, whose type has one, two C blocks for a for loop. `log`
is a history variable with the local declarations met and the frame of each, from
which `Visible`, lexical scoping, is computed; it looks at no table, and of the
names at top level it takes the last in the text, above or below, whatever the
analyser has visited. `last` is what the three took the last use for. Parent pointers are taken as sound, since
`ScopeStack` is about the others.

**TypeFlow.** The visitors of the three passes run in postorder, so an expression
is a stack of operands, each with the name the analyser left in `resolvedType`,
the type of the IR value, and (history) the type it has in the language. A type
is its constructors from the outside in; `Lookup` is `inferExprType`, which
finds nothing for a name with parameters. Where the analyser guesses `int` for
arithmetic on an unknown operand, the type in the language is `Any`, and nothing
is claimed. Each declaration of a variable records its symbol, slot, C type and
memory region; `Held` is what the region makes of the C type. `Check` is
`checkType`.

**SemaWalk.** `frames` is the visitors' C++ call stack with what each saved in
locals; `inLoop`, `inAsync`, `curReturn`, `depth` are the members. There is one
action for entering and one for leaving each kind of body, so a walk of the
model is a walk of some program, and TLC takes all of them. Expressions appear
only as the type of a returned value and as `await`. `misplaced` is a history
variable: it is computed from the nesting, never from the members.

**IRGen.** A block keeps its name and the jumps in it; a label is its counter
value and prefix. `Place` is `setInsertBlock` with its silent early return for a
label that has a block; `JumpTo` appends to the last block, as `currentBlock`
does. `VisitConst` records that an initialiser emitted outside a function goes
through the null `m_curFn` (`nullDeref`, see section 6); no further step of the
generator happens after that.

**FrontEnd.** The two walks never touch each other's state and `genIR` runs on
the very tree that was analysed, so they are laid side by side: one action takes
both visitors into the same construct. `hasErrors` only grows, so a statement
about states without errors covers the programs the generator really sees.
Methods of types are analysed and not lowered (`irgen.cpp:86`).

**Loops.** `pc` is the block being run: the test of the loop, the tests of the
match in its body, a case, the increment. `target` says whose lowering runs. The
two differ in where `continue` goes and in the subject of the match: the IR
takes its value once, the C writes the subject into every test, so that unless
it is `pure` each test sees a value of its own. `F` is the refinement mapping to
`ForEach`.

**Exceptions.** `stack` is the run-time stack of calls, try and catch blocks;
`jmpBuf` is what the last `setjmp` stored: the stack below its try and the
try's identity. A `longjmp` into a function that has returned, or from a buffer
never set, ends in `wild`, and so claims nothing about what follows.

**CompilerDriver.** One process per `nslc`; a stage is an action that may
report errors. The temporary file is a record of who has it open, and what was
written since it was truncated; `Closed` and `Left` are what a writer and a
killed process leave in it. A write may fall short (`Broken`): the stream is
never looked at (`compiler.cpp:215`). The C compiler is external: it can fail on
any input, and otherwise translates what the file holds. `Kill` ends a process
between two steps.

## 3. Runs

| run | question | bounds |
|---|---|---|
| `lexer` | does the lexer return, report exactly what is wrong, cut by longest match; do literals survive the C back end | every source of 6 characters about strings, trigraphs, character literals, carriage returns, comments; of 5 about numbers (`1.1e+1` is the longest shape less a digit); of 4 about operators; of 3 of all characters. Six characters are a quoted literal with two escapes, or one that runs out after them |
| `parse` | does the block parser return, does it accept the grammar with its quirks | every sequence of 6 tokens about ifs and of 6 about the other statements, of 5 about the values of returns and throws and of 5 about declarations, of 4 of all tokens together |
| `parse_else_block` | may an else block begin with an if | 8 tokens: violated |
| `expr` | does the expression parser return, accept expressions, build the right tree | 7 tokens of loose and tight operators, 6 bracket tokens, 6 tokens of dots and keywords, 5 prefix tokens, 5 tokens of all precedences |
| `scopes` | where can a parent pointer dangle, which lookups are exact, is a warm stack lexical, do lookups return | 6 scopes, so the vector grows 1-2-4-8 and every scope can be moved more than once; one name and two symbols, because a lookup treats each name on its own and two symbols tell one declaration from another |
| `scopes_cold` | does every lookup return the innermost declaration | 3 scopes: violated, see section 6 |
| `names` | what analyser, IR and C take a name for | 2 top-level and 3 local declarations of the name, 4 constructs in all, 3 of them nested: a function after a method, a shadow of a shadow, a use behind a closed shadow, two declarations in one scope |
| `names_forward` | does a function see a constant below it | one constant, one function: violated |
| `types` | are reported mismatches real, are the types of IR and C those of the language | 3 operands and variables together, 2 of them variables, types of up to 2 constructors: an index or operator on two operands next to a variable, a pointer, reference or array of a simple type, in the heap and elsewhere |
| `frontend` | analyser and generator, all nestings | 4 constructs deep (a method of a type with a loop in an if), 6 labels (two loops or ifs, an else-if chain, a match of two cases), 2 declared return types, returned values of six kinds or of none: one for each branch of `isCompatibleWith` |
| `runtime` | when does the runtime implement `HandlerStack`; does a for loop take every element once and end; which case of a match runs | 6 open blocks, 8 entered in all: a second try in a callee and a third after both ended. 3 elements, 3 cases, 2 values: a case before, at and after the one that fits, a default anywhere. The two components have no variable in common, so a behaviour is one of either (`MCRuntime`) |
| `driver` | whose binary, whose temporary file, what an error stops | two processes with distinct or equal base names, two runs each, killed anywhere, on a disk that can fail at any write |

What the properties of the passing runs say beyond their one-line comments:

* `ErrorsExact` and `TokensAreLexemes` compare the scanner with a definition
  that never scans: a source is cut at the longest prefix that is a lexeme. An
  unclosed comment or literal, a reader that stops one character early and a
  stray character all show as a difference.
* `LiteralsSurvive` goes through two decodings and two encodings: escapes of the
  source, `readString`'s text, escapes of the C text, and what C reads. It is
  exact: every literal outside trigraphs survives but the carriage return in a
  character literal, and that one never does.
* `AcceptsGrammar`, `AcceptsExpressions` and `PrecedenceHolds` compare the
  parser's moves with a definition that counts openers and closers, or bounds
  operands, over the whole token sequence, without a stack. Where the code's comments
  and the code disagree on the grammar, the disagreement is one of `Quirks`;
  `AcceptsGrammar` is about the grammar with all of them, so what is well formed
  only without one is rejected or misread. `parse_else_block` takes one away.
* `DanglingBelowGrowth` locates the danger: freed parents are in the lower half
  of the buffer and form a bottom segment of the stack, the global scope (which
  has no parent) aside. `LookupExactInReach` then says every lookup that finds
  the name above that segment is exact. `WarmIsLexical` says the hazard goes away
  for good when the vector has reached its final size and the old scopes are
  gone.
* `SemaIsLexical`, `IRIsLexical`, `CIsLexical` measure three sets of tables
  against one reference; `TablesAgree` says why the first two agree. For local names
  the analyser is the reference; for names at top level it has to have met one
  (`Met`: functions and types everywhere, constants and imports from there on),
  which is less than the comment at `sema.cpp:55` promises: `names_forward`.
  `RefusedExactly` is the other direction: the analyser lets a second
  declaration replace the first in silence, and C refuses exactly those
  programs.
* `MismatchesAreReal`, `IRTypesHold`, `CTypesHold` say that types get lost, but
  never turned into others: through members, elements, variables and
  arithmetic, whichever pass takes it from where. `CTypesHold` asks of a variable
  in the heap for a pointer to the type of its value, which is what
  `visitLetDecl` writes; when the type is a pointer already this is one too many
  (section 6).
* `ContextIsNesting`, `AcceptsWellPlaced`: a wrong restore in any visitor shows
  only two constructs later; the run covers every nesting.
* `OwedIsFresh` and `TargetsCovered` together say that the generator's silent
  `setInsertBlock` never meets an existing label and that a finished function
  has no jump to nowhere.
* `LoopsAgree` relates the two passes: what `visitBreakStmt` of the generator
  drops, the analyser has refused.
* `StepsAreForEach` holds of the C loop always, and of the IR loop until it meets
  a `continue`; `LoopEnds` is what is left of termination with one. `FirstCaseRuns`
  holds of C only for a subject that keeps its value.
* `FlatIsHandlerStack` is a conditional refinement: as long as a program never
  enters a try while another runs and throws only from try blocks, each of its
  steps is one of `HandlerStack`. `NeverSkipsInner` holds for all programs.
* `LoneBinaryIsOwn` allows the process's own crashed runs and short writes, and
  asks for the right binary; it is about processes whose base name is theirs
  alone (see section 6 for the others). `TempHasOwner` is about all of them.

### Fairness

`ScopeStack` assumes weak fairness of `Walk`: `lookupAll` is a plain recursion
in one thread, it takes its next step. `Lexer`, the two parsers and `Loops`
assume weak fairness of their whole next-state relation, for the same reason; in
`Loops` this includes that a case ends. No other module needs fairness, and none
assumes that a process is not killed, that the C compiler succeeds or that a
program pops what it pushed.

### Deadlock

The check is off where the code comes to an end: the lexer and the parsers
return, loops end, a generated program ends, every process has used up its runs,
the last top-level declaration has been walked (`names`). It is on for `scopes`,
`scopes_cold`, `frontend` and `types`, whose walks can always go on.

### Bounds

Each is a constant of its module, named where it is declared: `max` of each kind
of input (`Lexer`, `BlockParser`, `ExprParser`), `MaxDepth` (`ScopeStack`,
`Bindings`), `MaxTop`, `MaxDecls`, `MaxFrames` (`Bindings`), `MaxInPlay`,
`MaxVariables`, `MaxNested` (`TypeFlow`), `MaxNesting` (`SemaWalk`), `MaxLabels` (`IRGen`),
`MaxLen`, `MaxCases` (`Loops`), `MaxOpen`, `MaxEntered` (`Exceptions`) and
`MaxRuns` (`CompilerDriver`). The theorems hold for every value of them.

## 4. What is proved

All theorems are for every value of the constants, from nothing but the named
assumptions of the modules (bounds are naturals, `NoSymbol` is no symbol, return
types are types, every process has a base name, written types are not empty, an
array has an element type and the mark `"end"` that `At` gives past the end of a
source is no character of it). TLC evaluates those on every
run. Before a proof was begun, TLC had checked the invariant under the bounds of
the run.

**SemaProofs**, about `ScopeStack`: `TypeCorrect`, `DanglingIsBounded` (`DanglingBelowGrowth`),
`ExactInReach` (`LookupExactInReach`), `WarmLexical`
(`WarmIsLexical`), `WarmRefinement` (from a warm start, `L!Spec`). The inductive
invariant is

    IInv == TypeOK /\ Linked /\ DanglingBelowGrowth /\ WalkSound

`DanglingBelowGrowth` is not inductive alone. That a growth turns exactly the
links below into dangling ones, and that a link made later is sound, needs
`Linked`: the parent of scope `i` is index `i - 1`, in a buffer that has existed.
That a lookup answers with the innermost declaration needs `WalkSound`: the
scopes the walk has left above it do not declare the name, and it came through
sound links only. For the refinement the invariant is `IInv /\ Warm`; a warm
stack never dangles, so the walk that is under way is the one abstract lookup
still to be answered.

**BindingsProofs**: `TablesAlwaysAgree` (`TablesAgree`), `SemaAlwaysLexical`
(`SemaIsLexical`), `IRAlwaysLexical` (`IRIsLexical`), `CAlwaysLexical`
(`CIsLexical`), `RefusedAlwaysExactly` (`RefusedExactly`).
That the tables say what lexical scoping says is not a property of the tables
alone, since the reference looks at numbers of declarations and the tables at
positions:

    IInv == Core /\ TablesAgree /\ SemaIsLexical /\ IRIsLexical
    Core == TypeOK /\ Nested /\ Numbered /\ Logged /\ Ordered /\ Scoped

`Numbered`: the local declarations are an interval of numbers, so a new one is
the latest of all. `Ordered`: every declaration of an inner frame is later than
every one of the frames around it, so the latest visible one is in the innermost
frame that has any. `Scoped`: a scope holds the last declaration of its frame
(`Holds`), and the global scope what the two passes have made of it so far. From
these `UseAgrees`, the heart of the proof: `Innermost(sema) = Visible` when that is
local, and the same for the table without its global scope, which is the IR's. For
a name without a local declaration in reach, `GlobalMet` and `ConstMet` say what the
global scope has: a declaration the analyser has met (`Met`), and a constant exactly
when that is the one declaration meant. That a set of
indices has a last one comes from the well-foundedness of `<`.

The C blocks are no copy of the scopes: a for loop has two blocks and one scope, a
method two scopes and one block. `Blocks` says, through `LaidOut`, which block the
body of each open frame is, that inner frames have later blocks, that a body's
block has what its scope has, and that a block that is no body has nothing; the
first block is the file scope, as far as the C above this place. The invariant of
the two theorems about C is `IInv` and

    CInv == Blocks /\ RefusedExactly /\ CIsLexical

`RefusedExactly` has to be part of it: what a use finds in the file scope is the
declaration the language means only because there is one, and `RefusedExactly` is
what says so of a program that C accepts.

**SemaProofs**, about `TypeFlow`: `MismatchesAlwaysReal` (`MismatchesAreReal`),
`IRTypesAlwaysHold` (`IRTypesHold`), `CTypesAlwaysHold` (`CTypesHold`), for every
set of written types, however deep. The analyser hands types on by name, and a
name keeps no parameters; that this is harmless is `Known`: what `inferExprType`
finds under a name is the type itself, or nothing. The invariant

    FInv == operands \in Seq(GoodOperands) /\ GoodVariables(variables) /\ ~falseAlarm

(the last conjunct written `falseAlarm = FALSE`) says `Known` of every operand and
every symbol, `Approximates` of the types of IR values, and of an untyped variable
that its C type is that of its value, as its region holds it (`Held`). A mismatch is reported only when both types
were found; by `Known` they are then the types themselves (`CheckGood`).

**FrontEndProofs**, about the analyser alone: `WalkTypeCorrect`, `ContextHolds` (`ContextIsNesting`),
`WellPlacedAccepted` (`AcceptsWellPlaced`). The invariant adds to them what the
visitors saved: `Saved` says that each frame's saved members are those the frames
below it ask for, `Placed` which construct can stand in which, and `Says` what
the present members mean. They are stated of any stack and any values of the
members, so that a visitor that leaves one body and enters another is `PopGood`
followed by `PushGood`.

**FrontEndProofs**, about the generator alone: `IRTypeCorrect`, `TargetsHold`, `FreshHolds`, `LoopStackHolds`,
`BackEdgesHold`.
The blocks of a function matter only through two sets, the labels that have a block and the
labels jumped to: `Sound` says of them that every open construct will place
labels of its own (`Settles`, `Apart`), that none of these is placed yet, that
all are below the counter, and that every jump goes to one or the other. Entering
is `PushSound`, leaving `PopSound`, a second body `ReplaceSound`. `Sound` counts
the open loops; `Listed` says in addition which labels each of them has on the
loop stack, and `ListedNext` needs only that a loop pushes and pops both stacks.
For `BackEdgesHold`, `Ahead` says that a jump to a block that is there already is to
the first label of a loop. A jump is written when its block is the last, so it can
go back only to a label that is placed: labels owed are not (`Sound`), and what a
`continue` takes from the loop stack is, by `Listed`, the head of an open loop, for
which `Shaped` says what prefix it has.

**FrontEndProofs**, about the composition: `AllTypeCorrect` (`AllTypeOK`),
`ContextHoldsInCompany`, `WellPlacedAcceptedInCompany`, `TargetsHoldInCompany`,
`FreshHoldsInCompany`, `LoopStackHoldsInCompany`, `BackEdgesHoldInCompany`
(`BackEdgesAreLoops`), `LoopsAlwaysAgree`. Each step of the
composition is a step of `SemaWalk` or leaves it alone, and likewise of
`IRGen`, so what is proved of each holds in company (`frontend` checks these
properties there). `LoopsAlwaysAgree` needs both invariants and `SideBySide`: the
two call stacks have the same kinds of frames, or the analyser is in a type and
the generator between functions.

**LexerProofs**: `LiteralsAlwaysSurvive` (`LiteralsSurvive`), `LexerTypeCorrect`,
`ErrorsAlwaysExact` (`ErrorsExact`), `TokensAreTheLexemes` (`TokensAreLexemes`), for
any characters and sources of any length. The invariant of the first two is

    TInv == TypeOK /\ Reading /\ (~failed => AllGood)

`Reading` ties the text `readString` has so far to the part of the body it has
passed: that part does not end in an escape, and the text is what the part means.
`AllGood` says it of every token. `Means` is the concatenation of what each
position contributes, and which positions are `Escaped` is a recursive function, so
a step of the reader needs what both are of a body one or two characters longer
(`ReadsPlain`, `ReadsEscape`). The library's induction theorems cannot be cited
here; the lemmas argue by least counterexample instead: a nonempty set of naturals
has a least element (`LeastExists`), a definition is shown to exist up to every
position (`FlattensExists`), and two that agree before a position agree at it
(`FlattenIs`). The C side goes character by character: each piece the back end
writes is read back as one character of the text (`Writes`), and their
concatenation as the whole (`GoodSurvives`); the one piece that is not is a
carriage return in a character literal.

The other two say that the scanner, which goes forward with one character of
lookahead and gives up at the first error, finds what `Lexemes` defines from the end
of the source backwards by longest match. Their invariant is `TInv` and

    Aligned == /\ failed => ~WellFormed(source)
               /\ ~failed => \E all, c : Stands(all, c)

`Stands(all, c)`: `all` are the lexemes passed and `c` is where the next one begins.
They have no bad kind (`Sound`), the lexemes of the source are `all` followed by
those of the rest (`LeadsTo`), the reader is where it should be in the lexeme that
begins at `c` (`Within`: at its start, in the body of a string, in a block comment),
and the tokens are those of `all`, comments and line ends that do not count left
out (`Matches`). A reader that ends is one lemma each, from what it has read to the
longest lexeme at `c` (`OperatorLexeme`, `StringLexeme`, `BlockLexeme`, ...; a body
that is never closed is `UnclosedLexeme` and `BrokenLexeme`): no longer prefix of the
rest is in the grammar. `Advance` then moves `c` past it, and `Fails` turns a bad
lexeme into a source that is not well formed.

**BlockParserProofs**: `ParserTypeCorrect` (`TypeOK`), `GrammarAlwaysAccepted`
(`AcceptsGrammar`), for files of any tokens and any length, nested to any depth. The
invariant is `TypeOK /\ ReadOK /\ Follows`:

    Follows == /\ Accepted => Valueless
               /\ Accepted /\ stack # <<>> => \E own : Stands(tokens, pos, stack, own)
               /\ Accepted /\ stack = <<>> => Right(tokens)
               /\ ~Accepted => Wrong(tokens)

`AcceptsGrammar` speaks of the finished parse and counts brackets over the whole
file; the parser has a stack and has seen a prefix. `Stands` is what makes the two
meet: every open parse function `stack[n]` stands for a construct that begins at
`own[n]`, encloses the present token and lies in the construct below it (`Frames`,
by levels, which is how the grammar counts); the kind of a function tells which
`else`, `catch` and `case` its construct has had (`Says`, `SaysTop`: in
`"afterElse"` a chain was left for good, and no other `else` may follow); every
token passed has its place (`PlacedTo`). With it a move that accepts a token shows
that the token has its place, one lemma for each kind of move (`...Goes`), and a
move that reports an error or takes a keyword for a name shows that no construct
could give it one (`...Wrong`). What is settled of a prefix stays so when more is
read (`ReadGoes`, `WrongGrows`). A `public` is settled only by what follows it, so
its place is promised (`Misplaced` is not the negation of `PlacedIn` while the next
token is unknown). `Valueless`: while nothing was swallowed no `return` or `throw` has
taken a value, so what follows one is looked at by the block it stands in.
`RightWell` and `WrongIll` lead from the levels to `WellFormed`.

**ExprParserProofs**: `ExpressionsAccepted` (`AcceptsExpressions`), `TreeByPrecedence`
(`PrecedenceHolds`), for every kind of input, of any length and nested to any depth.
`ExprInvariant` is the inductive invariant, `Typed /\ Judged`:

    Judged  == (Accepted => Ongoing) /\ (~Accepted => Wrong(tokens, pos, Errors))
    Ongoing == IF stack = <<>> THEN Right(tokens, pos, tree)
               ELSE \E own : Stood(tokens, pos, stack, own, doing, value, tree)

Both properties compare what a whole run has done with a definition over all of its
input: `TreeOf` gives each operator the span between its bounds, and a bound may be a
token that is not read yet. The invariant says the same of a prefix, in the middle of
the calls. Bracket depth is `Lev`, and each open call has the token its expression
begins at (`own`). `Frame`: what has stood beside that token since, so that the left
operand of a binary operator begins where `Starts` says, and nothing passed so far
ends the right one (`Within`). `Sits` and `Pair`: what the calls of a stack ask of each
other, namely that an operator below is looser than what is parsed above it unless a
bracket or an `await` lies between. `Top1`: what the innermost call has just done.
`TreeSays`: each node has its final bounds (`Good`), a node that ends here ends for good
at the present token (`Late`), and a token without its node is one an open call stands
for. `Waits`: an `await` that reaches to here is on the stack. `AllPlaced`: each token passed
fits. Then each action is one lemma over texts (`NameGoes`, `NestedGoes`, `MemberGoes`,
`CloseGoes`, `OperatorGoes`, `ExprEndsGoes`, ...), or shows that the token it reports
fits no expression (`UnexpectedWrong`, `MemberWrong`, `CloseWrong`). `ExprStarts` is
where precedences decide: an operator that binds here has on its left exactly what
reaches back to the next looser one. When a call ends, what waits below it is taken up
where it was (`BelowGrows`, `BelowPairs`). Reading a token changes nothing that was settled
(`ReadGoes`). At the end `WholeGoes` gives `Right`, and `FromIs`, `UpToIs` and `CloserIs`
say that the bounds are those of `TreeOf`.

**RuntimeProofs**, about `Loops`: `FirstCaseAlwaysRuns` (`FirstCaseRuns`), `StepsAlwaysForEach`
(`StepsAreForEach`), for arrays of any length and matches of any number of cases.
The invariant `TypeOK /\ Placed /\ FirstCaseRuns` says where the loop is: in the body
the index is that of an element. From it every step, until an IR loop meets a
`continue`, is one of `ForEach` or none (`StepIsForEach`): a refinement, proved
action by action, of the part of the loop's life in which it holds.

**RuntimeProofs**, about `Exceptions`: `TypeCorrect`, `InnerNeverSkipped` (`NeverSkipsInner`),
`FlatRefines` (`FlatIsHandlerStack`). The inductive invariant is

    IInv == TypeOK /\ IsStack(stack) /\ BufferOK
            /\ NeverSkipsInner /\ BelowIsOlder /\ FlatBuffer

A throw replaces the stack by the one the buffer holds, so what is to be true of
the stack after it must be known of the buffer before it. `BufferOK`: that stack
is a stack of the program with room for one more entry. `BelowIsOlder`: no try
in it is younger than the one that wrote the buffer, whence `NeverSkipsInner`
after the throw. `FlatBuffer`: while the program is flat the try that runs is the
one that wrote the buffer, and the buffer's stack is the part of the stack below
it. From the last, `FlatThrowIsThrow`: the frame `longjmp` returns to is alive,
and the catch it starts is the one `HandlerStack` asks for.

**CompilerDriverProofs**: `ErrorsAlwaysStop` (`ErrorsStopTheRun`),
`TempAlwaysHasOwner` (`TempHasOwner`), `LoneBinaryAlwaysOwn` (`LoneBinaryIsOwn`),
for any set of processes and base names and any number of runs. The invariant is
`TypeOK /\ TempHasOwner` and, for every process, `Clean` (past the stages there
are no errors), `OnRoute` (it is on the way of its target) and, if nobody shares
its base name, `OwnFile` (nobody else has its temporary file open, and from the
opening on it holds what this run has written). One lemma, `OneMoves`, says
that a step of one process keeps all of this if it keeps its own part and leaves
the file it meets in good hands.

## 5. What is only model-checked

* Liveness: `Terminates` of the lexer and of both parsers, `LookupReturns`,
  `LoopEnds`. The prover does not handle `ENABLED`, which weak fairness is
  defined by.

Every other property of every passing run is proved.

## 6. Where the code and its documentation differ

Shown by runs:

1. `scopes_cold` (`sema.cpp:39`): a growth of the scope vector leaves the parent
   pointers of scopes below the top naming freed memory. Three scopes in a fresh
   analyser are enough: the second growth moves the global scope away from
   under the second one. `sema.hpp:35` promises "walk parent chain".
2. `parse_else_block` (`parser.cpp:501`): an `if` on a line of its own at the
   start of an else block is taken for an else-if, and the function is closed
   one `end` too early.
3. `names_forward` (`sema.cpp:57`): the first pass registers functions and types
   only. A function above a constant does not see it and may set it, against
   "register all top-level symbols so forward references work" (`sema.cpp:55`,
   `sema.hpp:74`).

Stated by the properties of passing runs, which say exactly what the code does
where its documentation says otherwise:

* `AcceptsGrammar`, quirk `"fields"` (`parser.cpp:324`): a `public` or `private`
  before a method is an error, although the branch is headed "Access modifiers on
  fields/methods" (`parser.cpp:321`): it looks for a field only, skips the `fn`,
  and the method's `end` closes the type.
* `AcceptsGrammar`, quirk `"value"` (`parser.cpp:482`, `parser.cpp:633`): a `return`
  or `throw` without a value takes a `catch` or `case` that follows on its line for
  one (a `throw` also an `else`), since `parseExpr` takes any keyword for a name; the
  comment at `parser.cpp:481` speaks of a token that starts an expression.
* `CTypesHold` (`codegen.cpp:430`): a heap variable gets a `*` after its type,
  whatever that is. The C of `let player: ptr<Player> in heap = new Player()`
  (`README.md:317` of the repository, `examples/memory_demo.nsl:14`) is `Player**
  player = ((Player*)malloc(...))`.
* `LiteralsSurvive` (`codegen.cpp:641`): a carriage return in a character literal has
  no case in `visitCharLitExpr` and is written to the C as it is.

Met while modelling; the models contain the behaviour, or properties are stated
around it:

* Control flow. `continue` in a for loop of the IR jumps to the condition and
  skips the increment (`irgen.cpp:328`); the C generator is right. A throw in a
  catch block starts the same catch block again (`codegen.cpp:167`), and an inner
  try overwrites the buffer of the outer one, so that a later throw in the outer
  block resumes in the inner catch. Locals changed between `setjmp` and `longjmp`
  are not volatile. A match whose default is not its last case gives C in which an
  `else` has no `if`; and the C evaluates the subject again for every case.
  `and` and `or` evaluate both operands in the IR. `is` becomes `Add` there
  (`irgen.cpp:67`).
* `--emit-ir` on a program with a top-level constant whose initialiser is not a
  name writes through the null current function (`irgen.cpp:94`). It also analyses
  the program twice, so warnings are counted twice (`compiler.cpp:175`).
* Names. A second declaration in a scope silently replaces the first, and C
  refuses the result. An initialiser that uses the name it declares means the
  outer variable to analyser and IR, the new one to C. A set of a name without a
  variable is dropped by the IR (`irgen.cpp:191`). In the C, methods come before
  constants and functions, which they therefore cannot use. A constant declared in
  a function becomes a `let` without the const flag that the comment at
  `parser.cpp:411` speaks of, and can be set.
* Types. Arithmetic on an operand of unknown type is taken for `int`, so
  `let s: string = f() + "x"` is refused, although `types.cpp:126` says
  "unknown -> accept". `let x = 1 + 2.5` is an `int64_t`; a `let` from a call is
  one too, whatever the function returns. An inferred pointer type is written
  `int*` where a declared one is `int64_t*`, and `string*` is no C type; `i8`,
  `i16`, `u16`, `u32`, `u64` have no C name; a heap `let` without a type is an
  `int64_t*` initialised with the number itself (`CTypesHold` records the `*`).
  The type of an indexed expression is never known (the branch at
  `sema.cpp:407` is dead).
* Literals. Under `-std=c99` a string that contains a trigraph changes its text.
  `0b101` is 0 and `09` is 0 (`stoll` with base 0), a literal beyond 64 bits ends
  the compiler with an exception no catch of the parser names (`parser.cpp:842`),
  a float is written with six digits. An unterminated string swallows one character more.
* Parser. `static` and `virtual` in a type are reported whatever follows. `not a == b` parses as `(not a) == b`, since a
  prefix takes one primary with its postfixes; `await`, however, takes a whole
  expression even inside the operand of a tighter operator. `PrecedenceHolds`
  states both. `let x: ptr<int>= p` is rejected: the longest match of the lexer
  makes `>=` one token, and `parser.cpp:689` wants a `>`.
* Driver. Two compilers on sources of the same base name share
  `/tmp/__nsl_<base>.c`: one can compile what the other wrote, and return 0.
  `--emit-c` returns 0 when the write fell short.

## 7. Not modelled, and why

* `parseTypeExpr` and `parseMemorySpec`: a plain recursive descent over brackets
  and an optional suffix, without a loop that waits for an error branch. They are
  part of the header tokens of `BlockParser`.
* The numbering of IR registers, which shows only in the text of `--emit-ir`
  (a parameter called `r0` is printed like a register), and that printer.
* Function types and the registration of the built-in names in the type registry:
  tables filled once.
* Operators, calls and members in the C generator: text written in the order of
  the tree, with parentheses around every operation.
* `synchronize` and every `catch (ParseError)`: unreachable, because `Compiler`
  always installs the error callback and `reportError` throws only without one.
* Message texts, source locations, verbose output, the printers of `--emit-ast`,
  `--emit-ir` and `--emit-tokens`: formatting. Warnings: nothing the program does
  depends on them.
* Build modes and other options that only change the C compiler's flags.
* Examples, tests and build files: read for what the language promises.

## 8. Plan

Done: scopes, analyser walk, IR control flow and their composition, lexer,
parsers, names, types, loops and match, exceptions, driver, and the proofs of
section 4.

What could follow:

1. Loops, returns and try statements together at run time, with the value of
   locals after a `longjmp`.
2. Operators, calls and members of the C generator: that the C reads every
   expression as the tree the parser made.

## 9. Reproducing

    tlc -workers 2 -config scopes.cfg MCScopeStack
    tlc -workers 2 -config names.cfg Bindings
    tlapm SemaProofs.tla

and likewise for the other configurations and the other `...Proofs` modules.
`PROJECT.json` lists each run with its module, configuration and properties,
the source lines behind each definition, and for each property a changed
definition (in the modules, above the definition it changes) under which the
property fails.
