--------------------------- MODULE LexicalScopes ---------------------------
(***************************************************************************)
(* What the semantic analyser is meant to get from its scopes: names are   *)
(* resolved lexically, the innermost open declaration wins, and a name     *)
(* that no open scope declares has no symbol.  The module knows nothing of *)
(* parent pointers; ScopeStack implements it under the conditions that     *)
(* module states.                                                          *)
(***************************************************************************)
EXTENDS Naturals, Sequences

CONSTANTS
  Names,      \* identifiers of the analysed program
  Symbols,    \* what a declaration binds a name to
  NoSymbol,   \* the null Symbol*: the name is not declared
  MaxDepth    \* bound: scopes open at once

VARIABLES
  scopes,     \* one symbol table per open scope, the global one first
  asked,      \* the name of the lookup under way or last answered
  busy,       \* a lookup is under way
  answer      \* the symbol the last lookup returned

vars == <<scopes, asked, busy, answer>>

SymbolTable == [Names -> Symbols \cup {NoSymbol}]
EmptyTable  == [x \in Names |-> NoSymbol]

Declaring(tables, x) == {i \in DOMAIN tables : tables[i][x] # NoSymbol}

(* The symbol of the innermost scope that declares x.                      *)
Innermost(tables, x) ==
  IF Declaring(tables, x) = {}
  THEN NoSymbol
  ELSE tables[CHOOSE i \in Declaring(tables, x) :
                 \A j \in Declaring(tables, x) : j <= i][x]

Init ==
  /\ scopes \in {<<>>} \cup {<<t>> : t \in SymbolTable}
  /\ asked \in Names
  /\ busy = FALSE
  /\ answer = NoSymbol

Push ==
  /\ ~busy
  /\ Len(scopes) < MaxDepth
  /\ scopes' = Append(scopes, EmptyTable)
  /\ UNCHANGED <<asked, busy, answer>>

Pop ==
  /\ ~busy
  /\ scopes # <<>>
  /\ scopes' = SubSeq(scopes, 1, Len(scopes) - 1)
  /\ UNCHANGED <<asked, busy, answer>>

Define(x, s) ==
  /\ ~busy
  /\ scopes # <<>>
  /\ scopes' = [scopes EXCEPT ![Len(scopes)] = [@ EXCEPT ![x] = s]]
  /\ UNCHANGED <<asked, busy, answer>>

Ask(x) ==
  /\ ~busy
  /\ scopes # <<>>
  /\ asked' = x
  /\ busy' = TRUE
  /\ UNCHANGED <<scopes, answer>>

Answer ==
  /\ busy
  /\ answer' = Innermost(scopes, asked)
  /\ busy' = FALSE
  /\ UNCHANGED <<scopes, asked>>

Next ==
  \/ Push
  \/ Pop
  \/ \E x \in Names, s \in Symbols : Define(x, s)
  \/ \E x \in Names : Ask(x)
  \/ Answer

Spec == Init /\ [][Next]_vars
=============================================================================
