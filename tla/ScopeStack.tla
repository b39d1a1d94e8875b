---------------------------- MODULE ScopeStack ----------------------------
(***************************************************************************)
(* The scope stack of SemanticAnalyzer (sema.hpp, sema.cpp): a             *)
(* std::vector<Scope> whose elements hold their symbols and a raw pointer  *)
(* to the element below.  emplace_back moves every scope to a new buffer   *)
(* when the vector is full; the parent pointers move along unchanged and   *)
(* keep naming the freed buffer.  pop_back never shrinks the buffer.       *)
(*                                                                         *)
(* A Scope* is the pair of a buffer, numbered in the order of allocation,  *)
(* and an index in it.  What a lookup finds through a pointer to a freed   *)
(* buffer is undefined: here it is any symbol or none.                     *)
(***************************************************************************)
EXTENDS Naturals, Sequences

CONSTANTS
  Names,      \* identifiers of the analysed program
  Symbols,    \* what a declaration binds a name to
  NoSymbol,   \* the null Symbol*
  MaxDepth    \* bound: scopes open at once

ASSUME NoSymbolAssumption == NoSymbol \notin Symbols
ASSUME MaxDepthAssumption == MaxDepth \in Nat \ {0}

VARIABLES
  scopes,     \* m_symbols of every element of m_scopeStack
  parent,     \* m_parent of every element of m_scopeStack
  buffer,     \* the vector's current buffer: how many were allocated so far
  cap,        \* the vector's capacity
  asked,      \* argument of lookupAll
  at,         \* the scope lookupAll is in, 0 when no lookup is under way
  answer      \* what the last lookupAll returned

scopesVars == <<scopes, parent, buffer, cap, asked, at, answer>>

SymbolTable == [Names -> Symbols \cup {NoSymbol}]
EmptyTable  == [x \in Names |-> NoSymbol]

Null       == [buf |-> 0, idx |-> 0]
Pointer    == [buf : Nat, idx : Nat]

Dangling(i) == parent[i] # Null /\ parent[i].buf # buffer
Busy        == at # 0

ScopesInit ==
  /\ scopes = <<>>
  /\ parent = <<>>
  /\ buffer = 0
  /\ cap = 0
  /\ asked \in Names
  /\ at = 0
  /\ answer = NoSymbol

(* emplace_back on a full vector allocates twice the capacity (libstdc++). *)
EmplaceBack ==
  /\ scopes' = Append(scopes, EmptyTable)
  /\ IF Len(scopes) = cap
     THEN /\ buffer' = buffer + 1
          /\ cap' = IF cap = 0 THEN 1 ELSE 2 * cap
     ELSE UNCHANGED <<buffer, cap>>

(* Mutants of ParentOfNewTop: the parent taken before emplace_back, the     *)
(* scope as its own parent, every scope a child of the global one.         *)
ParentBeforeGrowth ==
  IF Len(scopes) = 0 THEN Null ELSE [buf |-> buffer, idx |-> Len(scopes)]
OwnParent == [buf |-> buffer', idx |-> Len(scopes) + 1]
GlobalParent ==
  IF Len(scopes) = 0 THEN Null ELSE [buf |-> buffer', idx |-> 1]

(* The parent is taken after emplace_back: the new top always points to    *)
(* the scope below it in the buffer in use.                                *)
ParentOfNewTop ==
  IF Len(scopes) = 0 THEN Null ELSE [buf |-> buffer', idx |-> Len(scopes)]

PushScope ==
  /\ ~Busy
  /\ Len(scopes) < MaxDepth
  /\ EmplaceBack
  /\ parent' = Append(parent, ParentOfNewTop)
  /\ UNCHANGED <<asked, at, answer>>

PopScope ==
  /\ ~Busy
  /\ scopes # <<>>
  /\ scopes' = SubSeq(scopes, 1, Len(scopes) - 1)
  /\ parent' = SubSeq(parent, 1, Len(parent) - 1)
  /\ UNCHANGED <<buffer, cap, asked, at, answer>>

(* currentScope()->define: a second declaration in a scope overwrites.     *)
Define(x, s) ==
  /\ ~Busy
  /\ scopes # <<>>
  /\ scopes' = [scopes EXCEPT ![Len(scopes)] = [@ EXCEPT ![x] = s]]
  /\ UNCHANGED <<parent, buffer, cap, asked, at, answer>>

(* Mutant of LookupAll: the walk starts one past the top.                   *)
LookupPastTop(x) ==
  /\ ~Busy
  /\ scopes # <<>>
  /\ asked' = x
  /\ at' = Len(scopes) + 1
  /\ UNCHANGED <<scopes, parent, buffer, cap, answer>>

(* currentScope()->lookupAll(x).                                           *)
LookupAll(x) ==
  /\ ~Busy
  /\ scopes # <<>>
  /\ asked' = x
  /\ at' = Len(scopes)
  /\ UNCHANGED <<scopes, parent, buffer, cap, answer>>

Reply(s) ==
  /\ answer' = s
  /\ at' = 0
  /\ UNCHANGED <<scopes, parent, buffer, cap, asked>>

Here == scopes[at][asked]

Found ==
  /\ Busy
  /\ Here # NoSymbol
  /\ Reply(Here)

(* Mutant of Climb: the parent is asked even if this scope has the name.   *)
ClimbAnyway ==
  /\ Busy
  /\ parent[at] # Null
  /\ ~Dangling(at)
  /\ at' = parent[at].idx
  /\ UNCHANGED <<scopes, parent, buffer, cap, asked, answer>>

Climb ==
  /\ Busy
  /\ Here = NoSymbol
  /\ parent[at] # Null
  /\ ~Dangling(at)
  /\ at' = parent[at].idx
  /\ UNCHANGED <<scopes, parent, buffer, cap, asked, answer>>

ClimbToFreed ==
  /\ Busy
  /\ Here = NoSymbol
  /\ Dangling(at)
  /\ \E s \in Symbols \cup {NoSymbol} : Reply(s)

NotFound ==
  /\ Busy
  /\ Here = NoSymbol
  /\ parent[at] = Null
  /\ Reply(NoSymbol)

Walk == Found \/ Climb \/ ClimbToFreed \/ NotFound

ScopesNext ==
  \/ PushScope
  \/ PopScope
  \/ \E x \in Names, s \in Symbols : Define(x, s)
  \/ \E x \in Names : LookupAll(x)
  \/ Walk

ScopesSpec == ScopesInit /\ [][ScopesNext]_scopesVars
FairSpec   == ScopesSpec /\ WF_scopesVars(Walk)

(***************************************************************************)
(* The state between two top-level declarations, once an earlier one has   *)
(* nested as deep as any that follows: only the global scope is left and   *)
(* the buffer, doubled n times, will not grow again.  ScopesSpec reaches   *)
(* it by popping.                                                          *)
(***************************************************************************)
WarmInit ==
  /\ scopes \in {<<t>> : t \in SymbolTable}
  /\ parent = <<Null>>
  /\ cap \in MaxDepth .. 2 * MaxDepth
  /\ \E n \in 0 .. MaxDepth : cap = 2 ^ n /\ buffer = n + 1
  /\ asked \in Names
  /\ at = 0
  /\ answer = NoSymbol

WarmSpec == WarmInit /\ [][ScopesNext]_scopesVars

-----------------------------------------------------------------------------
L == INSTANCE LexicalScopes WITH busy <- Busy

(* Every variable has its type; the two halves of the vector have one      *)
(* length and fit the buffer.                                              *)
TypeOK ==
  /\ scopes \in Seq(SymbolTable)
  /\ parent \in Seq(Pointer)
  /\ Len(parent) = Len(scopes)
  /\ buffer \in Nat
  /\ cap \in Nat
  /\ Len(scopes) <= cap
  /\ Len(scopes) <= MaxDepth
  /\ asked \in Names
  /\ at \in 0 .. Len(scopes)
  /\ answer \in Symbols \cup {NoSymbol}

(* Where a parent pointer can be trusted (pushScope, popScope): only       *)
(* scopes in the lower half of the buffer can hold a freed parent, because *)
(* a growth happens when exactly that half is in use and everything pushed *)
(* later is linked inside the new buffer; and the freed links are at the   *)
(* bottom, so whatever is above a sound link is sound.  In particular      *)
(* nothing dangles while no more than two scopes were ever open.           *)
DanglingBelowGrowth ==
  /\ \A i \in DOMAIN parent : Dangling(i) => 2 * i <= cap
  /\ \A i, j \in DOMAIN parent : (i < j /\ Dangling(j)) => (i = 1 \/ Dangling(i))

(* Every parent is the scope below, in the present buffer or a freed one.  *)
Linked ==
  /\ cap > 0 => buffer > 0
  /\ \A i \in DOMAIN parent :
       /\ i = 1 => parent[i] = Null
       /\ i > 1 => /\ parent[i].idx = i - 1
                  /\ parent[i].buf \in 1 .. buffer

(* A lookup under way has passed only scopes that do not declare the name, *)
(* through links that are sound.                                           *)
WalkSound ==
  Busy => \A i \in DOMAIN scopes :
            i > at => scopes[i][asked] = NoSymbol /\ ~Dangling(i)

(* The inductive invariant.                                                *)
IInv == TypeOK /\ Linked /\ DanglingBelowGrowth /\ WalkSound

(* The scopes a walk from the top reaches through sound links only.        *)
Reach == {i \in DOMAIN scopes : \A j \in DOMAIN scopes : j > i => ~Dangling(j)}

(* lookupAll returns the innermost declaration whenever that declaration   *)
(* is in reach, however the stack grew, shrank and was redefined before.   *)
LookupExactInReach ==
  [][(Busy /\ at' = 0 /\ Reach \cap L!Declaring(scopes, asked) # {})
       => answer' = L!Innermost(scopes, asked)]_scopesVars

(* "walk parent chain" (sema.hpp:35): a lookup returns the innermost open  *)
(* declaration of the name, or none if no open scope declares it.          *)
WalkParentChain ==
  [][(Busy /\ at' = 0) => answer' = L!Innermost(scopes, asked)]_scopesVars

(* A lookup that started returns: the chain of parents has no cycle.       *)
LookupReturns == Busy ~> ~Busy

(* Nothing dangles and the buffer will not grow again: so it is between    *)
(* two top-level declarations once an earlier one has nested as deep as    *)
(* any that follows.                                                       *)
Warm == cap >= MaxDepth /\ \A i \in DOMAIN parent : ~Dangling(i)

(* Once the stack is warm it stays so and the analyser resolves names      *)
(* lexically: every step is a step of LexicalScopes or leaves what that    *)
(* module sees unchanged.                                                  *)
WarmIsLexical == [][Warm => Warm' /\ [L!Next]_(L!vars)]_scopesVars

(* From a warm start it implements LexicalScopes.                          *)
WarmImplements == L!Spec
=============================================================================
