---------------------------- MODULE MCExprParser ----------------------------
(* ExprParser for TLC: inputs about operators, about brackets, about       *)
(* prefixes, about keywords behind dots, and about every precedence.       *)
EXTENDS ExprParser

Brackets == {"id", "+", ".", "(", ")", "[", "]", ","}
Loosest  == {"id", "or", "+", "*", "not"}
Prefixes == {"id", "await", "move", "ref", "<", "*", "(", ")"}
Members  == {"id", ".", "move", "await", "ref", "<", "or"}

SomeInputs == {[tokens |-> Loosest, max |-> 7],
               [tokens |-> Brackets, max |-> 6],
               [tokens |-> Prefixes, max |-> 5],
               [tokens |-> Members, max |-> 6],
               [tokens |-> {"id"} \cup Operators, max |-> 5]}
=============================================================================
