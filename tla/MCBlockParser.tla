--------------------------- MODULE MCBlockParser ---------------------------
(* BlockParser for TLC: files about ifs, about the other statements, about *)
(* the values of returns and throws, about declarations, and short files   *)
(* of anything; then the files of the run that shows one quirk.            *)
EXTENDS BlockParser

Ifs        == {"nl", "let", "if", "else", "end", "fn"}
Statements == {"let", "loop", "try", "catch", "match", "case", "end", "fn"}
Values     == {"nl", "let", "return", "throw", "try", "catch", "else", "end", "fn"}
Types      == {"nl", "let", "const", "public", "static", "type", "end", "fn"}

SomeFiles == {[tokens |-> Ifs, max |-> 6],
              [tokens |-> Statements, max |-> 6],
              [tokens |-> Values, max |-> 5],
              [tokens |-> Types, max |-> 5],
              [tokens |-> Ifs \cup Statements \cup Values \cup Types \cup {"use", "macro"}, max |-> 4]}

IfFiles == {[tokens |-> {"nl", "if", "else", "end", "fn"}, max |-> 8]}
=============================================================================
