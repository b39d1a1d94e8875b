------------------------------ MODULE MCLexer ------------------------------
(* Lexer for TLC: sources about numbers, strings, character literals,      *)
(* carriage returns, comments and operators, and short ones of every       *)
(* character.                                                              *)
EXTENDS Lexer

Numbers    == {"0", "1", "x", "b", "e", ".", "+"}
Strings    == {"quo", "bs", "nl", "n", "0"}
Trigraphs  == {"quo", "bs", "?", "/"}
Chars      == {"apo", "bs", "nl", "0", "n"}
Returns    == {"quo", "apo", "bs", "cr", "r"}
Comments   == {"/", "*", "nl", "sp", "a"}
Operators  == {"-", ">", "=", "!", "<", "/", "quo"}
Characters == Numbers \cup Strings \cup Trigraphs \cup Chars \cup Comments \cup Operators \cup Returns \cup {"(", "$"}

SomeInputs == {[chars |-> Numbers, max |-> 5],
               [chars |-> Strings, max |-> 6],
               [chars |-> Trigraphs, max |-> 6],
               [chars |-> Chars, max |-> 6],
               [chars |-> Returns, max |-> 6],
               [chars |-> Comments, max |-> 6],
               [chars |-> Operators, max |-> 4],
               [chars |-> Characters, max |-> 3]}
=============================================================================
