----------------------------- MODULE MCTypeFlow -----------------------------
(* TypeFlow for TLC: the types that the rules tell apart.                  *)
EXTENDS TypeFlow

Written == {<<"u8">>, <<"bool">>, <<"struct">>, <<"ptr", "int">>, <<"array", "string">>}
Fields  == {<<"string">>, <<"ptr", "struct">>}
Values  == {"int", "double", "string", "null"}
=============================================================================
