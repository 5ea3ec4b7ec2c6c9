-------------------------- MODULE MCCallProtocol ---------------------------
(* Model checking of CallProtocol on programs of a few functions.          *)
EXTENDS CallProtocol

(* Every kind of result, parameters of every type, a struct last and, as   *)
(* in test/good/testStruct.tpc, before a primitive; a call may be among    *)
(* the arguments, between other arguments.                                 *)
MCArgs == [f |-> <<"int", "char", "int">>, g |-> <<"char", "struct">>,
           h |-> <<"struct", "int">>, p |-> <<>>]
MCRet == [f |-> "int", g |-> "struct", h |-> "char", p |-> "void"]

(* valeur(...) as an argument of another function.                         *)
MCNestedArgs == [f |-> <<"int">>, g |-> <<"int">>]
MCNestedRet == [f |-> "int", g |-> "int"]
=============================================================================
