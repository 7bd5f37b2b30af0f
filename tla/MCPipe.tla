------------------------------- MODULE MCPipe -------------------------------
(* Model checking of Pipe: one name is a prefix of another, and one is longer *)
(* than a pipe keeps.                                                         *)
EXTENDS Pipe

MCName == {<<"a">>, <<"a", "b">>, <<"a", "b", "c">>}
=============================================================================
