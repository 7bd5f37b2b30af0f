-------------------------- MODULE MCFatFilesystem --------------------------
(* Model checking of FatFilesystem: a directory D, a name A in both places, and *)
(* a longer name of which an entry holds A.                                     *)
EXTENDS FatFilesystem

MCPath == {<<"A">>, <<"AX">>, <<"D">>, <<"D", "A">>}
MCShort == [m \in {"A", "AX", "D"} |-> IF m = "AX" THEN "A" ELSE m]
=============================================================================
