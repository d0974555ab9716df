------------------------------ MODULE MCDriver ------------------------------
(* An instance of Driver: two commands over at most three sources.             *)
EXTENDS Driver

(* Two commands with sources of their own; one names a source twice, and   *)
(* after it one beside which files cannot be written.                      *)
ApartInputs == [c1 |-> <<"a.c", "a.c", "c.c">>, c2 |-> <<"b.c">>]
=============================================================================
