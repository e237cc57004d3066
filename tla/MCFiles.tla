------------------------------ MODULE MCFiles ------------------------------
(* Instances of Files: two processes use foo, one of them also id. *)
EXTENDS Files
CONSTANTS p1, p2
MCUsers == [id |-> {p1}, foo |-> {p1, p2}]
=============================================================================
