----------------------------- MODULE MCFatLabel -----------------------------
(* Instances of FatLabel. *)
EXTENDS FatLabel
=============================================================================
