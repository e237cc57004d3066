----------------------------- MODULE MCKllCache -----------------------------
(* Instances of KllCache. *)
EXTENDS KllCache
=============================================================================
