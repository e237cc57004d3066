----------------------------- MODULE MCKthreads -----------------------------
(* Instances of Kthreads. *)
EXTENDS Kthreads
=============================================================================
