--------------------------- MODULE MCKthreadStop ---------------------------
(* Instances of KthreadStop for TLC. *)
EXTENDS KthreadStop
=============================================================================
