-------------------------- MODULE MCIdentityDevice --------------------------
(* Instances of IdentityDevice for TLC. *)
EXTENDS IdentityDevice
=============================================================================
