----------------------------- MODULE MCPipeline ----------------------------
(* Pipeline with the constants of prod-cons.c, for TLC. *)
EXTENDS Pipeline
=============================================================================
