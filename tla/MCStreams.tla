----------------------------- MODULE MCStreams -----------------------------
(* Instances of Streams for TLC. *)
EXTENDS Streams, TLC

(* Threads and tokens are interchangeable: no action or property of       *)
(* Streams distinguishes them.                                            *)
MCSymmetry == Permutations(Threads) \cup Permutations(Tokens)
=============================================================================
