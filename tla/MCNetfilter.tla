----------------------------- MODULE MCNetfilter -----------------------------
(* Instances of Netfilter: a and b both provide "kmp", c and d provide     *)
(* "bm", and d lacks a callback.                                           *)
EXTENDS Netfilter, TLC
CONSTANTS a, b, c, d
MCMods == {a, b, c, d}
MCNameOf == (a :> "kmp") @@ (b :> "kmp") @@ (c :> "bm") @@ (d :> "bm")
MCComplete == {a, b, c}
=============================================================================
