-------------------------- MODULE ProdConsPipeline -------------------------
(***************************************************************************)
(* The thread network of prod-cons.c implements Pipeline, the network of   *)
(* atomic queue operations on ints: a queue of pointers stands for the     *)
(* ints they point to, and the variables of the threads for the ints they  *)
(* hold.                                                                   *)
(***************************************************************************)
EXTENDS ProdCons

Pipe ==
  INSTANCE Pipeline
    WITH Capacity <- BUFFER_SIZE,
         NONE <- NULL,
         q <- [s \in Streams |-> [k \in 1 .. Len(buffer[s]) |-> heap[buffer[s][k]]]],
         n <- [s \in Successors |-> IF Unsent(s) THEN i[s] - 1 ELSE i[s]],
         hand <- [t \in TimesThreads |-> Product(t)],
         head <- [t \in TimesThreads |-> IntOf(Local(IF t = "tms2" THEN "a" ELSE "b"))],
         out <- IF Local("cons") = NULL THEN consumed
                ELSE Append(consumed, IntOf(Local("cons")))

(* Whatever the interleaving of their semaphore and queue operations, the  *)
(* threads compute what Pipeline computes.                                 *)
ImplementsPipeline == Pipe!PipeSpec
=============================================================================
