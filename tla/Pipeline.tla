----------------------------- MODULE Pipeline ------------------------------
(***************************************************************************)
(* What the thread network of prod-cons.c computes, seen without           *)
(* semaphores, pointers and call frames: threads that take ints from and   *)
(* append ints to bounded first-in first-out queues, each in one step.     *)
(***************************************************************************)
EXTENDS Integers, Sequences, FiniteSetsExt

CONSTANTS Capacity, mult1, mult2, ConsumerLimit, NONE

ASSUME PipelineAssumption ==
  /\ Capacity \in Nat
  /\ mult1 \in Nat \ {0}
  /\ mult2 \in Nat \ {0}
  /\ ConsumerLimit \in Nat
  /\ NONE \notin Int

VARIABLES
  q,     \* q[s]: the ints in stream s
  n,     \* n[s]: the int successor s puts next
  hand,  \* hand[t]: the product that times thread t is about to put, or NONE
  head,  \* head[t]: merge's int from times thread t, or NONE
  out    \* what the consumer has taken

pipeVars == <<q, n, hand, head, out>>

Successors == {"suc1", "suc2"}
TimesThreads == {"tms1", "tms2"}
Source(t) == IF t = "tms1" THEN "suc1" ELSE "suc2"
Factor(t) == IF t = "tms1" THEN mult1 ELSE mult2

PipeInit ==
  /\ q = [s \in Successors \cup TimesThreads \cup {"mrg"} |-> << >>]
  /\ n = [s \in Successors |-> 1]
  /\ hand = [t \in TimesThreads |-> NONE]
  /\ head = [t \in TimesThreads |-> NONE]
  /\ out = << >>

Insert(s, x) == Len(q[s]) < Capacity /\ q' = [q EXCEPT ![s] = Append(@, x)]
Extract(s) == q[s] # << >> /\ q' = [q EXCEPT ![s] = Tail(@)]

SuccessorStep(s) ==
  /\ Insert(s, n[s])
  /\ n' = [n EXCEPT ![s] = @ + 1]
  /\ UNCHANGED <<hand, head, out>>

TimesTake(t) ==
  /\ hand[t] = NONE
  /\ Extract(Source(t))
  /\ hand' = [hand EXCEPT ![t] = Head(q[Source(t)]) * Factor(t)]
  /\ UNCHANGED <<n, head, out>>

TimesPass(t) ==
  /\ hand[t] # NONE
  /\ Insert(t, hand[t])
  /\ hand' = [hand EXCEPT ![t] = NONE]
  /\ UNCHANGED <<n, head, out>>

(* The first input of merge is tms2, the stream connected last. *)
MergeTake(t) ==
  /\ head[t] = NONE
  /\ t = "tms1" => head["tms2"] # NONE
  /\ Extract(t)
  /\ head' = [head EXCEPT ![t] = Head(q[t])]
  /\ UNCHANGED <<n, hand, out>>

(* Mutant: the first input always goes first. *)
MergePassFirst(t) ==
  /\ NONE \notin {head["tms1"], head["tms2"]}
  /\ t = "tms2"
  /\ Insert("mrg", head[t])
  /\ head' = [head EXCEPT ![t] = NONE]
  /\ UNCHANGED <<n, hand, out>>

MergePass(t) ==
  /\ NONE \notin {head["tms1"], head["tms2"]}
  /\ t = (IF head["tms2"] < head["tms1"] THEN "tms2" ELSE "tms1")
  /\ Insert("mrg", head[t])
  /\ head' = [head EXCEPT ![t] = NONE]
  /\ UNCHANGED <<n, hand, out>>

(* Mutant: the consumer's loop ends one round early. *)
ConsumerTakeShort ==
  /\ Len(out) < ConsumerLimit - 1
  /\ Extract("mrg")
  /\ out' = Append(out, Head(q["mrg"]))
  /\ UNCHANGED <<n, hand, head>>

ConsumerTake ==
  /\ Len(out) < ConsumerLimit
  /\ Extract("mrg")
  /\ out' = Append(out, Head(q["mrg"]))
  /\ UNCHANGED <<n, hand, head>>

PipeNext ==
  \/ \E s \in Successors : SuccessorStep(s)
  \/ \E t \in TimesThreads : TimesTake(t) \/ TimesPass(t)
  \/ \E t \in TimesThreads : MergeTake(t) \/ MergePass(t)
  \/ ConsumerTake

PipeSpec == PipeInit /\ [][PipeNext]_pipeVars

(* Each thread is one process: it goes on as long as it can. *)
FairPipeSpec ==
  /\ PipeSpec
  /\ \A s \in Successors : WF_pipeVars(SuccessorStep(s))
  /\ \A t \in TimesThreads : WF_pipeVars(TimesTake(t) \/ TimesPass(t))
  /\ WF_pipeVars(\E t \in TimesThreads : MergeTake(t) \/ MergePass(t))
  /\ WF_pipeVars(ConsumerTake)

-----------------------------------------------------------------------------
(* The k-th smallest element of the multiples of mult1 and of mult2, a     *)
(* common multiple counted twice: the least v with k multiples up to v.    *)
KthMultiple(k) ==
  Min({v \in 1 .. k * mult1 : v \div mult1 + v \div mult2 >= k})

(* The comment above merge(): the output stream is 3,5,6,9,10,12,15,15,... *)
(* whatever the order in which the threads run.                            *)
SortedOutput == \A k \in 1 .. Len(out) : out[k] = KthMultiple(k)

(* The consumer gets its tokens, and back pressure then stops every        *)
(* producer for good, with every queue filled to capacity (the "Final      *)
(* buffer sizes" of cleanup_module()); the network rests nowhere else.     *)
EventuallyRests ==
  <>[](Len(out) = ConsumerLimit /\ \A s \in DOMAIN q : Len(q[s]) = Capacity)
=============================================================================
