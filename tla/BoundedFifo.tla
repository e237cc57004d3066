---------------------------- MODULE BoundedFifo ----------------------------
(***************************************************************************)
(* What a Stream of prod-cons.c promises its callers: each call of put or  *)
(* get takes effect in one indivisible step somewhere between its          *)
(* invocation and its return, in first-in first-out order, and no stream   *)
(* ever holds more than Capacity tokens.  A call that is interrupted       *)
(* returns without having had any effect on the queue.                     *)
(***************************************************************************)
EXTENDS Integers, Sequences

CONSTANTS Threads, Streams, Tokens, Capacity, NULL

VARIABLES
  queue,   \* queue[s]: the tokens in stream s, oldest first
  call,    \* call[t]: "none", "put", "get" or "returning"
  target,  \* target[t]: the stream of t's latest call
  token    \* token[t]: the token t puts, or the one its get obtained

vars == <<queue, call, target, token>>

Init ==
  /\ queue = [s \in Streams |-> << >>]
  /\ call = [t \in Threads |-> "none"]
  /\ target \in [Threads -> Streams]
  /\ token = [t \in Threads |-> NULL]

InvokePut(t, s, v) ==
  /\ call[t] = "none"
  /\ call' = [call EXCEPT ![t] = "put"]
  /\ target' = [target EXCEPT ![t] = s]
  /\ token' = [token EXCEPT ![t] = v]
  /\ UNCHANGED queue

InvokeGet(t, s) ==
  /\ call[t] = "none"
  /\ call' = [call EXCEPT ![t] = "get"]
  /\ target' = [target EXCEPT ![t] = s]
  /\ UNCHANGED <<queue, token>>

CommitPut(t) ==
  /\ call[t] = "put"
  /\ Len(queue[target[t]]) < Capacity
  /\ queue' = [queue EXCEPT ![target[t]] = Append(@, token[t])]
  /\ call' = [call EXCEPT ![t] = "returning"]
  /\ UNCHANGED <<target, token>>

CommitGet(t) ==
  /\ call[t] = "get"
  /\ queue[target[t]] # << >>
  /\ token' = [token EXCEPT ![t] = Head(queue[target[t]])]
  /\ queue' = [queue EXCEPT ![target[t]] = Tail(@)]
  /\ call' = [call EXCEPT ![t] = "returning"]
  /\ UNCHANGED target

Return(t) ==
  /\ call[t] = "returning"
  /\ call' = [call EXCEPT ![t] = "none"]
  /\ UNCHANGED <<queue, target, token>>

(* An interrupted call: the queue is untouched; a get yields NULL. *)
Abort(t) ==
  /\ call[t] \in {"none", "put", "get"}
  /\ call' = [call EXCEPT ![t] = "none"]
  /\ token' \in {token, [token EXCEPT ![t] = NULL]}
  /\ UNCHANGED <<queue, target>>

Next ==
  \E t \in Threads :
    \/ \E s \in Streams : \/ InvokeGet(t, s)
                          \/ \E v \in Tokens : InvokePut(t, s, v)
    \/ CommitPut(t)
    \/ CommitGet(t)
    \/ Return(t)
    \/ Abort(t)

Spec == Init /\ [][Next]_vars
=============================================================================
