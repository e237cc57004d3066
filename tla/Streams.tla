------------------------------ MODULE Streams ------------------------------
(***************************************************************************)
(* The Stream objects of src/Task_17/kthreads/prod_cons/prod-cons.c: a     *)
(* token queue guarded by the counting semaphores empty and full and by    *)
(* the binary semaphore mutex, with the calls put and get that kernel      *)
(* threads make on them.  One step is one semaphore operation or one queue *)
(* operation, so that every interleaving of concurrent calls is covered.   *)
(*                                                                         *)
(* The queue (queue_a.c) is not part of the repository; it is modelled     *)
(* from its use here as an unbounded sequence whose dequeue returns NULL   *)
(* when there is nothing to return.  That put never lets it grow past      *)
(* BUFFER_SIZE and that get never meets it empty is what the semaphores    *)
(* have to achieve.                                                        *)
(***************************************************************************)
EXTENDS Integers, Sequences, FiniteSets

CONSTANTS
  Threads,      \* the kernel threads that call put and get
  Streams,      \* the Stream objects
  Tokens,       \* the pointers that travel through the streams
  BUFFER_SIZE,  \* capacity of a stream
  NULL,         \* what get returns when it is interrupted
  Signals       \* may a signal interrupt down_interruptible()?

ASSUME StreamsAssumption ==
  /\ IsFiniteSet(Threads)
  /\ BUFFER_SIZE \in Nat
  /\ NULL \notin Tokens
  /\ Signals \in BOOLEAN

VARIABLES
  empty,   \* empty[s]: count of the semaphore of free slots
  full,    \* full[s]: count of the semaphore of available tokens
  mutex,   \* mutex[s]: count of the semaphore that guards the queue
  buffer,  \* buffer[s]: the queue of tokens, oldest first
  pc,      \* pc[t]: where thread t is inside put or get, or "idle"
  arg,     \* arg[t]: the stream of t's latest call
  val      \* val[t]: the token t puts, or the result of its get

vars == <<empty, full, mutex, buffer, pc, arg, val>>

PutLocations == {"put_down_mutex", "put_enqueue", "put_up_mutex", "put_up_full"}
GetLocations == {"get_down_mutex", "get_dequeue", "get_up_mutex", "get_up_empty"}

(* init_stream(), for every stream. *)
Init ==
  /\ empty = [s \in Streams |-> BUFFER_SIZE]
  /\ full = [s \in Streams |-> 0]
  /\ mutex = [s \in Streams |-> 1]
  /\ buffer = [s \in Streams |-> << >>]
  /\ pc = [t \in Threads |-> "idle"]
  /\ arg \in [Threads -> Streams]
  /\ val = [t \in Threads |-> NULL]

At(t, here, there) == pc[t] = here /\ pc' = [pc EXCEPT ![t] = there]

(* Mutant: put does not wait for a free slot. *)
PutWithoutWaiting(t, s, v) ==
  /\ At(t, "idle", "put_down_mutex")
  /\ empty' = [empty EXCEPT ![s] = @ - 1]
  /\ arg' = [arg EXCEPT ![t] = s]
  /\ val' = [val EXCEPT ![t] = v]
  /\ UNCHANGED <<full, mutex, buffer>>

(* put(s, v) is called and its down_interruptible(empty) succeeds; while   *)
(* there is no free slot the caller sleeps, that is, the step is disabled. *)
PutDownEmpty(t, s, v) ==
  /\ At(t, "idle", "put_down_mutex")
  /\ empty[s] > 0
  /\ empty' = [empty EXCEPT ![s] = @ - 1]
  /\ arg' = [arg EXCEPT ![t] = s]
  /\ val' = [val EXCEPT ![t] = v]
  /\ UNCHANGED <<full, mutex, buffer>>

(* get(s) is called and its down_interruptible(full) succeeds. *)
GetDownFull(t, s) ==
  /\ At(t, "idle", "get_down_mutex")
  /\ full[s] > 0
  /\ full' = [full EXCEPT ![s] = @ - 1]
  /\ arg' = [arg EXCEPT ![t] = s]
  /\ UNCHANGED <<empty, mutex, buffer, val>>

(* down_interruptible(mutex) succeeds, in put and in get. *)
DownMutex(t) ==
  /\ \/ At(t, "put_down_mutex", "put_enqueue")
     \/ At(t, "get_down_mutex", "get_dequeue")
  /\ mutex[arg[t]] > 0
  /\ mutex' = [mutex EXCEPT ![arg[t]] = @ - 1]
  /\ UNCHANGED <<empty, full, buffer, arg, val>>

(* Mutant: the newest token is handed out first. *)
EnqueueAtHead(t) ==
  /\ At(t, "put_enqueue", "put_up_mutex")
  /\ buffer' = [buffer EXCEPT ![arg[t]] = <<val[t]>> \o @]
  /\ UNCHANGED <<empty, full, mutex, arg, val>>

(* enqueue(q, value) *)
Enqueue(t) ==
  /\ At(t, "put_enqueue", "put_up_mutex")
  /\ buffer' = [buffer EXCEPT ![arg[t]] = Append(@, val[t])]
  /\ UNCHANGED <<empty, full, mutex, arg, val>>

(* ret = dequeue(q) *)
Dequeue(t) ==
  /\ At(t, "get_dequeue", "get_up_mutex")
  /\ IF buffer[arg[t]] = << >>
       THEN /\ val' = [val EXCEPT ![t] = NULL]
            /\ UNCHANGED buffer
       ELSE /\ val' = [val EXCEPT ![t] = Head(buffer[arg[t]])]
            /\ buffer' = [buffer EXCEPT ![arg[t]] = Tail(@)]
  /\ UNCHANGED <<empty, full, mutex, arg>>

(* up(mutex), in put and in get. *)
UpMutex(t) ==
  /\ \/ At(t, "put_up_mutex", "put_up_full")
     \/ At(t, "get_up_mutex", "get_up_empty")
  /\ mutex' = [mutex EXCEPT ![arg[t]] = @ + 1]
  /\ UNCHANGED <<empty, full, buffer, arg, val>>

(* put: up(full) and return 0. *)
PutUpFull(t) ==
  /\ At(t, "put_up_full", "idle")
  /\ full' = [full EXCEPT ![arg[t]] = @ + 1]
  /\ UNCHANGED <<empty, mutex, buffer, arg, val>>

(* Mutant: get does not give the slot back. *)
GetKeepsSlot(t) ==
  /\ At(t, "get_up_empty", "idle")
  /\ UNCHANGED <<empty, full, mutex, buffer, arg, val>>

(* get: up(empty) and return ret. *)
GetUpEmpty(t) ==
  /\ At(t, "get_up_empty", "idle")
  /\ empty' = [empty EXCEPT ![arg[t]] = @ + 1]
  /\ UNCHANGED <<full, mutex, buffer, arg, val>>

(* Mutants: an interrupted put gives its slot back to the wrong semaphore, *)
(* or enqueues all the same.                                               *)
PutInterruptedUpsFull(t) ==
  /\ Signals
  /\ At(t, "put_down_mutex", "idle")
  /\ full' = [full EXCEPT ![arg[t]] = @ + 1]
  /\ UNCHANGED <<empty, mutex, buffer, arg, val>>
PutInterruptedEnqueues(t) ==
  /\ Signals
  /\ At(t, "put_down_mutex", "idle")
  /\ buffer' = [buffer EXCEPT ![arg[t]] = Append(@, val[t])]
  /\ UNCHANGED <<empty, full, mutex, arg, val>>

(* A signal makes the second down_interruptible() of put fail: put returns *)
(* -1 and the slot already taken from empty is not given back.  (When the  *)
(* first one fails put returns -1 having changed nothing.)                 *)
PutInterrupted(t) ==
  /\ Signals
  /\ At(t, "put_down_mutex", "idle")
  /\ UNCHANGED <<empty, full, mutex, buffer, arg, val>>

(* Mutant: the error exit of get releases the mutex. *)
GetInterruptedUpsMutex(t) ==
  /\ Signals
  /\ \/ At(t, "idle", "idle")
     \/ At(t, "get_down_mutex", "idle")
  /\ mutex' = [mutex EXCEPT ![arg[t]] = @ + 1]
  /\ val' = [val EXCEPT ![t] = NULL]
  /\ UNCHANGED <<empty, full, buffer, arg>>

(* The same for either down_interruptible() of get, which returns NULL;    *)
(* after the second one the count taken from full is not given back.       *)
GetInterrupted(t) ==
  /\ Signals
  /\ \/ At(t, "idle", "idle")
     \/ At(t, "get_down_mutex", "idle")
  /\ val' = [val EXCEPT ![t] = NULL]
  /\ UNCHANGED <<empty, full, mutex, buffer, arg>>

(* The steps of a call after its first down_interruptible(). *)
Inside(t) ==
  \/ DownMutex(t)
  \/ Enqueue(t)
  \/ Dequeue(t)
  \/ UpMutex(t)
  \/ PutUpFull(t)
  \/ GetUpEmpty(t)
  \/ PutInterrupted(t)
  \/ GetInterrupted(t)

Next ==
  \E t \in Threads :
    \/ \E s \in Streams : \/ GetDownFull(t, s)
                          \/ \E v \in Tokens : PutDownEmpty(t, s, v)
    \/ Inside(t)

Spec == Init /\ [][Next]_vars

-----------------------------------------------------------------------------
(* The threads inside a call on stream s, by how far the call has come. *)
InCall(s, locations) == {t \in Threads : arg[t] = s /\ pc[t] \in locations}

HoldsMutex(s) == InCall(s, {"put_enqueue", "put_up_mutex", "get_dequeue", "get_up_mutex"})
PutReserved(s) == InCall(s, {"put_down_mutex", "put_enqueue"})
PutPending(s) == InCall(s, {"put_up_mutex", "put_up_full"})
GetReserved(s) == InCall(s, {"get_down_mutex", "get_dequeue"})
GetPending(s) == InCall(s, {"get_up_mutex", "get_up_empty"})

(* Types; in particular the semaphore counts never drop below zero, and a  *)
(* put always has a token in hand.                                         *)
TypeOK ==
  /\ empty \in [Streams -> Nat]
  /\ full \in [Streams -> Nat]
  /\ mutex \in [Streams -> Nat]
  /\ buffer \in [Streams -> Seq(Tokens)]
  /\ pc \in [Threads -> PutLocations \cup GetLocations \cup {"idle"}]
  /\ arg \in [Threads -> Streams]
  /\ val \in [Threads -> Tokens \cup {NULL}]
  /\ \A t \in Threads : pc[t] \in PutLocations => val[t] \in Tokens

(* The queue of a stream is touched by at most one thread at a time,       *)
(* although enqueue and dequeue themselves take no lock.                   *)
MutualExclusion ==
  \A s \in Streams : \A t, u \in HoldsMutex(s) : t = u

(* The reason: the mutex of a stream is down exactly when one thread holds *)
(* it.                                                                     *)
MutexAccounted ==
  \A s \in Streams : mutex[s] + Cardinality(HoldsMutex(s)) = 1

(* Every token that full announces, or that some get has already been      *)
(* promised, is in the queue; so dequeue never meets an empty queue.       *)
TokensBacked ==
  \A s \in Streams :
    full[s] + Cardinality(GetReserved(s)) + Cardinality(PutPending(s))
      <= Len(buffer[s])

(* Every slot that empty announces, or that some put has already been      *)
(* promised, is free; so the queue never grows past BUFFER_SIZE.           *)
SlotsBacked ==
  \A s \in Streams :
    empty[s] + Cardinality(PutReserved(s)) + Cardinality(GetPending(s))
      + Len(buffer[s]) <= BUFFER_SIZE

(* Neither semaphore of a stream promises what is not there, also after a  *)
(* down_interruptible() in the middle of put or get has failed.            *)
Backed == TokensBacked /\ SlotsBacked

(* Without signals the accounting is exact: no slot and no token is ever   *)
(* lost, however the calls interleave.  (With signals the second           *)
(* down_interruptible of put or get may fail and strand what the first     *)
(* one took.)                                                              *)
NothingStranded ==
  ~Signals =>
    \A s \in Streams :
      /\ full[s] + Cardinality(GetReserved(s)) + Cardinality(PutPending(s))
           = Len(buffer[s])
      /\ empty[s] + Cardinality(PutReserved(s)) + Cardinality(GetPending(s))
           + Len(buffer[s]) = BUFFER_SIZE

(* The inductive invariant. *)
Inv ==
  /\ TypeOK
  /\ MutexAccounted
  /\ TokensBacked
  /\ SlotsBacked
  /\ NothingStranded

-----------------------------------------------------------------------------
(* A stream is a linearizable bounded FIFO: the call takes effect at       *)
(* enqueue or dequeue.                                                     *)
Phase(t) ==
  CASE pc[t] = "idle" -> "none"
    [] pc[t] \in {"put_down_mutex", "put_enqueue"} -> "put"
    [] pc[t] \in {"get_down_mutex", "get_dequeue"} -> "get"
    [] OTHER -> "returning"

Fifo ==
  INSTANCE BoundedFifo
    WITH Capacity <- BUFFER_SIZE,
         queue <- buffer,
         call <- [t \in Threads |-> Phase(t)],
         target <- arg,
         token <- val

(* Every behaviour of put and get over the semaphores is one of the        *)
(* abstract bounded queue.                                                 *)
ImplementsFifo == Fifo!Spec
=============================================================================
