----------------------------- MODULE ProdCons ------------------------------
(***************************************************************************)
(* The thread network of src/Task_17/kthreads/prod_cons/prod-cons.c, over  *)
(* the streams of module Streams:                                          *)
(*                                                                         *)
(*     successor suc1 --> times tms1 (x mult1) --\                         *)
(*                                                merge mrg --> consumer   *)
(*     successor suc2 --> times tms2 (x mult2) --/                         *)
(*                                                                         *)
(* A stream has the name of the thread that puts into it.  A token is a    *)
(* pointer to a vmalloc'ed int: <<"suc1", 3>> is the third one that suc1   *)
(* allocated, and heap gives the int it points to.  msleep() and printk()  *)
(* leave no trace.                                                         *)
(***************************************************************************)
EXTENDS Streams, Functions

CONSTANTS
  mult1, mult2,  \* the factors of the two times threads
  ConsumerLimit  \* how many tokens the consumer takes (10 in the code)

ASSUME ProdConsAssumption ==
  /\ Threads = {"suc1", "suc2", "tms1", "tms2", "mrg", "cons"}
  /\ Streams = {"suc1", "suc2", "tms1", "tms2", "mrg"}
  /\ mult1 \in Nat \ {0}
  /\ mult2 \in Nat \ {0}
  /\ ConsumerLimit \in Nat
  /\ ~Signals   \* kernel threads ignore signals: none calls allow_signal()
  /\ NULL \notin Int \cup ({"suc1", "suc2"} \X Nat)

VARIABLES
  inputs,    \* inputs[t]: the list args->prod, args->prod->next, ...
  wires,     \* the connect() calls that init_module() has still to make
  loc,       \* loc[t]: where t goes on once it is outside put and get
  i,         \* i[t]: loop counter of a successor and of the consumer
  a, b,      \* the two tokens merge holds
  heap,      \* heap[p]: the int at p, for every allocated p
  consumed,  \* the ints the consumer printed
  kills      \* the kill_stream() calls cleanup_module() has still to make

netVars == <<inputs, wires, loc, i, a, b, heap, consumed, kills>>
allVars == <<vars, netVars>>

Successors == {"suc1", "suc2"}
TimesThreads == {"tms1", "tms2"}

(* The int that self->args points to. *)
Factor(t) == IF t = "tms1" THEN mult1 ELSE mult2

(* The connect() calls of init_module(), in order: <<arg, s>>. *)
Wiring ==
  << <<"tms1", "suc1">>, <<"tms2", "suc2">>, <<"mrg", "tms1">>,
     <<"mrg", "tms2">>, <<"cons", "mrg">> >>

NetInit ==
  /\ Init
  /\ arg = [t \in Threads |-> "suc1"]
  /\ inputs = [t \in Threads |-> << >>]
  /\ wires = Wiring
  /\ loc = [t \in Threads |-> CASE t \in Successors -> "put"
                                 [] t = "mrg" -> "get_a_first"
                                 [] OTHER -> "get"]
  /\ i = [t \in Threads |-> IF t \in Successors THEN 1 ELSE 0]
  /\ a = NULL
  /\ b = NULL
  /\ heap = << >>
  /\ consumed = << >>
  /\ kills = << >>

(* connect(arg, s): s becomes the head of arg's input list. *)
Connect ==
  /\ wires # << >>
  /\ LET w == Head(wires) IN inputs' = [inputs EXCEPT ![w[1]] = <<w[2]>> \o @]
  /\ wires' = Tail(wires)
  /\ UNCHANGED <<vars, loc, i, a, b, heap, consumed, kills>>

-----------------------------------------------------------------------------
(* The threads run between init_module() and the end of cleanup_module(),  *)
(* which takes their code away without stopping them.                      *)
Loaded == wires = << >> /\ kills # <<"unload">>

(* Thread t is outside put and get, at location here, and moves on to      *)
(* there.                                                                  *)
Goto(t, here, there) ==
  /\ Loaded
  /\ pc[t] = "idle"
  /\ loc[t] = here
  /\ loc' = [loc EXCEPT ![t] = there]

(* successor(): value = vmalloc(sizeof(int)); *value = i; put(self, value); *)
(* i++.  Up to the first semaphore operation of put a thread only works on *)
(* memory no other thread can reach, so that its local statements and that *)
(* operation are one step.  vmalloc() succeeds: its result is not tested,  *)
(* and a successor that used a NULL would die there, with no semaphore     *)
(* taken, and take no further step, which NetSpec allows it anyhow.        *)
SuccessorPut(t) ==
  LET p == <<t, i[t]>> IN
  /\ t \in Successors
  /\ Goto(t, "put", "put")
  /\ heap' = [q \in DOMAIN heap \cup {p} |-> IF q = p THEN i[t] ELSE heap[q]]
  /\ PutDownEmpty(t, t, p)
  /\ i' = [i EXCEPT ![t] = @ + 1]
  /\ UNCHANGED <<inputs, wires, a, b, consumed, kills>>

(* times(): value = get(prod) *)
TimesGet(t) ==
  /\ t \in TimesThreads
  /\ Goto(t, "get", "put")
  /\ GetDownFull(t, inputs[t][1])
  /\ UNCHANGED <<inputs, wires, i, a, b, heap, consumed, kills>>

(* times(): *value = *value * *(self->args); put(self, value) *)
TimesPut(t) ==
  /\ t \in TimesThreads
  /\ Goto(t, "put", "get")
  /\ val[t] \in DOMAIN heap
  /\ heap' = [heap EXCEPT ![val[t]] = @ * Factor(t)]
  /\ PutDownEmpty(t, t, val[t])
  /\ UNCHANGED <<inputs, wires, i, a, b, consumed, kills>>

(* merge(): a = get(s1), before the loop and in it. *)
MergeGetA ==
  /\ \/ Goto("mrg", "get_a_first", "get_b_first")
     \/ Goto("mrg", "get_a", "got_a")
  /\ GetDownFull("mrg", inputs["mrg"][1])
  /\ UNCHANGED <<inputs, wires, i, a, b, heap, consumed, kills>>

(* Mutant: the token of the first get is not kept. *)
MergeForgetsA ==
  /\ \/ Goto("mrg", "get_b_first", "got_b")
     \/ Goto("mrg", "get_b", "got_b")
  /\ GetDownFull("mrg", inputs["mrg"][2])
  /\ UNCHANGED <<inputs, wires, i, a, b, heap, consumed, kills>>

(* merge(): b = get(s2), before the loop (the result of the first get is   *)
(* then in a) and in it.                                                   *)
MergeGetB ==
  /\ \/ Goto("mrg", "get_b_first", "got_b") /\ a' = val["mrg"]
     \/ Goto("mrg", "get_b", "got_b") /\ UNCHANGED a
  /\ GetDownFull("mrg", inputs["mrg"][2])
  /\ UNCHANGED <<inputs, wires, i, b, heap, consumed, kills>>

(* Mutant: the larger token is passed on first. *)
MergePutLarger(here) ==
  /\ a' = IF here = "got_a" THEN val["mrg"] ELSE a
  /\ b' = IF here = "got_b" THEN val["mrg"] ELSE b
  /\ {a', b'} \subseteq DOMAIN heap
  /\ \/ /\ heap[a'] > heap[b']
        /\ Goto("mrg", here, "get_a")
        /\ PutDownEmpty("mrg", "mrg", a')
     \/ /\ heap[a'] <= heap[b']
        /\ Goto("mrg", here, "get_b")
        /\ PutDownEmpty("mrg", "mrg", b')
  /\ UNCHANGED <<inputs, wires, i, heap, consumed, kills>>

(* merge(): if ( *a < *b) put(self, a) else put(self, b).  Location here   *)
(* says which of a and b the latest get is assigned to.                    *)
MergePut(here) ==
  /\ a' = IF here = "got_a" THEN val["mrg"] ELSE a
  /\ b' = IF here = "got_b" THEN val["mrg"] ELSE b
  /\ {a', b'} \subseteq DOMAIN heap
  /\ \/ /\ heap[a'] < heap[b']
        /\ Goto("mrg", here, "get_a")
        /\ PutDownEmpty("mrg", "mrg", a')
     \/ /\ heap[a'] >= heap[b']
        /\ Goto("mrg", here, "get_b")
        /\ PutDownEmpty("mrg", "mrg", b')
  /\ UNCHANGED <<inputs, wires, i, heap, consumed, kills>>

(* Mutant: the consumer's loop ends one round early. *)
ConsumerGetShort ==
  /\ i["cons"] < ConsumerLimit - 1
  /\ Goto("cons", "get", "free")
  /\ GetDownFull("cons", inputs["cons"][1])
  /\ UNCHANGED <<inputs, wires, i, a, b, heap, consumed, kills>>

(* consumer(): value = get(prod), in a loop of ConsumerLimit rounds. *)
ConsumerGet ==
  /\ i["cons"] < ConsumerLimit
  /\ Goto("cons", "get", "free")
  /\ GetDownFull("cons", inputs["cons"][1])
  /\ UNCHANGED <<inputs, wires, i, a, b, heap, consumed, kills>>

(* consumer(): print *value; vfree(value); i++ *)
ConsumerFree ==
  LET p == val["cons"] IN
  /\ Goto("cons", "free", "get")
  /\ p \in DOMAIN heap
  /\ consumed' = Append(consumed, heap[p])
  /\ heap' = [q \in DOMAIN heap \ {p} |-> heap[q]]
  /\ i' = [i EXCEPT !["cons"] = @ + 1]
  /\ UNCHANGED <<vars, inputs, wires, a, b, kills>>

(* A thread goes on inside put or get. *)
InCallStep(t) == Loaded /\ Inside(t) /\ UNCHANGED netVars

ThreadStep(t) ==
  \/ SuccessorPut(t)
  \/ TimesGet(t)
  \/ TimesPut(t)
  \/ t = "mrg" /\ (MergeGetA \/ MergeGetB)
  \/ t = "mrg" /\ \E here \in {"got_a", "got_b"} : MergePut(here)
  \/ t = "cons" /\ (ConsumerGet \/ ConsumerFree)
  \/ InCallStep(t)

NetNext == Connect \/ \E t \in Threads : ThreadStep(t)

NetSpec == NetInit /\ [][NetNext]_allVars

(* init_module() runs to its end and the scheduler runs every runnable     *)
(* thread again and again.                                                 *)
FairNetSpec ==
  /\ NetSpec
  /\ WF_allVars(Connect)
  /\ \A t \in Threads : WF_allVars(ThreadStep(t))

-----------------------------------------------------------------------------
(* rmmod: cleanup_module() is entered. *)
BeginCleanup ==
  /\ Loaded
  /\ kills = << >>
  /\ kills' = <<"suc1", "suc2", "tms1", "tms2", "mrg", "unload">>
  /\ UNCHANGED <<vars, inputs, wires, loc, i, a, b, heap, consumed>>

(* kill_stream(): the queue of a stream is destroyed; neither its mutex    *)
(* nor the threads that use it are looked at.                              *)
KillStream ==
  /\ kills # << >>
  /\ Head(kills) \in Streams
  /\ buffer' = [buffer EXCEPT ![Head(kills)] = << >>]
  /\ kills' = Tail(kills)
  /\ UNCHANGED <<empty, full, mutex, pc, arg, val,
                 inputs, wires, loc, i, a, b, heap, consumed>>

(* The network together with an rmmod at any time. *)
CleanupNext == NetNext \/ BeginCleanup \/ KillStream
CleanupSpec == NetInit /\ [][CleanupNext]_allVars

-----------------------------------------------------------------------------
(* The token in each local variable that is alive, NULL otherwise: a put   *)
(* gives a token away at enqueue, a get obtains it at dequeue.             *)
Unsent(t) == pc[t] \in {"put_down_mutex", "put_enqueue"}
Received(t) == pc[t] \in {"get_up_mutex", "get_up_empty", "idle"}

LocalVariables == Successors \cup TimesThreads \cup {"a", "b", "cons"}
Local(x) ==
  LET mrg == loc["mrg"]
      got == IF Received("mrg") THEN val["mrg"] ELSE NULL
      unsent(p) == IF Unsent("mrg") THEN p ELSE NULL
  IN CASE x = "a" -> ( CASE mrg \in {"get_b_first", "got_a"} -> got
                         [] mrg \in {"got_b", "get_b"} -> a
                         [] mrg = "get_a" -> unsent(a)
                         [] OTHER -> NULL )
       [] x = "b" -> ( CASE mrg = "got_b" -> got
                         [] mrg \in {"got_a", "get_a"} -> b
                         [] mrg = "get_b" -> unsent(b)
                         [] OTHER -> NULL )
       [] x = "cons" -> IF loc[x] = "free" /\ Received(x) THEN val[x] ELSE NULL
       [] x \in TimesThreads ->
            IF Unsent(x) \/ (loc[x] = "put" /\ Received(x)) THEN val[x] ELSE NULL
       [] OTHER -> IF Unsent(x) THEN val[x] ELSE NULL

(* The places that hold a token: live local variables, <<x, 0>>, and queue *)
(* slots, <<s, k>>.                                                        *)
Places ==
  {<<x, 0>> : x \in {y \in LocalVariables : Local(y) # NULL}}
    \cup UNION {{<<s, k>> : k \in 1 .. Len(buffer[s])} : s \in Streams}

(* The pointers that thread t dereferences in its next step. *)
Dereferenced(t) ==
  IF pc[t] # "idle"
  THEN {}
  ELSE CASE loc[t] = "free" -> {val[t]}
         [] loc[t] = "put" /\ t \in TimesThreads -> {val[t]}
         [] loc[t] = "got_a" -> {val[t], b}
         [] loc[t] = "got_b" -> {a, val[t]}
         [] OTHER -> {}

(* Every allocated token is in exactly one place and every place holds an  *)
(* allocated token: nothing is leaked, freed while it is still in use, or  *)
(* handed to two threads.  Nor does a thread use a NULL that get() has     *)
(* returned, although the result of get() is never tested.                 *)
SoleOwner ==
  LET Token == [x \in Places |-> IF x[2] = 0 THEN Local(x[1]) ELSE buffer[x[1]][x[2]]]
  IN  /\ IsInjective(Token)
      /\ Range(Token) = DOMAIN heap
      /\ \A t \in Threads : Dereferenced(t) \subseteq DOMAIN heap

(* The comment above get(): "return 'value' which should have a value from *)
(* a call to put".                                                         *)
GetReturnsPutValue == \A t \in Threads : pc[t] = "get_up_empty" => val[t] # NULL

(* However the semaphore operations of the threads interleave, the         *)
(* consumer gets its tokens, after which the producers fill every queue    *)
(* and sleep; nobody sleeps for good before that.                          *)
EventuallySleeps ==
  <>[](i["cons"] = ConsumerLimit /\ \A s \in Streams : Len(buffer[s]) = BUFFER_SIZE)

-----------------------------------------------------------------------------
(* The int of a token is looked up in the heap, and a times thread counts  *)
(* as having multiplied at its dequeue.                                    *)
IntOf(p) == IF p = NULL THEN NULL ELSE heap[p]
Product(t) ==
  IF Local(t) # NULL /\ ~Unsent(t) THEN IntOf(Local(t)) * Factor(t) ELSE IntOf(Local(t))
=============================================================================
