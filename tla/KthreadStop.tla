---------------------------- MODULE KthreadStop ----------------------------
(***************************************************************************)
(* src/Task_17/kthreads/kthread_stop/kthread_stop.c: threads that run for  *)
(* a bounded number of rounds unless cleanup_module() stops them first.    *)
(* kthread_stop() must not be called for a thread that has already exited, *)
(* whose task structure may be gone; the array flag is there to prevent    *)
(* it.                                                                     *)
(***************************************************************************)
EXTENDS Integers

CONSTANTS
  NThreads,  \* length of ts and flag (2 in the code)
  Rounds     \* how often a thread sleeps before it completes (50 in the code)

ASSUME KthreadStopAssumption ==
  /\ NThreads \in Nat \ {0}
  /\ Rounds \in Nat

VARIABLES
  pc,           \* pc[t]: where thread t is
  n,            \* n[t]: the local variable n of function()
  ind,          \* ind[t]: the local variable ind of function()
  flag,         \* flag[t]
  should_stop,  \* should_stop[t]: what kthread_should_stop() returns in t
  stage,        \* where init_module() or cleanup_module() is
  k             \* the thread that init_module() or cleanup_module() is at

stopVars == <<pc, n, ind, flag, should_stop, stage, k>>
threadVars == <<pc, n, ind, flag, should_stop>>

Thread == 0 .. NThreads - 1

StopInit ==
  /\ pc = [t \in Thread |-> "none"]
  /\ n = [t \in Thread |-> 0]
  /\ ind = [t \in Thread |-> FALSE]
  /\ flag = [t \in Thread |-> 0]
  /\ should_stop = [t \in Thread |-> FALSE]
  /\ stage = "init"
  /\ k = 0

Moves(t, here, there) == pc[t] = here /\ pc' = [pc EXCEPT ![t] = there]

(* init_module(): ts[k] = kthread_run(function, k, ...), which may fail:   *)
(* ts[k] is an error pointer then, and nobody looks.                       *)
KthreadRun ==
  /\ stage = "init"
  /\ Moves(k, "none", "created") \/ Moves(k, "none", "error")
  /\ IF k + 1 = NThreads THEN stage' = "live" /\ k' = 0
                         ELSE stage' = stage /\ k' = k + 1
  /\ UNCHANGED <<n, ind, flag, should_stop>>

(* The kernel enters function(), except in a thread that has been stopped  *)
(* before it first ran: that one exits at once.                            *)
Start(t) ==
  /\ IF should_stop[t] THEN Moves(t, "created", "exited")
                       ELSE Moves(t, "created", "test")
  /\ UNCHANGED <<n, ind, flag, should_stop, stage, k>>

(* Mutants: ++n in place of n++, and a stop request that keeps the loop    *)
(* going.                                                                  *)
TestPreIncrement(t) ==
  /\ pc[t] = "test"
  /\ ind' = [ind EXCEPT ![t] = should_stop[t]]
  /\ IF should_stop[t]
       THEN pc' = [pc EXCEPT ![t] = "set_flag"] /\ n' = n
       ELSE /\ n' = [n EXCEPT ![t] = @ + 1]
            /\ pc' = [pc EXCEPT ![t] = IF n[t] + 1 < Rounds THEN "msleep" ELSE "set_flag"]
  /\ UNCHANGED <<flag, should_stop, stage, k>>
TestInverted(t) ==
  /\ pc[t] = "test"
  /\ ind' = [ind EXCEPT ![t] = should_stop[t]]
  /\ IF should_stop[t]
       THEN pc' = [pc EXCEPT ![t] = "msleep"] /\ n' = n
       ELSE /\ n' = [n EXCEPT ![t] = @ + 1]
            /\ pc' = [pc EXCEPT ![t] = IF n[t] < Rounds THEN "msleep" ELSE "set_flag"]
  /\ UNCHANGED <<flag, should_stop, stage, k>>

(* function(): !(ind = kthread_should_stop()) && n++ < 50 *)
Test(t) ==
  /\ pc[t] = "test"
  /\ ind' = [ind EXCEPT ![t] = should_stop[t]]
  /\ IF should_stop[t]
       THEN pc' = [pc EXCEPT ![t] = "set_flag"] /\ n' = n
       ELSE /\ n' = [n EXCEPT ![t] = @ + 1]
            /\ pc' = [pc EXCEPT ![t] = IF n[t] < Rounds THEN "msleep" ELSE "set_flag"]
  /\ UNCHANGED <<flag, should_stop, stage, k>>

(* function(): msleep() is over. *)
Wake(t) ==
  /\ Moves(t, "msleep", "test")
  /\ UNCHANGED <<n, ind, flag, should_stop, stage, k>>

(* function(): flag[data] = 1 *)
SetFlag(t) ==
  /\ Moves(t, "set_flag", "return")
  /\ flag' = [flag EXCEPT ![t] = 1]
  /\ UNCHANGED <<n, ind, should_stop, stage, k>>

(* function() returns and the thread exits. *)
Exit(t) ==
  /\ Moves(t, "return", "exited")
  /\ UNCHANGED <<n, ind, flag, should_stop, stage, k>>

-----------------------------------------------------------------------------
(* rmmod: cleanup_module() is entered. *)
BeginCleanup ==
  /\ stage = "live"
  /\ stage' = "check"
  /\ UNCHANGED <<threadVars, k>>

NextThread ==
  IF k + 1 = NThreads THEN stage' = "unloaded" /\ k' = k
                      ELSE stage' = "check" /\ k' = k + 1

(* Mutant: the flag of thread 0 is tested for every thread. *)
CheckFirstFlag ==
  /\ stage = "check"
  /\ IF flag[0] = 1 THEN NextThread ELSE stage' = "kthread_stop" /\ k' = k
  /\ UNCHANGED threadVars

(* cleanup_module(): if (!flag[k]) *)
CheckFlag ==
  /\ stage = "check"
  /\ IF flag[k] = 1 THEN NextThread ELSE stage' = "kthread_stop" /\ k' = k
  /\ UNCHANGED threadVars

(* kthread_stop(ts[k]) sets the stop request, wakes the thread up and      *)
(* waits.  For a thread that has exited it uses a task structure that is   *)
(* either still there, in which case the wait is over at once, or gone.    *)
(* An error pointer is no task structure at all.                           *)
CallStop ==
  /\ stage = "kthread_stop"
  /\ \/ /\ pc[k] # "error"
        /\ stage' = "wait"
        /\ should_stop' = [should_stop EXCEPT ![k] = TRUE]
     \/ /\ pc[k] \in {"exited", "error"}
        /\ stage' = "oops"
        /\ UNCHANGED should_stop
  /\ UNCHANGED <<pc, n, ind, flag, k>>

(* The wait of kthread_stop() ends when the thread has exited. *)
StopReturns ==
  /\ stage = "wait"
  /\ pc[k] = "exited"
  /\ NextThread
  /\ UNCHANGED threadVars

(* The module is gone or the kernel has crashed; nothing else happens. *)
Terminated == stage \in {"unloaded", "oops"} /\ UNCHANGED stopVars

FunctionStep(t) == Start(t) \/ Test(t) \/ Wake(t) \/ SetFlag(t) \/ Exit(t)
Cleanup == CheckFlag \/ CallStop \/ StopReturns

StopNext ==
  \/ KthreadRun
  \/ \E t \in Thread : FunctionStep(t)
  \/ BeginCleanup
  \/ Cleanup
  \/ Terminated

StopSpec == StopInit /\ [][StopNext]_stopVars

(* Runnable threads, and the process that loads or unloads the module, are *)
(* scheduled again and again; nobody has to call rmmod.                    *)
FairStopSpec ==
  /\ StopSpec
  /\ WF_stopVars(KthreadRun)
  /\ WF_stopVars(Cleanup)
  /\ \A t \in Thread : WF_stopVars(FunctionStep(t))

-----------------------------------------------------------------------------
(* Types; in particular cleanup_module() stays inside ts[] and flag[] and  *)
(* the round counter of function() inside its loop.                        *)
TypeOK ==
  /\ pc \in [Thread -> {"none", "error", "created", "test", "msleep", "set_flag", "return", "exited"}]
  /\ n \in [Thread -> 0 .. Rounds + 1]
  /\ ind \in [Thread -> BOOLEAN]
  /\ flag \in [Thread -> {0, 1}]
  /\ should_stop \in [Thread -> BOOLEAN]
  /\ stage \in {"init", "live", "check", "kthread_stop", "wait", "unloaded", "oops"}
  /\ k \in Thread

(* When the module's code is unloaded no thread is left that still has     *)
(* more to do than return from function().  (It need not have returned:    *)
(* cleanup_module() does not wait for a thread whose flag it finds set.)   *)
(* A module for which kthread_run() has failed does not get that far.      *)
OnlyTailOutlivesModule ==
  stage = "unloaded" => \A t \in Thread : pc[t] \in {"return", "exited"}

(* A thread that nobody asked to stop sleeps Rounds times, no less and no  *)
(* more, before it sets its flag.                                          *)
FullRun ==
  \A t \in Thread :
    pc[t] \in {"set_flag", "return"} => (ind[t] \/ n[t] = Rounds + 1)

(* Once started, cleanup_module() gets to its end, or kthread_stop() uses  *)
(* a pointer to a thread that has exited or was never created:             *)
(* kthread_stop() never waits for ever.                                    *)
CleanupTerminates == stage = "check" ~> stage \in {"unloaded", "oops"}

(* The comment above function(): "A flag is needed to prevent kthread_stop *)
(* from executing if the function has already completed".                  *)
FlagPreventsLateStop ==
  [][stage = "kthread_stop" /\ stage' # stage => pc[k] # "exited"]_stopVars
=============================================================================
