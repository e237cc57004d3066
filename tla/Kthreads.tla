----------------------------- MODULE Kthreads -----------------------------
(***************************************************************************)
(* Two modules of Task 17 that start kernel threads and stop them when     *)
(* they are unloaded:                                                      *)
(*   "work_queue": src/Task_17/kthreads/work_queue/maxthreads.c, whose     *)
(*     work item starts a thread and queues itself again;                  *)
(*   "misc_device": src/Task_17/misc_device/misc_dev.c, whose thread waits *)
(*     until it is stopped.  (Its device file is in Files.)                *)
(* Threads, timers and work queues belong to the kernel and are modelled   *)
(* from how the modules use them.  A timer that meets a destroyed queue,   *)
(* work for a queue that could not be created, kthread_stop() of an error  *)
(* pointer and a write behind the end of ts are undefined: no step follows *)
(* and nothing is claimed.                                                 *)
(***************************************************************************)
EXTENDS Integers

CONSTANT N  \* the size of ts (1000 in the code)

ASSUME KthreadsAssumption == N \in Nat /\ N >= 2

VARIABLES
  prog,   \* which of the two modules it is
  mod,    \* where its init or cleanup function is, "live" or "undefined"
  ts,     \* ts[k]: "none", "error", or where the thread is
  stop,   \* the threads that kthread_should_stop() is true for
  count,  \* where the next thread is put
  dwork,  \* the delayed work: "idle", "timer", "queued" or "lost", or
          \* "no_queue" if it has been queued though there is no queue
  busy,   \* where function() is
  owed,   \* how many runs of function() flush_workqueue() waits for
  i,      \* the index of the loop in cleanup_module()
  late    \* has the timer expired since cleanup_module() began, before the
          \* queue was destroyed? (a history variable)

workVars == <<dwork, busy, owed, late>>
vars == <<prog, mod, ts, stop, count, i, workVars>>

Slots == 0 .. N - 1

Init ==
  /\ prog \in {"work_queue", "misc_device"}
  /\ mod = "init"
  /\ ts = [k \in Slots |-> "none"]
  /\ stop = {}
  /\ count = 1
  /\ dwork = "idle" /\ busy = "no" /\ owed = 0
  /\ i = 0
  /\ late = FALSE

Goto(here, there) == mod = here /\ mod' = there

-----------------------------------------------------------------------------
(* init_module(): create_workqueue(), whose result is not looked at, and   *)
(* queue_delayed_work(queue, &dwork, HZ)                                   *)
InitModule ==
  /\ prog = "work_queue"
  /\ \/ Goto("init", "live") /\ dwork' = "timer"
     \/ Goto("init", "undefined") /\ dwork' = "no_queue"
  /\ UNCHANGED <<prog, ts, stop, count, i, busy, owed, late>>

(* The timer expires and queues the work; a queue that is being drained    *)
(* drops it, and one that is gone cannot take it.                          *)
TimerExpires ==
  /\ dwork = "timer"
  /\ \/ mod \in {"stop", "gone"} /\ mod' = "undefined" /\ UNCHANGED <<dwork, late>>
     \/ /\ mod \notin {"stop", "gone"}
        /\ dwork' = IF mod = "drain" THEN "lost" ELSE "queued"
        /\ late' = (mod # "live")
        /\ UNCHANGED mod
  /\ UNCHANGED <<prog, ts, stop, count, i, busy, owed>>

(* A worker takes the work off the queue, which is no longer pending then. *)
ProcessOneWork ==
  /\ dwork = "queued" /\ busy = "no"
  /\ dwork' = "idle"
  /\ busy' = "create"
  /\ UNCHANGED <<prog, mod, ts, stop, count, i, owed, late>>

(* function(): ts[count] = kthread_run(...), and count++ *)
FunctionCreates ==
  /\ busy = "create"
  /\ \/ count = N /\ mod' = "undefined" /\ UNCHANGED <<ts, count, busy>>
     \/ /\ count < N
        /\ \E t \in {"run", "error"} : ts' = [ts EXCEPT ![count] = t]
        /\ count' = count + 1
        /\ busy' = "requeue"
        /\ UNCHANGED mod
  /\ UNCHANGED <<prog, stop, i, dwork, owed, late>>

(* function(): queue_delayed_work(), and return *)
FunctionRequeues ==
  /\ busy = "requeue"
  /\ busy' = "no"
  /\ dwork' = IF dwork = "idle" THEN "timer" ELSE dwork
  /\ owed' = IF owed > 0 THEN owed - 1 ELSE 0
  /\ UNCHANGED <<prog, mod, ts, stop, count, i, late>>

(* The runs of function() that are under way or queued. *)
Outstanding(d) == (IF busy = "no" THEN 0 ELSE 1) + (IF d = "queued" THEN 1 ELSE 0)

(* cleanup_module(): flush_workqueue() begins. *)
CleanupFlush ==
  /\ prog = "work_queue"
  /\ Goto("live", "flush")
  /\ owed' = Outstanding(dwork)
  /\ UNCHANGED <<prog, ts, stop, count, i, dwork, busy, late>>

(* cleanup_module(): flush_workqueue() returns; if (delayed_work_pending()) *)
CleanupPending ==
  /\ owed = 0
  /\ Goto("flush", IF dwork # "idle" THEN "cancel" ELSE "destroy")
  /\ UNCHANGED <<prog, ts, stop, count, i, workVars>>

(* Mutant: the work is not cancelled. *)
CleanupCancelNothing ==
  /\ Goto("cancel", "flush_again")
  /\ owed' = Outstanding(dwork)
  /\ UNCHANGED <<prog, ts, stop, count, i, dwork, busy, late>>

(* cleanup_module(): cancel_delayed_work(), which removes the timer or the *)
(* queued work and waits for no run of function(), and the second flush_workqueue() begins.                 *)
CleanupCancel ==
  /\ Goto("cancel", "flush_again")
  /\ dwork' = "idle"
  /\ owed' = Outstanding("idle")
  /\ UNCHANGED <<prog, ts, stop, count, i, busy, late>>

CleanupFlushed ==
  /\ owed = 0
  /\ Goto("flush_again", "destroy")
  /\ UNCHANGED <<prog, ts, stop, count, i, workVars>>

(* cleanup_module(): destroy_workqueue() begins to drain the queue, which  *)
(* has taken work up to here.                                              *)
DrainWorkqueue ==
  /\ Goto("destroy", "drain")
  /\ UNCHANGED <<prog, ts, stop, count, i, workVars>>

(* Mutant: the threads are stopped without waiting for function(). *)
DestroyAtOnce ==
  /\ Goto("drain", "stop")
  /\ UNCHANGED <<prog, ts, stop, count, i, workVars>>

(* cleanup_module(): destroy_workqueue() returns when the queue is empty. *)
DestroyWorkqueue ==
  /\ Goto("drain", "stop")
  /\ Outstanding(dwork) = 0
  /\ UNCHANGED <<prog, ts, stop, count, i, workVars>>

-----------------------------------------------------------------------------
Exited(k) == ts[k] \in {"none", "exited"}

(* kthread_stop(ts[k]) begins: it sets the flag and wakes the thread. *)
KthreadStop(k) ==
  \/ ts[k] = "error" /\ mod' = "undefined" /\ UNCHANGED <<ts, stop>>
  \/ /\ ts[k] # "error"
     /\ stop' = stop \cup {k}
     /\ ts' = [ts EXCEPT ![k] = IF @ \in {"going", "asleep"} THEN "check" ELSE @]
     /\ UNCHANGED mod

(* cleanup_module(): the loop over ts; kthread_stop() returns when the     *)
(* thread has exited.                                                      *)
CleanupStop ==
  /\ prog = "work_queue"
  /\ mod = "stop"
  /\ \/ i < N /\ ~Exited(i) /\ i \notin stop /\ KthreadStop(i) /\ UNCHANGED i
     \/ i < N /\ Exited(i) /\ i' = i + 1 /\ UNCHANGED <<mod, ts, stop>>
     \/ i = N /\ mod' = "gone" /\ UNCHANGED <<ts, stop, i>>
  /\ UNCHANGED <<prog, count, workVars>>

(* threadf(): while (!kthread_should_stop()) yield(); *)
Threadf(k) ==
  /\ prog = "work_queue"
  /\ ts[k] = "run" /\ k \in stop
  /\ ts' = [ts EXCEPT ![k] = "exited"]
  /\ UNCHANGED <<prog, mod, stop, count, i, workVars>>

-----------------------------------------------------------------------------
(* misc_init(): misc_register() may fail; kthread_run() may return an      *)
(* error pointer, which the test for NULL lets pass.                       *)
MiscInit ==
  /\ prog = "misc_device"
  /\ \/ Goto("init", "failed") /\ UNCHANGED ts
     \/ Goto("init", "live") /\ \E t \in {"run", "error"} : ts' = [ts EXCEPT ![0] = t]
  /\ UNCHANGED <<prog, stop, count, i, workVars>>

(* misc_exit(): kthread_stop(eudyptula_thread) *)
MiscExit ==
  /\ prog = "misc_device"
  /\ mod = "live" /\ 0 \notin stop
  /\ KthreadStop(0)
  /\ UNCHANGED <<prog, count, i, workVars>>

(* misc_exit(): kthread_stop() returns; misc_deregister() *)
MiscDeregister ==
  /\ 0 \in stop /\ Exited(0)
  /\ prog = "misc_device" /\ Goto("live", "gone")
  /\ UNCHANGED <<prog, ts, stop, count, i, workVars>>

(* Mutant: kthread_should_stop() is tested before prepare_to_wait(). *)
KthreadFnLate ==
  /\ prog = "misc_device"
  /\ \/ ts[0] = "run" /\ ts' = [ts EXCEPT ![0] = IF 0 \in stop THEN "check" ELSE "prepared"]
     \/ ts[0] = "prepared" /\ ts' = [ts EXCEPT ![0] = "going"]
     \/ ts[0] = "going" /\ ts' = [ts EXCEPT ![0] = "asleep"]
     \/ ts[0] = "check" /\ ts' = [ts EXCEPT ![0] = IF 0 \in stop THEN "exited" ELSE "run"]
  /\ UNCHANGED <<prog, mod, stop, count, i, workVars>>

(* kthread_fn(): prepare_to_wait(); if not kthread_should_stop() then      *)
(* schedule(); return if kthread_should_stop(), else once more             *)
KthreadFn ==
  /\ prog = "misc_device"
  /\ \/ ts[0] = "run" /\ ts' = [ts EXCEPT ![0] = "prepared"]
     \/ ts[0] = "prepared" /\ ts' = [ts EXCEPT ![0] = IF 0 \in stop THEN "check" ELSE "going"]
     \/ ts[0] = "going" /\ ts' = [ts EXCEPT ![0] = "asleep"]
     \/ ts[0] = "check" /\ ts' = [ts EXCEPT ![0] = IF 0 \in stop THEN "exited" ELSE "run"]
  /\ UNCHANGED <<prog, mod, stop, count, i, workVars>>

(* A wake-up for no reason: sleepers must be ready for one. *)
SpuriousWakeUp ==
  /\ ts[0] = "asleep"
  /\ ts' = [ts EXCEPT ![0] = "check"]
  /\ UNCHANGED <<prog, mod, stop, count, i, workVars>>

WorkStep == ProcessOneWork \/ FunctionCreates \/ FunctionRequeues
CleanupStep ==
  \/ CleanupPending \/ CleanupCancel \/ CleanupFlushed \/ DrainWorkqueue \/ DestroyWorkqueue
  \/ CleanupStop \/ MiscDeregister
ThreadStep == KthreadFn \/ \E k \in Slots : Threadf(k)

Next ==
  /\ mod # "undefined"
  /\ \/ InitModule \/ MiscInit \/ CleanupFlush \/ MiscExit \/ TimerExpires \/ SpuriousWakeUp
     \/ WorkStep \/ CleanupStep \/ ThreadStep

Spec == Init /\ [][Next]_vars

(* Workers, threads and a cleanup function that can go on do so; no timer  *)
(* has to expire and nobody has to unload the module.                      *)
FairSpec ==
  /\ Spec
  /\ WF_vars(mod # "undefined" /\ WorkStep)
  /\ WF_vars(mod # "undefined" /\ CleanupStep)
  /\ WF_vars(mod # "undefined" /\ ThreadStep)

-----------------------------------------------------------------------------
(* When the cleanup function has returned no thread is left that would run *)
(* the module's code, though function() may have started one at any time   *)
(* before its queue was destroyed, and none is starting one.               *)
ThreadsGone ==
  mod = "gone" => busy = "no" /\ \A k \in Slots : Exited(k)

(* All is well unless the queue or a thread could not be created, ts is    *)
(* full, or the timer expired in the middle of cleanup_module(), where it  *)
(* makes cancel_delayed_work() come too late.                              *)
UndefinedOnlyBy ==
  mod = "undefined" =>
    (\E k \in Slots : ts[k] = "error") \/ count = N \/ late \/ dwork = "no_queue"

(* Unloading ends: flushing, draining and stopping all come to an end      *)
(* though the work queues itself again, and no thread misses its wake-up.  *)
CleanupEnds ==
  mod = "flush" \/ 0 \in stop ~> mod \in {"gone", "undefined"}
=============================================================================
