------------------------- MODULE KthreadsKllProofs -------------------------
(***************************************************************************)
(* Proofs about kernel threads and, after them, about the identity list,   *)
(* which has nothing to do with the threads.                               *)
(*                                                                         *)
(* The kernel threads of Task 17.  First the thread-creating work queue    *)
(* and the misc device (Kthreads): that unloading leaves no thread behind, *)
(* and what alone can make it undefined, for every size of the array ts.   *)
(* Then the threads that are stopped through flags (KthreadStop).          *)
(*                                                                         *)
(* Neither property of Kthreads is inductive.  The argument goes back from *)
(* the loop in cleanup_module(): when it runs, the queue is destroyed, so  *)
(* that no thread is added behind its index; and when the queue is         *)
(* destroyed the work is idle, unless the timer has expired since          *)
(* cleanup_module() began (CleanUnlessLate), because until then            *)
(* flush_workqueue() waits for exactly the runs of function() there are.   *)
(***************************************************************************)
EXTENDS Kthreads, KthreadStop, KllCache, TLAPS

ThreadStates == {"none", "error", "run", "prepared", "going", "asleep", "check", "exited"}
Mods == {"init", "failed", "live", "flush", "cancel", "flush_again", "destroy", "drain", "stop", "gone", "undefined"}

(* The values the variables take. *)
KTypeOK ==
  /\ prog \in {"work_queue", "misc_device"}
  /\ mod \in Mods
  /\ ts \in [Slots -> ThreadStates]
  /\ count \in 1 .. N
  /\ dwork \in {"idle", "timer", "queued", "lost", "no_queue"}
  /\ busy \in {"no", "create", "requeue"}
  /\ owed \in Nat
  /\ i \in 0 .. N
  /\ late \in BOOLEAN

(* The loop over ts has stopped what is behind its index, and nothing is   *)
(* being created any more; the misc device has the one thread only, and no *)
(* work.                                                                   *)
Stopped ==
  /\ mod \in {"stop", "gone"} => busy = "no" /\ dwork \in {"idle", "timer", "lost"}
  /\ mod \notin {"stop", "gone", "undefined"} => i = 0
  /\ mod = "stop" => \A j \in Slots : j < i => Exited(j)
  /\ mod = "gone" => \A j \in Slots : Exited(j)
  /\ prog = "misc_device" =>
       /\ dwork = "idle" /\ busy = "no"
       /\ mod \in {"init", "failed", "live", "gone", "undefined"}
       /\ \A j \in Slots : j # 0 => ts[j] = "none"
  /\ mod \in {"init", "failed"} => dwork = "idle" /\ busy = "no"
  /\ dwork = "no_queue" => mod = "undefined"

(* Where the work is while cleanup_module() runs, if no timer has expired  *)
(* in the meantime.                                                        *)
CleanUnlessLate ==
  /\ busy # "no" => dwork = "idle"
  /\ ~late =>
       /\ dwork # "lost"
       /\ mod = "flush" => owed = Outstanding(dwork)
       /\ mod = "cancel" => busy = "no" /\ dwork = "timer"
       /\ mod \in {"flush_again", "destroy", "drain", "stop", "gone"} => busy = "no" /\ dwork = "idle"

KInv == KTypeOK /\ Stopped /\ CleanUnlessLate /\ UndefinedOnlyBy

-----------------------------------------------------------------------------
(* The module is loaded with every thread slot empty and no work queued. *)
LEMMA KInit == Init => KInv
<1> SUFFICES ASSUME Init PROVE KInv
  OBVIOUS
<1> USE KthreadsAssumption DEF Init
<1>1. KTypeOK
  <2>1. ts \in [Slots -> ThreadStates]
    BY DEF ThreadStates
  <2>2. prog \in {"work_queue", "misc_device"} /\ late \in BOOLEAN
    BY Zenon
  <2> QED
    BY <2>1, <2>2 DEF KTypeOK, Mods
<1>2. Stopped
  BY DEF Stopped
<1>3. CleanUnlessLate /\ UndefinedOnlyBy
  BY DEF CleanUnlessLate, UndefinedOnlyBy
<1> QED
  BY <1>1, <1>2, <1>3 DEF KInv

(* Every step of the kernel, of a thread or of a module function preserves *)
(* the invariant.                                                          *)
LEMMA KNext == KInv /\ [Next]_vars => KInv'
<1> SUFFICES ASSUME KInv, [Next]_vars PROVE KInv'
  OBVIOUS
<1> USE KthreadsAssumption DEF KInv, KTypeOK, Mods, ThreadStates, Stopped, CleanUnlessLate,
      UndefinedOnlyBy, Slots, Goto, workVars, Outstanding, Exited
<1>1. CASE InitModule
  BY <1>1 DEF InitModule
<1>2. CASE MiscInit
  BY <1>2 DEF MiscInit
<1>3. CASE CleanupFlush
  BY <1>3 DEF CleanupFlush
<1>4. CASE MiscExit
  <2>1. CASE ts[0] = "error"
    BY <1>4, <2>1 DEF MiscExit, KthreadStop
  <2>2. CASE ts[0] # "error"
    BY <1>4, <2>2 DEF MiscExit, KthreadStop
  <2> QED
    BY <2>1, <2>2
<1>5. CASE TimerExpires
  BY Zenon, <1>5 DEF TimerExpires
<1>6. CASE SpuriousWakeUp
  BY <1>6 DEF SpuriousWakeUp
<1>7. CASE ProcessOneWork
  BY <1>7 DEF ProcessOneWork
<1>8. CASE mod # "undefined" /\ FunctionCreates
  <2>1. CASE count = N
    BY <1>8, <2>1 DEF FunctionCreates
  <2>2. CASE count < N
    <3>1. KTypeOK'
      BY <1>8, <2>2 DEF FunctionCreates
    <3>2. Stopped'
      BY <1>8, <2>2 DEF FunctionCreates
    <3>3. CleanUnlessLate'
      BY <1>8, <2>2 DEF FunctionCreates
    <3>4. UndefinedOnlyBy'
      BY <1>8, <2>2 DEF FunctionCreates
    <3> QED
      BY <3>1, <3>2, <3>3, <3>4
  <2> QED
    BY <2>1, <2>2
<1>9. CASE FunctionRequeues
  BY <1>9 DEF FunctionRequeues
<1>10. CASE CleanupPending
  BY <1>10 DEF CleanupPending
<1>11. CASE CleanupCancel
  BY <1>11 DEF CleanupCancel
<1>12. CASE CleanupFlushed
  BY <1>12 DEF CleanupFlushed
<1>13. CASE DestroyWorkqueue
  BY <1>13 DEF DestroyWorkqueue
<1>14. CASE DrainWorkqueue
  BY <1>14 DEF DrainWorkqueue
<1>15. CASE CleanupStop
  <2>1. CASE i < N /\ ~Exited(i) /\ i \notin stop /\ KthreadStop(i) /\ UNCHANGED i
    <3>1. CASE ts[i] = "error"
      BY <1>15, <2>1, <3>1 DEF CleanupStop, KthreadStop
    <3>2. CASE ts[i] # "error"
      BY <1>15, <2>1, <3>2 DEF CleanupStop, KthreadStop
    <3> QED
      BY <3>1, <3>2
  <2>2. CASE i < N /\ Exited(i) /\ i' = i + 1 /\ UNCHANGED <<mod, ts, stop>>
    BY <1>15, <2>2 DEF CleanupStop
  <2>3. CASE i = N /\ mod' = "gone" /\ UNCHANGED <<ts, stop, i>>
    BY <1>15, <2>3 DEF CleanupStop
  <2> QED
    BY <1>15, <2>1, <2>2, <2>3 DEF CleanupStop
<1>16. CASE MiscDeregister
  BY <1>16 DEF MiscDeregister
<1>17. CASE KthreadFn
  BY <1>17 DEF KthreadFn
<1>18. CASE \E j \in Slots : Threadf(j)
  BY <1>18 DEF Threadf
<1>19. CASE UNCHANGED vars
  BY <1>19 DEF vars
<1> QED
  BY Zenon, <1>1, <1>2, <1>3, <1>4, <1>5, <1>6, <1>7, <1>8, <1>9, <1>10, <1>11,
     <1>12, <1>13, <1>14, <1>15, <1>16, <1>17, <1>18, <1>19 DEF Next, WorkStep, CleanupStep, ThreadStep

(* KInv is an invariant of the two modules. *)
LEMMA KInvariant == Spec => []KInv
BY KInit, KNext, PTL DEF Spec

(* When cleanup_module() or misc_exit() has returned, no thread that runs  *)
(* the module's code is left, however many threads function() has started. *)
THEOREM NoThreadOutlives == Spec => []ThreadsGone
<1>1. KInv => ThreadsGone
  BY DEF KInv, Stopped, ThreadsGone
<1> QED
  BY <1>1, KInvariant, PTL

(* Unloading is undefined only after a failed creation, with ts full, or   *)
(* when the timer expired while cleanup_module() was running.              *)
THEOREM OnlyTheseUndefined == Spec => []UndefinedOnlyBy
<1>1. KInv => UndefinedOnlyBy
  BY DEF KInv
<1> QED
  BY <1>1, KInvariant, PTL

-----------------------------------------------------------------------------
(* kthread_stop.c, for any number of threads and rounds: cleanup_module()  *)
(* leaves no thread behind that has more to do than return, and a thread   *)
(* that was not asked to stop has gone through all of its rounds.          *)
Done(t) == pc[t] \in {"return", "exited"}

(* A thread sets its flag as the last thing it does. *)
FlagLast == \A t \in Thread : flag[t] = 1 => Done(t)

(* cleanup_module() has dealt with the threads before the current one. *)
DoneBefore ==
  stage \in {"check", "kthread_stop", "wait"} => \A t \in Thread : t < k => Done(t)

(* cleanup_module() will begin with the first thread. *)
AtStart == stage = "live" => k = 0

(* A thread that is still in its loop has not been through it too often. *)
RoundsLeft ==
  \A t \in Thread :
    /\ pc[t] \in {"none", "created"} => n[t] = 0
    /\ pc[t] \in {"test", "msleep"} => n[t] <= Rounds

StopInv ==
  TypeOK /\ FlagLast /\ DoneBefore /\ AtStart /\ RoundsLeft /\ FullRun /\ OnlyTailOutlivesModule

USE KthreadStopAssumption

(* init_module() starts in a state that satisfies the invariant. *)
LEMMA StopInitially == StopInit => StopInv
BY DEF StopInit, StopInv, TypeOK, FlagLast, DoneBefore, AtStart, RoundsLeft, FullRun, OnlyTailOutlivesModule, Thread, Done

(* A step of function() that changes pc, and nothing of the module. *)
LEMMA ThreadPreserves ==
  ASSUME StopInv, NEW t \in Thread, FunctionStep(t)
  PROVE  StopInv'
<1> USE DEF StopInv, FunctionStep, Moves
<1>1. /\ stage' = stage /\ k' = k /\ should_stop' = should_stop
      /\ \A s \in Thread : s # t => pc'[s] = pc[s] /\ n'[s] = n[s] /\ ind'[s] = ind[s] /\ flag'[s] = flag[s]
  BY DEF Start, Test, Wake, SetFlag, Exit, TypeOK
<1>2. /\ pc' \in [Thread -> {"none", "error", "created", "test", "msleep", "set_flag", "return", "exited"}]
      /\ flag' \in [Thread -> {0, 1}]
  BY DEF Start, Test, Wake, SetFlag, Exit, TypeOK
<1>3. n' \in [Thread -> 0 .. Rounds + 1]
  BY DEF Start, Test, Wake, SetFlag, Exit, TypeOK, RoundsLeft
<1>4. ind' \in [Thread -> BOOLEAN]
  BY DEF Start, Test, Wake, SetFlag, Exit, TypeOK
<1>5. TypeOK'
  BY <1>1, <1>2, <1>3, <1>4 DEF TypeOK
<1>6. Done(t) => Done(t)'
  BY DEF Start, Test, Wake, SetFlag, Exit, TypeOK, Done
<1>7. \A s \in Thread : Done(s) => Done(s)'
  BY <1>1, <1>6 DEF Done
<1>8. FlagLast'
  <2>1. flag'[t] = 1 => Done(t)'
    BY <1>6 DEF Start, Test, Wake, SetFlag, Exit, TypeOK, FlagLast, Done
  <2> QED  BY <1>1, <1>7, <2>1 DEF FlagLast
<1>9. DoneBefore' /\ AtStart' /\ OnlyTailOutlivesModule'
  BY <1>1, <1>7 DEF DoneBefore, AtStart, OnlyTailOutlivesModule, Done
<1>10. RoundsLeft'
  <2>1. /\ pc'[t] \in {"none", "created"} => n'[t] = 0
        /\ pc'[t] \in {"test", "msleep"} => n'[t] <= Rounds
    BY DEF Start, Test, Wake, SetFlag, Exit, TypeOK, RoundsLeft
  <2> QED  BY <1>1, <2>1 DEF RoundsLeft
<1>11. FullRun'
  <2>1. pc'[t] \in {"set_flag", "return"} => (ind'[t] \/ n'[t] = Rounds + 1)
    BY DEF Start, Test, Wake, SetFlag, Exit, TypeOK, RoundsLeft, FullRun
  <2> QED  BY <1>1, <2>1 DEF FullRun
<1> QED  BY <1>5, <1>8, <1>9, <1>10, <1>11

(* init_module() and cleanup_module() preserve the invariant: the walk     *)
(* goes past a thread only when its flag is set or it has exited.          *)
LEMMA ModulePreserves ==
  ASSUME StopInv, KthreadRun \/ BeginCleanup \/ CheckFlag \/ CallStop \/ StopReturns
  PROVE  StopInv'
<1> USE DEF StopInv
<1>1. CASE KthreadRun
  <2>1. /\ pc[k] = "none" /\ \E there \in {"created", "error"} : pc' = [pc EXCEPT ![k] = there]
        /\ stage' \in {"init", "live"} /\ k' \in Thread
        /\ n' = n /\ ind' = ind /\ flag' = flag /\ should_stop' = should_stop
    BY <1>1 DEF KthreadRun, Moves, TypeOK, Thread
  <2>2. TypeOK'
    BY <2>1 DEF TypeOK
  <2>3. FlagLast' /\ RoundsLeft' /\ FullRun'
    BY <2>1 DEF TypeOK, FlagLast, RoundsLeft, FullRun, Done
  <2>4. DoneBefore' /\ OnlyTailOutlivesModule'
    BY <2>1 DEF DoneBefore, OnlyTailOutlivesModule
  <2>5. AtStart'
    BY <1>1 DEF KthreadRun, AtStart
  <2> QED  BY <2>2, <2>3, <2>4, <2>5
<1>2. CASE BeginCleanup \/ CallStop
  <2>1. /\ pc' = pc /\ n' = n /\ ind' = ind /\ flag' = flag /\ k' = k
        /\ stage' \in {"check", "wait", "oops"} /\ (stage = "live" \/ stage = "kthread_stop")
    BY <1>2 DEF BeginCleanup, CallStop, threadVars
  <2>2. stage = "live" => k = 0
    BY DEF AtStart
  <2>3. TypeOK'
    BY Zenon, <1>2, <2>1 DEF BeginCleanup, CallStop, threadVars, TypeOK
  <2>4. FlagLast' /\ RoundsLeft' /\ FullRun' /\ OnlyTailOutlivesModule'
    BY <2>1 DEF FlagLast, RoundsLeft, FullRun, OnlyTailOutlivesModule, Done
  <2>5. DoneBefore' /\ AtStart'
    BY <2>1, <2>2 DEF DoneBefore, AtStart, Thread, Done
  <2> QED  BY <2>3, <2>4, <2>5
<1>3. ASSUME Done(k), NextThread, UNCHANGED threadVars, stage \in {"check", "wait"} PROVE StopInv'
  BY SMTT(20), <1>3 DEF NextThread, threadVars, TypeOK, FlagLast, DoneBefore, AtStart, RoundsLeft, FullRun,
              OnlyTailOutlivesModule, Thread, Done
<1>4. CASE CheckFlag
  <2>1. CASE flag[k] = 1
    BY <1>3, <1>4, <2>1 DEF CheckFlag, FlagLast, TypeOK
  <2>2. CASE flag[k] # 1
    BY <1>4, <2>2 DEF CheckFlag, threadVars, TypeOK, FlagLast, DoneBefore, AtStart, RoundsLeft, FullRun,
                      OnlyTailOutlivesModule, Thread, Done
  <2> QED  BY <2>1, <2>2
<1>5. CASE StopReturns
  BY <1>3, <1>5 DEF StopReturns, Done
<1> QED  BY <1>1, <1>2, <1>4, <1>5

(* Every step of the threads and of the module preserves the invariant. *)
LEMMA StopInvariant == StopSpec => []StopInv
<1>1. StopInv /\ [StopNext]_stopVars => StopInv'
  <2> SUFFICES ASSUME StopInv, [StopNext]_stopVars PROVE StopInv'
    OBVIOUS
  <2>1. CASE UNCHANGED stopVars
    BY <2>1 DEF StopInv, TypeOK, FlagLast, DoneBefore, AtStart, RoundsLeft, FullRun, OnlyTailOutlivesModule, Done, stopVars
  <2>2. CASE StopNext
    BY <2>1, <2>2, ThreadPreserves, ModulePreserves DEF StopNext, Cleanup, Terminated
  <2> QED  BY <2>1, <2>2
<1> QED  BY StopInitially, <1>1, PTL DEF StopSpec

(* When cleanup_module() has returned, no thread has more to do than       *)
(* return from function().                                                 *)
THEOREM NoThreadLeftBehind == StopSpec => []OnlyTailOutlivesModule
<1>1. StopInv => OnlyTailOutlivesModule
  BY DEF StopInv
<1> QED  BY StopInvariant, <1>1, PTL

(* A thread of function() that was not asked to stop sleeps exactly Rounds *)
(* times.                                                                  *)
THEOREM AllRounds == StopSpec => []FullRun
<1>1. StopInv => FullRun
  BY DEF StopInv
<1> QED  BY StopInvariant, <1>1, PTL

-----------------------------------------------------------------------------
(***************************************************************************)
(* For any amount of memory, the list of src/Task_12/kll/kll.c stays well  *)
(* linked while identity_destroy() deletes the entries it walks over; it   *)
(* holds the identities created and not destroyed and no others; and       *)
(* identity_find() is exact.  The results carry over to the slab cache of  *)
(* src/Task_13/kll/kll.c, of which every step is one of Kll or a stutter.  *)
(***************************************************************************)
(* With the entries numbered by f: the entry e is m or comes before it. *)
AtOrBefore(f, e, m) == e # my_id_list /\ (e = m \/ f[e] < f[m])

(* f numbers the entries in use in the order of the list: numbers grow     *)
(* along next, and next leads past no entry.  Without an order a part of   *)
(* the list might have come loose as a ring of its own, and deleting the   *)
(* only entry of such a ring would leave the cursor on freed memory.       *)
Numbering(f) ==
  /\ \A e \in allocated : next[e] # my_id_list => f[e] < f[next[e]]
  /\ \A m \in allocated : AtOrBefore(f, next[my_id_list], m)
  /\ \A e, m \in allocated : f[e] < f[m] => AtOrBefore(f, next[e], m)

(* The loop has passed none of the entries that it is looking for. *)
NotPassed(f) ==
  walking => \A m \in allocated : id[m] = Argument => AtOrBefore(f, cursor, m)

Ordered == \E f \in [Entries -> Int] : Numbering(f) /\ NotPassed(f)

(* The loop is at an entry in use. *)
CursorLinked == walking => cursor \in Linked

(* The list has the ids created and not destroyed, except that a walk of   *)
(* identity_destroy() may already have deleted its own.                    *)
Contents ==
  /\ \A e \in allocated : id[e] \in present
  /\ \A d \in present : \/ \E e \in allocated : id[e] = d
                        \/ walking /\ Calls[call][1] = "destroy" /\ d = Argument

(* How far linked_list_init() has come with creating and destroying. *)
Progress ==
  /\ present \subseteq {1, 2, 3, 4}
  /\ call > 7 => 2 \notin present
  /\ call > 8 => 1 \notin present
  /\ call > 11 => 3 \notin present
  /\ walking => call \in 5 .. 11

Inv == ListTypeOK /\ WellLinked /\ CursorLinked /\ Ordered /\ Contents /\ Progress

USE KllAssumption

(* The calls of linked_list_init(): first the ids 1 to 4 are created, then *)
(* two ids are looked for, then 2, 1 and 3 are destroyed, and two ids that *)
(* do not exist.                                                           *)
LEMMA CallsType ==
  /\ Len(Calls) = 11
  /\ \A j \in 1 .. 11 : Calls[j][2] \in Nat
  /\ \A j \in 1 .. 11 : Calls[j][1] = "create" <=> j \in 1 .. 4
  /\ \A j \in 1 .. 11 : Calls[j][1] = "find" <=> j \in 5 .. 6
  /\ \A j \in 1 .. 11 : Calls[j][1] = "destroy" <=> j \in 7 .. 11
  /\ \A j \in 1 .. 4 : Calls[j][2] = j
  /\ Calls[7][2] = 2 /\ Calls[8][2] = 1 /\ Calls[11][2] = 3
<1>1. Len(Calls) = 11
  BY DEF Calls
<1>2. ASSUME NEW j \in 1 .. 11
      PROVE  /\ Calls[j][2] \in Nat
             /\ Calls[j][1] = "create" <=> j \in 1 .. 4
             /\ Calls[j][1] = "find" <=> j \in 5 .. 6
             /\ Calls[j][1] = "destroy" <=> j \in 7 .. 11
             /\ j \in 1 .. 4 => Calls[j][2] = j
  <2>1. j \in {1, 2, 3, 4, 5, 6, 7, 8, 9, 10, 11}
    OBVIOUS
  <2> QED  BY <2>1 DEF Calls
<1>3. Calls[7][2] = 2 /\ Calls[8][2] = 1 /\ Calls[11][2] = 3
  BY DEF Calls
<1> QED  BY <1>1, <1>2, <1>3

(* linked_list_init() starts with an empty list, which is well linked. *)
LEMMA Initially == ListInit => Inv
<1> SUFFICES ASSUME ListInit PROVE Inv
  OBVIOUS
<1>1. ListTypeOK
  <2>1. call \in 1 .. Len(Calls) + 1
    BY CallsType DEF ListInit
  <2>2. next \in [Entries -> Entries] /\ prev \in [Entries -> Entries] /\ id \in [Nodes -> Nat]
    BY DEF ListInit, Entries
  <2>3. walking \in BOOLEAN /\ undefined \in BOOLEAN
    BY Zenon DEF ListInit
  <2>4. allocated \subseteq Nodes /\ cursor \in Entries /\ temp \in Nodes \cup {NULL} /\ present \subseteq Nat
    BY DEF ListInit, Entries
  <2> QED  BY <2>1, <2>2, <2>3, <2>4 DEF ListTypeOK
<1>2. WellLinked
  BY DEF ListInit, WellLinked, Linked, Entries
<1>3. Ordered
  <2>1. [e \in Entries |-> 0] \in [Entries -> Int]
    OBVIOUS
  <2> QED  BY Zenon, <2>1 DEF ListInit, Ordered, Numbering, NotPassed
<1>4. Contents /\ Progress
  BY DEF ListInit, Contents, Progress
<1> QED  BY <1>1, <1>2, <1>3, <1>4 DEF ListInit, Inv, CursorLinked

(* identity_create() keeps the list well linked: list_add() puts the new   *)
(* entry between the head and what was the first entry.                    *)
LEMMA CreateStep == Inv /\ IdentityCreate => Inv'
<1> SUFFICES ASSUME Inv, IdentityCreate PROVE Inv'
  OBVIOUS
<1> USE DEF Inv
<1>0. call \in 1 .. 4 /\ Argument \in 1 .. 4 /\ ~walking /\ ~walking' /\ call' = call + 1
  BY CallsType DEF IdentityCreate, Calling, ListTypeOK, Argument, Progress
<1>1. CASE UNCHANGED <<linkVars, present>>
  <2>1. ListTypeOK'
    BY <1>0, <1>1, CallsType DEF IdentityCreate, ListTypeOK, linkVars
  <2>2. WellLinked' /\ CursorLinked'
    BY <1>0, <1>1 DEF WellLinked, Linked, CursorLinked, linkVars
  <2>3. Ordered'
    BY <1>0, <1>1 DEF Ordered, Numbering, NotPassed, AtOrBefore, Entries, linkVars
  <2>4. Contents' /\ Progress'
    BY <1>0, <1>1 DEF Contents, Progress, linkVars
  <2> QED  BY <2>1, <2>2, <2>3, <2>4
<1>2. ASSUME NEW new \in Nodes \ allocated,
             allocated' = allocated \cup {new},
             id' = [id EXCEPT ![new] = Argument],
             ListAdd(new),
             present' = present \cup {Argument}
      PROVE  Inv'
  <2> DEFINE first == next[my_id_list]
  <2>1. /\ first \in Linked /\ prev[first] = my_id_list
        /\ new \in Entries /\ my_id_list \in Entries /\ first \in Entries
        /\ new # my_id_list /\ new # first
    BY <1>2 DEF WellLinked, Linked, Entries, ListTypeOK
  <2>2. /\ next' = [next EXCEPT ![new] = first, ![my_id_list] = new]
        /\ prev' = [prev EXCEPT ![first] = new, ![new] = my_id_list]
    BY SMTT(20), <1>2 DEF ListAdd
  <2>3. ListTypeOK'
    BY SMTT(20), <1>0, <1>2, <2>1, <2>2, CallsType DEF IdentityCreate, ListTypeOK, Entries
  <2>4. WellLinked'
    <3> SUFFICES ASSUME NEW e \in Linked'
                 PROVE  /\ next'[e] \in Linked' /\ prev'[next'[e]] = e
                        /\ prev'[e] \in Linked' /\ next'[prev'[e]] = e
      BY DEF WellLinked
    <3>1. Linked' = Linked \cup {new} /\ Linked \subseteq Entries /\ new \notin Linked
      BY <1>2, <2>1 DEF Linked, Entries, ListTypeOK
    <3>2. CASE e = new
      BY <2>1, <2>2, <3>1, <3>2 DEF ListTypeOK, Linked
    <3>3. CASE e = my_id_list
      BY <2>1, <2>2, <3>1, <3>3 DEF ListTypeOK, WellLinked, Linked
    <3>4. CASE e \in allocated
      BY <2>1, <2>2, <3>1, <3>4 DEF ListTypeOK, WellLinked, Linked
    <3> QED  BY <3>1, <3>2, <3>3, <3>4 DEF Linked
  <2>5. CursorLinked'
    BY <1>0 DEF CursorLinked
  <2>6. PICK f \in [Entries -> Int] : Numbering(f)
    BY DEF Ordered
  <2>7. PICK g : g = [f EXCEPT ![new] = f[first] - 1]
    BY Zenon
  <2>8. g \in [Entries -> Int] /\ g[new] = f[first] - 1 /\ f[first] \in Int
    BY SMTT(20), <2>1, <2>7
  <2>9. ASSUME NEW e \in allocated
        PROVE  /\ e \in Entries /\ e # new /\ e # my_id_list
               /\ g[e] = f[e] /\ f[e] \in Int
               /\ next'[e] = next[e] /\ next[e] \in Linked /\ next[e] # new /\ next[e] \in Entries
               /\ first # my_id_list /\ (first = e \/ f[first] < f[e])
    BY SMTT(20), <1>2, <2>1, <2>2, <2>6, <2>7 DEF WellLinked, Linked, ListTypeOK, Entries, Numbering, AtOrBefore
  <2>10. next'[new] = first /\ next'[my_id_list] = new
    BY <2>1, <2>2 DEF ListTypeOK
  <2>11. ASSUME NEW e \in allocated', next'[e] # my_id_list
         PROVE  g[e] < g[next'[e]]
    <3>1. CASE e = new
      BY <2>1, <2>7, <2>8, <2>10, <3>1
    <3>2. CASE e \in allocated
      BY <2>6, <2>7, <2>9, <2>11, <3>2 DEF Numbering
    <3> QED  BY <1>2, <3>1, <3>2
  <2>12. ASSUME NEW m \in allocated' PROVE m = new \/ g[new] < g[m]
    BY <1>2, <2>8, <2>9
  <2>13. ASSUME NEW e \in allocated', NEW m \in allocated', g[e] < g[m]
         PROVE  next'[e] # my_id_list /\ (next'[e] = m \/ g[next'[e]] < g[m])
    <3>1. m \in allocated
      <4>1. e = new \/ g[new] < g[e]
        BY Zenon, <2>12
      <4>2. g[e] \in Int /\ g[new] \in Int
        BY Zenon, <1>2, <2>1, <2>8, <2>9
      <4>3. m # new
        BY <2>13, <4>1, <4>2
      <4> QED  BY Zenon, <1>2, <4>3
    <3>2. CASE e = new
      <4>1. first # my_id_list /\ first # new /\ (first = m \/ f[first] < f[m]) /\ g[first] = f[first]
        BY <2>1, <2>7, <2>9, <3>1
      <4> QED  BY Zenon, <2>9, <2>10, <3>1, <3>2, <4>1
    <3>3. CASE e \in allocated
      <4>1. f[e] < f[m]
        BY <2>9, <2>13, <3>1, <3>3
      <4>2. next[e] # my_id_list /\ (next[e] = m \/ f[next[e]] < f[m])
        BY <2>6, <3>1, <3>3, <4>1 DEF Numbering, AtOrBefore
      <4> QED  BY <2>7, <2>9, <3>1, <3>3, <4>2
    <3> QED  BY <1>2, <3>2, <3>3
  <2>14. Ordered'
    <3>1. Numbering(g)'
      BY <2>1, <2>10, <2>11, <2>12, <2>13 DEF Numbering, AtOrBefore
    <3>2. NotPassed(g)'
      BY <1>0 DEF NotPassed
    <3> QED  BY <2>8, <3>1, <3>2 DEF Ordered, Entries
  <2>15. Contents'
    <3>1. id'[new] = Argument /\ \A e \in allocated : id'[e] = id[e]
      BY <1>2 DEF ListTypeOK
    <3> QED  BY <1>0, <1>2, <3>1 DEF Contents
  <2>16. Progress'
    BY <1>0, <1>2 DEF Progress
  <2> QED  BY <2>3, <2>4, <2>5, <2>14, <2>15, <2>16
<1> QED  BY <1>1, <1>2 DEF IdentityCreate

(* list_for_each_entry() starts at an entry in use, and identity_find()    *)
(* goes from one to the next; neither changes the list.                    *)
LEMMA ReadStep == Inv /\ (FirstEntry \/ IdentityFind \/ DestroyReturns) => Inv'
<1> SUFFICES ASSUME Inv, FirstEntry \/ IdentityFind \/ DestroyReturns PROVE Inv'
  OBVIOUS
<1> USE DEF Inv
<1>0. call \in 1 .. 11 /\ Argument \in Nat
  <2>1. call \in 1 .. Len(Calls) + 1 /\ call <= Len(Calls)
    BY Zenon DEF FirstEntry, IdentityFind, DestroyReturns, Calling, ListTypeOK
  <2> QED  BY <2>1, CallsType DEF Argument
<1>1. next' = next /\ prev' = prev /\ id' = id /\ allocated' = allocated /\ undefined' = undefined
  BY Zenon DEF FirstEntry, IdentityFind, DestroyReturns, linkVars
<1>2. Linked \subseteq Entries /\ Linked' = Linked
  BY <1>1 DEF Linked, Entries, ListTypeOK
<1>3. CursorLinked'
  <2>1. my_id_list \in Linked /\ \A e \in Linked : next[e] \in Linked
    BY DEF WellLinked, Linked
  <2>2. CASE FirstEntry
    BY <1>2, <2>1, <2>2 DEF FirstEntry, CursorLinked
  <2>3. CASE IdentityFind
    <3>1. walking /\ (walking' = FALSE \/ cursor' = next[cursor])
      BY Zenon, <2>3 DEF IdentityFind
    <3> QED  BY <1>2, <2>1, <3>1 DEF CursorLinked
  <2>4. CASE DestroyReturns
    BY <2>4 DEF DestroyReturns, CursorLinked
  <2> QED  BY <2>2, <2>3, <2>4
<1>4. WellLinked'
  BY <1>1, <1>2 DEF WellLinked
<1>5. Ordered'
  <2>1. PICK f \in [Entries -> Int] : Numbering(f) /\ NotPassed(f)
    BY DEF Ordered
  <2>2. Numbering(f)'
    BY <1>1, <2>1 DEF Numbering, AtOrBefore
  <2>3. NotPassed(f)'
    <3>1. CASE FirstEntry
      <4>1. cursor' = next[my_id_list] /\ call' = call
        BY <3>1 DEF FirstEntry
      <4>2. \A m \in allocated : AtOrBefore(f, cursor, m)'
        BY <2>1, <4>1 DEF Numbering, AtOrBefore
      <4> QED  BY <1>1, <4>2 DEF NotPassed
    <3>2. CASE IdentityFind /\ walking' = FALSE
      BY <3>2 DEF NotPassed
    <3>3. CASE IdentityFind /\ walking' # FALSE
      <4>1. /\ walking /\ cursor # my_id_list /\ id[cursor] # Argument
            /\ cursor' = next[cursor] /\ call' = call
        BY Zenon, <3>3 DEF IdentityFind
      <4>2. cursor \in allocated
        BY <4>1 DEF CursorLinked, Linked
      <4>3. ASSUME NEW m \in allocated, id[m] = Argument PROVE AtOrBefore(f, cursor, m)'
        <5>1. f[cursor] < f[m]
          BY <2>1, <4>1, <4>3 DEF NotPassed, AtOrBefore
        <5> QED  BY Zenon, <2>1, <4>1, <4>2, <5>1 DEF Numbering, AtOrBefore
      <4> QED  BY <1>1, <4>1, <4>3 DEF NotPassed, Argument
    <3>4. CASE DestroyReturns
      BY <3>4 DEF DestroyReturns, NotPassed
    <3> QED  BY Zenon, <3>1, <3>2, <3>3, <3>4
  <2> QED  BY <2>1, <2>2, <2>3 DEF Ordered, Entries
<1>6. Contents'
  <2>1. CASE FirstEntry
    <3>1. present' = present /\ call' = call /\ ~walking /\ walking'
      BY <2>1 DEF FirstEntry
    <3> QED  BY <1>1, <3>1 DEF Contents
  <2>2. CASE IdentityFind
    <3>1. present' = present /\ Calls[call][1] # "destroy"
      BY <2>2 DEF IdentityFind, Calling
    <3> QED  BY <1>1, <3>1 DEF Contents
  <2>3. CASE DestroyReturns
    <3>1. /\ present' = present \ {Argument} /\ walking /\ ~walking'
          /\ cursor = my_id_list
      BY <2>3 DEF DestroyReturns
    <3>2. \A e \in allocated : id[e] # Argument
      BY <3>1 DEF Ordered, NotPassed, AtOrBefore
    <3> QED  BY <1>1, <3>1, <3>2 DEF Contents
  <2> QED  BY <2>1, <2>2, <2>3
<1>7. Progress'
  <2>1. CASE FirstEntry
    <3>1. call \in 5 .. 11 /\ call' = call /\ present' = present
      BY SMTT(20), <1>0, <2>1, CallsType DEF FirstEntry, Calling
    <3> QED  BY <3>1 DEF Progress
  <2>2. CASE IdentityFind
    <3>1. call \in 5 .. 6 /\ present' = present /\ call' \in {call, call + 1}
      BY Zenon, <1>0, <2>2, CallsType DEF IdentityFind, Calling
    <3> QED  BY <3>1 DEF Progress
  <2>3. CASE DestroyReturns
    <3>1. call \in 7 .. 11 /\ call' = call + 1 /\ ~walking' /\ present' = present \ {Argument}
      BY Zenon, <1>0, <2>3, CallsType DEF DestroyReturns, Calling
    <3>2. (call = 7 => Argument = 2) /\ (call = 8 => Argument = 1) /\ (call = 11 => Argument = 3)
      BY CallsType DEF Argument
    <3>3. present' \subseteq {1, 2, 3, 4} /\ (walking' => call' \in 5 .. 11)
      BY Zenon, <3>1 DEF Progress
    <3>4. call' > 7 => 2 \notin present'
      BY <3>1, <3>2 DEF Progress
    <3>5. call' > 8 => 1 \notin present'
      BY <3>1, <3>2 DEF Progress
    <3>6. call' > 11 => 3 \notin present'
      BY <3>1, <3>2 DEF Progress
    <3> QED  BY <3>3, <3>4, <3>5, <3>6 DEF Progress
  <2> QED  BY <2>1, <2>2, <2>3
<1>8. ListTypeOK'
  <2>1. call' \in 1 .. Len(Calls) + 1
    BY SMTT(20), <1>0, CallsType DEF FirstEntry, IdentityFind, DestroyReturns, ListTypeOK
  <2>2. walking' \in BOOLEAN
    BY Zenon DEF FirstEntry, IdentityFind, DestroyReturns, ListTypeOK
  <2>3. cursor' \in Entries
    BY DEF FirstEntry, IdentityFind, DestroyReturns, ListTypeOK, Entries
  <2>4. temp' \in Nodes \cup {NULL}
    BY DEF FirstEntry, IdentityFind, DestroyReturns, ListTypeOK, Entries
  <2>5. present' \subseteq Nat
    BY Zenon DEF FirstEntry, IdentityFind, DestroyReturns, ListTypeOK
  <2> QED  BY SMTT(20), <1>1, <2>1, <2>2, <2>3, <2>4, <2>5 DEF ListTypeOK
<1> QED  BY <1>3, <1>4, <1>5, <1>6, <1>7, <1>8

(* One turn of the loop of identity_destroy() keeps the list well linked   *)
(* and leaves the loop at an entry in use, also when it frees the entry it *)
(* is at.                                                                  *)
LEMMA DestroyStep == Inv /\ IdentityDestroy => Inv'
<1> SUFFICES ASSUME Inv, IdentityDestroy PROVE Inv'
  OBVIOUS
<1> USE DEF Inv
<1> DEFINE a == prev[cursor]
           b == next[cursor]
<1>1. /\ cursor \in allocated /\ cursor \in Entries /\ cursor # my_id_list
      /\ a \in Linked /\ b \in Linked /\ next[a] = cursor /\ prev[b] = cursor
      /\ Linked \subseteq Entries /\ a \in Entries /\ b \in Entries
  BY SMTT(20) DEF IdentityDestroy, CursorLinked, WellLinked, Linked, ListTypeOK, Entries
<1>0. walking /\ Calls[call][1] = "destroy"
  BY Zenon DEF IdentityDestroy, Calling
<1>2. cursor' = b /\ id' = id /\ call' = call /\ walking' = walking /\ temp' = temp /\ present' = present
  BY Zenon DEF IdentityDestroy
<1>3. CASE id[cursor] # Argument /\ UNCHANGED <<next, prev, allocated, undefined>>
  <2>1. Linked' = Linked
    BY <1>3 DEF Linked
  <2>2. ListTypeOK' /\ WellLinked' /\ CursorLinked'
    BY SMTT(20), <1>1, <1>2, <1>3, <2>1 DEF ListTypeOK, WellLinked, CursorLinked, Entries
  <2>3. PICK f \in [Entries -> Int] : Numbering(f) /\ NotPassed(f)
    BY DEF Ordered
  <2>4. Numbering(f)'
    BY Zenon, <1>3, <2>3 DEF Numbering, AtOrBefore
  <2>5. CASE id[cursor] # Argument
    <3>1. ASSUME NEW m \in allocated, id[m] = Argument PROVE AtOrBefore(f, cursor, m)'
      <4>1. f[cursor] < f[m]
        BY <1>0, <2>3, <2>5, <3>1 DEF NotPassed, AtOrBefore
      <4> QED  BY Zenon, <1>1, <1>2, <2>3, <4>1 DEF Numbering, AtOrBefore
    <3>2. NotPassed(f)'
      BY Zenon, <1>2, <1>3, <3>1 DEF NotPassed, Argument
    <3>3. Contents' /\ Progress'
      BY <1>2, <1>3 DEF Contents, Progress, Argument
    <3> QED  BY <2>2, <2>3, <2>4, <3>2, <3>3 DEF Ordered, Entries
  <2> QED  BY <1>3, <2>5
<1>4. CASE /\ id[cursor] = Argument /\ ListDelEntry(cursor)
          /\ allocated' = allocated \ {cursor} /\ undefined' \in BOOLEAN
  <2>1. PICK f \in [Entries -> Int] : Numbering(f) /\ NotPassed(f)
    BY DEF Ordered
  <2>2. b # cursor /\ a # cursor
    BY <1>1, <2>1 DEF Numbering
  <2>3. next' = [next EXCEPT ![a] = b] /\ prev' = [prev EXCEPT ![b] = a]
    BY <1>4 DEF ListDelEntry
  <2>4. Linked' = Linked \ {cursor}
    BY Zenon, <1>1, <1>4 DEF Linked
  <2>5. ListTypeOK'
    <3>1. next' \in [Entries -> Entries] /\ prev' \in [Entries -> Entries]
      BY <1>1, <2>3 DEF ListTypeOK
    <3>2. undefined' \in BOOLEAN
      BY <1>4
    <3> QED  BY Zenon, <1>1, <1>2, <1>4, <3>1, <3>2 DEF ListTypeOK, Entries
  <2>6. WellLinked'
    <3> SUFFICES ASSUME NEW e \in Linked, e # cursor
                 PROVE  /\ next'[e] \in Linked' /\ prev'[next'[e]] = e
                        /\ prev'[e] \in Linked' /\ next'[prev'[e]] = e
      BY Zenon, <2>4 DEF WellLinked
    <3>1. /\ next[e] \in Linked /\ prev[next[e]] = e /\ prev[e] \in Linked /\ next[prev[e]] = e
          /\ e \in Entries /\ next[e] \in Entries /\ prev[e] \in Entries
      BY Zenon, <1>1 DEF WellLinked
    <3>2. next'[e] \in Linked' /\ prev'[next'[e]] = e
      <4>1. CASE e = a
        BY <1>1, <2>2, <2>3, <2>4, <4>1 DEF ListTypeOK
      <4>2. CASE e # a
        BY Zenon, <1>1, <2>2, <2>3, <2>4, <3>1, <4>2 DEF ListTypeOK
      <4> QED  BY <4>1, <4>2
    <3>3. prev'[e] \in Linked' /\ next'[prev'[e]] = e
      <4>1. CASE e = b
        BY <1>1, <2>2, <2>3, <2>4, <4>1 DEF ListTypeOK
      <4>2. CASE e # b
        BY <1>1, <2>2, <2>3, <2>4, <3>1, <4>2 DEF ListTypeOK
      <4> QED  BY Zenon, <4>1, <4>2
    <3> QED  BY <3>2, <3>3
  <2>7. CursorLinked'
    BY <1>1, <1>2, <2>2, <2>4 DEF CursorLinked
  <2>8. ASSUME NEW e \in allocated', next'[e] # my_id_list
        PROVE  f[e] < f[next'[e]]
    <3>1. e \in allocated /\ e \in Entries /\ e # cursor
      BY <1>4, <2>8 DEF ListTypeOK, Entries
    <3>2. CASE e = a
      <4>1. next'[e] = b /\ b # my_id_list
        BY <1>1, <2>3, <2>8, <3>2 DEF ListTypeOK
      <4>2. f[a] < f[cursor] /\ f[cursor] < f[b]
        BY Zenon, <1>1, <2>1, <3>1, <3>2, <4>1 DEF Numbering
      <4>3. f[a] \in Int /\ f[cursor] \in Int /\ f[b] \in Int
        BY Zenon, <1>1, <2>1
      <4> QED  BY <3>2, <4>1, <4>2, <4>3
    <3>3. CASE e # a
      BY <2>1, <2>3, <2>8, <3>1, <3>3 DEF ListTypeOK, Numbering
    <3> QED  BY <3>2, <3>3
  <2>9. ASSUME NEW m \in allocated', AtOrBefore(f, cursor, m)
        PROVE  b # my_id_list /\ (b = m \/ f[b] < f[m])
    BY Zenon, <1>1, <1>4, <2>1, <2>9 DEF Numbering, AtOrBefore
  <2>10. ASSUME NEW m \in allocated'
         PROVE  LET e == next'[my_id_list] IN e # my_id_list /\ (e = m \/ f[e] < f[m])
    <3>1. AtOrBefore(f, next[my_id_list], m)
      BY Zenon, <1>4, <2>1 DEF Numbering
    <3>2. CASE a = my_id_list
      BY <1>1, <2>3, <2>9, <3>1, <3>2 DEF ListTypeOK
    <3>3. CASE a # my_id_list
      BY <2>3, <3>1, <3>3 DEF ListTypeOK, AtOrBefore, Entries
    <3> QED  BY Zenon, <3>2, <3>3
  <2>11. ASSUME NEW e \in allocated', NEW m \in allocated', f[e] < f[m]
         PROVE  next'[e] # my_id_list /\ (next'[e] = m \/ f[next'[e]] < f[m])
    <3>1. AtOrBefore(f, next[e], m) /\ e \in Entries
      BY Zenon, <1>4, <2>1, <2>11 DEF Numbering, ListTypeOK, Entries
    <3>2. CASE a = e
      BY Zenon, <1>1, <2>3, <2>9, <3>1, <3>2 DEF ListTypeOK
    <3>3. CASE a # e
      BY <2>3, <3>1, <3>3 DEF ListTypeOK, AtOrBefore
    <3> QED  BY <3>2, <3>3
  <2>12. Ordered'
    <3>1. Numbering(f)'
      BY Zenon, <2>8, <2>10, <2>11 DEF Numbering, AtOrBefore
    <3>2. NotPassed(f)'
      <4> SUFFICES ASSUME NEW m \in allocated', id[m] = Argument
                   PROVE  AtOrBefore(f, cursor, m)'
        BY Zenon, <1>2 DEF NotPassed, Argument
      <4>1. AtOrBefore(f, cursor, m)
        BY Zenon, <1>0, <1>4, <2>1 DEF NotPassed
      <4> QED  BY <1>2, <2>9, <4>1 DEF AtOrBefore
    <3> QED  BY <2>1, <3>1, <3>2 DEF Ordered, Entries
  <2>13. Contents' /\ Progress'
    <3>1. \A d \in present : d # Argument => \E e \in allocated' : id[e] = d
      BY <1>4 DEF Contents
    <3>2. Contents'
      BY Zenon, <1>0, <1>2, <1>4, <3>1 DEF Contents, Argument
    <3>3. Progress'
      BY <1>2 DEF Progress
    <3> QED  BY <3>2, <3>3
  <2> QED  BY <2>5, <2>6, <2>7, <2>12, <2>13
<1> QED  BY <1>3, <1>4 DEF IdentityDestroy

(* Every step of linked_list_init() preserves the inductive invariant. *)
LEMMA Invariant == ListSpec => []Inv
<1>1. Inv /\ [ListNext]_listVars => Inv'
  <2> SUFFICES ASSUME Inv, [ListNext]_listVars PROVE Inv'
    OBVIOUS
  <2>1. CASE UNCHANGED listVars
    <3>1. ListTypeOK' /\ WellLinked' /\ CursorLinked'
      BY Zenon, <2>1 DEF Inv, ListTypeOK, WellLinked, CursorLinked, Linked, Entries, listVars, linkVars
    <3>2. Ordered'
      BY Zenon, <2>1 DEF Inv, Ordered, Numbering, NotPassed, AtOrBefore, Argument, Entries, listVars, linkVars
    <3>3. Contents' /\ Progress'
      BY Zenon, <2>1 DEF Inv, Contents, Progress, Argument, listVars, linkVars
    <3> QED  BY <3>1, <3>2, <3>3 DEF Inv
  <2>2. CASE ListNext
    BY <2>2, CreateStep, ReadStep, DestroyStep DEF ListNext
  <2> QED  BY <2>1, <2>2
<1> QED  BY Initially, <1>1, PTL DEF ListSpec

(* The cache of src/Task_13/kll/kll.c changes where the memory comes from  *)
(* and nothing else: what Kll does, KllCache does.                         *)
LEMMA CacheIsKll == CacheSpec => ListSpec
<1>1. CacheInit => ListInit
  BY DEF CacheInit
<1>2. [CacheNext]_cacheVars => [ListNext]_listVars
  BY Zenon DEF CacheNext, KmemCacheCreate, LinkedListInit, LinkedListExit, cacheVars
<1> QED  BY <1>1, <1>2, PTL DEF CacheSpec, ListSpec

(* Whatever linked_list_init() has done, the list of identities is well    *)
(* linked: next and prev are inverse to each other and lead to no freed    *)
(* memory.  This holds for any amount of memory, with allocations failing  *)
(* at any time.                                                            *)
THEOREM LinksSound == ListSpec => []WellLinked
<1>1. Inv => WellLinked
  BY DEF Inv
<1> QED  BY Invariant, <1>1, PTL

(* The type invariant of the list and of linked_list_init(). *)
THEOREM KllTypeCorrect == ListSpec => []ListTypeOK
<1>1. Inv => ListTypeOK
  BY DEF Inv
<1> QED  BY Invariant, <1>1, PTL

(* Between two calls the entries in use carry exactly the ids created and  *)
(* not destroyed: identity_destroy() misses no entry although it deletes   *)
(* the one it stands on, and a failed kmalloc() leaves nothing behind.     *)
THEOREM ListHoldsPresent == ListSpec => []NothingLeaks
<1>1. Inv => NothingLeaks
  BY DEF Inv, NothingLeaks, Contents
<1> QED  BY Invariant, <1>1, PTL

(* identity_find() returns an identity with the id it was asked for, and   *)
(* NULL only if no such identity is on the list.                           *)
THEOREM FindIsExact == ListSpec => FindExact
<1> DEFINE Found == IF Argument \in present THEN temp' \in allocated /\ id[temp'] = Argument
                                            ELSE temp' = NULL
<1>1. Inv /\ [ListNext]_listVars => [Calling("find") /\ call' # call => Found]_listVars
  <2> SUFFICES ASSUME Inv, ListNext, Calling("find"), call' # call PROVE Found
    BY DEF listVars
  <2>1. Calls[call][1] # "create" /\ Calls[call][1] # "destroy"
    BY DEF Calling
  <2>2. IdentityFind /\ walking
    BY Zenon, <2>1 DEF ListNext, IdentityCreate, FirstEntry, IdentityFind, IdentityDestroy, DestroyReturns, Calling
  <2>3. CASE cursor = my_id_list
    <3>1. \A e \in allocated : id[e] # Argument
      BY <2>2, <2>3 DEF Inv, Ordered, NotPassed, AtOrBefore
    <3>2. Argument \notin present
      BY <2>1, <3>1 DEF Inv, Contents
    <3> QED  BY Zenon, <2>2, <2>3, <3>2 DEF IdentityFind
  <2>4. CASE cursor # my_id_list
    <3>1. cursor \in allocated /\ id[cursor] = Argument /\ temp' = cursor
      BY Zenon, <2>2, <2>4 DEF Inv, CursorLinked, Linked, IdentityFind
    <3> QED  BY <3>1 DEF Inv, Contents
  <2> QED  BY <2>3, <2>4
<1> QED  BY Invariant, <1>1, PTL DEF ListSpec, FindExact

(* When linked_list_exit() destroys the cache, every identity except the   *)
(* one with id 4 has been given back: the cache goes, or that identity is  *)
(* what keeps it.                                                          *)
THEOREM CacheOutcome == CacheSpec => []OnlyGenaRemains
<1>1. CacheInit => OnlyGenaRemains
  BY DEF CacheInit, OnlyGenaRemains
<1>2. Inv /\ OnlyGenaRemains /\ [CacheNext]_cacheVars => OnlyGenaRemains'
  <2> SUFFICES ASSUME Inv, OnlyGenaRemains, [CacheNext]_cacheVars PROVE OnlyGenaRemains'
    OBVIOUS
  <2>1. CASE UNCHANGED cacheVars
    BY Zenon, <2>1 DEF OnlyGenaRemains, cacheVars, listVars, linkVars
  <2>2. CASE KmemCacheCreate
    BY Zenon, <2>2 DEF KmemCacheCreate, OnlyGenaRemains
  <2>3. CASE LinkedListInit
    BY <2>3 DEF LinkedListInit, OnlyGenaRemains
  <2>4. CASE LinkedListExit
    <3>1. /\ allocated' = allocated /\ present' = present /\ id' = id
          /\ allocated = {} => kll_cache' = "destroyed"
          /\ allocated # {} => kll_cache' = "objects remaining"
      BY Zenon, <2>4 DEF LinkedListExit, listVars, linkVars
    <3>2. present \subseteq {4} /\ ~walking
      <4>1. call = 12
        <5>1. call = Len(Calls) + 1
          BY Zenon, <2>4 DEF LinkedListExit
        <5>2. Len(Calls) = 11
          BY CallsType
        <5> QED  BY <5>1, <5>2
      <4>2. 1 \notin present /\ 2 \notin present /\ 3 \notin present /\ ~walking
        BY <4>1 DEF Inv, Progress
      <4> QED  BY <4>2 DEF Inv, Progress
    <3>3. CASE allocated = {}
      <4>1. present = {}
        BY <3>2, <3>3 DEF Inv, Contents
      <4> QED  BY Zenon, <3>1, <3>3, <4>1 DEF OnlyGenaRemains
    <3>4. CASE allocated # {}
      <4>1. PICK e \in allocated : TRUE
        BY <3>4
      <4>2. id[e] = 4 /\ present = {4}
        BY Zenon, <3>2, <4>1 DEF Inv, Contents
      <4>3. \A m \in allocated : id[m] = 4
        BY <4>2 DEF Inv, Contents
      <4> QED  BY Zenon, <3>1, <3>4, <4>2, <4>3 DEF OnlyGenaRemains
    <3> QED  BY <3>3, <3>4
  <2> QED  BY <2>1, <2>2, <2>3, <2>4 DEF CacheNext
<1> QED  BY CacheIsKll, Invariant, <1>1, <1>2, PTL DEF CacheSpec
=============================================================================
