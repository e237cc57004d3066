--------------------------- MODULE IdentityDevice ---------------------------
(***************************************************************************)
(* src/Task_18/misc_device/misc_dev.c: a write to the misc device creates  *)
(* an identity and wakes a kernel thread, which takes the identities off   *)
(* the list and reports one of them.                                       *)
(*                                                                         *)
(* Nothing in this code takes a lock.  A list operation is therefore two   *)
(* steps, between which others may run; as soon as two list operations     *)
(* overlap, or a freed list entry has been reused when its next pointer is *)
(* read, or a task pointer that is not a live task is used, the outcome is *)
(* undefined: no step follows and nothing is claimed of it.  id_count++ is *)
(* a load and a store.  Of user_input only the extent matters.  It is      *)
(* declared const; in the module built from this source (misc_dev.ko) it   *)
(* is in .bss and can be written, and that is what is modelled.            *)
(***************************************************************************)
EXTENDS Integers, Sequences, FiniteSets, SequencesExt

CONSTANTS
  Writers,       \* the processes that write to the device
  LEN,           \* how much of user_input may be written (19 in the code)
  NAME_SIZE,     \* sizeof(name) of an identity (20 in the code)
  MaxWrites,     \* bound on the number of writes that succeed
  AllocMayFail,  \* may kmalloc() and kthread_run() fail?
  EarlyWriters,  \* those that may write before misc_init() is done
  LateWriters    \* those that may write while misc_exit() runs

ASSUME IdentityDeviceAssumption ==
  /\ LEN \in Nat \ {0}
  /\ NAME_SIZE = LEN + 1
  /\ MaxWrites \in Nat
  /\ AllocMayFail \in BOOLEAN
  /\ EarlyWriters \subseteq Writers
  /\ LateWriters \subseteq Writers

VARIABLES
  my_id_list,   \* the identities, newest first
  created,      \* how many identities have been created
  id_count,     \* the id of the next written identity
  id_get,       \* the identity in the static variable of identity_get()
  extent,       \* how far user_input has been written
  inside,       \* the processes inside a list operation
  undefined,    \* has the behaviour become undefined?
  tpc,          \* where the kernel thread is
  intr,         \* is the state of the kernel thread TASK_INTERRUPTIBLE?
  should_stop,  \* what kthread_should_stop() returns in it
  lost,         \* has a wake-up reached it unprepared since its last get?
  task,         \* eudyptula_thread: "NULL", "ERR" or "task"
  todo,         \* the calls misc_init() has still to make
  mod,          \* where the life of the module is
  i,            \* loop counter of misc_exit()
  wpc,          \* wpc[w]: where a write is
  writes,       \* how many writes have succeeded
  reg           \* reg[w]: the value of id_count that a write works with

listVars == <<my_id_list, created, id_get, inside>>
threadVars == <<tpc, intr, should_stop, lost>>
modVars == <<task, todo, mod, i>>
writeVars == <<id_count, extent, wpc, writes, reg>>
vars == <<listVars, undefined, threadVars, modVars, writeVars>>

(* The calls of misc_init(), in order. *)
InitCalls ==
  << <<"misc_register", 0>>, <<"kthread_run", 0>>, <<"assign", 0>>,
     <<"create", 1>>, <<"create", 2>>, <<"create", 3>>, <<"create", 4>>,
     <<"get", 0>>, <<"find", 3>>, <<"find", 42>>, <<"destroy", 2>>,
     <<"destroy", 1>>, <<"destroy", 10>>, <<"destroy", 42>>, <<"destroy", 3>> >>

Blank == [id |-> 0, serial |-> 0, written |-> FALSE]

Init ==
  /\ my_id_list = << >>
  /\ created = 0
  /\ id_count = 0
  /\ id_get = Blank
  /\ extent = 0
  /\ inside = {}
  /\ undefined = FALSE
  /\ tpc = "none"
  /\ intr = FALSE
  /\ should_stop = FALSE
  /\ lost = FALSE
  /\ task = "NULL"
  /\ todo = InitCalls
  /\ mod = "init"
  /\ i = 0
  /\ wpc = [w \in Writers |-> "idle"]
  /\ writes = 0
  /\ reg = [w \in Writers |-> 0]

-----------------------------------------------------------------------------
(* Process x begins or ends a list operation. *)
Enter(x) ==
  /\ inside' = inside \cup {x}
  /\ undefined' = (inside # {})
Leave(x) ==
  /\ x \in inside
  /\ inside' = inside \ {x}

(* list_for_each_entry() goes on from an entry that was just freed: its    *)
(* next pointer is normally intact, but the memory may have been reused.   *)
ReadsFreed(some) == undefined' \in {FALSE, some}

(* Mutant: id_get is not static, and blank when the list is empty. *)
GetBlank ==
  /\ id_get' = IF my_id_list = << >> THEN Blank ELSE Last(my_id_list)
  /\ my_id_list' = << >>
  /\ ReadsFreed(my_id_list # << >>)
  /\ UNCHANGED created

(* identity_get(): every identity is copied to id_get and deleted in turn, *)
(* so that the last one of the list, the oldest, remains in id_get.        *)
IdentityGet ==
  /\ id_get' = IF my_id_list = << >> THEN id_get ELSE Last(my_id_list)
  /\ my_id_list' = << >>
  /\ ReadsFreed(my_id_list # << >>)
  /\ UNCHANGED created

(* identity_create(), from list_add() on. *)
IdentityCreate(id, written) ==
  /\ created' = created + 1
  /\ my_id_list' = <<[id |-> id, serial |-> created + 1, written |-> written]>> \o my_id_list
  /\ UNCHANGED <<id_get, undefined>>

(* identity_find() changes nothing. *)
IdentityFind == UNCHANGED <<my_id_list, created, id_get, undefined>>

(* What remains of the list when only these positions are kept. *)
Kept(keep) ==
  LET At(n) == CHOOSE k \in keep : Cardinality({j \in keep : j <= k}) = n
  IN  [n \in 1 .. Cardinality(keep) |-> my_id_list[At(n)]]

(* identity_destroy(): every identity with this id is deleted. *)
IdentityDestroy(id) ==
  LET keep == {k \in DOMAIN my_id_list : my_id_list[k].id # id} IN
  /\ my_id_list' = Kept(keep)
  /\ ReadsFreed(keep # DOMAIN my_id_list)
  /\ UNCHANGED <<created, id_get>>

-----------------------------------------------------------------------------
Thread(here, there) == tpc = here /\ tpc' = there

(* kthread_fn(): temp1 = kmalloc(); without memory the thread exits. *)
Kmalloc ==
  /\ \/ Thread("kmalloc", "prepare")
     \/ AllocMayFail /\ Thread("kmalloc", "exited")
  /\ UNCHANGED <<listVars, undefined, intr, should_stop, lost, modVars, writeVars>>

(* kthread_fn(): prepare_to_wait() *)
PrepareToWait ==
  /\ Thread("prepare", "test")
  /\ intr' = TRUE
  /\ UNCHANGED <<listVars, undefined, should_stop, lost, modVars, writeVars>>

(* Mutant: the thread marks itself as sleeping only when it goes to sleep, *)
(* after its last look around.                                             *)
MarkLate ==
  /\ Thread("test", "schedule")
  /\ intr' = TRUE
  /\ UNCHANGED <<listVars, undefined, should_stop, lost, modVars, writeVars>>

(* kthread_fn(): if (!kthread_should_stop()) schedule() *)
TestStop ==
  /\ Thread("test", IF should_stop THEN "awake" ELSE "schedule")
  /\ UNCHANGED <<listVars, undefined, intr, should_stop, lost, modVars, writeVars>>

(* schedule() returns at once or when the thread has been woken. *)
Schedule ==
  /\ Thread("schedule", "awake")
  /\ ~intr
  /\ UNCHANGED <<listVars, undefined, intr, should_stop, lost, modVars, writeVars>>

(* Mutant: the thread does not leave its loop. *)
AwakeAlways ==
  /\ Thread("awake", "get")
  /\ Enter("thread")
  /\ UNCHANGED <<my_id_list, created, id_get, intr, should_stop, lost, modVars, writeVars>>

(* kthread_fn(): if (kthread_should_stop()) the thread returns, else it    *)
(* enters identity_get().                                                  *)
Awake ==
  /\ \/ /\ should_stop
        /\ Thread("awake", "exited")
        /\ UNCHANGED <<inside, undefined>>
     \/ /\ ~should_stop
        /\ Thread("awake", "get")
        /\ Enter("thread")
  /\ UNCHANGED <<my_id_list, created, id_get, intr, should_stop, lost, modVars, writeVars>>

(* kthread_fn(): *temp1 = identity_get() *)
Get ==
  /\ Thread("get", "busy")
  /\ Leave("thread")
  /\ IdentityGet
  /\ lost' = FALSE
  /\ UNCHANGED <<intr, should_stop, modVars, writeVars>>

(* kthread_fn(): the five seconds are over (a wake-up does not end them),  *)
(* the identity is printed and temp1 is freed.                             *)
Report ==
  /\ Thread("busy", "kmalloc")
  /\ UNCHANGED <<listVars, undefined, intr, should_stop, lost, modVars, writeVars>>

ThreadStep ==
  Kmalloc \/ PrepareToWait \/ TestStop \/ Schedule \/ Awake \/ Get \/ Report

-----------------------------------------------------------------------------
Write(w, here, there) == wpc[w] = here /\ wpc' = [wpc EXCEPT ![w] = there]

(* The device can be written while it is registered. *)
Writable(w) ==
  \/ w \in EarlyWriters /\ mod = "init" /\ todo # InitCalls
  \/ mod = "live"
  \/ w \in LateWriters /\ mod \in {"destroy", "stop", "wait", "deregister"}

(* Mutant: one byte too many is accepted. *)
CopyTooMuch(w, f_pos, count) ==
  LET end == IF f_pos + count > LEN + 1 THEN LEN + 1 ELSE f_pos + count IN
  /\ Writable(w)
  /\ f_pos < LEN
  /\ \/ /\ Write(w, "idle", "load")
        /\ writes < MaxWrites /\ writes' = writes + 1
     \/ wpc[w] = "idle" /\ UNCHANGED <<wpc, writes>>
  /\ extent' = IF end > extent THEN end ELSE extent
  /\ UNCHANGED <<listVars, undefined, threadVars, modVars, id_count, reg>>

(* simple_dev_write(): from offset f_pos on at most LEN bytes are copied   *)
(* to user_input, or some of them are and the call fails.  At offset LEN   *)
(* nothing is done; a write of no bytes is a write all the same.           *)
CopyFromUser(w, f_pos, count) ==
  LET end == IF f_pos + count > LEN THEN LEN ELSE f_pos + count IN
  /\ Writable(w)
  /\ f_pos < LEN
  /\ \/ /\ Write(w, "idle", "load")
        /\ writes < MaxWrites /\ writes' = writes + 1
     \/ wpc[w] = "idle" /\ UNCHANGED <<wpc, writes>>
  /\ extent' = IF end > extent THEN end ELSE extent
  /\ UNCHANGED <<listVars, undefined, threadVars, modVars, id_count, reg>>

(* identity_create(user_input, id_count) is called; it fails when the name *)
(* is too long or there is no memory.  The name ends at its first NUL.     *)
LoadId(w) ==
  /\ \E strlen \in 0 .. extent :
       \/ strlen + 1 <= NAME_SIZE /\ Write(w, "load", "list_add")
       \/ (strlen + 1 > NAME_SIZE \/ AllocMayFail) /\ Write(w, "load", "increment")
  /\ reg' = [reg EXCEPT ![w] = id_count]
  /\ UNCHANGED <<listVars, undefined, threadVars, modVars, id_count, extent, writes>>

EnterListAdd(w) ==
  /\ Write(w, "list_add", "adding")
  /\ Enter(w)
  /\ UNCHANGED <<my_id_list, created, id_get, threadVars, modVars, id_count, extent, writes, reg>>

ListAdd(w) ==
  /\ Write(w, "adding", "increment")
  /\ Leave(w)
  /\ IdentityCreate(reg[w], TRUE)
  /\ reg' = [reg EXCEPT ![w] = 0]
  /\ UNCHANGED <<threadVars, modVars, id_count, extent, writes>>

(* id_count++ *)
IncrementLoad(w) ==
  /\ Write(w, "increment", "store")
  /\ reg' = [reg EXCEPT ![w] = id_count]
  /\ UNCHANGED <<listVars, undefined, threadVars, modVars, id_count, extent, writes>>

IncrementStore(w) ==
  /\ Write(w, "store", "wake")
  /\ id_count' = reg[w] + 1
  /\ reg' = [reg EXCEPT ![w] = 0]
  /\ UNCHANGED <<listVars, undefined, threadVars, modVars, extent, writes>>

(* What waking or stopping the thread that eudyptula_thread points to may  *)
(* do: nothing good when there is no thread, and when it has exited its    *)
(* task structure may be gone.                                             *)
UseTask ==
  undefined' \in (IF task # "task" THEN {TRUE}
                  ELSE IF tpc = "exited" THEN {TRUE, FALSE}
                  ELSE {FALSE})

(* wake_up_process(eudyptula_thread); the wake-up is lost on a thread that *)
(* has not prepared to wait: it has just been started, or it has taken the *)
(* list and is not yet waiting again.                                      *)
WakeUpProcess(w) ==
  /\ Write(w, "wake", "idle")
  /\ UseTask
  /\ intr' = FALSE
  /\ lost' = (lost \/ tpc \in {"busy", "kmalloc", "prepare"})
  /\ UNCHANGED <<listVars, tpc, should_stop, modVars, id_count, extent, writes, reg>>

(* A write to the device: the offset is that of the file, which is 0 when  *)
(* it has just been opened and moves with every write, or given to         *)
(* pwrite(): any offset may occur at any time.                             *)
WriteStep(w) ==
  \/ \E f_pos \in 0 .. LEN, count \in 0 .. LEN + 1 : CopyFromUser(w, f_pos, count)
  \/ LoadId(w)
  \/ EnterListAdd(w)
  \/ ListAdd(w)
  \/ IncrementLoad(w)
  \/ IncrementStore(w)
  \/ WakeUpProcess(w)

-----------------------------------------------------------------------------
(* misc_init() has made its next call. *)
Done ==
  /\ todo' = Tail(todo)
  /\ mod' = IF Len(todo) = 1 THEN "live" ELSE "init"

(* misc_init(): misc_register(); when it fails the module is not loaded. *)
MiscRegister ==
  /\ mod = "init" /\ Head(todo)[1] = "misc_register"
  /\ Done \/ (mod' = "unloaded" /\ UNCHANGED todo)
  /\ UNCHANGED <<listVars, undefined, threadVars, task, i, writeVars>>

(* misc_init(): eudyptula_thread = kthread_run(); a failure yields an      *)
(* error pointer, which the test that follows takes for a thread.          *)
KthreadRun ==
  /\ mod = "init" /\ Head(todo)[1] = "kthread_run"
  /\ \/ Thread("none", "kmalloc")
     \/ AllocMayFail /\ UNCHANGED tpc
  /\ Done
  /\ UNCHANGED <<listVars, undefined, intr, should_stop, lost, task, i, writeVars>>

AssignThread ==
  /\ mod = "init" /\ Head(todo)[1] = "assign"
  /\ task' = IF tpc = "none" THEN "ERR" ELSE "task"
  /\ Done
  /\ UNCHANGED <<listVars, undefined, threadVars, i, writeVars>>

(* misc_init() enters a list operation, or finds no memory for one. *)
InitEnter ==
  /\ mod = "init" /\ Head(todo)[1] \in {"create", "get", "find", "destroy"}
  /\ "mod" \notin inside
  /\ \/ Enter("mod") /\ UNCHANGED <<todo, mod>>
     \/ /\ AllocMayFail /\ Head(todo)[1] = "create"
        /\ Done /\ UNCHANGED <<inside, undefined>>
  /\ UNCHANGED <<my_id_list, created, id_get, threadVars, task, i, writeVars>>

(* misc_init() completes the list operation. *)
InitLeave ==
  /\ mod = "init"
  /\ Leave("mod")
  /\ LET op == Head(todo)[1]
         id == Head(todo)[2]
     IN  \/ op = "create" /\ IdentityCreate(id, FALSE)
         \/ op = "get" /\ IdentityGet
         \/ op = "find" /\ IdentityFind
         \/ op = "destroy" /\ IdentityDestroy(id)
  /\ Done
  /\ UNCHANGED <<threadVars, task, i, writeVars>>

(* rmmod: misc_exit() is entered. *)
MiscExit ==
  /\ mod = "live"
  /\ \A w \in Writers \ LateWriters : wpc[w] = "idle"
  /\ mod' = "destroy"
  /\ UNCHANGED <<listVars, undefined, threadVars, task, todo, i, writeVars>>

(* misc_exit(): i < id_count; after the loop "List destroyed." is logged. *)
ExitTest ==
  /\ mod = "destroy"
  /\ "mod" \notin inside
  /\ IF i < id_count
       THEN Enter("mod") /\ UNCHANGED mod
       ELSE mod' = "stop" /\ UNCHANGED <<inside, undefined>>
  /\ UNCHANGED <<my_id_list, created, id_get, threadVars, task, todo, i, writeVars>>

(* misc_exit(): identity_destroy(i) *)
ExitDestroy ==
  /\ mod = "destroy"
  /\ Leave("mod")
  /\ IdentityDestroy(i)
  /\ i' = i + 1
  /\ UNCHANGED <<threadVars, task, todo, mod, writeVars>>

(* misc_exit(): kthread_stop() requests the stop and wakes the thread up. *)
KthreadStop ==
  /\ mod = "stop"
  /\ UseTask
  /\ should_stop' = TRUE
  /\ intr' = FALSE
  /\ mod' = "wait"
  /\ UNCHANGED <<listVars, tpc, lost, task, todo, i, writeVars>>

(* kthread_stop() returns when the thread has exited. *)
StopReturns ==
  /\ mod = "wait"
  /\ tpc = "exited"
  /\ mod' = "deregister"
  /\ UNCHANGED <<listVars, undefined, threadVars, task, todo, i, writeVars>>

(* misc_exit(): misc_deregister(), after which the code is unloaded, under *)
(* the feet of a write that is still running.                              *)
MiscDeregister ==
  /\ mod = "deregister"
  /\ mod' = "unloaded"
  /\ undefined' = \E w \in Writers : wpc[w] # "idle"
  /\ UNCHANGED <<listVars, threadVars, task, todo, i, writeVars>>

InitStep == MiscRegister \/ KthreadRun \/ AssignThread \/ InitEnter \/ InitLeave
ExitStep == ExitTest \/ ExitDestroy \/ KthreadStop \/ StopReturns \/ MiscDeregister

Over == undefined \/ mod = "unloaded"

Next ==
  \/ ~Over /\ ThreadStep
  \/ ~Over /\ \E w \in Writers : WriteStep(w)
  \/ ~Over /\ (InitStep \/ MiscExit \/ ExitStep)
  \/ Over /\ UNCHANGED vars

Spec == Init /\ [][Next]_vars

(* The thread, and the process that removes the module, are scheduled      *)
(* again and again, and the five seconds pass.                             *)
FairSpec ==
  /\ Spec
  /\ WF_vars(~Over /\ ThreadStep)
  /\ WF_vars(~Over /\ ExitStep)

-----------------------------------------------------------------------------
Identity == [id : Nat, serial : Nat, written : BOOLEAN]

(* Types; in particular user_input is never written past the last byte     *)
(* but one, so that its string always ends inside it (the clamp of         *)
(* simple_dev_write(), at any offset).                                     *)
TypeOK ==
  /\ my_id_list \in Seq(Identity)
  /\ created \in Nat
  /\ id_count \in Nat
  /\ id_get \in Identity
  /\ extent \in 0 .. LEN
  /\ inside \subseteq Writers \cup {"thread", "mod"}
  /\ undefined \in BOOLEAN
  /\ tpc \in {"none", "kmalloc", "prepare", "test", "schedule", "awake", "get", "busy", "exited"}
  /\ {intr, should_stop, lost} \subseteq BOOLEAN
  /\ task \in {"NULL", "ERR", "task"}
  /\ \E k \in 1 .. Len(InitCalls) + 1 : todo = SubSeq(InitCalls, k, Len(InitCalls))
  /\ mod \in {"init", "live", "destroy", "stop", "wait", "deregister", "unloaded"}
  /\ i \in Nat
  /\ wpc \in [Writers -> {"idle", "load", "list_add", "adding", "increment", "store", "wake"}]
  /\ writes \in 0 .. MaxWrites
  /\ reg \in [Writers -> Nat]

(* The thread never goes back to an older identity: what identity_get()    *)
(* leaves in its static variable is either what was there or was created   *)
(* later.                                                                  *)
InOrder == [][id_get' # id_get => id_get'.serial > id_get.serial]_id_get

(* The identities on the list that a write has put there. *)
Pending == {k \in DOMAIN my_id_list : my_id_list[k].written}

Asleep == tpc = "schedule" /\ intr
WakeUpUnderWay == \E w \in Writers : wpc[w] \in {"increment", "store", "wake"}

(* The thread sleeps on while there is something to report only because a  *)
(* wake-up came when it was not prepared for it: before it had called      *)
(* prepare_to_wait() for the first time, or between identity_get() and the *)
(* next prepare_to_wait().  None is lost between prepare_to_wait() and     *)
(* schedule(), nor between waking up and identity_get().                   *)
WakeUpLostOnlyUnprepared ==
  (Pending # {} /\ Asleep /\ ~WakeUpUnderWay /\ ~undefined) => lost

(* misc_exit() comes to its end unless writes go on for ever, which keep   *)
(* id_count ahead of its loop: the loop is finite, and kthread_stop() does *)
(* not wait for ever for a thread that is about to sleep or in its five    *)
(* seconds.                                                                *)
ExitEnds == <>[][id_count' = id_count]_vars => (mod = "destroy" ~> Over)
=============================================================================
