------------------------------- MODULE Files -------------------------------
(***************************************************************************)
(* The files "id" and "foo" and the modules that make them: the misc       *)
(* devices of src/Task_6/ and src/Task_17/misc_device/, the debugfs        *)
(* directory of src/Task_8/ and the sysfs directory of src/Task_9/.        *)
(*                                                                         *)
(* The handlers are variations on one theme: take the mutex, look at the   *)
(* offset, clamp the count, copy, judge what is in the buffer, give the    *)
(* mutex back.  A handler is therefore a record that says which of this it *)
(* does, and the steps are shared.  A copy is one step per byte and may    *)
(* fault at any of them.  The handlers of sysfs get a kernel buffer of one *)
(* page: they do not fault, and they know no offset.  A copy that goes on  *)
(* behind the end of its array, as that of a handler may which does not    *)
(* clamp, has an undefined outcome.                                        *)
(*                                                                         *)
(* A byte is 1 or 0: in "id" the byte author_id has at that place or       *)
(* another one, in "foo" a character or NUL.  All bytes of one write are   *)
(* the same.  The two files share nothing but the life of the module; all  *)
(* processes of a behaviour use the same one.                              *)
(*                                                                         *)
(* The misc devices declare user_input const, so that C leaves undefined   *)
(* what a write to it does.  Modelled is what the modules built from it do *)
(* (misc_dev.ko, beside the sources): the array is in .bss, where it can   *)
(* be written, and strncmp() is called for every write.                    *)
(***************************************************************************)
EXTENDS Integers, Sequences

CONSTANTS
  Procs,   \* the processes, each with at most one file open
  Users,   \* Users[f]: the processes that use file f
  AUTHOR,  \* how many bytes of the id are compared (13 in the code)
  SIZE,    \* the size of user_input and of foo_page.page (4096 in the code)
  None     \* no process, no file

ASSUME FilesAssumption ==
  /\ AUTHOR \in Nat \ {0} /\ SIZE \in Nat /\ AUTHOR < SIZE
  /\ Users \in [{"id", "foo"} -> SUBSET Procs]
  /\ None \notin Procs \cup {"id", "foo"}

VARIABLES
  driver,   \* the module: "misc_dev", "misc_thread", "debugfs" or "sysfs"
  target,   \* the file the processes use
  todo,     \* what its init function still has to do
  mod,      \* "init", "live", "failed", "exited" or "undefined"
  files,    \* the files that exist
  ready,    \* has mutex_init() been called?
  lock,     \* the process that holds foo_page.lock, or None
  data,     \* data.id is user_input, data.foo is foo_page.page
  file,     \* file[p]: the file p has open, or None
  f_pos,    \* f_pos[p]: its offset
  pc,       \* pc[p]: where a call of p is
  call,     \* call[p]: its handler and local variables, <<>> between calls
  verdict,  \* verdict[p]: what the last write of p was found to be
  own       \* own[p]: the bytes of the id that p has written since it opened
            \* the file, as long as nobody else wrote (a history variable)

modVars == <<driver, target, todo, mod, files, ready>>
vars == <<modVars, lock, data, file, f_pos, pc, call, verdict, own>>

Offsets == 0 .. SIZE - 1
author_id_size == AUTHOR + 1
Nothing == [x \in 0 .. AUTHOR - 1 |-> "none"]

-----------------------------------------------------------------------------
(* The handlers.  limit: the offset from which on they return 0, if they   *)
(* know one, and the size of the array they read, write or fill            *)

simple_dev_read ==
  [file |-> "id", op |-> "read", locks |-> FALSE, clamps |-> TRUE, limit |-> author_id_size]

simple_dev_write ==
  [file |-> "id", op |-> "write", locks |-> FALSE, clamps |-> TRUE, limit |-> SIZE]

(* The write of Task 17 is the one of Task 6. *)
thread_dev_write ==
  [file |-> "id", op |-> "write", locks |-> FALSE, clamps |-> TRUE, limit |-> SIZE]

id_read ==
  [file |-> "id", op |-> "read", locks |-> FALSE, clamps |-> TRUE, limit |-> author_id_size]
id_write ==
  [file |-> "id", op |-> "write", locks |-> FALSE, clamps |-> FALSE, limit |-> SIZE]

(* Mutant: the count is not clamped. *)
foo_read_unclamped ==
  [file |-> "foo", op |-> "read", locks |-> TRUE, clamps |-> FALSE, limit |-> SIZE]

foo_read ==
  [file |-> "foo", op |-> "read", locks |-> TRUE, clamps |-> TRUE, limit |-> SIZE]
foo_write ==
  [file |-> "foo", op |-> "write", locks |-> TRUE, clamps |-> FALSE, limit |-> SIZE]

(* strncpy() to the start of user_input *)
id_store ==
  [file |-> "id", op |-> "store", locks |-> FALSE, clamps |-> FALSE, limit |-> SIZE]

(* Mutant: sprintf() without the mutex. *)
foo_show_unlocked ==
  [file |-> "foo", op |-> "show", locks |-> FALSE, clamps |-> FALSE, limit |-> SIZE]

(* sprintf("%s\n") of the page to the buffer of sysfs *)
foo_show ==
  [file |-> "foo", op |-> "show", locks |-> TRUE, clamps |-> FALSE, limit |-> SIZE]

(* strncpy() to the start of the page *)
foo_store ==
  [file |-> "foo", op |-> "store", locks |-> TRUE, clamps |-> FALSE, limit |-> SIZE]

Handlers ==
  [misc_dev    |-> {simple_dev_read, simple_dev_write},
   misc_thread |-> {thread_dev_write},
   debugfs     |-> {id_read, id_write, foo_read, foo_write},
   sysfs       |-> {id_store, foo_show, foo_store}]

(* The init functions: what they do one after the other. *)
misc_init == <<"id">>
thread_init == <<"id">>

(* Mutant: foo is there before its mutex is. *)
my_debugfs_init_early == <<"eudyptula", "id", "jiffies", "foo", "mutex_init">>

my_debugfs_init == <<"eudyptula", "id", "jiffies", "mutex_init", "foo">>
my_sysfs_init == <<"eudyptula", "id", "jiffies", "foo">>

InitFunctions ==
  [misc_dev |-> misc_init, misc_thread |-> thread_init,
   debugfs |-> my_debugfs_init, sysfs |-> my_sysfs_init]

Init ==
  /\ driver \in DOMAIN InitFunctions
  /\ target \in {h.file : h \in Handlers[driver]}
  /\ todo = InitFunctions[driver]
  /\ mod = "init"
  /\ files = {}
  /\ ready = FALSE
  /\ lock = None
  /\ data = [id |-> [x \in Offsets |-> 0], foo |-> [x \in Offsets |-> 0]]
  /\ file = [p \in Procs |-> None]
  /\ f_pos = [p \in Procs |-> 0]
  /\ pc = [p \in Procs |-> "idle"]
  /\ call = [p \in Procs |-> <<>>]
  /\ verdict = [p \in Procs |-> "none"]
  /\ own = [p \in Procs |-> Nothing]

procVars == <<data, file, f_pos, pc, call, verdict, own>>
AllIdle == \A p \in Procs : pc[p] = "idle"

(* The next thing the init function does: it calls mutex_init(), or makes  *)
(* a file or directory; if that fails it removes all of them, which waits  *)
(* for the calls that are under way.                                       *)
InitStep ==
  /\ mod = "init"
  /\ \/ /\ IF Head(todo) = "mutex_init"
             THEN ready' = TRUE /\ lock' = None /\ UNCHANGED files
             ELSE files' = files \cup {Head(todo)} /\ UNCHANGED <<ready, lock>>
        /\ todo' = Tail(todo)
        /\ mod' = IF Tail(todo) = <<>> THEN "live" ELSE "init"
     \/ /\ Head(todo) # "mutex_init"
        /\ AllIdle
        /\ files' = {} /\ todo' = <<>> /\ mod' = "failed"
        /\ UNCHANGED <<ready, lock>>
  /\ UNCHANGED <<driver, target, procVars>>

Leave(to) ==
  /\ mod = "live"
  /\ files' = {}
  /\ mod' = to
  /\ UNCHANGED <<driver, target, todo, ready, lock, procVars>>

(* my_debugfs_exit(): an open file, which has an owner, keeps the module. *)
MyDebugfsExit == driver = "debugfs" /\ (\A p \in Procs : file[p] = None) /\ Leave("exited")

(* my_sysfs_exit(): kobject_put() waits for the calls that are under way. *)
MySysfsExit == driver = "sysfs" /\ AllIdle /\ Leave("exited")

(* misc_exit(): the file operations have no owner; who has the file open   *)
(* is left with code that is gone.                                         *)
MiscExit ==
  /\ driver \in {"misc_dev", "misc_thread"}
  /\ Leave(IF \A p \in Procs : file[p] = None THEN "exited" ELSE "undefined")

-----------------------------------------------------------------------------
Goto(p, here, there) == pc[p] = here /\ pc' = [pc EXCEPT ![p] = there]
Return(p) == pc' = [pc EXCEPT ![p] = "idle"] /\ call' = [call EXCEPT ![p] = <<>>]

(* simple_dev_open(), id_open(), foo_open() *)
Open(p) ==
  /\ pc[p] = "idle" /\ file[p] = None
  /\ target \in files /\ p \in Users[target]
  /\ file' = [file EXCEPT ![p] = target]
  /\ UNCHANGED <<modVars, lock, data, f_pos, pc, call, verdict, own>>

Close(p) ==
  /\ pc[p] = "idle" /\ file[p] # None
  /\ file' = [file EXCEPT ![p] = None]
  /\ f_pos' = [f_pos EXCEPT ![p] = 0]
  /\ verdict' = [verdict EXCEPT ![p] = "none"]
  /\ own' = [own EXCEPT ![p] = Nothing]
  /\ UNCHANGED <<modVars, lock, data, pc, call>>

Writes(h) == h.op \in {"write", "store"}
Sysfs(h) == h.op \in {"show", "store"}

(* The counts a handler may be called with: sysfs offers a page to fill,   *)
(* or hands over what was written, at least a byte and at most a page.     *)
Counts(h) ==
  CASE h.op = "show" -> {SIZE}
    [] h.op = "store" -> 1 .. SIZE
    [] OTHER -> 0 .. SIZE + 1

(* A process calls read(), or write() with n times the same byte. *)
Call(p, h, n, byte) ==
  LET pos == IF Sysfs(h) THEN 0 ELSE f_pos[p]
      buf == [x \in Offsets |-> byte]
  IN
  /\ Writes(h) \/ byte = 0
  /\ pc[p] = "idle" /\ file[p] = h.file /\ h.file \in files
  /\ pc' = [pc EXCEPT ![p] = IF h.locks THEN "lock" ELSE "check"]
  /\ call' = [call EXCEPT ![p] = [h |-> h, pos |-> pos, count |-> n, done |-> 0, buf |-> buf]]
  /\ UNCHANGED <<modVars, lock, data, file, f_pos, verdict, own>>

(* mutex_lock_interruptible(), or -ERESTARTSYS.  A mutex that was never    *)
(* initialized, but is all zero, can be taken as long as nobody has to     *)
(* wait for it: what joining its list of waiters does is undefined.        *)
MutexLockInterruptible(p) ==
  /\ pc[p] = "lock"
  /\ \/ Goto(p, "lock", "check") /\ lock = None /\ lock' = p /\ UNCHANGED <<call, mod>>
     \/ Return(p) /\ UNCHANGED <<lock, mod>>
     \/ lock # None /\ ~ready /\ mod' = "undefined" /\ UNCHANGED <<pc, call, lock>>
  /\ UNCHANGED <<driver, target, todo, files, ready, data, file, f_pos, verdict, own>>

(* What is left of a call that does not copy (any more). *)
Leaving(p) ==
  IF call[p].h.locks THEN pc' = [pc EXCEPT ![p] = "unlock"] /\ UNCHANGED call ELSE Return(p)

(* strlen(foo_page.page), or the whole page if it has no terminator *)
Strlen ==
  CHOOSE n \in 0 .. SIZE :
    /\ \A x \in 0 .. n - 1 : data.foo[x] # 0
    /\ n < SIZE => data.foo[n] = 0

(* How many bytes the handler copies; sprintf() adds a newline and a NUL. *)
Count(p) ==
  LET c == call[p] IN
  CASE c.h.op = "show" -> Strlen + 2
    [] c.h.clamps /\ c.pos + c.count > c.h.limit -> c.h.limit - c.pos
    [] OTHER -> c.count

(* The offset is looked at and the count is clamped. *)
CheckOffset(p) ==
  /\ pc[p] = "check"
  /\ \/ call[p].pos >= call[p].h.limit /\ Leaving(p)
     \/ /\ call[p].pos < call[p].h.limit
        /\ Goto(p, "check", "copy")
        /\ call' = [call EXCEPT ![p].count = Count(p)]
  /\ UNCHANGED <<modVars, lock, data, file, f_pos, verdict, own>>

(* What remains of the history of q when p writes a byte at x. *)
Owned(q, p, x, byte) ==
  IF q # p THEN Nothing
  ELSE [y \in 0 .. AUTHOR - 1 |-> IF y = x THEN (IF byte = 1 THEN "good" ELSE "bad") ELSE own[q][y]]

(* Byte x of what a read returns: author_id, the page, or with foo_show()  *)
(* the string in the page, a newline and a NUL                             *)
Source(c, x) ==
  CASE target = "id" -> 1
    [] c.h.op = "show" /\ x = c.count - 2 -> 1
    [] c.h.op = "show" /\ x = c.count - 1 -> 0
    [] OTHER -> data.foo[x]

(* copy_to_user(), copy_from_user(), strncpy() or sprintf(): one byte *)
CopyByte(p) ==
  LET c == call[p]
      x == c.pos + c.done
  IN
  /\ pc[p] = "copy" /\ c.done < c.count
  /\ x < c.h.limit
  /\ IF Writes(c.h)
       THEN /\ data' = [data EXCEPT ![target][x] = c.buf[c.done]]
            /\ own' = IF target = "id" THEN [q \in Procs |-> Owned(q, p, x, c.buf[c.done])] ELSE own
            /\ call' = [call EXCEPT ![p].done = @ + 1]
       ELSE /\ call' = [call EXCEPT ![p].done = @ + 1, ![p].buf[c.done] = Source(c, x)]
            /\ UNCHANGED <<data, own>>
  /\ UNCHANGED <<modVars, lock, file, f_pos, pc, verdict>>

(* One byte behind the end of the array *)
CopyBehind(p) ==
  /\ pc[p] = "copy" /\ call[p].done < call[p].count
  /\ call[p].pos + call[p].done >= call[p].h.limit
  /\ mod' = "undefined"
  /\ UNCHANGED <<driver, target, todo, files, ready, lock, procVars>>

(* Mutant: -EFAULT is returned at once. *)
FaultReturns(p) ==
  /\ pc[p] = "copy" /\ ~Sysfs(call[p].h) /\ call[p].done < call[p].count
  /\ Return(p)
  /\ verdict' = [verdict EXCEPT ![p] = "none"]
  /\ UNCHANGED <<modVars, lock, data, file, f_pos, own>>

(* -EFAULT: the offset stays, and so does what has been copied. *)
Fault(p) ==
  /\ pc[p] = "copy" /\ ~Sysfs(call[p].h) /\ call[p].done < call[p].count
  /\ Leaving(p)
  /\ verdict' = [verdict EXCEPT ![p] = "none"]
  /\ UNCHANGED <<modVars, lock, data, file, f_pos, own>>

(* Mutant: one byte is not compared. *)
StrncmpShort == \A x \in 0 .. AUTHOR - 2 : data.id[x] = 1

(* strncmp(author_id, user_input, 13) == 0 *)
Strncmp == \A x \in 0 .. AUTHOR - 1 : data.id[x] = 1

(* All is copied: the offset moves on, and a write to "id" is judged. *)
CopyDone(p) ==
  LET c == call[p] IN
  /\ pc[p] = "copy" /\ c.done = c.count
  /\ f_pos' = IF Sysfs(c.h) THEN f_pos ELSE [f_pos EXCEPT ![p] = @ + c.count]
  /\ verdict' = IF target = "id" /\ Writes(c.h)
                  THEN [verdict EXCEPT ![p] = IF Strncmp THEN "correct" ELSE "incorrect"]
                  ELSE verdict
  /\ Leaving(p)
  /\ UNCHANGED <<modVars, lock, data, file, own>>

(* mutex_unlock() and return *)
MutexUnlock(p) ==
  /\ pc[p] = "unlock"
  /\ Return(p)
  /\ lock' = None
  /\ UNCHANGED <<modVars, data, file, f_pos, verdict, own>>

CallStep(p) == CheckOffset(p) \/ CopyByte(p) \/ CopyBehind(p) \/ CopyDone(p) \/ MutexUnlock(p)

Next ==
  /\ mod # "undefined"
  /\ \/ InitStep \/ MyDebugfsExit \/ MySysfsExit \/ MiscExit
     \/ \E p \in Procs :
          \/ Open(p) \/ Close(p) \/ MutexLockInterruptible(p) \/ CallStep(p) \/ Fault(p)
          \/ \E h \in Handlers[driver] : \E n \in Counts(h), byte \in {0, 1} : Call(p, h, n, byte)

Spec == Init /\ [][Next]_vars

(* A call that can go on does so.  Strong fairness of the lock: a process  *)
(* that waits for a mutex gets it if it is free again and again.           *)
FairSpec ==
  /\ Spec
  /\ \A p \in Procs :
       /\ WF_vars(mod # "undefined" /\ CallStep(p))
       /\ SF_vars(mod # "undefined" /\ lock = None /\ MutexLockInterruptible(p))

-----------------------------------------------------------------------------
(* Only id_write() and foo_write() of the debugfs module, which do not     *)
(* clamp their counts, and foo_show(), when the string in the page leaves  *)
(* no room for the newline and the NUL, can copy behind the end of an      *)
(* array.  No other handler does, wherever the offset of the file is,      *)
(* although one offset serves reads and writes with different bounds; and  *)
(* the offset itself stays inside.                                         *)
OverrunOnlyBy ==
  \A p \in Procs :
    /\ f_pos[p] <= SIZE
    /\ pc[p] = "copy" /\ call[p].pos + call[p].count > call[p].h.limit =>
         \/ call[p].h \in {id_write, foo_write}
         \/ call[p].h = foo_show /\ \A x \in 0 .. SIZE - 2 : data.foo[x] # 0

(* What foo_read() or foo_show() has copied is what the page holds as long *)
(* as the copy lasts (but for the newline and the NUL of foo_show()): no   *)
(* write gets into the middle of a read.                                   *)
ReadIsSnapshot ==
  \A p \in Procs :
    target = "foo" /\ pc[p] = "copy" /\ ~Writes(call[p].h) =>
      \A x \in Offsets :
        x < call[p].done /\ (call[p].h.op = "show" => x < call[p].count - 2) =>
          call[p].buf[x] = data.foo[call[p].pos + x]

(* No call meets a mutex that my_debugfs_init() has not initialized yet,   *)
(* though foo may be used before my_debugfs_init() returns.                *)
LockInitialized ==
  driver = "debugfs" => \A p \in Procs : pc[p] # "idle" /\ call[p].h.locks => ready

(* Every call returns: the mutex is given back on every path, also when a  *)
(* copy faults or the file is at its end.                                  *)
CallReturns == \A p \in Procs : pc[p] # "idle" ~> (pc[p] = "idle" \/ mod = "undefined")

(* A process that has written all the compared bytes since it opened the   *)
(* file, in however many writes and with nobody else writing meanwhile,    *)
(* gets the right answer.                                                  *)
WholeValueJudged ==
  \A p \in Procs :
    LET bytes == {own[p][x] : x \in 0 .. AUTHOR - 1} IN
    pc[p] = "idle" /\ verdict[p] # "none" /\ "none" \notin bytes =>
      (verdict[p] = "correct" <=> bytes = {"good"})
=============================================================================
