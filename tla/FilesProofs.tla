---------------------------- MODULE FilesProofs ----------------------------
(***************************************************************************)
(* What holds of the files "id" and "foo" however many processes use them, *)
(* whatever the sizes of the buffers are.  None of the invariants of Files *)
(* is inductive: which copies can leave their array rests on the offset    *)
(* they began with and, for foo_show(), on the string in the page; that    *)
(* the page does not change meanwhile rests on who holds the mutex, which  *)
(* rests on the order in which my_debugfs_init() does its work; and that a *)
(* verdict is right rests on what the history of the writer says of the    *)
(* buffer.  FInv says this.                                                *)
(***************************************************************************)
EXTENDS Files, SequenceTheorems, WellFoundedInduction, TLAPS

Drivers == {"misc_dev", "misc_thread", "debugfs", "sysfs"}
Bytes == [Offsets -> {0, 1}]
Pcs == {"idle", "lock", "check", "copy", "unlock"}

(* What a handler keeps while it runs. *)
Locals(d) == [h : Handlers[d], pos : 0 .. SIZE, count : 0 .. SIZE + 2, done : 0 .. SIZE, buf : Bytes]

FTypeOK ==
  /\ driver \in Drivers
  /\ target \in {"id", "foo"}
  /\ data \in [id : Bytes, foo : Bytes]
  /\ file \in [Procs -> {"id", "foo", None}]
  /\ f_pos \in [Procs -> 0 .. SIZE]
  /\ pc \in [Procs -> Pcs]
  /\ DOMAIN call = Procs
  /\ \A p \in Procs : pc[p] # "idle" => call[p] \in Locals(driver)
  /\ own \in [Procs -> [0 .. AUTHOR - 1 -> {"none", "good", "bad"}]]
  /\ verdict \in [Procs -> {"none", "correct", "incorrect"}]

(* What the init function still has to do.  foo is not there before its    *)
(* mutex is, and only my_debugfs_init() calls mutex_init().                *)
ModInv ==
  /\ mod = "init" =>
       IF driver = "debugfs" /\ ~ready
         THEN todo \in {<<"eudyptula", "id", "jiffies", "mutex_init", "foo">>,
                        <<"id", "jiffies", "mutex_init", "foo">>,
                        <<"jiffies", "mutex_init", "foo">>, <<"mutex_init", "foo">>}
         ELSE todo \in {<<"eudyptula", "id", "jiffies", "foo">>, <<"id", "jiffies", "foo">>,
                        <<"jiffies", "foo">>, <<"foo">>, <<"id">>}
  /\ driver = "debugfs" /\ "foo" \in files => ready
  /\ \A p \in Procs :
       /\ file[p] \in {target, None}
       /\ pc[p] # "idle" => call[p].h.file = target
       /\ pc[p] # "idle" /\ driver = "debugfs" /\ target = "foo" => ready

(* Where the copy of process p is. *)
CopyAt(p) ==
  pc[p] # "idle" =>
    LET c == call[p] IN
    /\ c.done <= c.count
    /\ pc[p] \in {"lock", "check"} => c.done = 0
    /\ Sysfs(c.h) => c.pos = 0
    /\ ~Sysfs(c.h) /\ pc[p] # "unlock" => c.pos = f_pos[p]
    /\ c.h.op = "store" => c.count <= SIZE
    /\ pc[p] = "copy" => c.pos + c.done <= c.h.limit
    /\ pc[p] = "copy" /\ c.pos + c.count > c.h.limit => c.h \in {id_write, foo_write, foo_show}

(* Where the copies are. *)
CopyInv == \A p \in Procs : CopyAt(p)

(* While foo_show() copies, the page begins with a string of this length.  *)
ShowInv ==
  \A p \in Procs :
    pc[p] = "copy" /\ call[p].h.op = "show" =>
      /\ call[p].count \in 2 .. SIZE + 2
      /\ \A x \in Offsets : x < call[p].count - 2 => data.foo[x] # 0

(* What has been read is still there. *)
Snapshot == ReadIsSnapshot /\ ShowInv

(* Who has taken the mutex holds it until mutex_unlock(). *)
LockInv ==
  \A p \in Procs :
    /\ pc[p] \in {"lock", "unlock"} => call[p].h.locks
    /\ pc[p] \in {"check", "copy", "unlock"} /\ call[p].h.locks => lock = p

(* A history is true of the buffer, and a verdict is about the whole of it *)
(* unless another write has begun to change it.                            *)
JudgeInv ==
  \A p \in Procs :
    /\ \A x \in 0 .. AUTHOR - 1 :
         /\ own[p][x] = "good" => data.id[x] = 1
         /\ own[p][x] = "bad" => data.id[x] = 0
         /\ target = "foo" => own[p][x] = "none"
    /\ verdict[p] # "none" /\ (\A x \in 0 .. AUTHOR - 1 : own[p][x] # "none")
       /\ ~(pc[p] = "copy" /\ Writes(call[p].h)) =>
         (verdict[p] = "correct" <=> Strncmp)

FInv == FTypeOK /\ ModInv /\ CopyInv /\ LockInv /\ Snapshot /\ JudgeInv

(* What is said of the copy of a process stays true while others go on. *)
LEMMA CopyAtSame ==
  ASSUME NEW q \in Procs, CopyAt(q), pc'[q] = pc[q], call'[q] = call[q], f_pos'[q] = f_pos[q]
  PROVE  CopyAt(q)'
BY DEF CopyAt

(* So does what has been read, while the buffer does not change. *)
LEMMA SnapshotSame ==
  ASSUME Snapshot, target' = target, data' = data,
         \A q \in Procs : pc'[q] = "copy" /\ ~Writes(call'[q].h) => pc[q] = "copy" /\ call'[q] = call[q]
  PROVE  Snapshot'
<1>1. ReadIsSnapshot'
  BY DEF Snapshot, ReadIsSnapshot
<1>2. ShowInv'
  BY DEF Snapshot, ShowInv, Writes
<1> QED BY <1>1, <1>2 DEF Snapshot

(* So does a verdict, while the buffer does not change and no write ends.  *)
LEMMA JudgeSame ==
  ASSUME JudgeInv, target' = target, data' = data, own' = own, verdict' = verdict,
         \A q \in Procs : pc[q] = "copy" /\ Writes(call[q].h) => pc'[q] = "copy" /\ Writes(call'[q].h)
  PROVE  JudgeInv'
BY DEF JudgeInv, Strncmp

-----------------------------------------------------------------------------
(* The handlers and their counts *)

HandlerOK(d, h) ==
  /\ h.file \in {"id", "foo"} /\ h.op \in {"read", "write", "show", "store"}
  /\ h.locks \in BOOLEAN /\ h.clamps \in BOOLEAN
  /\ h.limit \in Nat /\ h.limit <= SIZE
  /\ h.locks <=> h.file = "foo"
  /\ h.op = "read" => h.clamps
  /\ h.op # "read" => h.limit = SIZE
  /\ Sysfs(h) => ~h.clamps
  /\ Sysfs(h) <=> d = "sysfs"
  /\ h.op = "write" /\ ~h.clamps => h \in {id_write, foo_write}
  /\ h.op = "show" => h = foo_show

(* What the handlers of the four modules have in common: only the files    *)
(* named foo have a mutex, only a read has a bound of its own and it       *)
(* clamps the count, only sysfs has show and store methods, and of the     *)
(* writes only two do not clamp.                                           *)
LEMMA HandlerFacts ==
  ASSUME NEW d \in Drivers, NEW h \in Handlers[d]
  PROVE  HandlerOK(d, h)
<1> USE FilesAssumption DEF HandlerOK, Sysfs
<1>1. CASE d = "misc_dev"
  <2>1. h \in {simple_dev_read, simple_dev_write}
    BY <1>1 DEF Handlers
  <2>2. CASE h = simple_dev_read
    BY <1>1, <2>2 DEF simple_dev_read, author_id_size
  <2>3. CASE h = simple_dev_write
    BY <1>1, <2>3 DEF simple_dev_write
  <2> QED BY <2>1, <2>2, <2>3
<1>2. CASE d = "misc_thread"
  <2>1. h = thread_dev_write
    BY <1>2 DEF Handlers
  <2> QED BY <1>2, <2>1 DEF thread_dev_write
<1>3. CASE d = "debugfs"
  <2>1. h \in {id_read, id_write, foo_read, foo_write}
    BY <1>3 DEF Handlers
  <2>2. CASE h = id_read
    BY <1>3, <2>2 DEF id_read, author_id_size
  <2>3. CASE h = id_write
    BY <1>3, <2>3 DEF id_write
  <2>4. CASE h = foo_read
    BY <1>3, <2>4 DEF foo_read
  <2>5. CASE h = foo_write
    BY <1>3, <2>5 DEF foo_write
  <2> QED BY <2>1, <2>2, <2>3, <2>4, <2>5
<1>4. CASE d = "sysfs"
  <2>1. h \in {id_store, foo_show, foo_store}
    BY <1>4 DEF Handlers
  <2>2. CASE h = id_store
    BY <1>4, <2>2 DEF id_store
  <2>3. CASE h = foo_show
    BY <1>4, <2>3 DEF foo_show
  <2>4. CASE h = foo_store
    BY <1>4, <2>4 DEF foo_store
  <2> QED BY <2>1, <2>2, <2>3, <2>4
<1> QED BY <1>1, <1>2, <1>3, <1>4 DEF Drivers

(* The string in the page has a length, which is that of the page if there *)
(* is no terminator.                                                       *)
LEMMA StrlenFacts ==
  ASSUME data.foo \in Bytes
  PROVE  Strlen \in 0 .. SIZE /\ \A x \in Offsets : x < Strlen => data.foo[x] # 0
<1> DEFINE R == OpToRel(<, Nat)
           S == {x \in 0 .. SIZE : x < SIZE => data.foo[x] = 0}
           Is(n) == /\ \A x \in 0 .. n - 1 : data.foo[x] # 0
                    /\ n < SIZE => data.foo[n] = 0
<1>1. S \subseteq Nat /\ SIZE \in S
  BY FilesAssumption
<1>2. IsWellFoundedOn(R, Nat)
  BY Zenon, NatLessThanWellFounded
<1>3. ASSUME NEW x \in Nat, NEW y \in Nat, y < x
      PROVE  <<y, x>> \in R
  BY <1>3, Zenon DEF OpToRel
<1> HIDE DEF R, S
<1>4. PICK n \in S : \A y \in S : ~(<<y, n>> \in R)
  BY Zenon, <1>1, <1>2, WFMin
<1>5. ASSUME NEW y \in 0 .. n - 1
      PROVE  data.foo[y] # 0
  <2>1. n \in 0 .. SIZE /\ y \in Nat /\ y < n /\ y \in 0 .. SIZE
    BY FilesAssumption DEF S
  <2>2. y \notin S
    BY Zenon, <1>1, <1>3, <1>4, <2>1
  <2> QED BY <2>1, <2>2 DEF S
<1>6. n \in 0 .. SIZE /\ Is(n)
  BY <1>5 DEF S
<1>7. Strlen = CHOOSE m \in 0 .. SIZE : Is(m)
  BY DEF Strlen
<1>8. Strlen \in 0 .. SIZE /\ Is(Strlen)
  <2> HIDE DEF Is
  <2> QED BY Zenon, <1>6, <1>7
<1>9. ASSUME NEW x \in Offsets, x < Strlen
      PROVE  data.foo[x] # 0
  <2>1. x \in 0 .. Strlen - 1
    BY <1>8, <1>9, FilesAssumption DEF Offsets
  <2> QED BY Zenon, <1>8, <2>1
<1> QED BY Zenon, <1>8, <1>9

(* The count a handler goes on with stays within its bound, unless it is   *)
(* one of three.                                                           *)
LEMMA CountFacts ==
  ASSUME FTypeOK, CopyInv, NEW p \in Procs, pc[p] = "check", call[p].pos < call[p].h.limit
  PROVE  /\ Count(p) \in 0 .. SIZE + 2
         /\ call[p].h.op = "store" => Count(p) <= SIZE
         /\ call[p].pos + Count(p) > call[p].h.limit => call[p].h \in {id_write, foo_write, foo_show}
         /\ call[p].h.op = "show" =>
              /\ Count(p) \in 2 .. SIZE + 2
              /\ \A x \in Offsets : x < Count(p) - 2 => data.foo[x] # 0
<1> DEFINE c == call[p]
<1>1. c \in Locals(driver) /\ driver \in Drivers
  BY DEF FTypeOK
<1>2. c.h \in Handlers[driver] /\ c.pos \in 0 .. SIZE /\ c.count \in 0 .. SIZE + 2
  BY <1>1 DEF Locals
<1>3. HandlerOK(driver, c.h)
  BY <1>1, <1>2, HandlerFacts
<1>4. /\ Sysfs(c.h) => c.pos = 0
      /\ c.h.op = "store" => c.count <= SIZE
  BY DEF CopyInv, CopyAt
<1>5. CASE c.h.op = "show"
  <2>1. data.foo \in Bytes
    BY DEF FTypeOK
  <2>2. Count(p) = Strlen + 2
    <3>1. ~c.h.clamps
      BY <1>3, <1>5 DEF HandlerOK, Sysfs
    <3> QED BY <1>5, <3>1, Zenon DEF Count
  <2>3. Strlen \in 0 .. SIZE /\ \A x \in Offsets : x < Strlen => data.foo[x] # 0
    BY Zenon, <2>1, StrlenFacts
  <2>4. Count(p) \in 2 .. SIZE + 2 /\ Count(p) - 2 = Strlen
    BY <2>2, <2>3, FilesAssumption
  <2>5. c.h = foo_show
    BY Zenon, <1>3, <1>5 DEF HandlerOK
  <2> QED BY <1>5, <2>3, <2>4, <2>5, FilesAssumption
<1>6. CASE c.h.op # "show" /\ c.h.clamps /\ c.pos + c.count > c.h.limit
  <2>1. Count(p) = c.h.limit - c.pos
    BY <1>6 DEF Count
  <2> QED BY <1>2, <1>3, <1>6, <2>1, FilesAssumption DEF HandlerOK, Sysfs
<1>7. CASE c.h.op # "show" /\ ~(c.h.clamps /\ c.pos + c.count > c.h.limit)
  <2>1. Count(p) = c.count
    BY <1>7 DEF Count
  <2>2. c.pos + c.count > c.h.limit => c.h \in {id_write, foo_write}
    <3> SUFFICES ASSUME c.pos + c.count > c.h.limit PROVE c.h \in {id_write, foo_write}
      OBVIOUS
    <3>1. ~c.h.clamps
      BY Zenon, <1>7
    <3>2. c.h.op # "store"
      BY <1>2, <1>3, <1>4, FilesAssumption DEF HandlerOK, Sysfs
    <3> QED BY Zenon, <1>3, <1>7, <3>1, <3>2 DEF HandlerOK
  <2> QED BY <1>2, <1>4, <1>7, <2>1, <2>2, FilesAssumption
<1> QED BY <1>5, <1>6, <1>7

(* At the beginning no file is there and no call is under way. *)
LEMMA FInvInit == Init => FInv
<1> SUFFICES ASSUME Init PROVE FInv
  OBVIOUS
<1> USE FilesAssumption DEF Init
<1>1. driver \in Drivers
  BY DEF InitFunctions, Drivers
<1>2. target \in {"id", "foo"}
  <2>1. PICK h \in Handlers[driver] : target = h.file
    OBVIOUS
  <2> QED BY <1>1, <2>1, HandlerFacts DEF HandlerOK
<1>3. FTypeOK
  BY <1>1, <1>2 DEF FTypeOK, Bytes, Offsets, Pcs, Nothing
<1>4. ModInv
  BY <1>1, <1>2 DEF ModInv, InitFunctions, misc_init, thread_init, my_debugfs_init, my_sysfs_init, Drivers
<1>5. CopyInv
  BY DEF CopyInv, CopyAt
<1>6. LockInv /\ Snapshot /\ JudgeInv
  BY DEF LockInv, Snapshot, ReadIsSnapshot, ShowInv, JudgeInv, Nothing
<1> QED BY <1>3, <1>4, <1>5, <1>6 DEF FInv

-----------------------------------------------------------------------------
(* The steps of the module *)

(* After the last thing the init function has nothing to do. *)
LEMMA LastTail == \A x : Tail(<<x>>) = <<>>
<1> TAKE x
<1>1. <<x>> \in Seq({x}) /\ <<x>> # <<>> /\ Len(<<x>>) = 1
  OBVIOUS
<1>2. Tail(<<x>>) \in Seq({x}) /\ Len(Tail(<<x>>)) = 0
  BY <1>1, HeadTailProperties
<1> QED BY <1>2, EmptySeq

(* The init function reaches mutex_init() while no call uses foo. *)
LEMMA InitStepKeeps ==
  ASSUME FInv, InitStep
  PROVE  FInv'
<1> USE DEF FInv
<1>1. UNCHANGED <<driver, target, data, file, f_pos, pc, call, verdict, own>>
  BY DEF InitStep, procVars
<1>2. FTypeOK' /\ CopyInv' /\ Snapshot' /\ JudgeInv'
  <2>1. FTypeOK' /\ CopyInv'
    BY <1>1 DEF FTypeOK, CopyInv, CopyAt
  <2>2. Snapshot' /\ JudgeInv'
    BY <1>1, SnapshotSame, JudgeSame
  <2> QED BY <2>1, <2>2
<1>3. \A p \in Procs :
        /\ file'[p] \in {target', None}
        /\ pc'[p] # "idle" => call'[p].h.file = target'
  BY <1>1 DEF ModInv
<1>4. CASE driver = "debugfs" /\ ~ready /\ Head(todo) = "mutex_init" /\ mod' # "failed"
  <2>1. todo = <<"mutex_init", "foo">>
    BY <1>4 DEF InitStep, ModInv
  <2>2. ready' = TRUE /\ lock' = None /\ files' = files /\ todo' = Tail(todo)
    BY <1>4 DEF InitStep
  <2>3. ModInv'
    <3>1. todo' = <<"foo">>
      BY <2>1, <2>2
    <3> QED BY Zenon, <1>1, <1>3, <2>2, <3>1 DEF ModInv
  <2>4. ASSUME NEW p \in Procs, pc[p] # "idle"
        PROVE  ~call[p].h.locks
    <3>1. call[p].h.file = target /\ target # "foo"
      BY <1>4, <2>4 DEF ModInv
    <3>2. call[p].h \in Handlers[driver] /\ driver \in Drivers
      BY <2>4 DEF FTypeOK, Locals
    <3> QED BY <3>1, <3>2, HandlerFacts DEF HandlerOK
  <2>5. LockInv'
    BY <1>1, <2>4 DEF LockInv
  <2> QED BY <1>2, <2>3, <2>5
<1>5. CASE ~(driver = "debugfs" /\ ~ready /\ Head(todo) = "mutex_init") \/ mod' = "failed"
  <2>1. /\ mod = "init"
        /\ ready' = ready /\ lock' = lock
        /\ \/ mod' = "failed" /\ files' = {}
           \/ files' = files \cup {Head(todo)} /\ todo' = Tail(todo) /\ mod' \in {"live", "init"}
              /\ (mod' = "init" => Tail(todo) # <<>>) /\ Head(todo) # "mutex_init"
    BY <1>5 DEF InitStep, ModInv
  <2>2. ASSUME mod' # "failed"
        PROVE  /\ mod' = "init" =>
                    IF driver = "debugfs" /\ ~ready
                      THEN todo' \in {<<"id", "jiffies", "mutex_init", "foo">>,
                                      <<"jiffies", "mutex_init", "foo">>, <<"mutex_init", "foo">>}
                      ELSE todo' \in {<<"id", "jiffies", "foo">>, <<"jiffies", "foo">>, <<"foo">>}
               /\ driver = "debugfs" /\ ~ready => Head(todo) # "foo"
    <3> DEFINE t1 == <<"eudyptula", "id", "jiffies", "mutex_init", "foo">>
               t2 == <<"id", "jiffies", "mutex_init", "foo">>
               t3 == <<"jiffies", "mutex_init", "foo">>
    <3>1. todo' = Tail(todo) /\ Head(todo) # "mutex_init" /\ (mod' = "init" => Tail(todo) # <<>>)
      BY <2>1, <2>2
    <3>2. CASE driver = "debugfs" /\ ~ready
      <4>1. todo \in {t1, t2, t3}
        BY <2>1, <3>1, <3>2 DEF ModInv
      <4>2. CASE todo = t1
        BY <3>1, <3>2, <4>2
      <4>3. CASE todo = t2
        BY <3>1, <3>2, <4>3
      <4>4. CASE todo = t3
        BY <3>1, <3>2, <4>4
      <4> QED BY <4>1, <4>2, <4>3, <4>4
    <3>3. CASE ~(driver = "debugfs" /\ ~ready)
      <4>1. todo \in {<<"eudyptula", "id", "jiffies", "foo">>, <<"id", "jiffies", "foo">>,
                      <<"jiffies", "foo">>, <<"foo">>, <<"id">>}
        BY <2>1, <3>3 DEF ModInv
      <4>2. CASE todo = <<"eudyptula", "id", "jiffies", "foo">>
        BY <3>1, <3>3, <4>2
      <4>3. CASE todo = <<"id", "jiffies", "foo">>
        BY <3>1, <3>3, <4>3
      <4>4. CASE todo = <<"jiffies", "foo">>
        BY <3>1, <3>3, <4>4
      <4>5. CASE todo = <<"foo">>
        BY <3>1, <3>3, <4>5, LastTail
      <4>6. CASE todo = <<"id">>
        BY <3>1, <3>3, <4>6, LastTail
      <4> QED BY <4>1, <4>2, <4>3, <4>4, <4>5, <4>6
    <3> QED BY <3>2, <3>3
  <2>3. ModInv'
    BY <1>1, <1>3, <2>1, <2>2 DEF ModInv
  <2>4. LockInv'
    BY <1>1, <2>1 DEF LockInv
  <2> QED BY <1>2, <2>3, <2>4
<1> QED BY <1>4, <1>5

(* The exit functions take the files away and leave the rest. *)
LEMMA ExitKeeps ==
  ASSUME FInv, MyDebugfsExit \/ MySysfsExit \/ MiscExit
  PROVE  FInv'
<1> USE DEF FInv
<1>1. /\ UNCHANGED <<driver, target, ready, lock, data, file, f_pos, pc, call, verdict, own>>
      /\ files' = {} /\ mod' # "init"
  BY DEF MyDebugfsExit, MySysfsExit, MiscExit, Leave, procVars
<1>2. FTypeOK' /\ CopyInv' /\ Snapshot' /\ JudgeInv' /\ LockInv'
  <2>1. FTypeOK' /\ LockInv'
    BY <1>1 DEF FTypeOK, LockInv
  <2>2. CopyInv'
    BY <1>1 DEF CopyInv, CopyAt
  <2>3. Snapshot' /\ JudgeInv'
    BY <1>1, SnapshotSame, JudgeSame
  <2> QED BY <2>1, <2>2, <2>3
<1>3. ModInv'
  BY <1>1 DEF ModInv
<1> QED BY <1>2, <1>3

-----------------------------------------------------------------------------
(* The steps of the processes *)

(* open() and close() change no buffer and no call. *)
LEMMA OpenKeeps ==
  ASSUME FInv, NEW p \in Procs, Open(p) \/ Close(p)
  PROVE  FInv'
<1> USE DEF FInv
<1>1. /\ UNCHANGED <<driver, target, todo, mod, files, ready, lock, data, pc, call>>
      /\ pc[p] = "idle"
  BY Zenon DEF Open, Close, modVars
<1>2. /\ file' \in [Procs -> {"id", "foo", None}]
      /\ \A q \in Procs : file'[q] \in {target, None}
  BY Zenon DEF Open, Close, FTypeOK, ModInv
<1>3. \/ f_pos' = f_pos /\ verdict' = verdict /\ own' = own
      \/ /\ f_pos' = [f_pos EXCEPT ![p] = 0]
         /\ verdict' = [verdict EXCEPT ![p] = "none"]
         /\ own' = [own EXCEPT ![p] = Nothing]
  BY DEF Open, Close
<1>4. /\ f_pos' \in [Procs -> 0 .. SIZE]
      /\ \A q \in Procs : q # p => f_pos'[q] = f_pos[q]
  <2>1. f_pos \in [Procs -> 0 .. SIZE] /\ 0 \in 0 .. SIZE
    BY FilesAssumption DEF FTypeOK
  <2> QED BY <1>3, <2>1
<1>5. /\ verdict' \in [Procs -> {"none", "correct", "incorrect"}]
      /\ own' \in [Procs -> [0 .. AUTHOR - 1 -> {"none", "good", "bad"}]]
      /\ \A q \in Procs : \/ verdict'[q] = verdict[q] /\ own'[q] = own[q]
                          \/ verdict'[q] = "none" /\ own'[q] = Nothing
  <2>1. /\ verdict \in [Procs -> {"none", "correct", "incorrect"}]
        /\ own \in [Procs -> [0 .. AUTHOR - 1 -> {"none", "good", "bad"}]]
        /\ Nothing \in [0 .. AUTHOR - 1 -> {"none", "good", "bad"}]
    BY DEF FTypeOK, Nothing
  <2> QED BY <1>3, <2>1
<1>6. FTypeOK'
  BY <1>1, <1>2, <1>4, <1>5 DEF FTypeOK
<1>7. ModInv'
  BY <1>1, <1>2 DEF ModInv
<1>8. CopyInv'
  BY <1>1, <1>4 DEF CopyInv, CopyAt
<1>9. LockInv' /\ Snapshot'
  BY <1>1, SnapshotSame DEF LockInv
<1>10. JudgeInv'
  <2>1. Strncmp' <=> Strncmp
    BY <1>1 DEF Strncmp
  <2>2. \A x \in 0 .. AUTHOR - 1 : Nothing[x] = "none"
    BY DEF Nothing
  <2> QED BY <1>1, <1>5, <2>1, <2>2 DEF JudgeInv
<1> QED BY <1>6, <1>7, <1>8, <1>9, <1>10

(* A call begins at the offset of the file, or at the start of the page. *)
LEMMA CallKeeps ==
  ASSUME FInv, NEW p \in Procs, NEW h \in Handlers[driver], NEW n \in Counts(h), NEW byte \in {0, 1},
         Call(p, h, n, byte)
  PROVE  FInv'
<1> USE DEF FInv
<1> DEFINE c == [h |-> h, pos |-> IF Sysfs(h) THEN 0 ELSE f_pos[p], count |-> n, done |-> 0,
                 buf |-> [x \in Offsets |-> byte]]
<1>1. /\ UNCHANGED <<driver, target, todo, mod, files, ready, lock, data, file, f_pos, verdict, own>>
      /\ pc[p] = "idle" /\ file[p] = h.file /\ h.file \in files
      /\ pc' = [pc EXCEPT ![p] = IF h.locks THEN "lock" ELSE "check"]
      /\ call' = [call EXCEPT ![p] = c]
  BY Zenon DEF Call, modVars
<1>2. HandlerOK(driver, h)
  BY HandlerFacts DEF FTypeOK
<1>3. c \in Locals(driver) /\ c.h = h /\ c.pos \in 0 .. SIZE /\ c.count = n /\ c.done = 0
      /\ c.pos = (IF Sysfs(h) THEN 0 ELSE f_pos[p])
      /\ 0 <= n /\ (h.op = "store" => n <= SIZE)
  <2>1. n \in 0 .. SIZE + 2 /\ (h.op = "store" => n <= SIZE)
    <3>1. CASE h.op = "show"
      BY <3>1, FilesAssumption DEF Counts
    <3>2. CASE h.op = "store"
      BY <3>2, FilesAssumption DEF Counts
    <3>3. CASE h.op \notin {"show", "store"}
      BY <3>3, FilesAssumption DEF Counts
    <3> QED BY <3>1, <3>2, <3>3
  <2> QED BY <2>1, FilesAssumption DEF FTypeOK, Locals, Bytes
<1> HIDE DEF c
<1>4. /\ pc' \in [Procs -> Pcs] /\ DOMAIN call' = Procs
      /\ pc'[p] = (IF h.locks THEN "lock" ELSE "check") /\ call'[p] = c
      /\ \A q \in Procs : q # p => pc'[q] = pc[q] /\ call'[q] = call[q]
  BY Zenon, <1>1 DEF FTypeOK, Pcs
<1>5. FTypeOK'
  BY Zenon, <1>1, <1>3, <1>4 DEF FTypeOK
<1>6. ModInv'
  <2>1. h.file = target
    BY Zenon, <1>1, <1>2, FilesAssumption DEF ModInv, HandlerOK
  <2> QED BY <1>1, <1>3, <1>4, <2>1 DEF ModInv
<1>7. CopyInv'
  <2>1. /\ Sysfs(h) => c.pos = 0
        /\ ~Sysfs(h) => c.pos = f_pos[p]
    BY Zenon, <1>3
  <2>2. ASSUME NEW q \in Procs, q # p PROVE CopyAt(q)'
    BY Zenon, <1>1, <1>4, <2>2, CopyAtSame DEF CopyInv
  <2>3. CopyAt(p)'
    <3>1. /\ call'[p] = c /\ c.h = h /\ c.count = n /\ c.done = 0 /\ f_pos' = f_pos
          /\ 0 <= n /\ (h.op = "store" => n <= SIZE)
      BY Zenon, <1>1, <1>3, <1>4
    <3>2. pc'[p] \in {"lock", "check"}
      BY Zenon, <1>4
    <3> QED BY <2>1, <3>1, <3>2 DEF CopyAt
  <2> QED BY Zenon, <1>1, <2>2, <2>3 DEF CopyInv
<1>8. LockInv'
  BY <1>1, <1>3, <1>4 DEF LockInv
<1>9. Snapshot'
  BY <1>1, <1>4, SnapshotSame
<1>10. JudgeInv'
  BY <1>1, <1>4 DEF JudgeInv, Strncmp
<1> QED BY <1>5, <1>6, <1>7, <1>8, <1>9, <1>10

(* Only one process gets past mutex_lock_interruptible(). *)
LEMMA LockKeeps ==
  ASSUME FInv, NEW p \in Procs, MutexLockInterruptible(p)
  PROVE  FInv'
<1> USE DEF FInv
<1>1. /\ UNCHANGED <<driver, target, todo, files, ready, data, file, f_pos, verdict, own>>
      /\ pc[p] = "lock" /\ (mod' = mod \/ mod' = "undefined")
      /\ pc' \in [Procs -> Pcs] /\ DOMAIN call' = Procs
      /\ \A q \in Procs : q # p => pc'[q] = pc[q] /\ call'[q] = call[q]
      /\ \/ pc'[p] = "check" /\ call'[p] = call[p] /\ lock = None /\ lock' = p
         \/ pc'[p] = "idle" /\ lock' = lock
         \/ pc'[p] = "lock" /\ call'[p] = call[p] /\ lock' = lock
  BY Zenon DEF MutexLockInterruptible, Goto, Return, FTypeOK, Pcs
<1>2. FTypeOK'
  BY Zenon, <1>1 DEF FTypeOK
<1>3. ModInv'
  BY <1>1 DEF ModInv
<1>4. CopyInv'
  BY <1>1 DEF CopyInv, CopyAt
<1>5. LockInv'
  BY Zenon, <1>1, FilesAssumption DEF LockInv
<1>6. Snapshot'
  BY <1>1, SnapshotSame
<1>7. JudgeInv'
  BY <1>1, JudgeSame
<1> QED BY <1>2, <1>3, <1>4, <1>5, <1>6, <1>7

(* A call that does not copy any more returns, or gives the mutex back. *)
LEMMA LeavingFacts ==
  ASSUME FTypeOK, NEW p \in Procs, pc[p] # "idle", Leaving(p)
  PROVE  /\ pc' \in [Procs -> Pcs] /\ DOMAIN call' = Procs
         /\ \A q \in Procs : q # p => pc'[q] = pc[q] /\ call'[q] = call[q]
         /\ \/ pc'[p] = "unlock" /\ call'[p] = call[p] /\ call[p].h.locks
            \/ pc'[p] = "idle" /\ ~call[p].h.locks
<1>1. CASE call[p].h.locks
  BY <1>1 DEF Leaving, FTypeOK, Pcs
<1>2. CASE ~call[p].h.locks
  BY Zenon, <1>2 DEF Leaving, Return, FTypeOK, Pcs
<1> QED BY Zenon, <1>1, <1>2

(* The verdict of process p stays that of the buffer, or there is none. *)
VerdictStands(p) ==
  \/ verdict'[p] = verdict[p] /\ ~(pc[p] = "copy" /\ Writes(call[p].h))
  \/ verdict'[p] = "none"
  \/ verdict'[p] = "correct" <=> Strncmp
  \/ target = "foo"

(* A call that leaves without having changed a buffer keeps the invariant, *)
(* if the offset is in order and the verdict is that of the buffer.        *)
LEMMA LeavingKeeps ==
  ASSUME FInv, NEW p \in Procs, pc[p] \in {"check", "copy"}, Leaving(p),
         UNCHANGED <<modVars, lock, data, file, own>>,
         f_pos' \in [Procs -> 0 .. SIZE],
         verdict' \in [Procs -> {"none", "correct", "incorrect"}],
         \A q \in Procs : q # p => f_pos'[q] = f_pos[q] /\ verdict'[q] = verdict[q],
         VerdictStands(p)
  PROVE  FInv'
<1> USE DEF FInv
<1>1. /\ pc' \in [Procs -> Pcs] /\ DOMAIN call' = Procs
      /\ \A q \in Procs : q # p => pc'[q] = pc[q] /\ call'[q] = call[q]
      /\ \/ pc'[p] = "unlock" /\ call'[p] = call[p] /\ call[p].h.locks
         \/ pc'[p] = "idle"
  BY Zenon, LeavingFacts
<1>2. UNCHANGED <<driver, target, todo, mod, files, ready, lock, data, file, own>>
  BY Zenon DEF modVars
<1>3. FTypeOK'
  BY Zenon, <1>1, <1>2 DEF FTypeOK
<1>4. ModInv'
  <2>1. \A q \in Procs : pc'[q] # "idle" => pc[q] # "idle" /\ call'[q] = call[q]
    BY Zenon, <1>1
  <2>2. /\ driver' = driver /\ target' = target /\ todo' = todo /\ mod' = mod
        /\ files' = files /\ ready' = ready /\ file' = file
    BY Zenon, <1>2
  <2> QED BY Zenon, <2>1, <2>2 DEF ModInv
<1>5. CopyInv'
  <2>1. ASSUME NEW q \in Procs, q # p PROVE CopyAt(q)'
    <3>1. pc'[q] = pc[q] /\ call'[q] = call[q] /\ f_pos'[q] = f_pos[q]
      BY Zenon, <1>1, <2>1
    <3> QED BY Zenon, <3>1, CopyAtSame DEF CopyInv
  <2>2. CopyAt(p)'
    <3>1. CASE pc'[p] = "idle"
      BY Zenon, <3>1 DEF CopyAt
    <3>2. CASE pc'[p] = "unlock" /\ call'[p] = call[p]
      BY Zenon, <3>2 DEF CopyInv, CopyAt
    <3> QED BY Zenon, <1>1, <3>1, <3>2
  <2> QED BY Zenon, <2>1, <2>2 DEF CopyInv
<1>6. LockInv'
  <2>1. ASSUME NEW q \in Procs
        PROVE  /\ pc'[q] \in {"lock", "unlock"} => call'[q].h.locks
               /\ pc'[q] \in {"check", "copy", "unlock"} /\ call'[q].h.locks => lock = q
    <3>1. CASE q = p
      BY <1>1, <3>1 DEF LockInv
    <3>2. CASE q # p
      <4>1. pc'[q] = pc[q] /\ call'[q] = call[q]
        BY Zenon, <1>1, <3>2
      <4> QED BY <4>1 DEF LockInv
    <3> QED BY Zenon, <3>1, <3>2
  <2>2. lock' = lock
    BY Zenon, <1>2
  <2> QED BY Zenon, <2>1, <2>2 DEF LockInv
<1>7. Snapshot'
  <2>1. \A q \in Procs : pc'[q] = "copy" => pc[q] = "copy" /\ call'[q] = call[q]
    BY Zenon, <1>1
  <2>2. target' = target /\ data' = data
    BY Zenon, <1>2
  <2> QED BY <2>1, <2>2, SnapshotSame
<1>8. JudgeInv'
  <2>1. (Strncmp' <=> Strncmp) /\ own' = own
    BY Zenon, <1>2 DEF Strncmp
  <2>2. 0 \in 0 .. AUTHOR - 1
    BY FilesAssumption
  <2>3. ASSUME NEW q \in Procs
        PROVE  \A x \in 0 .. AUTHOR - 1 :
                 /\ own'[q][x] = "good" => data'.id[x] = 1
                 /\ own'[q][x] = "bad" => data'.id[x] = 0
                 /\ target' = "foo" => own'[q][x] = "none"
    BY <1>2 DEF JudgeInv
  <2>4. ASSUME NEW q \in Procs, verdict'[q] # "none", \A x \in 0 .. AUTHOR - 1 : own'[q][x] # "none",
               ~(pc'[q] = "copy" /\ Writes(call'[q].h))
        PROVE  verdict'[q] = "correct" <=> Strncmp
    <3>1. CASE q = p
      <4>1. target # "foo"
        BY <2>1, <2>2, <2>4, <3>1 DEF JudgeInv
      <4> QED BY Zenon, <2>1, <2>4, <3>1, <4>1 DEF JudgeInv, VerdictStands
    <3>2. CASE q # p
      <4>1. verdict'[q] = verdict[q] /\ pc'[q] = pc[q] /\ call'[q] = call[q]
        BY Zenon, <1>1, <3>2
      <4> QED BY <2>1, <2>4, <4>1 DEF JudgeInv
    <3> QED BY Zenon, <3>1, <3>2
  <2> QED BY <2>1, <2>3, <2>4 DEF JudgeInv
<1> QED BY <1>3, <1>4, <1>5, <1>6, <1>7, <1>8

(* The offset is looked at: the call leaves, or goes on with the count of  *)
(* its handler.                                                            *)
LEMMA CheckKeeps ==
  ASSUME FInv, NEW p \in Procs, CheckOffset(p)
  PROVE  FInv'
<1> USE DEF FInv
<1>1. UNCHANGED <<modVars, lock, data, file, f_pos, verdict, own>> /\ pc[p] = "check"
  BY DEF CheckOffset
<1>2. CASE Leaving(p)
  <2>1. VerdictStands(p)
    BY <1>1 DEF VerdictStands
  <2> QED BY <1>1, <1>2, <2>1, LeavingKeeps DEF FTypeOK
<1>3. CASE /\ call[p].pos < call[p].h.limit
           /\ Goto(p, "check", "copy")
           /\ call' = [call EXCEPT ![p].count = Count(p)]
  <2> DEFINE c == call[p]
             d == call'[p]
  <2>1. c \in Locals(driver) /\ c.h \in Handlers[driver] /\ HandlerOK(driver, c.h)
    BY Zenon, <1>1, HandlerFacts DEF FTypeOK, Locals
  <2>2. /\ Count(p) \in 0 .. SIZE + 2
        /\ c.h.op = "store" => Count(p) <= SIZE
        /\ c.pos + Count(p) > c.h.limit => c.h \in {id_write, foo_write, foo_show}
        /\ c.h.op = "show" =>
             /\ Count(p) \in 2 .. SIZE + 2
             /\ \A x \in Offsets : x < Count(p) - 2 => data.foo[x] # 0
    BY Zenon, <1>1, <1>3, CountFacts
  <2>3. /\ pc' \in [Procs -> Pcs] /\ DOMAIN call' = Procs /\ pc'[p] = "copy"
        /\ \A q \in Procs : q # p => pc'[q] = pc[q] /\ call'[q] = call[q]
    BY <1>3 DEF Goto, FTypeOK, Pcs
  <2>4. /\ d \in Locals(driver) /\ d.h = c.h /\ d.pos = c.pos /\ d.count = Count(p)
        /\ d.done = c.done /\ d.buf = c.buf
    <3>1. d = [c EXCEPT !.count = Count(p)]
      BY <1>3 DEF FTypeOK
    <3> QED BY <2>1, <2>2, <3>1 DEF Locals
  <2>5. c.done = 0
    BY Zenon, <1>1 DEF CopyInv, CopyAt
  <2>6. UNCHANGED <<driver, target, todo, mod, files, ready, lock, data, file, f_pos, verdict, own>>
    BY <1>1 DEF modVars
  <2>7. FTypeOK'
    BY Zenon, <2>3, <2>4, <2>6 DEF FTypeOK
  <2>8. ModInv'
    BY <1>1, <2>3, <2>4, <2>6 DEF ModInv
  <2>9. CopyInv'
    <3>1. /\ d.done <= d.count
          /\ Sysfs(d.h) => d.pos = 0
          /\ ~Sysfs(d.h) => d.pos = f_pos[p]
          /\ d.h.op = "store" => d.count <= SIZE
          /\ d.pos + d.done <= d.h.limit
          /\ d.pos + d.count > d.h.limit => d.h \in {id_write, foo_write, foo_show}
      <4>1. /\ Sysfs(c.h) => c.pos = 0
            /\ ~Sysfs(c.h) => c.pos = f_pos[p]
        BY Zenon, <1>1 DEF CopyInv, CopyAt
      <4>2. d.h = c.h /\ d.pos = c.pos /\ d.count = Count(p) /\ d.done = 0
        BY Zenon, <2>4, <2>5
      <4>3. c.h.limit \in Nat /\ c.pos \in 0 .. SIZE
        BY Zenon, <2>1 DEF HandlerOK, Locals
      <4>4. 0 <= Count(p) /\ c.pos + 0 <= c.h.limit
        BY <1>3, <2>2, <4>3, FilesAssumption
      <4> QED BY Zenon, <2>2, <4>1, <4>2, <4>4
    <3>2. ASSUME NEW q \in Procs, q # p PROVE CopyAt(q)'
      <4>1. pc'[q] = pc[q] /\ call'[q] = call[q] /\ f_pos' = f_pos
        BY Zenon, <2>3, <2>6, <3>2
      <4> QED BY Zenon, <4>1, CopyAtSame DEF CopyInv
    <3>3. CopyAt(p)'
      <4>1. pc'[p] = "copy" /\ f_pos' = f_pos
        BY Zenon, <2>3, <2>6
      <4> QED BY <3>1, <4>1 DEF CopyAt
    <3> QED BY Zenon, <3>2, <3>3 DEF CopyInv
  <2>10. LockInv'
    BY <1>1, <2>3, <2>4, <2>6 DEF LockInv
  <2>11. Snapshot'
    <3>1. \A x \in Offsets : ~(x < d.done)
      BY <2>4, <2>5, FilesAssumption DEF Offsets
    <3>2. ASSUME NEW q \in Procs, q # p, pc'[q] = "copy"
          PROVE  pc[q] = "copy" /\ call'[q] = call[q]
      BY Zenon, <2>3, <3>2
    <3>3. target' = target /\ data' = data
      BY Zenon, <2>6
    <3>4. ReadIsSnapshot'
      BY <3>1, <3>2, <3>3 DEF Snapshot, ReadIsSnapshot
    <3>5. ASSUME NEW q \in Procs, pc'[q] = "copy", call'[q].h.op = "show"
          PROVE  /\ call'[q].count \in 2 .. SIZE + 2
                 /\ \A x \in Offsets : x < call'[q].count - 2 => data.foo[x] # 0
      <4>1. CASE q = p
        BY Zenon, <2>2, <2>4, <3>5, <4>1
      <4>2. CASE q # p
        BY Zenon, <3>2, <3>5, <4>2 DEF Snapshot, ShowInv
      <4> QED BY <4>1, <4>2
    <3>6. ShowInv'
      BY Zenon, <3>3, <3>5 DEF ShowInv
    <3> QED BY <3>4, <3>6 DEF Snapshot
  <2>12. JudgeInv'
    <3>1. \A q \in Procs : pc[q] = "copy" => pc'[q] = "copy" /\ call'[q] = call[q]
      BY <1>1, <2>3
    <3> QED BY Zenon, <2>6, <3>1, JudgeSame
  <2> QED BY <2>7, <2>8, <2>9, <2>10, <2>11, <2>12
<1> QED BY <1>1, <1>2, <1>3 DEF CheckOffset

(* A fault ends the copy: no verdict is left. *)
LEMMA FaultKeeps ==
  ASSUME FInv, NEW p \in Procs, Fault(p)
  PROVE  FInv'
<1> USE DEF FInv
<1>1. /\ UNCHANGED <<modVars, lock, data, file, own>> /\ pc[p] = "copy" /\ Leaving(p)
      /\ f_pos' = f_pos /\ verdict' = [verdict EXCEPT ![p] = "none"]
  BY Zenon DEF Fault
<1>2. f_pos \in [Procs -> 0 .. SIZE] /\ verdict \in [Procs -> {"none", "correct", "incorrect"}]
  BY DEF FTypeOK
<1>3. /\ verdict' \in [Procs -> {"none", "correct", "incorrect"}] /\ verdict'[p] = "none"
      /\ \A q \in Procs : q # p => f_pos'[q] = f_pos[q] /\ verdict'[q] = verdict[q]
  BY <1>1, <1>2
<1>4. VerdictStands(p)
  BY <1>3 DEF VerdictStands
<1> QED BY <1>1, <1>2, <1>3, <1>4, LeavingKeeps

(* The end of the copy: the offset moves on but stays within the buffer,   *)
(* and the verdict is about the whole of it.                               *)
LEMMA CopyDoneKeeps ==
  ASSUME FInv, NEW p \in Procs, CopyDone(p)
  PROVE  FInv'
<1> USE DEF FInv
<1> DEFINE c == call[p]
<1>1. /\ UNCHANGED <<modVars, lock, data, file, own>> /\ pc[p] = "copy" /\ Leaving(p)
      /\ f_pos' = IF Sysfs(c.h) THEN f_pos ELSE [f_pos EXCEPT ![p] = @ + c.count]
  BY Zenon DEF CopyDone
<1>2. verdict' = IF target = "id" /\ Writes(c.h)
                   THEN [verdict EXCEPT ![p] = IF Strncmp THEN "correct" ELSE "incorrect"]
                   ELSE verdict
  BY DEF CopyDone
<1>3. f_pos \in [Procs -> 0 .. SIZE] /\ verdict \in [Procs -> {"none", "correct", "incorrect"}]
  BY DEF FTypeOK
<1>4. /\ f_pos' \in [Procs -> 0 .. SIZE]
      /\ \A q \in Procs : q # p => f_pos'[q] = f_pos[q]
  <2>1. c \in Locals(driver) /\ c.h \in Handlers[driver] /\ c.count \in 0 .. SIZE + 2
    BY <1>1 DEF FTypeOK, Locals
  <2>2. c.h.limit \in Nat /\ c.h.limit <= SIZE
    BY Zenon, <2>1, HandlerFacts DEF HandlerOK, FTypeOK
  <2>3. c.pos + c.count <= c.h.limit /\ (~Sysfs(c.h) => c.pos = f_pos[p])
    <3>1. c.done = c.count
      BY Zenon DEF CopyDone
    <3> QED BY Zenon, <1>1, <3>1 DEF CopyInv, CopyAt
  <2>4. ~Sysfs(c.h) => f_pos[p] + c.count \in 0 .. SIZE
    BY <1>3, <2>1, <2>2, <2>3, FilesAssumption
  <2> QED BY <1>1, <1>3, <2>4
<1>5. /\ verdict' \in [Procs -> {"none", "correct", "incorrect"}]
      /\ \A q \in Procs : q # p => verdict'[q] = verdict[q]
      /\ target = "id" /\ Writes(c.h) => (verdict'[p] = "correct" <=> Strncmp)
      /\ ~(target = "id" /\ Writes(c.h)) => verdict'[p] = verdict[p]
  BY <1>2, <1>3
<1>6. target \in {"id", "foo"}
  BY DEF FTypeOK
<1>7. VerdictStands(p)
  BY <1>5, <1>6 DEF VerdictStands
<1> QED BY <1>1, <1>4, <1>5, <1>7, LeavingKeeps

(* mutex_unlock() ends the call of the process that holds the mutex. *)
LEMMA UnlockKeeps ==
  ASSUME FInv, NEW p \in Procs, MutexUnlock(p)
  PROVE  FInv'
<1> USE DEF FInv
<1>1. /\ UNCHANGED <<driver, target, todo, mod, files, ready, data, file, f_pos, verdict, own>>
      /\ pc[p] = "unlock" /\ lock' = None
      /\ pc' \in [Procs -> Pcs] /\ DOMAIN call' = Procs /\ pc'[p] = "idle"
      /\ \A q \in Procs : q # p => pc'[q] = pc[q] /\ call'[q] = call[q]
  BY DEF MutexUnlock, Return, modVars, FTypeOK, Pcs
<1>2. lock = p
  BY Zenon, <1>1 DEF LockInv
<1>3. FTypeOK'
  BY Zenon, <1>1 DEF FTypeOK
<1>4. ModInv'
  BY <1>1 DEF ModInv
<1>5. CopyInv'
  <2>1. ASSUME NEW q \in Procs PROVE CopyAt(q)'
    BY Zenon, <1>1 DEF CopyInv, CopyAt
  <2> QED BY Zenon, <2>1 DEF CopyInv
<1>6. LockInv'
  BY <1>1, <1>2 DEF LockInv
<1>7. Snapshot'
  BY <1>1, SnapshotSame
<1>8. JudgeInv'
  <2>1. ASSUME NEW q \in Procs, ~(pc'[q] = "copy" /\ Writes(call'[q].h))
        PROVE  ~(pc[q] = "copy" /\ Writes(call[q].h))
    BY <1>1, <2>1
  <2> QED BY <1>1, <2>1 DEF JudgeInv, Strncmp
<1> QED BY <1>3, <1>4, <1>5, <1>6, <1>7, <1>8

(* What one byte of a copy changes: the offset it has reached is inside    *)
(* the buffer of the process and inside the buffer of the module.          *)
LEMMA ByteFacts ==
  ASSUME FInv, NEW p \in Procs, CopyByte(p)
  PROVE  /\ UNCHANGED <<driver, target, todo, mod, files, ready, lock, file, f_pos, pc, verdict>>
         /\ pc[p] = "copy" /\ call[p].done < call[p].count
         /\ call[p] \in Locals(driver) /\ HandlerOK(driver, call[p].h)
         /\ call[p].done \in Offsets /\ call[p].pos + call[p].done \in Offsets
         /\ call'[p] \in Locals(driver)
         /\ call'[p].h = call[p].h /\ call'[p].pos = call[p].pos /\ call'[p].count = call[p].count
         /\ call'[p].done = call[p].done + 1
         /\ DOMAIN call' = Procs /\ \A q \in Procs : q # p => call'[q] = call[q]
<1> USE DEF FInv
<1> DEFINE c == call[p]
           from == Source(c, c.pos + c.done)
<1>1. /\ UNCHANGED <<driver, target, todo, mod, files, ready, lock, file, f_pos, pc, verdict>>
      /\ pc[p] = "copy" /\ c.done < c.count /\ c.pos + c.done < c.h.limit
  BY DEF CopyByte, modVars
<1>2. c \in Locals(driver)
  BY <1>1 DEF FTypeOK
<1>3. /\ c.h \in Handlers[driver] /\ c.pos \in 0 .. SIZE /\ c.done \in 0 .. SIZE
      /\ c.buf \in Bytes
  BY <1>2 DEF Locals
<1>4. HandlerOK(driver, c.h)
  BY <1>3, HandlerFacts DEF FTypeOK
<1>6. c.done \in Offsets /\ c.pos + c.done \in Offsets /\ c.done + 1 \in 0 .. SIZE
  <2>1. c.h.limit \in 0 .. SIZE
    BY <1>4, FilesAssumption DEF HandlerOK
  <2>2. c.pos + c.done < c.h.limit
    BY Zenon, <1>1
  <2> QED BY <1>3, <2>1, <2>2, FilesAssumption DEF Offsets
<1>7. from \in {0, 1}
  <2>1. data.foo[c.pos + c.done] \in {0, 1}
    BY <1>6 DEF FTypeOK, Bytes
  <2> QED BY <2>1 DEF Source
<1>8. \/ call' = [call EXCEPT ![p].done = @ + 1]
      \/ call' = [call EXCEPT ![p].done = @ + 1, ![p].buf[c.done] = from]
  BY DEF CopyByte
<1>9. /\ DOMAIN call' = Procs /\ \A q \in Procs : q # p => call'[q] = call[q]
      /\ \/ call'[p] = [c EXCEPT !.done = c.done + 1]
         \/ call'[p] = [c EXCEPT !.done = c.done + 1, !.buf = [c.buf EXCEPT ![c.done] = from]]
  BY Zenon, <1>2, <1>8 DEF FTypeOK, Locals
<1>10. [c.buf EXCEPT ![c.done] = from] \in Bytes
  BY Zenon, <1>3, <1>6, <1>7 DEF Bytes
<1> HIDE DEF from
<1>11. /\ call'[p] \in Locals(driver)
       /\ call'[p].h = c.h /\ call'[p].pos = c.pos /\ call'[p].count = c.count
       /\ call'[p].done = c.done + 1
  BY Zenon, <1>2, <1>6, <1>9, <1>10 DEF Locals
<1> QED BY <1>1, <1>2, <1>4, <1>6, <1>9, <1>11

(* The copy is one byte further, and still inside. *)
LEMMA ByteCopyAt ==
  ASSUME FInv, NEW p \in Procs, CopyByte(p)
  PROVE  CopyAt(p)'
<1> DEFINE c == call[p]
           d == call'[p]
<1>1. pc' = pc /\ f_pos' = f_pos /\ pc[p] = "copy" /\ c \in Locals(driver)
  BY Zenon, ByteFacts
<1>2. d.h = c.h /\ d.pos = c.pos /\ d.count = c.count
  BY Zenon, ByteFacts
<1>3. d.done = c.done + 1 /\ c.done < c.count
  BY Zenon, ByteFacts
<1>4. d.done <= d.count /\ d.pos + d.done <= d.h.limit
  <2>1. c.count \in 0 .. SIZE + 2 /\ c.done \in 0 .. SIZE /\ c.pos \in 0 .. SIZE
    BY Zenon, <1>1 DEF Locals
  <2>2. c.h.limit \in Nat
    BY Zenon, ByteFacts DEF HandlerOK
  <2>3. c.pos + c.done < c.h.limit
    BY Zenon DEF CopyByte
  <2> QED BY <1>2, <1>3, <2>1, <2>2, <2>3, FilesAssumption
<1>5. CopyAt(p)
  BY Zenon DEF FInv, CopyInv
<1> QED BY Zenon, <1>1, <1>2, <1>4, <1>5 DEF CopyAt

(* A byte is read: nothing but the buffer of the process changes. *)
LEMMA ReadByteKeeps ==
  ASSUME FInv, NEW p \in Procs, CopyByte(p), ~Writes(call[p].h)
  PROVE  FInv'
<1> USE DEF FInv
<1> DEFINE c == call[p]
           d == call'[p]
<1>1. /\ UNCHANGED <<driver, target, todo, mod, files, ready, lock, file, f_pos, pc, verdict>>
      /\ pc[p] = "copy" /\ c.done < c.count
      /\ c.done \in Offsets /\ c.pos + c.done \in Offsets
      /\ d \in Locals(driver) /\ d.h = c.h /\ d.pos = c.pos /\ d.count = c.count
      /\ d.done = c.done + 1
      /\ DOMAIN call' = Procs /\ \A q \in Procs : q # p => call'[q] = call[q]
  BY Zenon, ByteFacts
<1>2. data' = data /\ own' = own
  BY DEF CopyByte
<1>3. c.count \in 0 .. SIZE + 2 /\ c.done \in 0 .. SIZE /\ c.pos \in 0 .. SIZE /\ c.buf \in Bytes
  BY Zenon, <1>1 DEF FTypeOK, Locals
<1>4. FTypeOK'
  BY Zenon, <1>1, <1>2 DEF FTypeOK
<1>5. ModInv'
  BY <1>1, <1>2 DEF ModInv
<1>6. CopyInv'
  <2>1. ASSUME NEW q \in Procs, q # p PROVE CopyAt(q)'
    BY Zenon, <1>1, <2>1 DEF CopyInv, CopyAt
  <2>2. CopyAt(p)'
    BY Zenon, ByteCopyAt
  <2> QED BY Zenon, <2>1, <2>2 DEF CopyInv
<1>7. LockInv'
  BY Zenon, <1>1 DEF LockInv
<1>8. ReadIsSnapshot'
  <2>1. ASSUME target = "foo", NEW x \in Offsets, x < d.done, d.h.op = "show" => x < d.count - 2
        PROVE  d.buf[x] = data.foo[d.pos + x]
    <3>1. d.buf = [c.buf EXCEPT ![c.done] = Source(c, c.pos + c.done)]
      <4>1. call' = [call EXCEPT ![p].done = @ + 1, ![p].buf[c.done] = Source(c, c.pos + c.done)]
        BY DEF CopyByte
      <4>2. c \in Locals(driver)
        BY Zenon, <1>1 DEF FTypeOK
      <4> QED BY <4>1, <4>2 DEF FTypeOK, Locals
    <3>2. x < c.done => c.buf[x] = data.foo[c.pos + x]
      BY Zenon, <1>1, <2>1 DEF Snapshot, ReadIsSnapshot
    <3>3. x = c.done \/ x < c.done
      <4>1. d.done = c.done + 1
        BY Zenon, <1>1
      <4> QED BY <1>3, <2>1, <4>1, FilesAssumption DEF Offsets
    <3>4. c.buf \in [Offsets -> {0, 1}]
      BY Zenon, <1>3 DEF Bytes
    <3>5. d.pos = c.pos /\ c.done \in Offsets
      BY Zenon, <1>1
    <3>6. x = c.done => Source(c, c.pos + c.done) = data.foo[c.pos + c.done]
      <4>1. c.h.op = "show" => c.pos = 0
        BY Zenon, <1>1 DEF CopyInv, CopyAt, Sysfs
      <4>2. c.h.op = "show" => x < c.count - 2
        BY Zenon, <1>1, <2>1
      <4> QED BY <1>3, <2>1, <4>1, <4>2, FilesAssumption DEF Source
    <3> QED BY Zenon, <3>1, <3>2, <3>3, <3>4, <3>5, <3>6
  <2>2. UNCHANGED <<target, pc, data>> /\ \A q \in Procs : q # p => call'[q] = call[q]
    BY Zenon, <1>1, <1>2
  <2>3. ASSUME NEW q \in Procs, target = "foo", pc[q] = "copy", ~Writes(call'[q].h),
               NEW x \in Offsets, x < call'[q].done, call'[q].h.op = "show" => x < call'[q].count - 2
        PROVE  call'[q].buf[x] = data.foo[call'[q].pos + x]
    <3>1. CASE q = p
      BY Zenon, <2>1, <2>3, <3>1
    <3>2. CASE q # p
      BY Zenon, <2>2, <2>3, <3>2 DEF Snapshot, ReadIsSnapshot
    <3> QED BY <3>1, <3>2
  <2> QED BY Zenon, <2>2, <2>3 DEF ReadIsSnapshot
<1>10. ShowInv'
  <2>1. pc' = pc /\ data' = data /\ \A q \in Procs : call'[q].h = call[q].h /\ call'[q].count = call[q].count
    BY Zenon, <1>1, <1>2
  <2> QED BY <2>1 DEF Snapshot, ShowInv
<1>9. JudgeInv'
  <2>1. Strncmp' <=> Strncmp
    BY <1>2 DEF Strncmp
  <2>2. UNCHANGED <<target, pc, verdict, data, own>> /\ \A q \in Procs : call'[q].h = call[q].h
    BY Zenon, <1>1, <1>2
  <2> QED BY <2>1, <2>2 DEF JudgeInv
<1> QED BY <1>4, <1>5, <1>6, <1>7, <1>8, <1>9, <1>10 DEF Snapshot

(* A byte is written.  Who writes to foo holds the mutex, so that no read  *)
(* is under way; of the histories only that of the writer is left.         *)
LEMMA WriteByteKeeps ==
  ASSUME FInv, NEW p \in Procs, CopyByte(p), Writes(call[p].h)
  PROVE  FInv'
<1> USE DEF FInv
<1> DEFINE c == call[p]
           d == call'[p]
           x == c.pos + c.done
           b == c.buf[c.done]
<1>1. /\ UNCHANGED <<driver, target, todo, mod, files, ready, lock, file, f_pos, pc, verdict>>
      /\ pc[p] = "copy" /\ c.done < c.count
      /\ c.done \in Offsets /\ x \in Offsets
      /\ d \in Locals(driver) /\ d.h = c.h /\ d.pos = c.pos /\ d.count = c.count
      /\ d.done = c.done + 1
      /\ DOMAIN call' = Procs /\ \A q \in Procs : q # p => call'[q] = call[q]
  BY Zenon, ByteFacts
<1>2. /\ data' = [data EXCEPT ![target][x] = b]
      /\ own' = IF target = "id" THEN [q \in Procs |-> Owned(q, p, x, b)] ELSE own
  BY DEF CopyByte
<1>3. /\ b \in {0, 1}
      /\ HandlerOK(driver, c.h)
  <2>1. c \in Locals(driver)
    BY Zenon, <1>1 DEF FTypeOK
  <2> QED BY Zenon, <1>1, <2>1, ByteFacts DEF Locals, Bytes
<1>4. c.h.file = target /\ target \in {"id", "foo"}
  BY Zenon, <1>1 DEF ModInv, FTypeOK
<1>5. /\ data.id \in Bytes /\ data.foo \in Bytes /\ data' \in [id : Bytes, foo : Bytes]
      /\ target = "id" => data'.foo = data.foo /\ data'.id = [data.id EXCEPT ![x] = b]
      /\ target = "foo" => data'.id = data.id /\ data'.foo = [data.foo EXCEPT ![x] = b]
  <2>1. data \in [id : Bytes, foo : Bytes]
    BY DEF FTypeOK
  <2>2. \A f \in Bytes : [f EXCEPT ![x] = b] \in Bytes
    BY Zenon, <1>1, <1>3 DEF Bytes
  <2>3. CASE target = "id"
    <3>1. data' = [data EXCEPT !.id = [data.id EXCEPT ![x] = b]]
      BY Zenon, <1>2, <2>1, <2>3
    <3> QED BY <2>1, <2>2, <2>3, <3>1
  <2>4. CASE target = "foo"
    <3>1. data' = [data EXCEPT !.foo = [data.foo EXCEPT ![x] = b]]
      BY Zenon, <1>2, <2>1, <2>4
    <3> QED BY <2>1, <2>2, <2>4, <3>1
  <2> QED BY Zenon, <1>4, <2>3, <2>4
<1>6. /\ own' \in [Procs -> [0 .. AUTHOR - 1 -> {"none", "good", "bad"}]]
      /\ target = "foo" => own' = own
      /\ target = "id" => \A q \in Procs, y \in 0 .. AUTHOR - 1 :
           own'[q][y] = IF q # p THEN "none" ELSE IF y = x THEN (IF b = 1 THEN "good" ELSE "bad") ELSE own[q][y]
  <2>1. own \in [Procs -> [0 .. AUTHOR - 1 -> {"none", "good", "bad"}]]
    BY DEF FTypeOK
  <2>2. CASE target = "foo"
    BY Zenon, <1>2, <2>1, <2>2
  <2>3. CASE target = "id"
    <3>1. own' = [q \in Procs |-> Owned(q, p, x, b)]
      BY Zenon, <1>2, <2>3
    <3>2. ASSUME NEW q \in Procs
          PROVE  /\ Owned(q, p, x, b) \in [0 .. AUTHOR - 1 -> {"none", "good", "bad"}]
                 /\ \A y \in 0 .. AUTHOR - 1 : Owned(q, p, x, b)[y] =
                      IF q # p THEN "none" ELSE IF y = x THEN (IF b = 1 THEN "good" ELSE "bad") ELSE own[q][y]
      <4> HIDE DEF x, b
      <4>1. CASE q # p
        BY <4>1 DEF Owned, Nothing
      <4>2. CASE q = p
        BY Zenon, <2>1, <4>2 DEF Owned
      <4> QED BY Zenon, <4>1, <4>2
    <3> HIDE DEF x, b
    <3> QED BY <2>3, <3>1, <3>2
  <2> QED BY Zenon, <1>4, <2>2, <2>3
<1>7. FTypeOK'
  BY Zenon, <1>1, <1>5, <1>6 DEF FTypeOK
<1>8. ModInv'
  BY Zenon, <1>1 DEF ModInv
<1>9. CopyInv'
  <2>1. ASSUME NEW q \in Procs, q # p PROVE CopyAt(q)'
    BY Zenon, <1>1, <2>1 DEF CopyInv, CopyAt
  <2>2. CopyAt(p)'
    BY Zenon, ByteCopyAt
  <2> QED BY Zenon, <2>1, <2>2 DEF CopyInv
<1>10. LockInv'
  BY Zenon, <1>1 DEF LockInv
<1>11. Snapshot'
  <2>1. ASSUME NEW q \in Procs, target = "foo", pc[q] = "copy"
        PROVE  q = p
    <3>1. call[q].h.file = "foo" /\ call[q].h \in Handlers[driver] /\ driver \in Drivers
      BY Zenon, <2>1 DEF ModInv, FTypeOK, Locals
    <3>2. call[q].h.locks /\ c.h.locks
      BY Zenon, <1>3, <1>4, <2>1, <3>1, HandlerFacts DEF HandlerOK
    <3> QED BY Zenon, <1>1, <2>1, <3>2 DEF LockInv
  <2>2. ReadIsSnapshot'
    BY Zenon, <1>1, <2>1 DEF ReadIsSnapshot
  <2>3. ASSUME NEW q \in Procs, pc'[q] = "copy", call'[q].h.op = "show"
        PROVE  target = "foo" /\ pc[q] = "copy" /\ call'[q].h = call[q].h
    <3>1. pc[q] = "copy" /\ call'[q].h = call[q].h
      BY Zenon, <1>1, <2>3
    <3>2. call[q].h.file = target /\ call[q].h \in Handlers[driver] /\ driver \in Drivers
      BY Zenon, <3>1 DEF ModInv, FTypeOK, Locals
    <3>3. call[q].h = foo_show
      BY Zenon, <2>3, <3>1, <3>2, HandlerFacts DEF HandlerOK
    <3> QED BY <3>1, <3>2, <3>3 DEF foo_show
  <2>4. ShowInv'
    <3>1. \A q \in Procs : ~(pc'[q] = "copy" /\ call'[q].h.op = "show")
      <4>1. ASSUME NEW q \in Procs, pc'[q] = "copy", call'[q].h.op = "show" PROVE FALSE
        <5>1. q = p /\ call[q].h.op = "show"
          BY Zenon, <2>1, <2>3, <4>1
        <5> QED BY <5>1 DEF Writes
      <4> QED BY Zenon, <4>1
    <3> QED BY Zenon, <3>1 DEF ShowInv
  <2> QED BY Zenon, <2>2, <2>4 DEF Snapshot
<1>12. JudgeInv'
  <2> HIDE DEF x, b
  <2>1. JudgeInv /\ b \in {0, 1}
    BY Zenon, <1>3
  <2>2. target' = target /\ pc' = pc /\ verdict' = verdict /\ pc[p] = "copy" /\ call'[p].h = call[p].h
    BY Zenon, <1>1
  <2> HIDE DEF FInv
  <2>3. CASE target = "foo"
    <3>1. data'.id = data.id /\ own' = own
      BY Zenon, <1>5, <1>6, <2>3
    <3>2. Strncmp' <=> Strncmp
      BY <3>1 DEF Strncmp
    <3>3. \A q \in Procs : call'[q].h = call[q].h
      BY Zenon, <1>1
    <3> QED BY <2>1, <2>2, <3>1, <3>2, <3>3 DEF JudgeInv
  <2>4. CASE target = "id"
    <3>1. ASSUME NEW q \in Procs, NEW y \in 0 .. AUTHOR - 1
          PROVE  /\ own'[q][y] = "good" => data'.id[y] = 1
                 /\ own'[q][y] = "bad" => data'.id[y] = 0
      <4>1. y \in Offsets
        BY FilesAssumption DEF Offsets
      <4>2. data'.id[y] = IF y = x THEN b ELSE data.id[y]
        BY Zenon, <1>1, <1>5, <2>4, <4>1 DEF Bytes
      <4>3. own'[q][y] = IF q # p THEN "none" ELSE IF y = x THEN (IF b = 1 THEN "good" ELSE "bad") ELSE own[q][y]
        BY Zenon, <1>6, <2>4
      <4> QED BY <2>1, <4>2, <4>3 DEF JudgeInv
    <3>2. ASSUME NEW q \in Procs, \A y \in 0 .. AUTHOR - 1 : own'[q][y] # "none"
          PROVE  q = p
      <4>1. 0 \in 0 .. AUTHOR - 1
        BY FilesAssumption
      <4> QED BY Zenon, <1>6, <2>4, <3>2, <4>1
    <3>3. Writes(call'[p].h)
      BY Zenon, <2>2
    <3> QED BY <2>2, <2>4, <3>1, <3>2, <3>3 DEF JudgeInv
  <2> QED BY Zenon, <1>4, <2>3, <2>4
<1> QED BY <1>7, <1>8, <1>9, <1>10, <1>11, <1>12

(* A copy that leaves its array ends all that can be said. *)
LEMMA BehindKeeps ==
  ASSUME FInv, NEW p \in Procs, CopyBehind(p)
  PROVE  FInv'
<1> USE DEF FInv
<1>1. /\ UNCHANGED <<driver, target, todo, files, ready, lock, data, file, f_pos, pc, call, verdict, own>>
      /\ mod' = "undefined"
  BY DEF CopyBehind, procVars
<1>2. FTypeOK' /\ LockInv'
  BY Zenon, <1>1 DEF FTypeOK, LockInv
<1>3. CopyInv'
  BY Zenon, <1>1 DEF CopyInv, CopyAt
<1>4. Snapshot' /\ JudgeInv'
  BY <1>1, SnapshotSame, JudgeSame
<1>5. ModInv'
  BY <1>1 DEF ModInv
<1> QED BY <1>2, <1>3, <1>4, <1>5

-----------------------------------------------------------------------------
(* The results *)

(* Every step of the module and of the processes keeps the invariant. *)
LEMMA FInvNext == FInv /\ [Next]_vars => FInv'
<1> SUFFICES ASSUME FInv, [Next]_vars PROVE FInv'
  OBVIOUS
<1>1. CASE UNCHANGED vars
  <2>1. /\ UNCHANGED <<driver, target, todo, mod, files, ready, lock, data>>
        /\ UNCHANGED <<file, f_pos, pc, call, verdict, own>>
    BY <1>1 DEF vars, modVars
  <2>2. FTypeOK' /\ ModInv' /\ LockInv'
    BY Zenon, <2>1 DEF FInv, FTypeOK, ModInv, LockInv
  <2>3. CopyInv'
    BY Zenon, <2>1 DEF FInv, CopyInv, CopyAt
  <2>4. Snapshot'
    BY <2>1, SnapshotSame DEF FInv
  <2>5. JudgeInv'
    BY Zenon, <2>1 DEF FInv, JudgeInv, Strncmp
  <2> QED BY <2>2, <2>3, <2>4, <2>5 DEF FInv
<1>2. CASE InitStep
  BY <1>2, InitStepKeeps
<1>3. CASE MyDebugfsExit \/ MySysfsExit \/ MiscExit
  BY <1>3, ExitKeeps
<1>4. ASSUME NEW p \in Procs, Open(p) \/ Close(p)
      PROVE  FInv'
  BY <1>4, OpenKeeps
<1>5. ASSUME NEW p \in Procs, MutexLockInterruptible(p)
      PROVE  FInv'
  BY <1>5, LockKeeps
<1>6. ASSUME NEW p \in Procs, CallStep(p)
      PROVE  FInv'
  BY <1>6, CheckKeeps, ReadByteKeeps, WriteByteKeeps, BehindKeeps, CopyDoneKeeps, UnlockKeeps DEF CallStep
<1>7. ASSUME NEW p \in Procs, Fault(p)
      PROVE  FInv'
  BY <1>7, FaultKeeps
<1>8. ASSUME NEW p \in Procs, NEW h \in Handlers[driver], NEW n \in Counts(h), NEW byte \in {0, 1},
             Call(p, h, n, byte)
      PROVE  FInv'
  BY <1>8, CallKeeps
<1> QED BY <1>1, <1>2, <1>3, <1>4, <1>5, <1>6, <1>7, <1>8 DEF Next

(* The invariant holds of every behaviour of the files. *)
LEMMA FInvariant == Spec => []FInv
<1> QED BY FInvInit, FInvNext, PTL DEF Spec

(* Of all that reads or writes "id" or "foo", at whatever offset and of    *)
(* whatever length, only id_write() and foo_write() of the debugfs module  *)
(* can copy past the end of user_input, author_id or the page, and         *)
(* foo_show() past that of the buffer of sysfs if the string in the page   *)
(* is too long; the offset never leaves the buffer: for every size of the  *)
(* buffers.                                                                *)
THEOREM OnlyTheseOverrun == Spec => []OverrunOnlyBy
<1>1. FInv => OverrunOnlyBy
  <2> SUFFICES ASSUME FInv, NEW p \in Procs
               PROVE  /\ f_pos[p] <= SIZE
                      /\ pc[p] = "copy" /\ call[p].pos + call[p].count > call[p].h.limit =>
                           \/ call[p].h \in {id_write, foo_write}
                           \/ call[p].h = foo_show /\ \A x \in 0 .. SIZE - 2 : data.foo[x] # 0
    BY Zenon DEF OverrunOnlyBy
  <2>1. f_pos[p] <= SIZE
    BY FilesAssumption DEF FInv, FTypeOK
  <2>2. ASSUME pc[p] = "copy", call[p].pos + call[p].count > call[p].h.limit
        PROVE  call[p].h \in {id_write, foo_write, foo_show}
    BY Zenon, <2>2 DEF FInv, CopyInv, CopyAt
  <2>3. ASSUME pc[p] = "copy", call[p].pos + call[p].count > call[p].h.limit, call[p].h = foo_show,
               NEW x \in 0 .. SIZE - 2
        PROVE  data.foo[x] # 0
    <3>1. call[p].h.op = "show" /\ call[p].h.limit = SIZE
      BY <2>3 DEF foo_show
    <3>2. call[p].pos = 0
      BY Zenon, <2>3, <3>1 DEF FInv, CopyInv, CopyAt, Sysfs
    <3>3. /\ call[p].count \in 2 .. SIZE + 2
          /\ \A y \in Offsets : y < call[p].count - 2 => data.foo[y] # 0
      BY Zenon, <2>3, <3>1 DEF FInv, Snapshot, ShowInv
    <3>4. x \in Offsets /\ x < call[p].count - 2
      BY <2>3, <3>1, <3>2, <3>3, FilesAssumption DEF Offsets
    <3> QED BY Zenon, <3>3, <3>4
  <2> QED BY <2>1, <2>2, <2>3
<1> QED BY <1>1, FInvariant, PTL

(* What foo_read() and foo_show() copy is the page of one moment, however  *)
(* many processes call foo_write() and foo_store() meanwhile.              *)
THEOREM ReadsAreSnapshots == Spec => []ReadIsSnapshot
<1>1. FInv => ReadIsSnapshot
  BY DEF FInv, Snapshot
<1> QED BY <1>1, FInvariant, PTL

(* my_debugfs_init() calls mutex_init() before any call can use the mutex. *)
THEOREM MutexReadyInTime == Spec => []LockInitialized
<1>1. FInv => LockInitialized
  <2> SUFFICES ASSUME FInv, driver = "debugfs", NEW p \in Procs, pc[p] # "idle", call[p].h.locks
               PROVE  ready
    BY DEF LockInitialized
  <2>1. call[p].h.file = target /\ call[p].h \in Handlers[driver] /\ driver \in Drivers
    BY DEF FInv, ModInv, FTypeOK, Locals
  <2>2. target = "foo"
    BY <2>1, HandlerFacts DEF HandlerOK
  <2> QED BY Zenon, <2>2 DEF FInv, ModInv
<1> QED BY <1>1, FInvariant, PTL

(* simple_dev_write(), id_write() and id_store() judge the whole of what a *)
(* process has written, in however many writes, for every length of the id *)
(* and with any number of other processes that do not write meanwhile.     *)
THEOREM VerdictsAreRight == Spec => []WholeValueJudged
<1>1. FInv => WholeValueJudged
  <2> SUFFICES ASSUME FInv, NEW p \in Procs, pc[p] = "idle", verdict[p] # "none",
                      "none" \notin {own[p][x] : x \in 0 .. AUTHOR - 1}
               PROVE  verdict[p] = "correct" <=> {own[p][x] : x \in 0 .. AUTHOR - 1} = {"good"}
    BY DEF WholeValueJudged
  <2>1. \A x \in 0 .. AUTHOR - 1 : own[p][x] # "none"
    OBVIOUS
  <2>2. verdict[p] = "correct" <=> Strncmp
    BY <2>1 DEF FInv, JudgeInv
  <2>3. ASSUME NEW x \in 0 .. AUTHOR - 1
        PROVE  own[p][x] = "good" <=> data.id[x] = 1
    <3>1. own[p][x] \in {"good", "bad"}
      <4>1. own \in [Procs -> [0 .. AUTHOR - 1 -> {"none", "good", "bad"}]]
        BY DEF FInv, FTypeOK
      <4> QED BY Zenon, <2>1, <4>1
    <3> QED BY <3>1 DEF FInv, JudgeInv
  <2>4. Strncmp <=> \A x \in 0 .. AUTHOR - 1 : own[p][x] = "good"
    BY Zenon, <2>3 DEF Strncmp
  <2>5. 0 \in 0 .. AUTHOR - 1
    BY FilesAssumption
  <2>6. {own[p][x] : x \in 0 .. AUTHOR - 1} = {"good"} <=> \A x \in 0 .. AUTHOR - 1 : own[p][x] = "good"
    <3> DEFINE I == 0 .. AUTHOR - 1
    <3>1. I # {}
      BY <2>5
    <3> HIDE DEF I
    <3>2. {own[p][x] : x \in I} = {"good"} <=> \A x \in I : own[p][x] = "good"
      BY <3>1, Zenon
    <3> QED BY <3>2 DEF I
  <2> QED BY <2>2, <2>4, <2>6
<1> QED BY <1>1, FInvariant, PTL
=============================================================================
