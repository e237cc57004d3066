# Formal models of the eudyptula kernel modules

This directory specifies, model-checks and proves properties of the kernel code in
`src/`: solutions to the Eudyptula challenge, one directory per task. The
specifications are TLA+ modules translated from the C sources. TLC checks them on
small instances; TLAPS proves the safety properties for every value of the constants.

## The system and its inventory

The repository is a set of small kernel modules that mostly do not call each other.
They share kernel facilities (threads, semaphores, mutexes, RCU, lists, files) and a
few of them share code that was copied from task to task. Two groups really
interact: the threads of `prod-cons.c` through its streams, and `netfilter.c` with
the text search library `docs/textsearch.c`.

| part | source | modules | status |
| --- | --- | --- | --- |
| streams: `put`, `get` | `Task_17/kthreads/prod_cons/prod-cons.c` | `Streams`, `BoundedFifo`, `StreamsProofs` | modelled, proved |
| thread network over the streams | same file | `ProdCons`, `Pipeline`, `ProdConsPipeline`, `StreamsProofs`, `ProdConsInvariant`, `ProdConsProofs` | modelled, proved |
| threads stopped through flags | `Task_17/kthreads/kthread_stop/kthread_stop.c` | `KthreadStop`, `KthreadsKllProofs` | modelled, proved |
| identity device and its thread | `Task_18/misc_device/misc_dev.c` | `IdentityDevice`, `IdentityDeviceProofs` | modelled, proved |
| text search registry | `Task_19/docs/textsearch.c` | `TextSearch`, `NetfilterProofs` | all but the linear searches; proved |
| netfilter hook | `Task_19/netfilter.c` | `Netfilter` (over `TextSearch`), `NetfilterProofs` | modelled, proved |
| identity list | `Task_12/kll/kll.c` | `Kll`, `KthreadsKllProofs` | modelled, proved |
| the list in a slab cache | `Task_13/kll/kll.c` | `KllCache` (over `Kll`), `KthreadsKllProofs` | modelled, proved |
| debugfs directory | `Task_8/debugfs/my_debugfs.c` | `Files`, `FilesProofs` | modelled, proved |
| misc device | `Task_6/misc_device/misc_dev.c` | `Files`, `FilesProofs` | modelled, proved |
| sysfs directory | `Task_9/sysfs/my_sysfs.c` | `Files`, `FilesProofs` | modelled, proved |
| misc device with a waiting thread | `Task_17/misc_device/misc_dev.c` | `Kthreads`, `KthreadsKllProofs`; its file in `Files`, `FilesProofs` | modelled, proved |
| thread-creating work queue | `Task_17/kthreads/work_queue/maxthreads.c` | `Kthreads`, `KthreadsKllProofs` | modelled, proved |
| FAT volume label | `Task_20/vol_label.patch`, `fat_ioctl.c`, `fat_vol.c` | `FatLabel`, `FatLabelProofs` | all but the volume id; proved |
| kthread example, `/proc/PID/id`, `sys_eudyptula` | `Task_17/kthreads`, patches of `Task_14`, `15` | | not modelled, see the end |
| hello world, USB, licence and version patches, user programs, logs | | | no behaviour to model |

`PROJECT.json` lists every part with its sources ("components"), the source lines of
every definition ("map"), and the places where this code is hard to test
("hazards").

### State, operations, interactions and correctness, part by part

**Streams.** State: per stream a token queue and the semaphores `empty`, `full`,
`mutex`. Operations: `init_stream()`, `put()`, `get()`. Interaction: kernel threads
share a stream and meet only in its semaphores. Hard: every interleaving of the four
semaphore operations of several calls, and calls interrupted half-way. Correct if: a
stream is a bounded FIFO in which every call takes effect at one instant, no
semaphore promises a token or slot that is not there, and without signals none is
lost.

**Thread network.** State: the wiring, the local variables and loop counters of six
threads, the heap of tokens. Operations: one loop body per kind of thread,
`connect()`, `init_module()`, `cleanup_module()`. Interaction: through five bounded
queues; tokens travel as bare pointers. Hard: back pressure, the order
in which `merge()` waits, ownership of the pointers, unloading under running
threads. Correct if: the consumer prints the sorted multiples under any schedule,
each token has one owner from allocation to `vfree()`, and nobody sleeps for good
before the consumer is served.

**kthread_stop.** State: `flag[]`, the stop bit and position of each thread.
Operations: `function()`, `init_module()`, `cleanup_module()`. Hard: a thread may
end between the test of its flag and `kthread_stop()`, and may be about to return
when the code goes. Correct if: cleanup ends and leaves no thread with work to do.

**Identity device.** State: `my_id_list`, `id_count`, the static buffers of `write`
and `identity_get()`, the state of the thread. Operations: `write`, `kthread_fn()`,
`misc_init()`, `misc_exit()`, `identity_create/find/get/destroy()`. Interaction: a
write adds to the list and wakes the thread; exit destroys and stops. Nothing is
locked. Hard: wake-ups against `prepare_to_wait()`, the stop request against a busy
thread, writers against each other, init and exit. Correct if: reports never go back
to an older identity, a wake-up is missed only by a thread that has not
called `prepare_to_wait()` since it last looked at the list, and exit ends once the
writes have.

**Text search and netfilter hook.** State: the RCU list of algorithms, module states
and reference counts, the configuration of each user; for the hook, whether it is
registered and where each processor is in it. Operations: `register`, `unregister`,
`prepare`, `destroy`; `init()`, `fini()`, `eudyptula_hook()`. Interaction: `init()`
prepares a configuration, which holds a reference to an algorithm module; packets on
any processor search with it. Hard: lookups without the lock while entries come and
go, a reference taken on a module that is on its way out, waiting for readers.
Correct if: names stay unique, walks touch no freed entry and miss no registered
one, references are exact, and the hook searches with a loaded algorithm until
`fini()`.

**Identity list, with and without a slab cache.** State: the pointers, the memory in
use. Operations: `identity_create/find/destroy()`, called in sequence by
`linked_list_init()`; creation and destruction of the cache. Hard: the list is
changed and freed while it is walked, and any allocation may fail. Correct if: links
stay sound, memory and ids agree, find is exact, and the cache is not destroyed with
unexpected objects.

**foo and id files.** State: a page with a mutex; a static buffer without one; the
offset of each open file. Operations: open, read, write, and the init and exit
functions of the four modules that make such files. Hard: copies that fault or are
preempted half-way, a file that is open before init is done, one offset for reads
and writes. Correct if: a read of `foo` is a snapshot, the mutex is ready and always
given back, the copies that can reach behind the end of an array are known completely,
and a value that was written completely is judged rightly.

**Work queue and waiting thread.** State: `ts[]` with the threads, `count`, where the
delayed work is (timer, queue, running); for the misc device the one thread and its
wake-ups. Operations: `function()`, `threadf()`, `kthread_fn()`, the init and cleanup
functions. Interaction: `function()` starts a thread and queues itself again, while
cleanup flushes, cancels, destroys and stops. Hard: the timer may expire between any
two of these calls, and a wake-up may come just before the thread sleeps. Correct
if: cleanup ends and leaves no thread, and what can go wrong is known completely.

**Volume label.** State: root directory, boot sector and backup, in the buffer cache
and on the disk; `s_lock`. Operations: the ioctl, the two programs that call it,
write-back, crash and remount. Hard: three places change one after the other, with
early returns, I/O errors, another caller and crashes in between. Correct if:
success means that the label is in the boot sector on the disk, failure that the boot
sectors have been left alone, and what can give a volume two labels is known completely.

## The modules and the code

**Streams.** A `Stream` is a queue with the semaphores `empty`, `full` and `mutex`.
`put()` and `get()` are one action per semaphore or queue operation (`PutDownEmpty`,
`DownMutex`, `Enqueue`, `UpMutex`, `PutUpFull`, ...), so all interleavings of
concurrent calls are covered, and with `Signals = TRUE` also the paths on which
`down_interruptible()` fails. The queue itself (`queue_a.c`) is not in the
repository; it is a sequence, modelled from its use, that returns `NULL` when it is
empty. `BoundedFifo` says what callers rely on: each call takes effect in one step,
in FIFO order, within the capacity. `ImplementsFifo` is the refinement; the call
takes effect at the enqueue or dequeue.

**ProdCons, Pipeline.** `ProdCons` extends `Streams` with the six threads of
`init_module()`, the wiring by `connect()`, the heap of `vmalloc`ed tokens, and
`cleanup_module()`. `Pipeline` is the same network with atomic queue operations on
integers. `ProdCons` is checked and proved to implement it (`ImplementsPipeline` in
`ProdConsPipeline`), and what the network computes is checked on `Pipeline` with the constants of the code.

**KthreadStop.** `function()` step by step, and `cleanup_module()`, which tests a
flag and then calls `kthread_stop()`. `kthread_run()` and `kthread_stop()` are
external: the first may fail, which nobody tests (`pc[t] = "error"`); the second sets
the stop bit and waits for the thread to exit, and what it does to a thread that is
already gone or to an error pointer is the state `"oops"`.

**IdentityDevice.** Writers, the kernel thread, `misc_init()` and `misc_exit()` over
a list that no lock protects. A list operation is two steps; as soon as two overlap,
or a bad task pointer is used, the outcome is undefined. An undefined state has no
successor and nothing is claimed of it. `id_count++` is a load and a store. A write
may be of any length, and start at any offset, as the file may have been opened again
or be written with `pwrite()`; the bytes of a name are abstracted to how far
`user_input` has been written.
`user_input` is declared `const` in this file and in the one of Task 6, and written
to, which C leaves undefined; the models follow the modules built from them
(`misc_dev.ko`), in which the array is in `.bss`, can be written, and is compared at
run time.

**TextSearch, Netfilter.** `TextSearch` has the list of algorithms by its next
pointers (a reader may stand on an entry that has been unlinked), registration under
`ts_mod_lock`, lookup under RCU, module references and grace periods. `Netfilter`
extends it: `init()`, `fini()` and the hook on several processors are a further user
of the registry. When `nf_register_net_hook()` fails, `init()` leaks the configuration
and its reference; the failed module counts as their holder from then on. What a search
with a destroyed configuration does is undefined.

**Kll, KllCache.** The identity list with its pointers. `list_for_each_entry()` is
one step per turn, because `identity_destroy()` frees the entry it stands on and
reads the next pointer from it afterwards. If that memory has been reused the
outcome is undefined, and the model ends there. `KllCache` puts the life of the slab
cache around it.

**Files.** The files `id` and `foo` of four modules. Their handlers are variations on
one theme (take the mutex, look at the offset, clamp, copy, judge, give the mutex
back), so that a handler is a record that says which of this it does, named after
the C function, and the steps are shared. A copy is one step per byte and may fault
at any of them. A byte is the right one for its place or not. The init functions are
the sequences of what they create, as a file can be opened as soon as it is there.
Counts go from 0 to one more than the buffer holds. `foo_write()` and `id_write()` do
not clamp them, and `foo_show()` prints a string that may fill the page or lack its NUL,
plus a newline and a NUL: a copy that reaches the end of the array is an undefined
outcome (`CopyBehind`). The offset of a file is moved by reads and writes only. The mutex of the sysfs module is never initialized: having to wait for it
is an undefined outcome, of which nothing is claimed.

**Kthreads.** `prog` says which of the two modules a behaviour is of. The work is
idle, behind its timer, queued or running; `flush_workqueue()` waits for the runs
that are outstanding when it is called (`owed`), and `cancel_delayed_work()` removes
the timer or the queued work and waits for no run. `destroy_workqueue()` has two steps: up
to the first the queue still takes a work whose timer expires, from then on it drops it. A thread of the misc device is between its test of
`kthread_should_stop()` and `schedule()` in the state `"going"`, which a wake-up
ends. Undefined outcomes (an error pointer passed to `kthread_stop()`, an index
behind `ts[]`, a timer for a destroyed queue) are the state `"undefined"`.

**FatLabel.** `fat_ioctl_set_volume_label()` with a step for each place where another
caller, an error or a crash may come in: the search for the entry, which is made
before `s_lock` is taken, the change of the entry under the lock, the check for a
read-only or dirty volume, and the two sectors and their syncs. An entry of the
directory has a kind, because `fat_find_volume_label()` also takes the slot of a
long name, or a deleted entry, for a label; that the label was behind a deleted one when
the volume was mounted is recorded in `shadowed`. `WriteBack` brings a buffer to the disk at any time,
`Crash` loses the buffers and leaves the volume dirty. `fat_ioctl.c` and `fat_vol.c`
differ in what they do before the ioctl; both print how it went (`said`).

## What TLC checks

`tlc -config <cfg> <module>` for each row; the module is the `MC...` one.

| run | configuration | what it shows |
| --- | --- | --- |
| `streams` | 3 threads, 2 streams of capacity 2, calls may be interrupted | `MutualExclusion`; `Backed`: `full` and `empty` never promise what is not there; `ImplementsFifo` |
| `prod_cons` | 6 threads, capacity 1, factors 2 and 1, 1 token consumed | `SoleOwner`: one owner per token, no use of a freed token or of a `NULL` from `get()`; `NothingStranded`; `ImplementsPipeline`; `EventuallySleeps` |
| `pipeline` | capacity 5, factors 3 and 5, 10 tokens: the code's own constants | `SortedOutput`: the output is the sorted multiples; `EventuallyRests`: back pressure stops the network, served and full |
| `kthread_stop` | 3 threads, 2 rounds; creations fail | `OnlyTailOutlivesModule`; `FullRun`: unstopped threads run in full; `CleanupTerminates` |
| `identity` | 2 writers, 2 writes, one writer may be early, one may be open during `rmmod`; allocations fail | `InOrder`; `WakeUpLostOnlyUnprepared`: a wake-up is lost only on a thread between its look at the list and `prepare_to_wait()`; `ExitEnds`, if `id_count` stops growing |
| `netfilter` | 4 algorithm modules (2 of one name, 1 incomplete), 1 processor; the netfilter module calls the library, and before it is loaded so does another caller | `UniqueNames`; `ReaderSafe`, `LookupComplete`: safe and complete RCU walks; `PrepareReturns`, `UnloadEnds`; `ConfBacked`: one reference per configuration that has not been destroyed; `HookSearches`: until `fini()` the hook searches with a loaded algorithm |
| `kll_cache` | 4 nodes, as many as `linked_list_init()` asks for | `WellLinked` under deletion; `NothingLeaks`: memory matches ids; `FindExact`; `OnlyGenaRemains` when the cache goes |
| `files` | 2 processes on `foo` or 1 on `id`, 2 compared bytes, buffers of 3; all four modules | `ReadIsSnapshot`; `OverrunOnlyBy`: the only copies that can reach behind an array; `LockInitialized`; `WholeValueJudged`; `CallReturns`: the mutex is given back on every path |
| `kthreads` | `ts` of 4, both modules; creations fail | `ThreadsGone`: none outlives the module; `UndefinedOnlyBy`: the only ways to an undefined outcome; `CleanupEnds` |
| `fat_label` | 2 processes, any 2 directory entries (free, file, slot of a long name, label, or one of the last two deleted), FAT16 and FAT32, 1 crash, I/O errors | `SuccessIsOnDisk` and `FailureLeavesBoot`, about the boot sectors; `OneLabel` unless calls overlapped, a read failed or the label was behind a deleted one; `CallReturns` unless a process has crashed under `s_lock` |

`streams` and `identity` also check the type invariant of their modules.

Two more runs show that the code does not do what a comment in it says; each has an
entry under "findings":

| run | the text | what happens |
| --- | --- | --- |
| `prod_cons_unload` | `get` returns 'value' "which should have a value from a call to put" | `cleanup_module()` destroys queues under running threads |
| `kthread_stop_flag` | the flag is "needed to prevent kthread_stop from executing if the function has already completed" | the function can complete between test and call |

Other places where code and text part, which the models follow but no run is about:
`connect()` puts a stream at the head of the input list, its comment says the end
(`Pipeline` shows that the order does not matter to the output). `misc_exit()` logs
"List destroyed." even when racing `id_count++` has left identities on the list.
`fini()` destroys the configuration with the hook still registered, `init()` keeps
it when registration fails, and all processors share one `ts_state`, against what
`textsearch.c` asks of its users. The verdict "correct value written" is about a
buffer to which earlier and other writes contribute. The ioctl changes the directory
entry of a read-only or dirty volume before it reports failure, two callers may
both find no label and both add one, and a deleted label in front of the label is
renamed and so comes to life beside it. `foo_write()` and `id_write()` of the debugfs
module do not clamp their counts as `foo_read()` does. `cleanup_module()` of the work queue lets a
timer that expires while it runs start `function()` once more.

### Bounds

The bounds are constants, and each is the smallest at which the cases of interest
happen. Three threads give a stream two callers of one kind and one of the other,
and two streams keep a call on one apart from calls on the other. Capacity 1 in
`ProdCons` makes every thread block both ways; the real capacity is covered by
`Pipeline`. Three threads in `KthreadStop` give cleanup one before, at and behind
the current one. Two modules of one name and one of another are what a registration
conflict and a walk past a foreign entry need; the fourth is turned away at
registration. One processor is enough for a search to be under way at any step of
`fini()`. With one caller, lookups race with modules but not with each other; two
lookups share only reference counts and the list, which they do not change. Four nodes are all `linked_list_init()` can
use. A buffer of three bytes has a middle and an end, and with two compared bytes
room behind the id. Four places in `ts` (the first is never used) let the array run
full with three threads started, and let cleanup come before, between and after. Two
directory entries are one to find and one to add, and one crash may come at any
step, with calls before and after it. Two writers of `IdentityDevice` race with each other, with init and
with exit; two writes that succeed (`MaxWrites`) may be of one each or both of one, and
writes that fail are not bounded. Tokens of `ProdCons` are unbounded in the specification; a run is
finite because the consumer stops and the queues are bounded. One consumed token is
enough to have every thread start over in its loop while the queues are refilled,
and factors 2 and 1 make `merge()` take both branches and wait for both inputs.

Runs with `CHECK_DEADLOCK FALSE` are of code that really stops: threads that wait
for slots once the consumer has returned, an init function that has come to its end,
a module that has been removed, or a state whose outcome is undefined.

### Fairness

Weak fairness of a thread's steps says that the scheduler lets a runnable kernel
thread run. It is assumed of every thread in `ProdCons`, `Pipeline` and
`KthreadStop`, of threads, work items and cleanup in `Kthreads`, of the kernel thread and of `misc_exit()` in `IdentityDevice`, and of
calls that have been entered in `TextSearch`, `Files` and `FatLabel`. Nobody is obliged to
call, to load or to unload. Strong fairness is assumed only for taking a lock
(`ts_mod_lock`, `foo_page.lock`): the kernel's spinlocks are queued and its mutexes
hand themselves over to a waiter, so that a waiter is not passed for ever. Faults
and signals, timers, write-back and crashes have no fairness.

## What is proved

All theorems hold for every value of the constants that satisfies the named
assumptions in the modules (`StreamsAssumption`, `PipelineAssumption`, `ProdConsAssumption`,
`KthreadStopAssumption`, `KllAssumption`, `KthreadsAssumption`, `FatLabelAssumption`, `FilesAssumption`,
`IdentityDeviceAssumption`, `TextSearchAssumption`, `NetfilterAssumption`). They say
that sizes are in the range and in the relation they have in the code (the id is shorter
than the buffer, a name has room for its terminator), that there are finitely many
callers, that special values are distinct from the ordinary ones, and of `prod-cons.c`
which threads and streams there are and that its kernel threads get no signals. TLC evaluates
them in the runs. Every inductive invariant was model-checked before it was proved.

**StreamsProofs** has two parts. For `Streams` (any number of threads and streams, any capacity), the inductive
invariant `Inv` is `TypeOK`, `MutexAccounted`, `TokensBacked`, `SlotsBacked` and
`NothingStranded`. Mutual exclusion alone is not inductive: that a thread may enter
follows only from counting, that is from the mutex being 1 minus the number of
threads inside. Likewise, that a dequeue finds a token needs the equation between
`full`, the queue and the calls on their way. The lemmas at the start of the module
are about how these counts change when one thread moves. From `Inv` follow
`TypeCorrect`, `Exclusion`, `Backing` and `Exactness` (without signals), and
`Refinement`: every step of `put()` and `get()` is a step of `BoundedFifo` or leaves
it unchanged.

For `Pipeline` (any two positive factors, any capacity, any number of tokens):
`OutputSorted`, that what the consumer gets is the sequence of the multiples of the two
factors in ascending order, a common multiple twice. `SortedOutput` is not inductive. `PInv`
adds where each int is: a successor has put 1 to n - 1, and what is in the queues and
variables on the way to `merge()` are the last of these, in order (`Line`); and that
neither input of `merge()` is ahead of the next multiple of the other (`InStep`, in
`Output`). The lemma `NextMultiple` shows from `InStep` that the smaller of the two
heads is the next multiple in order. `KthMultiple` is defined by counting multiples,
not by merging, so the theorem compares the network with another definition.

**ProdConsInvariant, ProdConsProofs** (any buffer size, any two positive factors, any number of rounds of the
consumer): the six threads of `prod-cons.c`, in the detail of `Streams`, as long as the
module is not unloaded. `NetOwner`: `SoleOwner`. `NetRefinement`: the network implements
`Pipeline`. `NetExact`: no slot and no token is lost in the network. `NetReturns`: `get()`
returns no `NULL`, which only `cleanup_module()` can make it do. `NetSorted` puts the
refinement and `OutputSorted` together: the consumer of `prod-cons.c` prints the sorted
multiples.

The proof has three layers. What `put()` and `get()` guarantee is taken from
`StreamsProofs`, which `ProdConsProofs` instantiates (`SP`): a step of the network is a step of `Streams`
(`StreamStep`), so that `SP!Inv` holds, and from it follows what the threads rely on
(`StreamsOK`): `enqueue()` has room, `dequeue()` finds a token. `NetInv`, in `ProdConsInvariant`, is about the threads:
how far `init_module()` has got with the wiring (`Wired`), where each thread is in its loop
and which of its variables are in use there (`Control`), that a token is in one variable
or queue slot (`OwnerInv`), and which ints the successors' tokens have and that `merge()`
has compared the ones it holds (`DataInv`). None of these is inductive alone: that the token in
a variable of `merge()` is nobody else's depends on where `merge()` is, and `merge()` only gets
there if its inputs are wired. In between, `StepMoves` sorts the steps of all threads into
a few kinds (`Moves`): a step moves no token, or a token is allocated, multiplied,
compared, sent to a queue, received from one, or freed. Ownership, data and refinement
are proved per kind and not per action, and a times thread's multiplication and the
return of `put()` or `get()` are steps that `Pipeline` does not see.

**KthreadsKllProofs** has three parts. For `Kthreads` (any size of `ts`):
`NoThreadOutlives` and `OnlyTheseUndefined`. The
argument goes back from the loop that stops the threads: it runs when the queue is
destroyed, so that no thread is added behind its index (`Stopped`); and the work is
idle by then unless the timer has expired during cleanup, because each flush waits
for exactly the runs that are outstanding (`CleanUnlessLate`). `KInv` is these two,
the types and `UndefinedOnlyBy`.
For `KthreadStop` (any number of threads and rounds): `NoThreadLeftBehind`, that when
`cleanup_module()` has returned, a thread has at most its return left. It is not
inductive; `StopInv` adds that a flag is set last (`FlagLast`), that the threads before
the current one are done (`DoneBefore`), where cleanup starts (`AtStart`), and how
rounds and counter go together (`RoundsLeft`), which also gives `AllRounds`.

For `Kll` and `KllCache` (any amount of memory): `LinksSound`, that the list stays well linked and
no pointer of an entry in use leads to freed memory; `ListHoldsPresent`, that the memory in
use between two calls is that of the identities created and not destroyed;
`FindIsExact`, an action property, and `CacheOutcome`, about what the slab cache holds
when it goes. `Inv` adds that the cursor of a walk is linked (`CursorLinked`); that the
entries can be numbered along the list (`Ordered`), which excludes an entry that is its
own neighbour, and that a walk has not passed an entry with the id it is after, so that
one that comes back to the head has not missed any; which ids the list has
(`Contents`); and how far `linked_list_init()` has come (`Progress`).

**FatLabelProofs** (any number of processes, directory entries and crashes).
`SuccessSurvives` and `FailureIsClean`. The boot sector in memory is that of the last
call to change it (`BufferInv`), since only a clean and writable volume gets so far;
whoever syncs it writes that label. A label is in a sector only if its call got
there (`FailureInv`). After a crash nothing is changed any more, and buffer and
sector agree. For the backup the argument needs that calls have not
overlapped (`BackupInv`). The steps before the boot sector is changed are alike for
this argument, and one lemma (`EarlyMoves`) covers them all. `LabelsStayUnique`: as long
as no two calls overlap, no read fails and the search has not been misled by a deleted
label, a call that has found no label before it
takes `s_lock` is still right about that when it adds one (`LabelInv`), also after a
crash, which brings back the directory of the disk.

**NetfilterProofs** (any set of modules, any finite number of callers, any number of
processors). `NamesUnique`, `ReferencesExact`, `ReadersSafe`, `LookupsComplete` and
`HookHasAlgorithm`, for the registry with the netfilter module as one of its users.
Three parts are proved together. `NInv` counts: references equal holders, and a module
with holders is live. `ListInv` is about the list by its next pointers: it is a ring;
what a reader can get to is on it or held by a grace period that waits for that reader;
and its entries can be numbered so that a walk, also one from an entry that has been
unlinked under it, still has ahead of it whatever was on the list when it began.
`HookInv` is the life of the hook: while the module is live its configuration is that of
`init()`.

**FilesProofs** (any length of the id and of the buffers, any number of processes, all
four modules). `OnlyTheseOverrun`, `ReadsAreSnapshots`, `MutexReadyInTime` and
`VerdictsAreRight`. `FInv` adds to them which handlers can be running under which
module (`ModInv`), what a call knows of its count and offset at each of its steps
(`CopyInv`), that who has taken the mutex holds it to the end (`LockInv`), and that what
is recorded of a process's own bytes is true of the buffer and a verdict is about the
whole of it (`JudgeInv`). `id` has no lock: its verdict is right for a process whose
bytes nobody has overwritten, which is what the history variable `own` records.

**IdentityDeviceProofs** (any number of open files, any length of the id).
`DeviceTypeCorrect`; `OnlyUnpreparedLoses`: a wake-up is lost only on a thread that is
before its first `prepare_to_wait()` or between `identity_get()` and the next one; and the action property `ReportsInOrder`. For the last, `DInv` says that the list is
ordered by creation, newest first, and that the last reported identity is older than
all on the list (`Sorted`). `identity_destroy()` may take entries out anywhere, so the
remaining ones are described by their rank (`Kept`), and `KeptFacts` shows that they
keep their order. For the wake-ups `Woken` says that when a written identity waits and
no writer is about to wake the thread, then the thread is already on its way to
`identity_get()` with its wake-up, or gone, or the wake-up was lost.

Only model-checked: the liveness properties (`EventuallySleeps`, `EventuallyRests`,
`CleanupTerminates`, `ExitEnds`, `PrepareReturns`, `UnloadEnds`, `CleanupEnds` and the two
`CallReturns`), because they need fairness and `ENABLED`, which the prover does not handle.
Every invariant, action property and refinement that a run shows to hold is also proved.

## What is not modelled

- Logging, delays, names, packets and patterns beyond what a property tells apart.
- `textsearch_find_continuous()` and `get_linear_data()`: nothing in the repository
  calls them, and what such a search finds is up to an algorithm module outside it.
  They store their callback in the shared configuration and not in the `ts_state`,
  so that they would redirect a search that is under way.
- `FAT_IOCTL_SET_VOLUME_ID`, which stores a number in memory that the patch never
  writes to the disk and no program sets (the calls are commented out); time stamps;
  `ext2_ioctl.c`, which only reads the version of an inode of another file system.
- What a copy behind the end of an array does to the memory there. `pread()`, `pwrite()`
  and `lseek()` on the files of `Files`.
- A failing `vmalloc()` in `successor()` of `prod-cons.c`, whose result is used without a
  test (lines 87 and 88). The thread would die before it has taken a semaphore of that
  `put()`. To the others this is a thread that takes no further step, which the
  specification allows without fairness, so that the safety properties and the
  refinement cover it; `EventuallySleeps` assumes that memory can be had.
- The kthread example (`kthread.c`): two threads that sleep once and log, and a
  `cleanup_module()` that does not wait for them: unloaded before they have ended,
  they return to code that is gone. Nothing in the code guards against that, and no
  text says that it cannot happen, so there is no property to check.
- `/proc/PID/id`: an increment without a lock of a field that nothing else reads;
  nothing is said of its value. `sys_eudyptula`: one expression without state, of
  which a model would be the expression again.
- Modules that only log, USB device tables, coding style and licence patches,
  generated files, logs and the other user programs: no state.

`linked_list_init()` of Task 12 ends without a return statement, so that what the
loader makes of it is open; the model ends with its last call. Where the list of
`IdentityDevice` is used by two at a time, and where a thread pointer is not one, the
models end in an undefined outcome: the hazards of `PROJECT.json` that have no
property are of this kind.
