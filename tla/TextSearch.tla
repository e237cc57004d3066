----------------------------- MODULE TextSearch -----------------------------
(***************************************************************************)
(* src/Task_19/docs/textsearch.c: the registry of search algorithms.       *)
(* Algorithm modules register and unregister under the spinlock            *)
(* ts_mod_lock; textsearch_prepare() walks the same list under RCU only    *)
(* and takes a reference to the module it finds.                           *)
(*                                                                         *)
(* The list is modelled by its next pointers, because a reader may stand   *)
(* on an entry that has just been unlinked.  Loading, unloading, reference *)
(* counts and grace periods belong to the kernel and are modelled from how *)
(* this file uses them.                                                    *)
(***************************************************************************)
EXTENDS Integers, FiniteSets

CONSTANTS
  Mods,      \* the algorithm modules, each with one struct ts_ops
  Names,     \* the names of algorithms
  NameOf,    \* NameOf[m]: the field name of the ts_ops of m
  Complete,  \* the modules whose ts_ops has all its callbacks
  Users,     \* the callers of textsearch_prepare()
  Head,      \* the list head ts_ops
  None       \* the NULL pointer

ASSUME TextSearchAssumption ==
  /\ NameOf \in [Mods -> Names]
  /\ Complete \subseteq Mods
  /\ IsFiniteSet(Users)
  /\ Head \notin Mods
  /\ None \notin Mods

VARIABLES
  next,         \* next[n]: the next pointer of an entry or of the head
  mstate,       \* mstate[m]: where the life of a module is
  refs,         \* refs[m]: its reference count
  ts_mod_lock,  \* the module whose call holds the spinlock, or None
  waits_for,    \* waits_for[m]: the readers the grace period of m waits for
  pc,           \* pc[u]: where textsearch_prepare() is
  algo,         \* algo[u]: the name it looks for
  autoload,     \* autoload[u]: may it still request the module?
  o,            \* o[u]: the entry it is at
  conf,         \* conf[u]: the ops of the configuration u has, or None
  steady        \* steady[u]: the modules that are on the list ever since the
                \* walk of u began (a history variable)

modVars == <<mstate, ts_mod_lock>>
userVars == <<pc, algo, autoload, o, conf>>
vars == <<next, modVars, refs, waits_for, userVars, steady>>

Init ==
  /\ next = [n \in Mods \cup {Head} |-> Head]
  /\ mstate = [m \in Mods |-> "unloaded"]
  /\ refs = [m \in Mods |-> 0]
  /\ ts_mod_lock = None
  /\ waits_for = [m \in Mods |-> {}]
  /\ pc = [u \in Users |-> "idle"]
  /\ algo \in [Users -> Names]
  /\ autoload = [u \in Users |-> FALSE]
  /\ o = [u \in Users |-> Head]
  /\ conf = [u \in Users |-> None]
  /\ steady = [u \in Users |-> {}]

(* The modules on the list. *)
Listed == {m \in Mods : mstate[m] \in {"live", "going", "unlink"}}

(* The readers inside rcu_read_lock() ... rcu_read_unlock(). *)
Reading(u) == pc[u] \in {"walk", "try"}

-----------------------------------------------------------------------------
Module(m, here, there) == mstate[m] = here /\ mstate' = [mstate EXCEPT ![m] = there]

(* insmod: the module calls textsearch_register(), which refuses ops that  *)
(* lack a callback.                                                        *)
TextsearchRegister(m) ==
  /\ Module(m, "unloaded", IF m \in Complete THEN "register" ELSE "unloaded")
  /\ UNCHANGED <<next, refs, ts_mod_lock, waits_for, userVars, steady>>

RegisterLock(m) ==
  /\ Module(m, "register", "scan")
  /\ ts_mod_lock = None
  /\ ts_mod_lock' = m
  /\ UNCHANGED <<next, refs, waits_for, userVars, steady>>

(* Mutant: the lock is given up after the search for the name. *)
RegisterScanUnlocks(m) ==
  /\ IF \E n \in Listed : NameOf[n] = NameOf[m]
       THEN Module(m, "scan", "unloaded")
       ELSE Module(m, "scan", "add")
  /\ ts_mod_lock' = None
  /\ UNCHANGED <<next, refs, waits_for, userVars, steady>>

(* textsearch_register(): -EEXIST when the name is taken; the module is    *)
(* then not loaded.                                                        *)
RegisterScan(m) ==
  /\ \/ /\ \E n \in Listed : NameOf[n] = NameOf[m]
        /\ Module(m, "scan", "unloaded")
        /\ ts_mod_lock' = None
     \/ /\ \A n \in Listed : NameOf[n] # NameOf[m]
        /\ Module(m, "scan", "add")
        /\ UNCHANGED ts_mod_lock
  /\ UNCHANGED <<next, refs, waits_for, userVars, steady>>

(* textsearch_register(): list_add_tail_rcu() and spin_unlock() *)
RegisterAdd(m) ==
  LET last == CHOOSE n \in Listed \cup {Head} : next[n] = Head IN
  /\ Module(m, "add", "live")
  /\ next' = [next EXCEPT ![m] = Head, ![last] = m]
  /\ ts_mod_lock' = None
  /\ UNCHANGED <<refs, waits_for, userVars, steady>>

(* rmmod of a module that nobody holds: from here on try_module_get()      *)
(* fails, and the module's exit function calls textsearch_unregister().    *)
TryStopModule(m) ==
  /\ Module(m, "live", "going")
  /\ refs[m] = 0
  /\ UNCHANGED <<next, refs, ts_mod_lock, waits_for, userVars, steady>>

UnregisterLock(m) ==
  /\ Module(m, "going", "unlink")
  /\ ts_mod_lock = None
  /\ ts_mod_lock' = m
  /\ UNCHANGED <<next, refs, waits_for, userVars, steady>>

Unlink(m) ==
  LET prev == CHOOSE n \in Listed \cup {Head} : next[n] = m
  IN  [next EXCEPT ![prev] = next[m]]

(* Mutant: the entry is taken off with list_del_init(). *)
TextsearchUnregisterInit(m) ==
  /\ Module(m, "unlink", "grace")
  /\ next' = [Unlink(m) EXCEPT ![m] = Head]
  /\ ts_mod_lock' = None
  /\ waits_for' = [waits_for EXCEPT ![m] = {u \in Users : Reading(u)}]
  /\ steady' = [u \in Users |-> steady[u] \ {m}]
  /\ UNCHANGED <<refs, userVars>>

(* textsearch_unregister(): list_del_rcu(), which leaves the next pointer  *)
(* of the entry alone, and spin_unlock().  Then the module's memory waits  *)
(* for a grace period.                                                     *)
TextsearchUnregister(m) ==
  /\ Module(m, "unlink", "grace")
  /\ next' = Unlink(m)
  /\ ts_mod_lock' = None
  /\ waits_for' = [waits_for EXCEPT ![m] = {u \in Users : Reading(u)}]
  /\ steady' = [u \in Users |-> steady[u] \ {m}]
  /\ UNCHANGED <<refs, userVars>>

(* The grace period is over and the memory of the module is freed. *)
FreeModule(m) ==
  /\ Module(m, "grace", "unloaded")
  /\ waits_for[m] = {}
  /\ UNCHANGED <<next, refs, ts_mod_lock, waits_for, userVars, steady>>

ModStep(m) ==
  \/ TextsearchRegister(m) \/ RegisterLock(m) \/ RegisterScan(m) \/ RegisterAdd(m)
  \/ TryStopModule(m) \/ UnregisterLock(m) \/ TextsearchUnregister(m) \/ FreeModule(m)

-----------------------------------------------------------------------------
User(u, here, there) == pc[u] = here /\ pc' = [pc EXCEPT ![u] = there]

RcuReadLock(u) ==
  /\ o' = [o EXCEPT ![u] = Head]
  /\ steady' = [steady EXCEPT ![u] = Listed]
  /\ UNCHANGED waits_for
RcuReadUnlock(u) ==
  /\ waits_for' = [m \in Mods |-> waits_for[m] \ {u}]
  /\ steady' = [steady EXCEPT ![u] = {}]

(* textsearch_prepare() with a pattern that is not empty: the first lookup *)
(* begins.                                                                 *)
TextsearchPrepare(u, name, flag) ==
  /\ User(u, "idle", "walk")
  /\ conf[u] = None
  /\ algo' = [algo EXCEPT ![u] = name]
  /\ autoload' = [autoload EXCEPT ![u] = flag]
  /\ RcuReadLock(u)
  /\ UNCHANGED <<next, modVars, refs, conf>>

(* What textsearch_prepare() does after a lookup that has found nothing. *)
AfterMiss(u) == IF autoload[u] THEN "request" ELSE "idle"

(* Mutant: rcu_read_unlock() comes before try_module_get(). *)
WalkUnlocksEarly(u) ==
  LET n == next[o[u]] IN
  /\ \/ n = Head /\ User(u, "walk", AfterMiss(u)) /\ RcuReadUnlock(u)
     \/ n # Head /\ NameOf[n] = algo[u] /\ User(u, "walk", "try") /\ RcuReadUnlock(u)
     \/ n # Head /\ NameOf[n] # algo[u] /\ User(u, "walk", "walk") /\ UNCHANGED <<waits_for, steady>>
  /\ o' = [o EXCEPT ![u] = n]
  /\ UNCHANGED <<next, modVars, refs, algo, autoload, conf>>

(* lookup_ts_algo(): one step of list_for_each_entry_rcu() *)
Walk(u) ==
  LET n == next[o[u]] IN
  /\ \/ n = Head /\ User(u, "walk", AfterMiss(u)) /\ RcuReadUnlock(u)
     \/ n # Head /\ NameOf[n] = algo[u] /\ User(u, "walk", "try") /\ UNCHANGED <<waits_for, steady>>
     \/ n # Head /\ NameOf[n] # algo[u] /\ User(u, "walk", "walk") /\ UNCHANGED <<waits_for, steady>>
  /\ o' = [o EXCEPT ![u] = n]
  /\ UNCHANGED <<next, modVars, refs, algo, autoload, conf>>

(* Mutant: the reference is taken without asking. *)
ModuleGet(u) ==
  /\ User(u, "try", "init")
  /\ refs' = [refs EXCEPT ![o[u]] = @ + 1]
  /\ RcuReadUnlock(u)
  /\ UNCHANGED <<next, modVars, algo, autoload, o, conf>>

(* Mutant: the path on which there is no reference to be had returns       *)
(* without rcu_read_unlock().                                              *)
TryModuleGetStaysReader(u) ==
  /\ \/ /\ User(u, "try", "init")
        /\ mstate[o[u]] = "live"
        /\ refs' = [refs EXCEPT ![o[u]] = @ + 1]
        /\ RcuReadUnlock(u)
     \/ /\ User(u, "try", AfterMiss(u))
        /\ mstate[o[u]] # "live"
        /\ UNCHANGED <<refs, waits_for, steady>>
  /\ UNCHANGED <<next, modVars, algo, autoload, o, conf>>

(* lookup_ts_algo(): try_module_get(), rcu_read_unlock() and return *)
TryModuleGet(u) ==
  /\ \/ /\ User(u, "try", "init")
        /\ mstate[o[u]] = "live"
        /\ refs' = [refs EXCEPT ![o[u]] = @ + 1]
     \/ /\ User(u, "try", AfterMiss(u))
        /\ mstate[o[u]] # "live"
        /\ UNCHANGED refs
  /\ RcuReadUnlock(u)
  /\ UNCHANGED <<next, modVars, algo, autoload, o, conf>>

(* Mutant: the module is requested until it is there. *)
RequestModuleAgain(u) ==
  /\ User(u, "request", "walk")
  /\ RcuReadLock(u)
  /\ UNCHANGED <<next, modVars, refs, algo, autoload, conf>>

(* textsearch_prepare(): request_module() has returned, whether it loaded  *)
(* the module or not, and the second lookup begins.                        *)
RequestModule(u) ==
  /\ User(u, "request", "walk")
  /\ autoload' = [autoload EXCEPT ![u] = FALSE]
  /\ RcuReadLock(u)
  /\ UNCHANGED <<next, modVars, refs, algo, conf>>

(* textsearch_prepare(): conf = ops->init(); if it fails the reference is  *)
(* given back.                                                             *)
OpsInit(u) ==
  /\ User(u, "init", "idle")
  /\ \/ conf' = [conf EXCEPT ![u] = o[u]] /\ UNCHANGED refs
     \/ refs' = [refs EXCEPT ![o[u]] = @ - 1] /\ UNCHANGED conf
  /\ o' = [o EXCEPT ![u] = Head]
  /\ UNCHANGED <<next, modVars, waits_for, algo, autoload, steady>>

(* textsearch_destroy(): ops->destroy(), module_put() and kfree() *)
TextsearchDestroy(u) ==
  /\ pc[u] = "idle"
  /\ conf[u] # None
  /\ refs' = [refs EXCEPT ![conf[u]] = @ - 1]
  /\ conf' = [conf EXCEPT ![u] = None]
  /\ UNCHANGED <<next, modVars, waits_for, pc, algo, autoload, o, steady>>

UserCall(u) ==
  \/ \E name \in Names, flag \in BOOLEAN : TextsearchPrepare(u, name, flag)
  \/ TextsearchDestroy(u)
UserStep(u) == Walk(u) \/ TryModuleGet(u) \/ RequestModule(u) \/ OpsInit(u)

(* The steps that fairness is asked of: a call that can go on does so, the *)
(* holder of the spinlock too; grace periods end; and who waits for the    *)
(* spinlock gets it.                                                       *)
HolderStep(m) == RegisterScan(m) \/ RegisterAdd(m) \/ TextsearchUnregister(m) \/ FreeModule(m)
LockStep(m) == RegisterLock(m) \/ UnregisterLock(m)

-----------------------------------------------------------------------------
(* "Returns 0 or -EEXISTS if another module has already registered with    *)
(* same name": names stay unique although modules register concurrently.   *)
UniqueNames == \A m, n \in Listed : NameOf[m] = NameOf[n] => m = n

(* The users that own a reference to m.  A netfilter module whose init()   *)
(* has failed after textsearch_prepare() is one for ever: its              *)
(* configuration, and the reference with it, is leaked.                    *)
Holders(m) == {u \in Users : conf[u] = m \/ (pc[u] = "init" /\ o[u] = m)}

(* The library counts exactly: every configuration that has been prepared  *)
(* and not destroyed, or is being prepared, stands for one reference.  And *)
(* a module that somebody has a configuration of is loaded and not on its  *)
(* way out: its code and its ops may be used.                              *)
ConfBacked ==
  \A m \in Mods :
    /\ refs[m] = Cardinality(Holders(m))
    /\ Holders(m) # {} => mstate[m] = "live"

(* lookup_ts_algo() never looks at an entry whose memory has been freed,   *)
(* though it walks the list without the lock.                              *)
ReaderSafe ==
  \A u \in Users :
    Reading(u) /\ o[u] # Head => mstate[o[u]] \notin {"unloaded", "register", "scan", "add"}

(* A lookup that is about to give up has not missed an algorithm that has  *)
(* been registered all the time, whatever was added or deleted meanwhile.  *)
LookupComplete ==
  \A u \in Users :
    pc[u] = "walk" /\ next[o[u]] = Head => \A m \in steady[u] : NameOf[m] # algo[u]
=============================================================================
