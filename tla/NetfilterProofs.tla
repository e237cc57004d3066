--------------------------- MODULE NetfilterProofs ---------------------------
(***************************************************************************)
(* For any number of algorithm modules, callers and processors: the names  *)
(* on the list of src/Task_19/docs/textsearch.c stay unique, references    *)
(* are exact, lookup_ts_algo() touches no freed entry and misses none that *)
(* it should find, and the hook of src/Task_19/netfilter.c searches with   *)
(* the algorithm it asked for.                                             *)
(*                                                                         *)
(* The argument has two parts.  The first is about who holds what: the     *)
(* spinlock and the references (NInv).  The second is about the list:      *)
(* what a reader can get to is on the list or held by the grace period     *)
(* that waits for that reader (ReaderInv), and the entries can be numbered *)
(* so that a reader that has been overtaken by an unlink still has ahead   *)
(* of it whatever was on the list from the beginning (OrderInv).           *)
(***************************************************************************)
EXTENDS Netfilter, FiniteSetTheorems, TLAPS

MStates == {"unloaded", "register", "scan", "add", "live", "going", "unlink", "grace"}
Pcs == {"idle", "walk", "try", "request", "init"}
Points == Mods \cup {Head}
Algos == Names \cup {"kmp"}

(* The values the variables take. *)
NTypeOK ==
  /\ next \in [Points -> Points]
  /\ mstate \in [Mods -> MStates]
  /\ refs \in [Mods -> Int]
  /\ ts_mod_lock \in Mods \cup {None}
  /\ waits_for \in [Mods -> SUBSET Users]
  /\ pc \in [Users -> Pcs]
  /\ algo \in [Users -> Algos]
  /\ o \in [Users -> Points]
  /\ conf \in [Users -> Mods \cup {None}]
  /\ steady \in [Users -> SUBSET Mods]

(* Who holds the spinlock, and what textsearch_register() knows after its  *)
(* search for the name.                                                    *)
LockInv ==
  /\ \A m \in Mods : mstate[m] \in {"scan", "add", "unlink"} <=> ts_mod_lock = m
  /\ \A m \in Mods : mstate[m] = "add" => \A n \in Listed : NameOf[n] # NameOf[m]

(* What textsearch_prepare() has found, and what it has returned. *)
FoundInv ==
  \A u \in Users :
    /\ pc[u] \in {"try", "init"} => o[u] \in Mods /\ NameOf[o[u]] = algo[u]
    /\ pc[u] # "idle" => conf[u] = None
    /\ conf[u] # None => NameOf[conf[u]] = algo[u]

NInv == NTypeOK /\ LockInv /\ UniqueNames /\ FoundInv /\ ConfBacked

-----------------------------------------------------------------------------
(* The list with its head. *)
Ring == Listed \cup {Head}

(* The entries whose grace period waits for the reader u. *)
Held(u) == {m \in Mods : u \in waits_for[m]}

(* The list is a ring: next is one to one on it and onto. *)
RingInv ==
  /\ \A n \in Ring : next[n] \in Ring
  /\ \A n \in Ring : \E p \in Ring : next[p] = n
  /\ \A n, p \in Ring : next[n] = next[p] => n = p

(* What a reader can get to is on the list, or held for that reader. *)
ReaderInv ==
  /\ \A m \in Mods : waits_for[m] # {} => mstate[m] = "grace"
  /\ \A u \in Users : ~Reading(u) => Held(u) = {} /\ steady[u] = {}
  /\ \A u \in Users : Reading(u) => o[u] \in Ring \cup Held(u)
  /\ \A u \in Users : \A m \in Held(u) : next[m] \in Ring \cup Held(u)
  /\ \A u \in Users : steady[u] \subseteq Listed

(* With the entries numbered by f: n is m or comes before it. *)
AtOrBefore(f, n, m) == n # Head /\ (n = m \/ f[n] < f[m])

(* f numbers the entries in the order of the list. *)
Numbering(f) ==
  /\ \A m \in Listed : f[Head] < f[m]
  /\ \A n \in Ring : next[n] # Head => f[n] < f[next[n]]
  /\ \A n \in Ring, m \in Listed : f[n] < f[m] => AtOrBefore(f, next[n], m)

(* A reader has ahead of it what it is looking for, if that has been on    *)
(* the list from the beginning, also after the entry it is at has been     *)
(* unlinked.                                                               *)
Ahead(f) ==
  /\ \A u \in Users : \A n \in Held(u), m \in steady[u] : f[n] < f[m] => AtOrBefore(f, next[n], m)
  /\ \A u \in Users : pc[u] = "walk" => \A m \in steady[u] : NameOf[m] = algo[u] => f[o[u]] < f[m]

OrderInv == \E f \in [Points -> Int] : Numbering(f) /\ Ahead(f)

ListInv == RingInv /\ ReaderInv /\ OrderInv

-----------------------------------------------------------------------------
(* How far init() has come: while the hook is registered nf has the        *)
(* configuration that it asked for.                                        *)
HookInv ==
  /\ mod \in {"prepare", "live"} => algo[nf] = "kmp"
  /\ mod = "live" => pc[nf] = "idle" /\ conf[nf] # None

-----------------------------------------------------------------------------
USE TextSearchAssumption, NetfilterAssumption

(* The owners of references to a module are finitely many, as callers are. *)
LEMMA HoldersFinite == \A m : IsFiniteSet(Holders(m)) /\ Cardinality(Holders(m)) \in Nat
<1> SUFFICES ASSUME NEW m PROVE IsFiniteSet(Holders(m)) /\ Cardinality(Holders(m)) \in Nat
  OBVIOUS
<1>1. Holders(m) \in SUBSET Users
  BY DEF Holders
<1>2. IsFiniteSet(Holders(m))
  BY <1>1, FS_Subset
<1> QED  BY <1>2, FS_CardinalityType

(* Before the first call nothing is registered, locked or held. *)
LEMMA NInvInit == NetInit => NInv /\ ListInv /\ HookInv
<1> SUFFICES ASSUME NetInit PROVE NInv /\ ListInv /\ HookInv
  OBVIOUS
<1> USE DEF NetInit, Init
<1>1. Listed = {} /\ Ring = {Head} /\ \A u \in Users : Held(u) = {} /\ ~Reading(u)
  BY DEF Listed, Ring, Held, Reading
<1>2. NTypeOK
  BY DEF NTypeOK, MStates, Pcs, Points, Algos
<1>3. LockInv /\ UniqueNames /\ FoundInv
  BY <1>1 DEF LockInv, UniqueNames, FoundInv
<1>4. ConfBacked
  <2>1. \A m \in Mods : Holders(m) = {}
    BY DEF Holders
  <2> QED  BY Zenon, <2>1, FS_EmptySet DEF ConfBacked
<1>5. RingInv /\ ReaderInv
  BY <1>1 DEF RingInv, ReaderInv, Points
<1>6. OrderInv
  <2>1. [n \in Points |-> 0] \in [Points -> Int]
    OBVIOUS
  <2> QED  BY Zenon, <1>1, <2>1 DEF OrderInv, Numbering, Ahead
<1>7. HookInv
  BY DEF HookInv
<1> QED  BY <1>2, <1>3, <1>4, <1>5, <1>6, <1>7 DEF NInv, ListInv

(* What a step of a module's life does to its state and to the spinlock. *)
Life(m) ==
  \/ mstate[m] = "unloaded" /\ mstate'[m] \in {"register", "unloaded"} /\ ts_mod_lock' = ts_mod_lock
  \/ mstate[m] = "register" /\ mstate'[m] = "scan" /\ ts_mod_lock = None /\ ts_mod_lock' = m
  \/ mstate[m] = "scan" /\ mstate'[m] = "unloaded" /\ ts_mod_lock' = None
  \/ /\ mstate[m] = "scan" /\ mstate'[m] = "add" /\ ts_mod_lock' = ts_mod_lock
     /\ \A n \in Listed : NameOf[n] # NameOf[m]
  \/ mstate[m] = "add" /\ mstate'[m] = "live" /\ ts_mod_lock' = None
  \/ mstate[m] = "live" /\ mstate'[m] = "going" /\ ts_mod_lock' = ts_mod_lock /\ refs[m] = 0
  \/ mstate[m] = "going" /\ mstate'[m] = "unlink" /\ ts_mod_lock = None /\ ts_mod_lock' = m
  \/ mstate[m] = "unlink" /\ mstate'[m] = "grace" /\ ts_mod_lock' = None
  \/ mstate[m] = "grace" /\ mstate'[m] = "unloaded" /\ ts_mod_lock' = ts_mod_lock

(* Every step of a module is one of its life and leaves the callers alone. *)
LEMMA ModLife ==
  ASSUME NTypeOK, NEW m \in Mods, ModStep(m)
  PROVE  /\ Life(m)
         /\ \A n \in Mods : n # m => mstate'[n] = mstate[n]
         /\ mstate' \in [Mods -> MStates]
         /\ ts_mod_lock' \in Mods \cup {None}
         /\ UNCHANGED <<refs, userVars>>
<1> USE DEF NTypeOK, MStates, Module
<1>1. CASE TextsearchRegister(m) \/ FreeModule(m) \/ TryStopModule(m)
  BY <1>1 DEF TextsearchRegister, FreeModule, TryStopModule, Life
<1>2. CASE RegisterLock(m) \/ UnregisterLock(m)
  BY <1>2 DEF RegisterLock, UnregisterLock, Life
<1>3. CASE RegisterScan(m)
  BY <1>3 DEF RegisterScan, Life
<1>4. CASE RegisterAdd(m)
  BY <1>4 DEF RegisterAdd, Life
<1>5. CASE TextsearchUnregister(m)
  BY <1>5 DEF TextsearchUnregister, Life
<1> QED  BY <1>1, <1>2, <1>3, <1>4, <1>5 DEF ModStep

(* Loading, registering, unregistering and unloading a module keep the     *)
(* names unique and touch no module that somebody has a reference to.      *)
LEMMA ModNInv ==
  ASSUME NInv, NEW m \in Mods, ModStep(m)
  PROVE  NInv'
<1>1. /\ Life(m)
      /\ \A n \in Mods : n # m => mstate'[n] = mstate[n]
      /\ mstate' \in [Mods -> MStates]
      /\ ts_mod_lock' \in Mods \cup {None}
      /\ refs' = refs /\ pc' = pc /\ algo' = algo /\ o' = o /\ conf' = conf
  BY ModLife DEF NInv, userVars
<1>2. ASSUME NEW n, n \in Listed', n \notin Listed
      PROVE  n = m /\ mstate[m] = "add" /\ mstate'[m] = "live"
  <2>1. n \in Mods /\ mstate'[n] \in {"live", "going", "unlink"}
    BY <1>2 DEF Listed
  <2>2. mstate[n] \notin {"live", "going", "unlink"}
    BY <1>2, <2>1 DEF Listed
  <2>3. n = m
    BY <1>1, <2>1, <2>2
  <2> QED  BY <1>1, <2>1, <2>2, <2>3 DEF Life
<1>3. NTypeOK'
  <2>1. next' \in [Points -> Points]
    <3> USE DEF NInv, NTypeOK
    <3>1. CASE RegisterAdd(m)
      <4>1. m \in Points /\ Head \in Points
        BY DEF Points
      <4> QED  BY Zenon, <3>1, <4>1 DEF RegisterAdd
    <3>2. CASE TextsearchUnregister(m)
      <4>1. next[m] \in Points
        BY DEF Points
      <4> QED  BY Zenon, <3>2, <4>1 DEF TextsearchUnregister, Unlink
    <3>3. CASE ~RegisterAdd(m) /\ ~TextsearchUnregister(m)
      BY <3>3 DEF ModStep, TextsearchRegister, RegisterLock, RegisterScan, TryStopModule,
                  UnregisterLock, FreeModule
    <3> QED  BY <3>1, <3>2, <3>3
  <2>2. waits_for' \in [Mods -> SUBSET Users] /\ steady' \in [Users -> SUBSET Mods]
    BY DEF ModStep, TextsearchRegister, RegisterLock, RegisterScan, RegisterAdd, TryStopModule,
           UnregisterLock, TextsearchUnregister, FreeModule, NInv, NTypeOK
  <2> QED  BY <1>1, <2>1, <2>2 DEF NInv, NTypeOK, Points
<1>4. LockInv'
  <2>1. \A n \in Mods : mstate'[n] \in {"scan", "add", "unlink"} <=> ts_mod_lock' = n
    BY <1>1 DEF Life, NInv, LockInv
  <2>2. ASSUME NEW n \in Mods, mstate'[n] = "add", NEW k \in Listed' PROVE NameOf[k] # NameOf[n]
    <3>1. k \in Listed \/ (k = m /\ mstate[m] = "add" /\ mstate'[m] = "live")
      BY <1>2
    <3>2. CASE mstate[n] = "add"
      <4>1. ts_mod_lock = n /\ ts_mod_lock' = n
        BY <2>1, <2>2, <3>2 DEF NInv, LockInv
      <4>2. mstate[m] = "add" => m = n
        BY <4>1 DEF NInv, LockInv
      <4> QED  BY <2>2, <3>1, <3>2, <4>2 DEF NInv, LockInv
    <3>3. CASE mstate[n] # "add"
      BY <1>1, <2>2, <3>1, <3>3 DEF Life
    <3> QED  BY <3>2, <3>3
  <2> QED  BY <2>1, <2>2 DEF LockInv
<1>5. UniqueNames'
  <2>1. \A n \in Listed' : n \in Listed \/ (n = m /\ mstate[m] = "add")
    BY <1>2
  <2> QED  BY <2>1 DEF NInv, LockInv, UniqueNames
<1>6. FoundInv'
  BY <1>1 DEF NInv, FoundInv
<1>7. ConfBacked'
  <2>1. \A n : Holders(n)' = Holders(n)
    BY <1>1 DEF Holders
  <2>2. mstate[m] = "live" => Holders(m) = {}
    BY <1>1, HoldersFinite, FS_EmptySet DEF Life, NInv, ConfBacked
  <2>3. ASSUME NEW n \in Mods, Holders(n) # {} PROVE mstate'[n] = "live"
    BY <1>1, <2>2, <2>3 DEF NInv, ConfBacked
  <2> QED  BY <1>1, <2>1, <2>3 DEF NInv, ConfBacked
<1> QED  BY <1>3, <1>4, <1>5, <1>6, <1>7 DEF NInv

(* What the steps of callers have in common: they leave the modules and    *)
(* the list alone, and only u moves.                                       *)
OnlyUser(u) ==
  /\ next' = next /\ mstate' = mstate /\ ts_mod_lock' = ts_mod_lock
  /\ pc' \in [Users -> Pcs] /\ algo' \in [Users -> Algos]
  /\ o' \in [Users -> Points] /\ conf' \in [Users -> Mods \cup {None}]
  /\ waits_for' \in [Mods -> SUBSET Users] /\ steady' \in [Users -> SUBSET Mods]
  /\ \A v \in Users : v # u => /\ pc'[v] = pc[v] /\ algo'[v] = algo[v] /\ o'[v] = o[v]
                               /\ conf'[v] = conf[v] /\ steady'[v] = steady[v]
  /\ \A m \in Mods : waits_for'[m] \in {waits_for[m], waits_for[m] \ {u}}

(* Every step of a caller, and every call, is of this kind. *)
LEMMA UserFrame ==
  ASSUME NTypeOK, FoundInv, NEW u \in Users,
         \/ \E name \in Algos, flag \in BOOLEAN : TextsearchPrepare(u, name, flag)
         \/ TextsearchDestroy(u)
         \/ UserStep(u)
  PROVE  OnlyUser(u)
<1> USE DEF NTypeOK, User, modVars
<1>0. Head \in Points /\ None \in Mods \cup {None} /\ Listed \in SUBSET Mods /\ AfterMiss(u) \in Pcs
      /\ {"idle", "walk", "try", "request", "init"} = Pcs
  BY DEF Points, Listed, AfterMiss, Pcs
<1>1. ASSUME NEW name \in Algos, NEW flag \in BOOLEAN, TextsearchPrepare(u, name, flag)
      PROVE  OnlyUser(u)
  BY <1>0, <1>1 DEF TextsearchPrepare, RcuReadLock, OnlyUser
<1>2. CASE TextsearchDestroy(u)
  BY <1>0, <1>2 DEF TextsearchDestroy, OnlyUser
<1>3. CASE Walk(u)
  <2>1. next[o[u]] \in Points
    OBVIOUS
  <2>2. waits_for' = waits_for \/ waits_for' = [m \in Mods |-> waits_for[m] \ {u}]
    BY <1>3 DEF Walk, RcuReadUnlock
  <2>3. steady' = steady \/ steady' = [steady EXCEPT ![u] = {}]
    BY <1>3 DEF Walk, RcuReadUnlock
  <2>4. \E there \in Pcs : pc' = [pc EXCEPT ![u] = there]
    BY <1>0, <1>3 DEF Walk
  <2>5. next' = next /\ mstate' = mstate /\ ts_mod_lock' = ts_mod_lock /\ algo' = algo /\ conf' = conf
        /\ o' = [o EXCEPT ![u] = next[o[u]]]
    BY <1>3 DEF Walk
  <2> QED  BY <2>1, <2>2, <2>3, <2>4, <2>5 DEF OnlyUser
<1>4. CASE TryModuleGet(u)
  BY <1>0, <1>4 DEF TryModuleGet, RcuReadUnlock, OnlyUser
<1>5. CASE RequestModule(u)
  BY <1>0, <1>5 DEF RequestModule, RcuReadLock, OnlyUser
<1>6. CASE OpsInit(u)
  <2>1. o[u] \in Mods
    BY <1>6 DEF OpsInit, FoundInv
  <2> QED  BY <1>0, <1>6, <2>1 DEF OpsInit, OnlyUser
<1> QED  BY <1>1, <1>2, <1>3, <1>4, <1>5, <1>6 DEF UserStep

(* A call of textsearch_prepare() takes a reference exactly when it ends   *)
(* with a configuration, and textsearch_destroy() gives it back; the       *)
(* module found has the name that was asked for.                           *)
LEMMA UserNInv ==
  ASSUME NInv, NEW u \in Users,
         \/ \E name \in Algos, flag \in BOOLEAN : TextsearchPrepare(u, name, flag)
         \/ TextsearchDestroy(u)
         \/ UserStep(u)
  PROVE  NInv'
<1>1. OnlyUser(u)
  BY UserFrame DEF NInv
<1>2. /\ next' = next /\ mstate' = mstate /\ ts_mod_lock' = ts_mod_lock /\ Listed' = Listed
      /\ \A v \in Users : v # u => pc'[v] = pc[v] /\ algo'[v] = algo[v] /\ o'[v] = o[v] /\ conf'[v] = conf[v]
  BY <1>1 DEF OnlyUser, Listed
<1>3. LockInv' /\ UniqueNames'
  BY <1>2 DEF NInv, LockInv, UniqueNames
<1> USE DEF NInv, NTypeOK, User, modVars
<1>4. ASSUME \A n \in Mods : u \in Holders(n)' <=> u \in Holders(n), refs' = refs PROVE ConfBacked'
  <2>1. \A n \in Mods : Holders(n)' = Holders(n)
    BY Zenon, <1>2, <1>4 DEF Holders
  <2> QED  BY <1>2, <1>4, <2>1 DEF ConfBacked
<1>5. ASSUME NEW m \in Mods, \A n \in Mods : n # m => (u \in Holders(n)' <=> u \in Holders(n)),
             \/ /\ u \notin Holders(m) /\ u \in Holders(m)' /\ mstate[m] = "live"
                /\ refs' = [refs EXCEPT ![m] = @ + 1]
             \/ /\ u \in Holders(m) /\ u \notin Holders(m)'
                /\ refs' = [refs EXCEPT ![m] = @ - 1]
      PROVE  ConfBacked'
  <2>1. \A n \in Mods : n # m => Holders(n)' = Holders(n) /\ refs'[n] = refs[n]
    BY <1>2, <1>5 DEF Holders
  <2>2. refs'[m] = Cardinality(Holders(m)') /\ mstate[m] = "live"
    <3>1. CASE u \notin Holders(m) /\ u \in Holders(m)'
      <4>1. Holders(m)' = Holders(m) \cup {u}
        BY Zenon, <1>2, <3>1 DEF Holders
      <4>2. Cardinality(Holders(m) \cup {u}) = Cardinality(Holders(m)) + 1
        BY Zenon, <3>1, HoldersFinite, FS_AddElement
      <4> QED  BY <1>5, <3>1, <4>1, <4>2 DEF ConfBacked
    <3>2. CASE u \in Holders(m) /\ u \notin Holders(m)'
      <4>1. Holders(m)' = Holders(m) \ {u}
        BY Zenon, <1>2, <3>2 DEF Holders
      <4>2. Cardinality(Holders(m) \ {u}) = Cardinality(Holders(m)) - 1
        BY Zenon, <3>2, HoldersFinite, FS_RemoveElement
      <4> QED  BY <1>5, <3>2, <4>1, <4>2 DEF ConfBacked
    <3> QED  BY <1>5, <3>1, <3>2
  <2> QED  BY Zenon, <1>2, <2>1, <2>2 DEF ConfBacked
<1>6. ASSUME \E name \in Algos, flag \in BOOLEAN : TextsearchPrepare(u, name, flag)
      PROVE  NInv'
  <2>1. /\ pc[u] = "idle" /\ pc'[u] = "walk" /\ conf[u] = None /\ conf'[u] = None /\ refs' = refs
    BY <1>6 DEF TextsearchPrepare
  <2>2. FoundInv'
    BY <1>2, <2>1 DEF FoundInv
  <2>3. ConfBacked'
    BY Zenon, <1>4, <2>1 DEF Holders
  <2>4. NTypeOK'
    BY Zenon, <1>1, <1>2, <2>1 DEF OnlyUser, Points
  <2> QED  BY <1>3, <2>2, <2>3, <2>4
<1>7. CASE TextsearchDestroy(u)
  <2>1. /\ pc[u] = "idle" /\ pc'[u] = "idle" /\ conf[u] \in Mods /\ conf'[u] = None
        /\ refs' = [refs EXCEPT ![conf[u]] = @ - 1]
    BY <1>7 DEF TextsearchDestroy
  <2>2. FoundInv'
    BY <1>2, <2>1 DEF FoundInv
  <2>3. ConfBacked'
    BY Zenon, <1>5, <2>1 DEF Holders
  <2>4. NTypeOK'
    BY <1>1, <1>2, <2>1 DEF OnlyUser, Points
  <2> QED  BY <1>3, <2>2, <2>3, <2>4
<1>8. CASE Walk(u)
  <2>1. /\ pc[u] = "walk" /\ pc'[u] # "init" /\ conf'[u] = conf[u] /\ refs' = refs
        /\ algo'[u] = algo[u]
        /\ pc'[u] = "try" => o'[u] \in Mods /\ NameOf[o'[u]] = algo[u]
    BY Zenon, <1>8 DEF Walk, AfterMiss, Points
  <2>2. FoundInv'
    BY <1>2, <2>1 DEF FoundInv
  <2>3. ConfBacked'
    BY Zenon, <1>4, <2>1 DEF Holders
  <2>4. NTypeOK'
    BY Zenon, <1>1, <1>2, <2>1 DEF OnlyUser, Points
  <2> QED  BY <1>3, <2>2, <2>3, <2>4
<1>9. CASE TryModuleGet(u)
  <2>1. /\ pc[u] = "try" /\ o'[u] = o[u] /\ o[u] \in Mods /\ conf'[u] = conf[u] /\ conf[u] = None
        /\ algo'[u] = algo[u]
        /\ \/ pc'[u] = "init" /\ mstate[o[u]] = "live" /\ refs' = [refs EXCEPT ![o[u]] = @ + 1]
           \/ pc'[u] \in {"request", "idle"} /\ refs' = refs
    BY Zenon, <1>9 DEF TryModuleGet, AfterMiss, FoundInv
  <2>2. FoundInv'
    BY <1>2, <2>1 DEF FoundInv
  <2>3. ConfBacked'
    <3>1. CASE pc'[u] = "init"
      BY Zenon, <1>5, <2>1, <3>1 DEF Holders
    <3>2. CASE pc'[u] # "init"
      BY Zenon, <1>4, <2>1, <3>2 DEF Holders
    <3> QED  BY <3>1, <3>2
  <2>4. NTypeOK'
    BY <1>1, <1>2, <2>1 DEF OnlyUser, Points
  <2> QED  BY <1>3, <2>2, <2>3, <2>4
<1>10. CASE RequestModule(u)
  <2>1. pc[u] = "request" /\ pc'[u] = "walk" /\ conf'[u] = conf[u] /\ algo'[u] = algo[u] /\ refs' = refs
    BY <1>10 DEF RequestModule
  <2>2. FoundInv'
    BY <1>2, <2>1 DEF FoundInv
  <2>3. ConfBacked'
    BY Zenon, <1>4, <2>1 DEF Holders
  <2>4. NTypeOK'
    BY Zenon, <1>1, <1>2, <2>1 DEF OnlyUser, Points
  <2> QED  BY <1>3, <2>2, <2>3, <2>4
<1>11. CASE OpsInit(u)
  <2>1. /\ pc[u] = "init" /\ pc'[u] = "idle" /\ o[u] \in Mods /\ conf[u] = None
        /\ algo'[u] = algo[u] /\ NameOf[o[u]] = algo[u]
        /\ \/ conf'[u] = o[u] /\ refs' = refs
           \/ conf'[u] = None /\ refs' = [refs EXCEPT ![o[u]] = @ - 1]
    BY <1>11 DEF OpsInit, FoundInv
  <2>2. FoundInv'
    BY <1>2, <2>1 DEF FoundInv
  <2>3. ConfBacked'
    <3>1. CASE conf'[u] = o[u]
      BY Zenon, <1>4, <2>1, <3>1 DEF Holders
    <3>2. CASE conf'[u] # o[u]
      BY Zenon, <1>5, <2>1, <3>2 DEF Holders
    <3> QED  BY <3>1, <3>2
  <2>4. NTypeOK'
    BY <1>1, <1>2, <2>1 DEF OnlyUser, Points
  <2> QED  BY <1>3, <2>2, <2>3, <2>4
<1> QED  BY Zenon, <1>6, <1>7, <1>8, <1>9, <1>10, <1>11 DEF UserStep

-----------------------------------------------------------------------------
(* A step of a module that neither links nor unlinks it changes nothing    *)
(* that readers see.                                                       *)
LEMMA QuietListInv ==
  ASSUME NInv, ListInv, NEW m \in Mods, ModStep(m), ~RegisterAdd(m), ~TextsearchUnregister(m)
  PROVE  ListInv'
<1>1. next' = next /\ waits_for' = waits_for /\ steady' = steady
  BY DEF ModStep, TextsearchRegister, RegisterLock, RegisterScan, TryStopModule, UnregisterLock, FreeModule
<1>2. o' = o /\ pc' = pc /\ algo' = algo
  BY ModLife DEF NInv, userVars
<1>3. Listed' = Listed /\ \A n \in Mods : waits_for[n] # {} => mstate'[n] = "grace"
  <2>1. /\ \A n \in Mods : n # m => mstate'[n] = mstate[n]
        /\ Life(m) /\ mstate'[m] \notin {"live", "grace"}
    <3>1. mstate'[m] \notin {"live", "grace"}
      BY DEF ModStep, TextsearchRegister, RegisterLock, RegisterScan, TryStopModule, UnregisterLock,
             FreeModule, Module, NInv, NTypeOK
    <3> QED  BY <3>1, ModLife DEF NInv
  <2>2. mstate[m] \in {"live", "going", "unlink"} <=> mstate'[m] \in {"live", "going", "unlink"}
    BY Zenon, <2>1 DEF Life
  <2>3. waits_for[m] = {}
    <3>1. CASE FreeModule(m)
      BY <3>1 DEF FreeModule
    <3>2. CASE ~FreeModule(m)
      <4>1. mstate[m] # "grace"
        BY Zenon, <3>2 DEF ModStep, TextsearchRegister, RegisterLock, RegisterScan, TryStopModule,
                    UnregisterLock, Module
      <4> QED  BY <4>1 DEF ListInv, ReaderInv
    <3> QED  BY <3>1, <3>2
  <2>4. Listed' = Listed
    BY <2>1, <2>2 DEF Listed
  <2> QED  BY Zenon, <2>1, <2>3, <2>4 DEF ListInv, ReaderInv
<1>4. Ring' = Ring /\ \A u \in Users : Held(u)' = Held(u) /\ (Reading(u)' <=> Reading(u))
  BY Zenon, <1>1, <1>2, <1>3 DEF Ring, Held, Reading
<1>5. RingInv'
  BY Zenon, <1>1, <1>4 DEF ListInv, RingInv
<1>6. ReaderInv'
  BY Zenon, <1>1, <1>2, <1>3, <1>4 DEF ListInv, ReaderInv
<1>7. OrderInv'
  <2>1. PICK f \in [Points -> Int] : Numbering(f) /\ Ahead(f)
    BY DEF ListInv, OrderInv
  <2>2. Numbering(f)' /\ Ahead(f)'
    BY Zenon, <1>1, <1>2, <1>3, <1>4, <2>1 DEF Numbering, Ahead, AtOrBefore
  <2> QED  BY <2>1, <2>2 DEF OrderInv, Points
<1> QED  BY <1>5, <1>6, <1>7 DEF ListInv

(* list_add_tail_rcu(): the new entry comes after all others, and nobody   *)
(* who walks the list counts on it yet.                                    *)
LEMMA AddListInv ==
  ASSUME NInv, ListInv, NEW m \in Mods, RegisterAdd(m)
  PROVE  ListInv'
<1> USE DEF NInv, NTypeOK
<1> DEFINE last == CHOOSE n \in Ring : next[n] = Head
<1>1. /\ last \in Ring /\ next[last] = Head
      /\ \A n \in Ring : n # last => next[n] # Head
  <2>1. Head \in Ring
    BY DEF Ring
  <2> QED  BY <2>1 DEF ListInv, RingInv
<1>2. /\ mstate[m] = "add" /\ mstate'[m] = "live" /\ \A n \in Mods : n # m => mstate'[n] = mstate[n]
      /\ next' = [next EXCEPT ![m] = Head, ![last] = m]
      /\ waits_for' = waits_for /\ steady' = steady /\ pc' = pc /\ algo' = algo /\ o' = o
  BY DEF RegisterAdd, Module, userVars, Ring
<1> HIDE DEF last
<1>3. /\ m \notin Ring /\ Ring \subseteq Points /\ m \in Points /\ Head \in Points /\ m # Head
      /\ Listed' = Listed \cup {m} /\ Ring' = Ring \cup {m}
  <2>1. m \notin Listed /\ Listed' = Listed \cup {m}
    BY <1>2 DEF Listed
  <2> QED  BY Zenon, <2>1 DEF Ring, Points, Listed
<1>4. /\ next'[m] = Head /\ next'[last] = m
      /\ \A n \in Points : n # m /\ n # last => next'[n] = next[n]
  BY Zenon, <1>1, <1>2, <1>3
<1>5. /\ \A u \in Users : Held(u)' = Held(u) /\ (Reading(u)' <=> Reading(u))
      /\ \A u \in Users : m \notin Held(u) /\ m \notin steady[u]
      /\ \A u \in Users : \A n \in Held(u) : n \in Mods /\ n \notin Ring /\ next'[n] = next[n]
  <2>1. \A u \in Users : Held(u)' = Held(u) /\ (Reading(u)' <=> Reading(u))
    BY Zenon, <1>2 DEF Held, Reading
  <2>2. \A u \in Users : \A n \in Held(u) : n \in Mods /\ mstate[n] = "grace"
    BY DEF ListInv, ReaderInv, Held
  <2>3. \A u \in Users : \A n \in Held(u) : n # m /\ n \notin Ring
    BY Zenon, <1>2, <2>2 DEF Ring, Listed
  <2>4. \A u \in Users : m \notin steady[u]
    BY Zenon, <1>3 DEF ListInv, ReaderInv, Ring
  <2>5. ASSUME NEW u \in Users, NEW n \in Held(u) PROVE next'[n] = next[n]
    <3>1. n \in Points /\ n # m /\ n # last
      BY Zenon, <1>1, <2>2, <2>3 DEF Points
    <3> QED  BY Zenon, <1>4, <3>1
  <2> QED  BY Zenon, <2>1, <2>2, <2>3, <2>4, <2>5
<1>6. RingInv'
  <2>1. \A n \in Ring' : next'[n] \in Ring'
    BY Zenon, <1>1, <1>3, <1>4 DEF ListInv, RingInv, Ring
  <2>2. ASSUME NEW n \in Ring' PROVE \E p \in Ring' : next'[p] = n
    <3>1. CASE n = m
      BY Zenon, <1>1, <1>3, <1>4, <3>1
    <3>2. CASE n = Head
      BY Zenon, <1>3, <1>4, <3>2
    <3>3. CASE n # m /\ n # Head
      <4>1. PICK p \in Ring : next[p] = n
        BY Zenon, <1>3, <3>3 DEF ListInv, RingInv
      <4> QED  BY Zenon, <1>1, <1>3, <1>4, <3>3, <4>1
    <3> QED  BY Zenon, <3>1, <3>2, <3>3
  <2>3. ASSUME NEW n \in Ring', NEW p \in Ring', next'[n] = next'[p] PROVE n = p
    <3>1. \A k \in Ring : next[k] # m
      BY <1>3 DEF ListInv, RingInv
    <3> QED  BY <1>1, <1>3, <1>4, <2>3, <3>1 DEF ListInv, RingInv
  <2> QED  BY Zenon, <2>1, <2>2, <2>3 DEF RingInv
<1>7. ReaderInv'
  <2>1. \A n \in Mods : waits_for'[n] # {} => mstate'[n] = "grace"
    BY Zenon, <1>2 DEF ListInv, ReaderInv
  <2>2. \A u \in Users : ~Reading(u)' => Held(u)' = {} /\ steady'[u] = {}
    BY Zenon, <1>2, <1>5 DEF ListInv, ReaderInv
  <2>3. \A u \in Users : Reading(u)' => o'[u] \in Ring' \cup Held(u)'
    <3>1. o' = o /\ Ring \subseteq Ring' /\ \A u \in Users : Held(u)' = Held(u) /\ (Reading(u)' <=> Reading(u))
      BY <1>2, <1>3, <1>5
    <3>2. \A u \in Users : Reading(u) => o[u] \in Ring \cup Held(u)
      BY Zenon DEF ListInv, ReaderInv
    <3> QED  BY <3>1, <3>2
  <2>4. \A u \in Users : \A n \in Held(u)' : next'[n] \in Ring' \cup Held(u)'
    <3>1. Ring \subseteq Ring' /\ \A u \in Users : Held(u)' = Held(u)
      BY <1>3, <1>5
    <3>2. \A u \in Users : \A n \in Held(u) : next[n] \in Ring \cup Held(u)
      BY Zenon DEF ListInv, ReaderInv
    <3>3. \A u \in Users : \A n \in Held(u) : next'[n] = next[n]
      BY Zenon, <1>5
    <3>4. ASSUME NEW u \in Users, NEW n \in Held(u)' PROVE next'[n] \in Ring' \cup Held(u)'
      <4>1. n \in Held(u) /\ Held(u)' = Held(u)
        BY Zenon, <3>1, <3>4
      <4>2. next'[n] \in Ring \cup Held(u)
        BY Zenon, <3>2, <3>3, <4>1
      <4> QED  BY Zenon, <3>1, <4>1, <4>2
    <3> QED  BY Zenon, <3>4
  <2>5. \A u \in Users : steady'[u] \subseteq Listed'
    BY Zenon, <1>2, <1>3 DEF ListInv, ReaderInv
  <2> QED  BY Zenon, <2>1, <2>2, <2>3, <2>4, <2>5 DEF ReaderInv
<1>8. next \in [Points -> Points] /\ o \in [Users -> Points] /\ steady \in [Users -> SUBSET Mods]
  OBVIOUS
<1> HIDE DEF NInv, NTypeOK
<1>9. OrderInv'
  <2>1. PICK f \in [Points -> Int] : Numbering(f) /\ Ahead(f)
    BY DEF ListInv, OrderInv
  <2>2. PICK g : g = [f EXCEPT ![m] = f[last] + 1]
    BY Zenon
  <2>3. /\ g \in [Points -> Int] /\ g[m] = f[last] + 1 /\ f[last] \in Int
        /\ \A n \in Points : n # m => g[n] = f[n] /\ f[n] \in Int
    BY <1>1, <1>3, <2>2
  (* No entry of the list comes after the last. *)
  <2>4. \A n \in Ring : g[n] = f[n] /\ f[n] \in Int /\ f[n] < g[m]
    <3>1. ASSUME NEW n \in Ring PROVE ~(f[last] < f[n])
      <4>1. CASE n \in Listed
        BY Zenon, <1>1, <2>1, <4>1 DEF Numbering, AtOrBefore
      <4>2. CASE n = Head
        <5>1. last = Head \/ f[Head] < f[last]
          BY Zenon, <1>1, <2>1 DEF Numbering, Ring
        <5> QED  BY <1>1, <1>3, <2>3, <4>2, <5>1
      <4> QED  BY Zenon, <4>1, <4>2 DEF Ring
    <3> QED  BY <1>3, <2>3, <3>1
  <2>5. Numbering(g)'
    <3>1. \A n \in Listed' : g[Head] < g[n]
      BY <1>3, <2>1, <2>4 DEF Numbering, Ring
    <3>2. ASSUME NEW n \in Ring', next'[n] # Head PROVE g[n] < g[next'[n]]
      <4>1. CASE n = last
        BY Zenon, <1>1, <1>4, <2>4, <4>1
      <4>2. CASE n # last
        <5>1. n \in Ring /\ next'[n] = next[n] /\ next[n] \in Ring
          BY Zenon, <1>3, <1>4, <3>2, <4>2 DEF ListInv, RingInv
        <5> QED  BY Zenon, <2>1, <2>4, <3>2, <5>1 DEF Numbering
      <4> QED  BY Zenon, <4>1, <4>2
    <3>3. ASSUME NEW n \in Ring', NEW k \in Listed', g[n] < g[k]
          PROVE  next'[n] # Head /\ (next'[n] = k \/ g[next'[n]] < g[k])
      <4>1. n \in Ring
        BY <1>3, <2>3, <2>4, <3>3 DEF Ring
      <4>2. CASE n = last
        <5>1. k = m
          <6>1. k \in Listed => ~(f[last] < f[k])
            BY <1>1, <2>1 DEF Numbering, AtOrBefore
          <6> QED  BY Zenon, <1>3, <2>4, <3>3, <4>1, <4>2, <6>1 DEF Ring
        <5> QED  BY Zenon, <1>3, <1>4, <4>2, <5>1
      <4>3. CASE n # last
        <5>1. next'[n] = next[n] /\ next[n] \in Ring /\ next[n] # Head
          BY Zenon, <1>1, <1>3, <1>4, <4>1, <4>3 DEF ListInv, RingInv
        <5>2. CASE k = m
          BY Zenon, <2>4, <5>1, <5>2
        <5>3. CASE k \in Listed
          BY Zenon, <2>1, <2>4, <3>3, <4>1, <5>1, <5>3 DEF Numbering, AtOrBefore, Ring
        <5> QED  BY Zenon, <1>3, <5>2, <5>3
      <4> QED  BY Zenon, <4>2, <4>3
    <3> QED  BY Zenon, <3>1, <3>2, <3>3 DEF Numbering, AtOrBefore
  <2>6. Ahead(g)'
    <3>1. \A u \in Users : \A k \in steady[u] : k \in Points /\ g[k] = f[k]
      BY <1>5, <1>8, <2>3 DEF Points
    <3>2. ASSUME NEW u \in Users, NEW n \in Held(u), NEW k \in steady[u], g[n] < g[k]
          PROVE  next'[n] # Head /\ (next'[n] = k \/ g[next'[n]] < g[k])
      <4>1. g[n] = f[n] /\ next'[n] = next[n] /\ next[n] # m /\ next[n] \in Points
        <5>1. n \in Mods /\ n \notin Ring /\ next'[n] = next[n] /\ n # m
          BY <1>5
        <5>2. next[n] \in Ring \cup Held(u)
          BY Zenon DEF ListInv, ReaderInv
        <5>3. next[n] \in Points /\ n \in Points
          BY Zenon, <1>8, <5>1 DEF Points
        <5>4. next[n] # m
          BY <1>3, <1>5, <5>2
        <5> QED  BY Zenon, <2>3, <5>1, <5>3, <5>4
      <4>2. AtOrBefore(f, next[n], k)
        BY Zenon, <2>1, <3>1, <3>2, <4>1 DEF Ahead
      <4> QED  BY Zenon, <2>3, <3>1, <4>1, <4>2 DEF AtOrBefore
    <3>3. ASSUME NEW u \in Users, pc[u] = "walk", NEW k \in steady[u], NameOf[k] = algo[u]
          PROVE  g[o[u]] < g[k]
      <4>1. o[u] # m
        <5>1. o[u] \in Ring \cup Held(u)
          BY Zenon, <3>3 DEF ListInv, ReaderInv, Reading
        <5> QED  BY Zenon, <1>3, <1>5, <5>1
      <4>2. f[o[u]] < f[k]
        BY Zenon, <2>1, <3>3 DEF Ahead
      <4> QED  BY <1>8, <2>3, <3>1, <4>1, <4>2
    <3>4. /\ steady' = steady /\ pc' = pc /\ algo' = algo /\ o' = o
          /\ \A u \in Users : Held(u)' = Held(u)
      BY Zenon, <1>2, <1>5
    <3> QED  BY Zenon, <3>2, <3>3, <3>4 DEF Ahead, AtOrBefore
  <2> QED  BY Zenon, <2>3, <2>5, <2>6 DEF OrderInv, Points
<1> QED  BY Zenon, <1>6, <1>7, <1>9 DEF ListInv

(* list_del_rcu(): the entry keeps its next pointer, so that a reader on   *)
(* it still has the rest of the list ahead, and the grace period waits for *)
(* every such reader.                                                      *)
LEMMA UnlinkListInv ==
  ASSUME NInv, ListInv, NEW m \in Mods, TextsearchUnregister(m)
  PROVE  ListInv'
<1> USE DEF NInv, NTypeOK
<1> DEFINE p == CHOOSE n \in Ring : next[n] = m
           q == next[m]
<1>1. m \in Listed /\ m \in Ring /\ m \in Points /\ m # Head /\ Ring \subseteq Points /\ Head \in Ring
  BY DEF TextsearchUnregister, Module, Listed, Ring, Points
<1>2. p \in Ring /\ next[p] = m
  BY <1>1 DEF ListInv, RingInv
<1>3. /\ mstate' = [mstate EXCEPT ![m] = "grace"]
      /\ next' = [next EXCEPT ![p] = q]
      /\ waits_for' = [waits_for EXCEPT ![m] = {u \in Users : Reading(u)}]
      /\ steady' = [u \in Users |-> steady[u] \ {m}]
      /\ pc' = pc /\ algo' = algo /\ o' = o
  BY DEF TextsearchUnregister, Unlink, Module, userVars, Ring
<1> HIDE DEF p
<1>4. PICK f \in [Points -> Int] : Numbering(f) /\ Ahead(f)
  BY DEF ListInv, OrderInv
<1>5. p # m /\ q # m /\ q \in Ring
  BY <1>1, <1>2, <1>4 DEF Numbering, ListInv, RingInv
<1>6. Listed' = Listed \ {m} /\ Ring' = Ring \ {m}
  <2>1. Listed' = Listed \ {m}
    BY <1>3 DEF Listed
  <2> QED  BY <1>1, <2>1 DEF Ring
<1>7. /\ next'[p] = q /\ next'[m] = q
      /\ \A n \in Points : n # p => next'[n] = next[n]
  BY <1>1, <1>2, <1>3, <1>5
<1>8. /\ \A u \in Users : Reading(u)' <=> Reading(u)
      /\ \A u \in Users : Reading(u) => Held(u)' = Held(u) \cup {m}
      /\ \A u \in Users : ~Reading(u) => Held(u)' = {}
      /\ \A u \in Users : \A n \in Held(u) : Reading(u) /\ n \in Points /\ n \notin Ring /\ next'[n] = next[n]
  <2>1. \A u \in Users : Reading(u)' <=> Reading(u)
    BY Zenon, <1>3 DEF Reading
  <2>2. \A u \in Users : Reading(u) => Held(u)' = Held(u) \cup {m}
    BY <1>3 DEF Held
  <2>3. \A u \in Users : ~Reading(u) => Held(u)' = {}
    <3>1. \A u \in Users : ~Reading(u) => Held(u) = {}
      BY DEF ListInv, ReaderInv
    <3> QED  BY <1>3, <3>1 DEF Held
  <2>4. \A u \in Users : \A n \in Held(u) : Reading(u) /\ n \in Mods /\ mstate[n] = "grace"
    BY DEF ListInv, ReaderInv, Held
  <2>5. \A u \in Users : \A n \in Held(u) : n \in Points /\ n \notin Ring
    BY <2>4 DEF Ring, Listed, Points
  <2> QED  BY Zenon, <1>2, <1>7, <2>1, <2>2, <2>3, <2>4, <2>5
<1> HIDE DEF NInv, NTypeOK
<1>9. RingInv'
  <2>1. ASSUME NEW n \in Ring' PROVE next'[n] \in Ring'
    <3>1. CASE n = p
      BY Zenon, <1>5, <1>6, <1>7, <3>1
    <3>2. CASE n # p
      <4>1. n \in Ring /\ next[n] \in Ring /\ next'[n] = next[n] /\ n # m
        BY <1>1, <1>6, <1>7, <3>2 DEF ListInv, RingInv
      <4>2. next[n] # m
        BY Zenon, <1>2, <3>2, <4>1 DEF ListInv, RingInv
      <4> QED  BY Zenon, <1>6, <4>1, <4>2
    <3> QED  BY Zenon, <3>1, <3>2
  <2>2. ASSUME NEW n \in Ring' PROVE \E k \in Ring' : next'[k] = n
    <3>1. PICK k \in Ring : next[k] = n
      BY <1>6 DEF ListInv, RingInv
    <3>2. CASE k = m
      BY Zenon, <1>2, <1>5, <1>6, <1>7, <3>1, <3>2
    <3>3. CASE k # m
      <4>1. k # p
        BY Zenon, <1>2, <1>6, <3>1
      <4> QED  BY Zenon, <1>1, <1>6, <1>7, <3>1, <3>3, <4>1
    <3> QED  BY Zenon, <3>2, <3>3
  <2>3. ASSUME NEW n \in Ring', NEW k \in Ring', next'[n] = next'[k] PROVE n = k
    <3>1. /\ \A a \in Ring' : next'[a] = next[IF a = p THEN m ELSE a]
          /\ \A a \in Ring' : a \in Ring /\ a # m
      BY <1>1, <1>6, <1>7
    <3>2. \A a, b \in Ring : next[a] = next[b] => a = b
      BY Zenon DEF ListInv, RingInv
    <3> QED  BY <1>1, <2>3, <3>1, <3>2
  <2> QED  BY Zenon, <2>1, <2>2, <2>3 DEF RingInv
<1>10. ReaderInv'
  <2>1. \A n \in Mods : waits_for'[n] # {} => mstate'[n] = "grace"
    BY <1>3 DEF ListInv, ReaderInv, NInv, NTypeOK
  <2>2. \A u \in Users : ~Reading(u)' => Held(u)' = {} /\ steady'[u] = {}
    BY <1>3, <1>8 DEF ListInv, ReaderInv
  <2>3. \A u \in Users : Reading(u)' => o'[u] \in Ring' \cup Held(u)'
    BY <1>3, <1>6, <1>8 DEF ListInv, ReaderInv
  <2>4. ASSUME NEW u \in Users, NEW n \in Held(u)' PROVE next'[n] \in Ring' \cup Held(u)'
    <3>1. Reading(u) /\ Held(u)' = Held(u) \cup {m}
      BY Zenon, <1>8
    <3>2. CASE n = m
      BY Zenon, <1>5, <1>6, <1>7, <3>2
    <3>3. CASE n \in Held(u)
      <4>1. next[n] \in Ring \cup Held(u)
        BY Zenon, <3>3 DEF ListInv, ReaderInv
      <4> QED  BY Zenon, <1>6, <1>8, <3>1, <3>3, <4>1
    <3> QED  BY Zenon, <3>1, <3>2, <3>3
  <2>5. \A u \in Users : steady'[u] \subseteq Listed'
    BY Zenon, <1>3, <1>6 DEF ListInv, ReaderInv
  <2> QED  BY Zenon, <2>1, <2>2, <2>3, <2>4, <2>5 DEF ReaderInv
<1>11. OrderInv'
  <2>1. \A n \in Points : f[n] \in Int
    OBVIOUS
  <2>2. Numbering(f)'
    <3>1. \A n \in Listed' : f[Head] < f[n]
      BY Zenon, <1>4, <1>6 DEF Numbering
    <3>2. ASSUME NEW n \in Ring', next'[n] # Head PROVE f[n] < f[next'[n]]
      <4>1. CASE n = p
        <5>1. f[p] < f[m] /\ f[m] < f[q]
          BY Zenon, <1>1, <1>2, <1>4, <1>7, <3>2, <4>1 DEF Numbering
        <5>2. f[p] \in Int /\ f[m] \in Int /\ f[q] \in Int
          BY Zenon, <1>1, <1>2, <1>4, <1>5
        <5>3. next'[n] = q
          BY Zenon, <1>7, <4>1
        <5> QED  BY <4>1, <5>1, <5>2, <5>3
      <4>2. CASE n # p
        BY Zenon, <1>1, <1>4, <1>6, <1>7, <3>2, <4>2 DEF Numbering
      <4> QED  BY Zenon, <4>1, <4>2
    <3>3. ASSUME NEW n \in Ring', NEW k \in Listed', f[n] < f[k]
          PROVE  next'[n] # Head /\ (next'[n] = k \/ f[next'[n]] < f[k])
      <4>1. n \in Ring /\ k \in Listed /\ k # m /\ AtOrBefore(f, next[n], k)
        BY Zenon, <1>4, <1>6, <3>3 DEF Numbering
      <4>2. CASE n = p
        <5>1. f[m] < f[k]
          BY Zenon, <1>2, <4>1, <4>2 DEF AtOrBefore
        <5>2. AtOrBefore(f, q, k)
          BY Zenon, <1>1, <1>4, <4>1, <5>1 DEF Numbering
        <5> QED  BY Zenon, <1>7, <4>2, <5>2 DEF AtOrBefore
      <4>3. CASE n # p
        BY Zenon, <1>1, <1>7, <4>1, <4>3 DEF AtOrBefore
      <4> QED  BY Zenon, <4>2, <4>3
    <3> QED  BY Zenon, <3>1, <3>2, <3>3 DEF Numbering, AtOrBefore
  <2>3. ASSUME NEW u \in Users, NEW n \in Held(u)', NEW k \in steady'[u], f[n] < f[k]
        PROVE  next'[n] # Head /\ (next'[n] = k \/ f[next'[n]] < f[k])
    <3>1. Reading(u) /\ (n \in Held(u) \/ n = m) /\ k \in steady[u] /\ k \in Listed
      BY <1>3, <1>8 DEF ListInv, ReaderInv
    <3>2. CASE n = m
      BY Zenon, <1>1, <1>4, <1>7, <2>3, <3>1, <3>2 DEF Numbering, AtOrBefore
    <3>3. CASE n \in Held(u)
      BY Zenon, <1>4, <1>8, <2>3, <3>1, <3>3 DEF Ahead, AtOrBefore
    <3> QED  BY Zenon, <3>1, <3>2, <3>3
  <2>4. ASSUME NEW u \in Users, pc'[u] = "walk", NEW k \in steady'[u], NameOf[k] = algo'[u]
        PROVE  f[o'[u]] < f[k]
    <3>1. pc[u] = "walk" /\ k \in steady[u] /\ algo' = algo /\ o' = o
      BY Zenon, <1>3, <2>4
    <3> QED  BY Zenon, <1>4, <2>4, <3>1 DEF Ahead
  <2>5. Ahead(f)'
    BY Zenon, <2>3, <2>4 DEF Ahead, AtOrBefore
  <2> QED  BY Zenon, <1>4, <2>2, <2>5 DEF OrderInv, Points
<1> QED  BY <1>9, <1>10, <1>11 DEF ListInv

(* What a step of the caller u does to it as a reader: nothing;            *)
(* rcu_read_lock(); one step along the list; or rcu_read_unlock().         *)
NotReading(u) ==
  /\ ~Reading(u) /\ ~Reading(u)' /\ waits_for' = waits_for /\ steady' = steady
Locks(u) ==
  /\ ~Reading(u) /\ pc'[u] = "walk" /\ o'[u] = Head
  /\ waits_for' = waits_for /\ steady'[u] = Listed
Advances(u) ==
  /\ pc[u] = "walk" /\ Reading(u)' /\ o'[u] = next[o[u]] /\ o'[u] # Head /\ algo'[u] = algo[u]
  /\ pc'[u] = "walk" => NameOf[o'[u]] # algo[u]
  /\ waits_for' = waits_for /\ steady' = steady
Unlocks(u) ==
  /\ ~Reading(u)' /\ steady'[u] = {}
  /\ waits_for' = [m \in Mods |-> waits_for[m] \ {u}]

(* Every step of a caller is of one of these kinds. *)
LEMMA UserKinds ==
  ASSUME NInv, NEW u \in Users,
         \/ \E name \in Algos, flag \in BOOLEAN : TextsearchPrepare(u, name, flag)
         \/ TextsearchDestroy(u)
         \/ UserStep(u)
  PROVE  NotReading(u) \/ Locks(u) \/ Advances(u) \/ Unlocks(u)
<1> USE DEF NInv, NTypeOK, User, Reading
<1>1. CASE \E name \in Algos, flag \in BOOLEAN : TextsearchPrepare(u, name, flag)
  BY Zenon, <1>1 DEF TextsearchPrepare, RcuReadLock, Locks
<1>2. CASE TextsearchDestroy(u)
  BY Zenon, <1>2 DEF TextsearchDestroy, NotReading
<1>3. CASE Walk(u)
  <2>1. CASE next[o[u]] = Head
    BY Zenon, <1>3, <2>1 DEF Walk, RcuReadUnlock, AfterMiss, Unlocks
  <2>2. CASE next[o[u]] # Head
    BY Zenon, <1>3, <2>2 DEF Walk, Advances
  <2> QED  BY Zenon, <2>1, <2>2
<1>4. CASE TryModuleGet(u)
  BY Zenon, <1>4 DEF TryModuleGet, RcuReadUnlock, AfterMiss, Unlocks
<1>5. CASE RequestModule(u)
  BY Zenon, <1>5 DEF RequestModule, RcuReadLock, Locks
<1>6. CASE OpsInit(u)
  BY Zenon, <1>6 DEF OpsInit, NotReading
<1> QED  BY Zenon, <1>1, <1>2, <1>3, <1>4, <1>5, <1>6 DEF UserStep

(* A reader stays on the list or on what is held for it, and passes        *)
(* nothing that it is looking for.                                         *)
LEMMA UserListInv ==
  ASSUME NInv, ListInv, NEW u \in Users,
         \/ \E name \in Algos, flag \in BOOLEAN : TextsearchPrepare(u, name, flag)
         \/ TextsearchDestroy(u)
         \/ UserStep(u)
  PROVE  ListInv'
<1>1. OnlyUser(u) /\ (NotReading(u) \/ Locks(u) \/ Advances(u) \/ Unlocks(u))
  BY UserFrame, UserKinds DEF NInv
<1>2. /\ next' = next /\ mstate' = mstate /\ Listed' = Listed /\ Ring' = Ring
      /\ \A v \in Users : v # u => /\ pc'[v] = pc[v] /\ algo'[v] = algo[v] /\ o'[v] = o[v]
                                   /\ steady'[v] = steady[v] /\ (Reading(v)' <=> Reading(v))
  BY Zenon, <1>1 DEF OnlyUser, Listed, Ring, Reading
<1>3. /\ \A v \in Users : v # u => Held(v)' = Held(v)
      /\ Held(u)' = Held(u) \/ (Held(u)' = {} /\ Unlocks(u))
  <2>1. CASE waits_for' = waits_for
    BY Zenon, <2>1 DEF Held
  <2>2. CASE Unlocks(u)
    BY Zenon, <2>2 DEF Held, Unlocks
  <2> QED  BY Zenon, <1>1, <2>1, <2>2 DEF NotReading, Locks, Advances
<1>4. RingInv'
  BY Zenon, <1>2 DEF ListInv, RingInv
<1>5. Reading(u) => o[u] \in Ring \cup Held(u) /\ next[o[u]] \in Ring \cup Held(u)
  BY Zenon DEF ListInv, RingInv, ReaderInv
<1>6. ReaderInv'
  <2>1. \A m \in Mods : waits_for'[m] # {} => mstate'[m] = "grace"
    BY Zenon, <1>1, <1>2 DEF OnlyUser, ListInv, ReaderInv
  <2>2. ~Reading(u)' => Held(u)' = {} /\ steady'[u] = {}
    <3>1. CASE NotReading(u)
      BY Zenon, <1>3, <3>1 DEF NotReading, Unlocks, ListInv, ReaderInv
    <3>2. CASE Unlocks(u)
      <4>1. Held(u)' = {}
        BY Zenon, <3>2 DEF Unlocks, Held
      <4> QED  BY Zenon, <3>2, <4>1 DEF Unlocks
    <3> QED  BY Zenon, <1>1, <3>1, <3>2 DEF Locks, Advances, Reading
  <2>3. Reading(u)' => o'[u] \in Ring' \cup Held(u)'
    BY Zenon, <1>1, <1>2, <1>3, <1>5 DEF NotReading, Locks, Advances, Unlocks, Reading, Ring
  <2>4. \A m \in Held(u)' : next'[m] \in Ring' \cup Held(u)'
    BY Zenon, <1>2, <1>3 DEF ListInv, ReaderInv
  <2>5. steady'[u] \subseteq Listed'
    BY Zenon, <1>1, <1>2 DEF NotReading, Locks, Advances, Unlocks, ListInv, ReaderInv
  <2>6. ASSUME NEW v \in Users, v # u
        PROVE  /\ ~Reading(v)' => Held(v)' = {} /\ steady'[v] = {}
               /\ Reading(v)' => o'[v] \in Ring' \cup Held(v)'
               /\ \A m \in Held(v)' : next'[m] \in Ring' \cup Held(v)'
               /\ steady'[v] \subseteq Listed'
    BY Zenon, <1>2, <1>3, <2>6 DEF ListInv, ReaderInv
  <2> QED  BY Zenon, <2>1, <2>2, <2>3, <2>4, <2>5, <2>6 DEF ReaderInv
<1>7. OrderInv'
  <2>1. PICK f \in [Points -> Int] : Numbering(f) /\ Ahead(f)
    BY DEF ListInv, OrderInv
  <2>2. Numbering(f)'
    BY Zenon, <1>2, <2>1 DEF Numbering, AtOrBefore
  <2>3. ASSUME NEW n \in Held(u)', NEW m \in steady'[u], f[n] < f[m]
        PROVE  next'[n] # Head /\ (next'[n] = m \/ f[next'[n]] < f[m])
    <3>1. n \in Held(u) /\ m \in steady[u]
      BY <1>1, <1>3 DEF NotReading, Locks, Advances, Unlocks, ListInv, ReaderInv
    <3> QED  BY Zenon, <1>2, <2>1, <2>3, <3>1 DEF Ahead, AtOrBefore
  <2>4. ASSUME pc'[u] = "walk", NEW m \in steady'[u], NameOf[m] = algo'[u] PROVE f[o'[u]] < f[m]
    <3>1. Locks(u) \/ Advances(u)
      BY <1>1, <2>4 DEF NotReading, Unlocks, Reading
    <3>2. CASE Locks(u)
      BY Zenon, <2>1, <3>2 DEF Locks, Numbering
    <3>3. CASE Advances(u)
      <4>1. m \in steady[u] /\ m \in Listed /\ f[o[u]] < f[m]
        BY Zenon, <2>1, <2>4, <3>3 DEF Advances, Ahead, ListInv, ReaderInv
      <4>2. AtOrBefore(f, next[o[u]], m)
        BY Zenon, <1>5, <2>1, <3>3, <4>1 DEF Advances, Reading, Numbering, Ahead
      <4> QED  BY Zenon, <2>4, <3>3, <4>2 DEF Advances, AtOrBefore
    <3> QED  BY Zenon, <3>1, <3>2, <3>3
  <2>5. ASSUME NEW v \in Users, v # u
        PROVE  /\ \A n \in Held(v)', m \in steady'[v] :
                    f[n] < f[m] => next'[n] # Head /\ (next'[n] = m \/ f[next'[n]] < f[m])
               /\ pc'[v] = "walk" => \A m \in steady'[v] : NameOf[m] = algo'[v] => f[o'[v]] < f[m]
    BY Zenon, <1>2, <1>3, <2>1, <2>5 DEF Ahead, AtOrBefore
  <2>6. Ahead(f)'
    BY Zenon, <2>3, <2>4, <2>5 DEF Ahead, AtOrBefore
  <2> QED  BY <2>1, <2>2, <2>6 DEF OrderInv, Points
<1> QED  BY <1>4, <1>6, <1>7 DEF ListInv

-----------------------------------------------------------------------------
(* The three invariants together, for the registry and the hook. *)
AllInv == NInv /\ ListInv /\ HookInv

(* The steps of the hook's module leave the registry alone except for its  *)
(* calls, and the registry never takes from nf the configuration that the  *)
(* hook uses.                                                              *)
LEMMA AllInvNext == AllInv /\ [NetNext]_allVars => AllInv'
<1> SUFFICES ASSUME AllInv, [NetNext]_allVars PROVE AllInv'
  OBVIOUS
<1> USE DEF AllInv
<1>1. ASSUME UNCHANGED vars PROVE NInv' /\ ListInv'
  <2>1. NTypeOK' /\ LockInv' /\ UniqueNames' /\ FoundInv' /\ ConfBacked'
    <3> USE <1>1 DEF vars, modVars, userVars, NInv
    <3>1. NTypeOK'
      BY Zenon DEF NTypeOK, Points
    <3>2. LockInv' /\ UniqueNames'
      BY DEF LockInv, UniqueNames, Listed
    <3>3. FoundInv'
      BY Zenon DEF FoundInv
    <3>4. ConfBacked'
      <4>1. \A m : Holders(m)' = Holders(m)
        BY DEF Holders
      <4> QED  BY Zenon, <4>1 DEF ConfBacked
    <3> QED  BY <3>1, <3>2, <3>3, <3>4
  <2>2. /\ Ring' = Ring /\ Listed' = Listed
        /\ \A u \in Users : Held(u)' = Held(u) /\ (Reading(u)' <=> Reading(u))
    BY <1>1 DEF vars, modVars, userVars, Ring, Listed, Held, Reading
  <2>3. RingInv' /\ ReaderInv'
    <3>1. next' = next /\ steady' = steady /\ o' = o /\ waits_for' = waits_for /\ mstate' = mstate
      BY <1>1 DEF vars, modVars, userVars
    <3>2. RingInv'
      BY Zenon, <2>2, <3>1 DEF ListInv, RingInv
    <3> QED BY Zenon, <2>2, <3>1, <3>2 DEF ListInv, ReaderInv
  <2>4. OrderInv'
    <3>1. PICK f \in [Points -> Int] : Numbering(f) /\ Ahead(f)
      BY DEF ListInv, OrderInv
    <3>2. next' = next /\ steady' = steady /\ pc' = pc /\ algo' = algo /\ o' = o
      BY <1>1 DEF vars, userVars
    <3>3. Numbering(f)'
      BY Zenon, <2>2, <3>1, <3>2 DEF Numbering, AtOrBefore
    <3>4. Ahead(f)'
      BY Zenon, <2>2, <3>1, <3>2 DEF Ahead, AtOrBefore
    <3> QED  BY <3>1, <3>3, <3>4 DEF OrderInv, Points
  <2> QED  BY <2>1, <2>3, <2>4 DEF NInv, ListInv
<1>2. CASE UNCHANGED allVars
  BY Zenon, <1>1, <1>2 DEF allVars, netVars, vars, userVars, HookInv
<1>3. CASE InitPrepare
  <2>1. NInv' /\ ListInv'
    BY Zenon, <1>3, UserNInv, UserListInv DEF InitPrepare, Algos
  <2>2. HookInv'
    BY Zenon, <1>3 DEF InitPrepare, TextsearchPrepare, HookInv, NInv, NTypeOK
  <2> QED  BY <2>1, <2>2
<1>4. CASE InitRegister
  BY Zenon, <1>1, <1>4 DEF InitRegister, HookInv, vars, userVars
<1>5. CASE FiniDestroy
  <2>1. NInv' /\ ListInv'
    BY <1>5, UserNInv, UserListInv DEF FiniDestroy
  <2> QED  BY Zenon, <1>5, <2>1 DEF FiniDestroy, HookInv
<1>6. CASE FiniUnregister \/ FiniReturns
  BY <1>1, <1>6 DEF FiniUnregister, FiniReturns, HookInv
<1>7. ASSUME NEW c \in CPUs, HookStep(c) PROVE AllInv'
  <2>1. UNCHANGED vars /\ mod' \in {mod, "undefined"}
    BY <1>7 DEF HookStep, HookEnter, SkbFindText, TextsearchNext, Search
  <2> QED  BY Zenon, <1>1, <2>1 DEF HookInv, vars, userVars
<1>8. CASE LibraryStep
  <2>1. mod' = mod
    BY <1>8 DEF LibraryStep, netVars
  <2>2. ASSUME NEW m \in Mods, ModStep(m) PROVE AllInv'
    <3>1. NInv' /\ ListInv'
      BY <2>2, ModNInv, QuietListInv, AddListInv, UnlinkListInv
    <3>2. algo' = algo /\ pc' = pc /\ conf' = conf
      BY <2>2, ModLife DEF NInv, userVars
    <3> QED  BY Zenon, <2>1, <3>1, <3>2 DEF HookInv
  <2>3. ASSUME NEW u \in Users, UserStep(u) PROVE AllInv'
    <3>1. NInv' /\ ListInv'
      BY <2>3, UserNInv, UserListInv
    <3>2. algo'[nf] = algo[nf] /\ (pc[nf] = "idle" => pc'[nf] = "idle" /\ conf'[nf] = conf[nf])
      <4>1. CASE u = nf
        BY Zenon, <2>3, <4>1 DEF UserStep, Walk, TryModuleGet, RequestModule, OpsInit, User
      <4>2. CASE u # nf
        BY Zenon, <2>3, <4>2, UserFrame DEF OnlyUser, NInv
      <4> QED  BY Zenon, <4>1, <4>2
    <3> QED  BY <2>1, <3>1, <3>2 DEF HookInv
  <2>4. ASSUME NEW u \in Users, u # nf \/ mod = "unloaded", UserCall(u) PROVE AllInv'
    <3>1. (\E name \in Algos, flag \in BOOLEAN : TextsearchPrepare(u, name, flag)) \/ TextsearchDestroy(u)
      BY <2>4 DEF UserCall, Algos
    <3>2. NInv' /\ ListInv'
      BY <3>1, UserNInv, UserListInv
    <3>3. u # nf => algo'[nf] = algo[nf] /\ pc'[nf] = pc[nf] /\ conf'[nf] = conf[nf]
      BY Zenon, <3>1, UserFrame DEF OnlyUser, NInv
    <3> QED  BY Zenon, <2>1, <2>4, <3>2, <3>3 DEF HookInv
  <2> QED  BY <1>8, <2>2, <2>3, <2>4 DEF LibraryStep
<1> QED  BY Zenon, <1>2, <1>3, <1>4, <1>5, <1>6, <1>7, <1>8 DEF NetNext

(* AllInv is an invariant of the registry, its callers and the hook. *)
LEMMA AllInvariant == NetSpec => []AllInv
<1>1. NetInit => AllInv
  BY NInvInit DEF AllInv
<1> QED  BY <1>1, AllInvNext, PTL DEF NetSpec

(* No two modules with the same name are ever registered, although the     *)
(* search for the name and the insertion are two steps.                    *)
THEOREM NamesUnique == NetSpec => []UniqueNames
<1>1. AllInv => UniqueNames
  BY DEF AllInv, NInv
<1> QED  BY <1>1, AllInvariant, PTL

(* The reference count of a module is the number of callers that own a     *)
(* reference, on every path through textsearch_prepare() and               *)
(* textsearch_destroy(), and a module with a reference stays loaded.       *)
THEOREM ReferencesExact == NetSpec => []ConfBacked
<1>1. AllInv => ConfBacked
  BY DEF AllInv, NInv
<1> QED  BY <1>1, AllInvariant, PTL

(* lookup_ts_algo() is never at an entry whose memory has been freed: RCU  *)
(* alone protects the walk.                                                *)
THEOREM ReadersSafe == NetSpec => []ReaderSafe
<1>1. AllInv => ReaderSafe
  BY DEF AllInv, NInv, NTypeOK, ListInv, ReaderInv, ReaderSafe, Held, Ring, Listed, Points
<1> QED  BY <1>1, AllInvariant, PTL

(* A lookup that comes to the end of the list has passed every algorithm   *)
(* of that name that was registered from its beginning, whatever was       *)
(* linked and unlinked around it.                                          *)
THEOREM LookupsComplete == NetSpec => []LookupComplete
<1>1. ASSUME AllInv, NEW u \in Users, pc[u] = "walk", next[o[u]] = Head, NEW m \in steady[u]
      PROVE  NameOf[m] # algo[u]
  <2>1. PICK f \in [Points -> Int] : Numbering(f) /\ Ahead(f)
    BY <1>1 DEF AllInv, ListInv, OrderInv
  <2>2. o[u] \in Ring \cup Held(u) /\ m \in Listed
    BY Zenon, <1>1 DEF AllInv, ListInv, ReaderInv, Reading
  <2>3. ~(f[o[u]] < f[m])
    BY Zenon, <1>1, <2>1, <2>2 DEF Numbering, Ahead, AtOrBefore
  <2> QED  BY Zenon, <1>1, <2>1, <2>3 DEF Ahead
<1>2. AllInv => LookupComplete
  BY Zenon, <1>1 DEF LookupComplete
<1> QED  BY <1>2, AllInvariant, PTL

(* From nf_register_net_hook() until fini() starts, the hook has a         *)
(* configuration of the algorithm "kmp", whose module cannot be unloaded.  *)
THEOREM HookHasAlgorithm == NetSpec => []HookSearches
<1>1. ASSUME AllInv, mod = "live" PROVE conf[nf] # None /\ NameOf[conf[nf]] = "kmp" /\ mstate[conf[nf]] = "live"
  <2>1. conf[nf] \in Mods /\ NameOf[conf[nf]] = "kmp"
    BY Zenon, <1>1 DEF AllInv, HookInv, NInv, NTypeOK, FoundInv
  <2>2. nf \in Holders(conf[nf])
    BY DEF Holders
  <2> QED  BY Zenon, <1>1, <2>1, <2>2 DEF AllInv, HookInv, NInv, ConfBacked
<1>2. AllInv => HookSearches
  BY <1>1 DEF HookSearches
<1> QED  BY <1>2, AllInvariant, PTL
=============================================================================
