------------------------ MODULE IdentityDeviceProofs ------------------------
(***************************************************************************)
(* What holds of the misc device of Task 18 for any number of writers, any *)
(* length of the names and any number of writes.  That the thread never    *)
(* reports an older identity rests on the order of the list; that it       *)
(* sleeps on only after a wake-up met it unprepared rests on where a       *)
(* wake-up that met it prepared has brought it.  Neither can be seen from  *)
(* the property itself: DInv says both.                                    *)
(***************************************************************************)
EXTENDS IdentityDevice, FiniteSetTheorems, SequenceTheorems, TLAPS

(* The list is sorted, newest first, and no identity on it is as old as    *)
(* the one in id_get.                                                      *)
Sorted ==
  /\ id_get.serial <= created
  /\ \A k \in DOMAIN my_id_list :
       id_get.serial < my_id_list[k].serial /\ my_id_list[k].serial <= created
  /\ \A j, k \in DOMAIN my_id_list : j < k => my_id_list[k].serial < my_id_list[j].serial

(* When an identity waits and nobody is about to wake the thread up, then  *)
(* the wake-up was lost, or the thread is on its way to identity_get(), or *)
(* it is gone.  Only a thread that has been started is woken.              *)
Woken ==
  /\ task = "task" => tpc # "none"
  /\ ~undefined /\ Pending # {} /\ ~WakeUpUnderWay =>
       lost \/ tpc = "exited" \/ (tpc \in {"test", "schedule", "awake", "get"} /\ ~intr)

DInv == TypeOK /\ (mod = "init" => todo # <<>>) /\ Sorted /\ Woken

-----------------------------------------------------------------------------
(* identity_destroy() keeps entries of the list in their order. *)
LEMMA KeptFacts ==
  ASSUME NEW keep, my_id_list \in Seq(Identity), keep \subseteq DOMAIN my_id_list
  PROVE  /\ Kept(keep) \in Seq(Identity)
         /\ \E g \in [DOMAIN Kept(keep) -> keep] :
              /\ \A n \in DOMAIN Kept(keep) : Kept(keep)[n] = my_id_list[g[n]]
              /\ \A m, n \in DOMAIN Kept(keep) : m < n => g[m] < g[n]
<1> DEFINE L == Len(my_id_list)
           N == Cardinality(keep)
           Upto(k) == {j \in keep : j <= k}
           r == [k \in keep |-> Cardinality(Upto(k))]
<1>1. L \in Nat /\ DOMAIN my_id_list = 1 .. L
  BY LenProperties
<1>2. IsFiniteSet(keep) /\ N \in Nat
  <2>1. IsFiniteSet(1 .. L)
    BY <1>1, FS_Interval
  <2>2. keep \in SUBSET (1 .. L)
    BY <1>1
  <2> QED BY <2>1, <2>2, FS_Subset, FS_CardinalityType
<1>3. ASSUME NEW k \in keep
      PROVE  IsFiniteSet(Upto(k)) /\ r[k] \in 1 .. N
  <2>1. Upto(k) \in SUBSET keep
    OBVIOUS
  <2>2. IsFiniteSet(Upto(k)) /\ Cardinality(Upto(k)) <= N /\ Cardinality(Upto(k)) \in Nat
    BY <1>2, <2>1, FS_Subset, FS_CardinalityType
  <2>3. k \in Upto(k)
    BY <1>1
  <2>4. Cardinality(Upto(k)) # 0
    BY <2>2, <2>3, FS_EmptySet
  <2> QED BY <1>2, <2>2, <2>4
<1>4. ASSUME NEW j \in keep, NEW k \in keep, j < k
      PROVE  r[j] < r[k]
  <2>1. Upto(j) \in SUBSET Upto(k)
    BY <1>1, <1>4
  <2>2. k \in Upto(k) /\ k \notin Upto(j)
    BY <1>1, <1>4
  <2>3. Cardinality(Upto(j)) <= Cardinality(Upto(k)) /\ Cardinality(Upto(k)) # Cardinality(Upto(j))
    <3>1. Upto(k) # Upto(j)
      BY <2>2
    <3> HIDE DEF Upto
    <3> QED BY <1>3, <2>1, <3>1, FS_Subset
  <2>4. Cardinality(Upto(j)) \in Nat /\ Cardinality(Upto(k)) \in Nat
    BY <1>3, FS_CardinalityType
  <2>5. Cardinality(Upto(j)) < Cardinality(Upto(k))
    <3> HIDE DEF Upto
    <3> QED BY <2>3, <2>4
  <2> QED BY <2>5
<1>5. r \in Surjection(keep, 1 .. N)
  <2>1. r \in [keep -> 1 .. N]
    BY <1>3
  <2>2. r \in Injection(keep, 1 .. N)
    <3>1. \A k \in keep : k \in Nat /\ r[k] \in Nat
      <4>1. \A k \in keep : r[k] \in 1 .. N
        BY <1>3
      <4> HIDE DEF r, N
      <4> QED BY <1>1, <1>2, <4>1
    <3> HIDE DEF r
    <3>2. ASSUME NEW j \in keep, NEW k \in keep, r[j] = r[k]
          PROVE  j = k
      <4>1. ~(j < k) /\ ~(k < j)
        BY <1>4, <3>1, <3>2
      <4> QED BY <3>1, <4>1
    <3> QED BY <2>1, <3>2, Zenon DEF Injection, IsInjective
  <2>3. IsFiniteSet(1 .. N) /\ Cardinality(1 .. N) = N
    BY <1>2, FS_Interval
  <2> HIDE DEF r
  <2> QED BY <2>2, <2>3, FS_Injection
<1> DEFINE At(n) == CHOOSE k \in keep : Cardinality({j \in keep : j <= k}) = n
           g == [n \in 1 .. N |-> At(n)]
<1>6. ASSUME NEW n \in 1 .. N
      PROVE  At(n) \in keep /\ r[At(n)] = n
  <2>1. \E k \in keep : r[k] = n
    <3> HIDE DEF r
    <3> QED BY <1>5 DEF Surjection
  <2>2. \E k \in keep : Cardinality({j \in keep : j <= k}) = n
    BY <2>1
  <2>3. At(n) \in keep /\ Cardinality({j \in keep : j <= At(n)}) = n
    BY <2>2, Zenon
  <2> QED BY <2>3
<1>7. Kept(keep) = [n \in 1 .. N |-> my_id_list[At(n)]]
  BY DEF Kept
<1> HIDE DEF r, At, N
<1>8. DOMAIN Kept(keep) = 1 .. N /\ \A n \in 1 .. N : Kept(keep)[n] = my_id_list[g[n]]
  BY <1>7
<1>9. g \in [1 .. N -> keep]
  BY <1>6
<1>10. ASSUME NEW m \in 1 .. N, NEW n \in 1 .. N, m < n
       PROVE  g[m] < g[n]
  <2>1. At(m) \in keep /\ At(n) \in keep /\ r[At(m)] = m /\ r[At(n)] = n
    BY <1>6
  <2>2. At(m) \in Nat /\ At(n) \in Nat
    BY <1>1, <2>1
  <2>3. ~(At(n) < At(m)) /\ At(n) # At(m)
    BY <1>2, <1>4, <1>10, <2>1
  <2> QED BY <2>2, <2>3
<1>11. Kept(keep) \in Seq(Identity)
  <2>1. \A k \in keep : my_id_list[k] \in Identity
    BY <1>1
  <2>2. Kept(keep) \in [1 .. N -> Identity]
    BY <1>6, <1>7, <2>1
  <2> QED BY <1>2, <2>2
<1> QED BY <1>8, <1>9, <1>10, <1>11

-----------------------------------------------------------------------------
(* The list operations *)

ListType ==
  /\ my_id_list \in Seq(Identity) /\ created \in Nat /\ id_get \in Identity
  /\ inside \subseteq Writers \cup {"thread", "mod"}
ThreadType ==
  /\ undefined \in BOOLEAN
  /\ tpc \in {"none", "kmalloc", "prepare", "test", "schedule", "awake", "get", "busy", "exited"}
  /\ intr \in BOOLEAN /\ should_stop \in BOOLEAN /\ lost \in BOOLEAN
ModType ==
  /\ task \in {"NULL", "ERR", "task"}
  /\ \E k \in 1 .. Len(InitCalls) + 1 : todo = SubSeq(InitCalls, k, Len(InitCalls))
  /\ mod \in {"init", "live", "destroy", "stop", "wait", "deregister", "unloaded"}
  /\ i \in Nat
WriteType ==
  /\ id_count \in Nat /\ extent \in 0 .. LEN
  /\ wpc \in [Writers -> {"idle", "load", "list_add", "adding", "increment", "store", "wake"}]
  /\ writes \in 0 .. MaxWrites
  /\ reg \in [Writers -> Nat]

(* The type invariant, part by part. *)
LEMMA TypeParts ==
  /\ TypeOK <=> ListType /\ ThreadType /\ ModType /\ WriteType
  /\ TypeOK' <=> ListType' /\ ThreadType' /\ ModType' /\ WriteType'
BY DEF TypeOK, ListType, ThreadType, ModType, WriteType

(* identity_get() leaves the oldest identity in id_get and empties the     *)
(* list.                                                                   *)
LEMMA GetFacts ==
  ASSUME ListType, Sorted, IdentityGet
  PROVE  /\ my_id_list' \in Seq(Identity) /\ created' \in Nat /\ id_get' \in Identity
         /\ Sorted' /\ Pending' = {}
         /\ undefined' \in BOOLEAN
         /\ id_get' # id_get => id_get'.serial > id_get.serial
<1>1. my_id_list' = <<>> /\ created' = created
      /\ id_get' = IF my_id_list = <<>> THEN id_get ELSE Last(my_id_list)
  BY DEF IdentityGet
<1>2. undefined' \in BOOLEAN
  BY Zenon DEF IdentityGet, ReadsFreed
<1>3. my_id_list' \in Seq(Identity) /\ DOMAIN my_id_list' = {}
  BY <1>1
<1>4. Pending' = {}
  BY <1>3 DEF Pending
<1>5. CASE my_id_list = <<>>
  BY <1>1, <1>2, <1>3, <1>4, <1>5 DEF ListType, Sorted
<1>6. CASE my_id_list # <<>>
  <2> DEFINE k == Len(my_id_list)
  <2>1. k \in DOMAIN my_id_list /\ id_get' = my_id_list[k]
    BY <1>1, <1>6, EmptySeq, LenProperties DEF ListType, Last
  <2>2. my_id_list[k] \in Identity
    BY <2>1, ElementOfSeq, LenProperties DEF ListType
  <2>3. id_get.serial < my_id_list[k].serial /\ my_id_list[k].serial <= created
    BY <2>1 DEF Sorted
  <2>4. Sorted'
    BY <1>1, <1>3, <2>1, <2>3 DEF Sorted
  <2>5. id_get'.serial > id_get.serial
    BY <2>1, <2>2, <2>3 DEF ListType, Identity
  <2> QED BY <1>1, <1>2, <1>3, <1>4, <2>1, <2>2, <2>4, <2>5 DEF ListType
<1> QED BY <1>5, <1>6

(* identity_create() puts the newest identity at the head of the list. *)
LEMMA CreateFacts ==
  ASSUME ListType, Sorted, NEW id \in Nat, NEW written \in BOOLEAN, IdentityCreate(id, written)
  PROVE  /\ my_id_list' \in Seq(Identity) /\ created' \in Nat /\ id_get' = id_get
         /\ Sorted' /\ undefined' = undefined
         /\ ~written /\ Pending' # {} => Pending # {}
<1> DEFINE e == [id |-> id, serial |-> created + 1, written |-> written]
           L == Len(my_id_list)
<1>1. /\ my_id_list' = <<e>> \o my_id_list /\ created' = created + 1
      /\ id_get' = id_get /\ undefined' = undefined
  BY DEF IdentityCreate
<1>2. created \in Nat /\ id_get.serial \in Nat
  BY DEF ListType, Identity
<1>3. e \in Identity /\ e.serial = created + 1 /\ e.written = written
  BY <1>2 DEF Identity
<1> HIDE DEF e
<1>4. L \in Nat /\ DOMAIN my_id_list = 1 .. L /\ my_id_list \in Seq(Identity)
  BY LenProperties DEF ListType
<1>5. /\ my_id_list' \in Seq(Identity) /\ DOMAIN my_id_list' = 1 .. L + 1
      /\ my_id_list'[1] = e
      /\ \A k \in 2 .. L + 1 : my_id_list'[k] = my_id_list[k - 1]
  <2>1. <<e>> \in Seq(Identity) /\ Len(<<e>>) = 1 /\ <<e>>[1] = e
    BY <1>3
  <2> QED BY <1>1, <1>4, <2>1, ConcatProperties, LenProperties
<1>6. \A k \in 1 .. L : my_id_list[k].serial \in Nat
  <2>1. \A k \in 1 .. L : my_id_list[k] \in Identity
    BY <1>4, ElementOfSeq
  <2> QED BY <2>1 DEF Identity
<1>7. Sorted'
  <2>1. id_get'.serial <= created'
    BY <1>1, <1>2 DEF Sorted
  <2>2. ASSUME NEW k \in 1 .. L + 1
        PROVE  id_get.serial < my_id_list'[k].serial /\ my_id_list'[k].serial <= created + 1
    <3>1. CASE k = 1
      BY <1>2, <1>3, <1>5, <3>1 DEF Sorted
    <3>2. CASE k # 1
      <4>1. k \in 2 .. L + 1 /\ k - 1 \in 1 .. L
        BY <1>4, <3>2
      <4>2. id_get.serial < my_id_list[k - 1].serial /\ my_id_list[k - 1].serial <= created
        BY <1>4, <4>1 DEF Sorted
      <4> QED BY <1>2, <1>5, <1>6, <4>1, <4>2
    <3> QED BY <3>1, <3>2
  <2>3. ASSUME NEW j \in 1 .. L + 1, NEW k \in 1 .. L + 1, j < k
        PROVE  my_id_list'[k].serial < my_id_list'[j].serial
    <3>1. k \in 2 .. L + 1 /\ k - 1 \in 1 .. L
      BY <1>4, <2>3
    <3>2. CASE j = 1
      <4>1. my_id_list[k - 1].serial <= created
        BY <1>4, <3>1 DEF Sorted
      <4> QED BY <1>2, <1>3, <1>5, <1>6, <3>1, <3>2, <4>1
    <3>3. CASE j # 1
      <4>1. j \in 2 .. L + 1 /\ j - 1 \in 1 .. L /\ j - 1 < k - 1
        BY <1>4, <2>3, <3>3
      <4>2. my_id_list[k - 1].serial < my_id_list[j - 1].serial
        BY <1>4, <3>1, <4>1 DEF Sorted
      <4> QED BY <1>5, <3>1, <4>1, <4>2
    <3> QED BY <3>2, <3>3
  <2> QED BY <1>1, <1>5, <2>1, <2>2, <2>3 DEF Sorted
<1>8. ASSUME ~written, Pending' # {}
      PROVE  Pending # {}
  <2>1. PICK k \in 1 .. L + 1 : my_id_list'[k].written
    BY <1>5, <1>8 DEF Pending
  <2>2. k \in 2 .. L + 1 /\ k - 1 \in 1 .. L
    BY <1>3, <1>4, <1>5, <1>8, <2>1
  <2>3. my_id_list[k - 1].written
    BY <1>5, <2>1, <2>2
  <2> QED BY <1>4, <2>2, <2>3 DEF Pending
<1> QED BY <1>1, <1>2, <1>5, <1>7, <1>8

(* identity_destroy() keeps the list sorted and adds nothing to it. *)
LEMMA DestroyFacts ==
  ASSUME ListType, Sorted, NEW id, IdentityDestroy(id)
  PROVE  /\ my_id_list' \in Seq(Identity) /\ created' = created /\ id_get' = id_get
         /\ Sorted' /\ undefined' \in BOOLEAN
         /\ Pending' # {} => Pending # {}
<1> DEFINE keep == {k \in DOMAIN my_id_list : my_id_list[k].id # id}
<1>1. my_id_list' = Kept(keep) /\ created' = created /\ id_get' = id_get
  BY DEF IdentityDestroy
<1>2. undefined' \in BOOLEAN
  BY Zenon DEF IdentityDestroy, ReadsFreed
<1>3. my_id_list \in Seq(Identity) /\ keep \subseteq DOMAIN my_id_list
  BY DEF ListType
<1> HIDE DEF keep
<1>4. my_id_list' \in Seq(Identity)
  BY <1>1, <1>3, KeptFacts
<1>5. PICK g \in [DOMAIN my_id_list' -> keep] :
        /\ \A n \in DOMAIN my_id_list' : my_id_list'[n] = my_id_list[g[n]]
        /\ \A m, n \in DOMAIN my_id_list' : m < n => g[m] < g[n]
  BY <1>1, <1>3, KeptFacts
<1>6. \A n \in DOMAIN my_id_list' : g[n] \in DOMAIN my_id_list
  BY <1>3
<1>7. Sorted'
  BY <1>1, <1>5, <1>6 DEF Sorted
<1>8. Pending' # {} => Pending # {}
  BY <1>5, <1>6 DEF Pending
<1> QED BY <1>1, <1>2, <1>4, <1>7, <1>8

-----------------------------------------------------------------------------
(* The steps of the thread *)

(* What the steps that leave the list alone have to show. *)
LEMMA ListFrame ==
  ASSUME ListType, Sorted, UNCHANGED <<my_id_list, created, id_get>>
  PROVE  /\ my_id_list' \in Seq(Identity) /\ created' \in Nat /\ id_get' \in Identity
         /\ Sorted' /\ Pending' = Pending
<1> QED BY DEF ListType, Sorted, Pending

(* At the beginning nothing is on the list. *)
LEMMA DInvInit == Init => DInv
<1> SUFFICES ASSUME Init PROVE DInv
  OBVIOUS
<1> USE IdentityDeviceAssumption DEF Init
<1>1. ListType
  BY DEF ListType, Identity, Blank
<1>2. ThreadType /\ WriteType
  <2>1. 0 \in 0 .. LEN
    OBVIOUS
  <2>2. WriteType
    BY <2>1 DEF WriteType
  <2>3. ThreadType
    BY DEF ThreadType
  <2> QED BY <2>2, <2>3
<1>3. todo = SubSeq(InitCalls, 1, Len(InitCalls)) /\ todo # <<>> /\ Len(InitCalls) = 15
  BY DEF InitCalls
<1>4. ModType
  <2>1. 1 \in 1 .. Len(InitCalls) + 1
    BY <1>3
  <2> QED BY <1>3, <2>1, Zenon DEF ModType
<1>5. Sorted /\ Woken
  BY DEF Sorted, Woken, Pending, Blank
<1> QED BY <1>1, <1>2, <1>3, <1>4, <1>5, TypeParts DEF DInv

(* The thread is woken on its way to schedule(), or it takes the list. *)
LEMMA ThreadKeeps ==
  ASSUME DInv, ~undefined, ThreadStep
  PROVE  DInv'
<1> USE DEF DInv
<1>1. ListType /\ ThreadType /\ ModType /\ WriteType /\ Sorted /\ Woken
  BY TypeParts
<1>2. UNCHANGED <<task, todo, mod, i, id_count, extent, wpc, writes, reg, should_stop>>
  BY DEF ThreadStep, Kmalloc, PrepareToWait, TestStop, Schedule, Awake, Get, Report, modVars, writeVars
<1>3. ModType' /\ WriteType' /\ (mod' = "init" => todo' # <<>>) /\ (WakeUpUnderWay' <=> WakeUpUnderWay)
  BY <1>1, <1>2 DEF ModType, WriteType, WakeUpUnderWay
<1>4. CASE Get
  <2>1. /\ tpc' = "busy" /\ inside' \subseteq inside /\ lost' = FALSE /\ intr' = intr
        /\ IdentityGet
    BY <1>4 DEF Get, Thread, Leave
  <2>2. ListType' /\ Sorted' /\ Pending' = {} /\ undefined' \in BOOLEAN
    BY <1>1, <2>1, GetFacts DEF ListType
  <2>3. ThreadType'
    BY <1>1, <1>2, <2>1, <2>2 DEF ThreadType
  <2>4. Woken'
    BY <2>1, <2>2 DEF Woken
  <2> QED BY <1>3, <2>2, <2>3, <2>4, TypeParts
<1>5. CASE Awake
  <2>1. /\ UNCHANGED <<my_id_list, created, id_get, intr, lost>>
        /\ tpc = "awake" /\ tpc' \in {"exited", "get"}
        /\ inside' \subseteq inside \cup {"thread"}
    BY <1>5 DEF Awake, Thread, Enter
  <2>2. undefined' \in BOOLEAN
    BY <1>1, <1>5, Zenon DEF Awake, Enter, ThreadType
  <2>3. ListType' /\ Sorted' /\ Pending' = Pending
    BY <1>1, <2>1, ListFrame DEF ListType
  <2>4. ThreadType'
    BY <1>1, <1>2, <2>1, <2>2 DEF ThreadType
  <2>5. Woken'
    BY <1>1, <1>2, <1>3, <2>1, <2>3 DEF Woken
  <2> QED BY <1>3, <2>3, <2>4, <2>5, TypeParts
<1>6. CASE Kmalloc \/ PrepareToWait \/ TestStop \/ Schedule \/ Report
  <2>1. UNCHANGED <<my_id_list, created, id_get, inside, undefined, lost>>
    BY <1>6 DEF Kmalloc, PrepareToWait, TestStop, Schedule, Report, listVars
  <2>2. /\ tpc' \in {"prepare", "exited", "test", "awake", "schedule", "kmalloc"}
        /\ \/ tpc \in {"kmalloc", "busy"} /\ intr' = intr
           \/ tpc = "prepare" /\ tpc' = "test" /\ intr' = TRUE
           \/ tpc \in {"test", "schedule"} /\ tpc' \in {"awake", "schedule"} /\ intr' = intr
    BY <1>6 DEF Kmalloc, PrepareToWait, TestStop, Schedule, Report, Thread
  <2>3. ListType' /\ Sorted' /\ Pending' = Pending
    BY <1>1, <2>1, ListFrame DEF ListType
  <2>4. ThreadType'
    BY <1>1, <1>2, <2>1, <2>2 DEF ThreadType
  <2>5. Woken'
    BY <1>1, <1>2, <1>3, <2>1, <2>2, <2>3 DEF Woken
  <2> QED BY <1>3, <2>3, <2>4, <2>5, TypeParts
<1> QED BY <1>4, <1>5, <1>6 DEF ThreadStep

-----------------------------------------------------------------------------
(* The steps of a write *)

(* A write copies, takes a number, adds its identity and counts; its steps *)
(* before the last one do not touch the thread.                            *)
LEMMA WriteKeeps ==
  ASSUME DInv, ~undefined, NEW w \in Writers,
         \/ \E f_pos \in 0 .. LEN, count \in 0 .. LEN + 1 : CopyFromUser(w, f_pos, count)
         \/ LoadId(w) \/ EnterListAdd(w) \/ IncrementLoad(w) \/ IncrementStore(w)
  PROVE  DInv'
<1> USE DEF DInv
<1>1. ListType /\ ThreadType /\ ModType /\ WriteType /\ Sorted /\ Woken
  BY TypeParts
<1>2. UNCHANGED <<my_id_list, created, id_get, tpc, intr, should_stop, lost, task, todo, mod, i>>
  BY DEF CopyFromUser, LoadId, EnterListAdd, IncrementLoad, IncrementStore, listVars, threadVars, modVars
<1>3. /\ undefined' \in BOOLEAN /\ inside' \subseteq inside \cup {w}
  <2>1. CASE EnterListAdd(w)
    BY <2>1, Zenon DEF EnterListAdd, Enter
  <2>2. CASE ~EnterListAdd(w)
    BY <1>1, <2>2 DEF CopyFromUser, LoadId, IncrementLoad, IncrementStore, listVars, ThreadType
  <2> QED BY <2>1, <2>2
<1>4. ListType' /\ Sorted' /\ Pending' = Pending
  BY <1>1, <1>2, <1>3, ListFrame DEF ListType
<1>5. ThreadType' /\ ModType' /\ (mod' = "init" => todo' # <<>>)
  BY <1>1, <1>2, <1>3 DEF ThreadType, ModType
<1>6. WriteType' /\ (WakeUpUnderWay => WakeUpUnderWay')
  <2> USE IdentityDeviceAssumption
  <2>1. ASSUME NEW f_pos \in 0 .. LEN, NEW count \in 0 .. LEN + 1, CopyFromUser(w, f_pos, count)
        PROVE  WriteType' /\ (WakeUpUnderWay => WakeUpUnderWay')
    <3> DEFINE end == IF f_pos + count > LEN THEN LEN ELSE f_pos + count
    <3>1. end \in 0 .. LEN
      BY <1>1 DEF WriteType
    <3>2. /\ UNCHANGED <<id_count, reg>>
          /\ extent' = IF end > extent THEN end ELSE extent
          /\ \/ wpc[w] = "idle" /\ wpc' = [wpc EXCEPT ![w] = "load"] /\ writes < MaxWrites /\ writes' = writes + 1
             \/ wpc' = wpc /\ writes' = writes
      BY <2>1 DEF CopyFromUser, Write
    <3> HIDE DEF end
    <3> QED BY <1>1, <3>1, <3>2 DEF WriteType, WakeUpUnderWay
  <2>2. CASE LoadId(w)
    <3>1. /\ UNCHANGED <<id_count, extent, writes>> /\ reg' = [reg EXCEPT ![w] = id_count]
          /\ wpc[w] = "load"
          /\ wpc' = [wpc EXCEPT ![w] = "list_add"] \/ wpc' = [wpc EXCEPT ![w] = "increment"]
      BY <2>2 DEF LoadId, Write
    <3> QED BY <1>1, <3>1 DEF WriteType, WakeUpUnderWay
  <2>3. CASE EnterListAdd(w)
    <3>1. /\ UNCHANGED <<id_count, extent, writes, reg>>
          /\ wpc[w] = "list_add" /\ wpc' = [wpc EXCEPT ![w] = "adding"]
      BY <2>3 DEF EnterListAdd, Write
    <3> QED BY <1>1, <3>1 DEF WriteType, WakeUpUnderWay
  <2>4. CASE IncrementLoad(w)
    <3>1. /\ UNCHANGED <<id_count, extent, writes>> /\ reg' = [reg EXCEPT ![w] = id_count]
          /\ wpc' = [wpc EXCEPT ![w] = "store"]
      BY <2>4 DEF IncrementLoad, Write
    <3> QED BY <1>1, <3>1 DEF WriteType, WakeUpUnderWay
  <2>5. CASE IncrementStore(w)
    <3>1. /\ UNCHANGED <<extent, writes>> /\ reg' = [reg EXCEPT ![w] = 0] /\ id_count' = reg[w] + 1
          /\ wpc' = [wpc EXCEPT ![w] = "wake"]
      BY <2>5 DEF IncrementStore, Write
    <3> QED BY <1>1, <3>1 DEF WriteType, WakeUpUnderWay
  <2> QED BY <2>1, <2>2, <2>3, <2>4, <2>5
<1>7. Woken'
  BY <1>1, <1>2, <1>4, <1>6 DEF Woken
<1> QED BY <1>4, <1>5, <1>6, <1>7, TypeParts

(* list_add(): the write is now about to wake the thread up. *)
LEMMA ListAddKeeps ==
  ASSUME DInv, NEW w \in Writers, ListAdd(w)
  PROVE  DInv'
<1> USE DEF DInv
<1>1. ListType /\ ThreadType /\ ModType /\ WriteType /\ Sorted /\ Woken
  BY TypeParts
<1>2. /\ UNCHANGED <<tpc, intr, should_stop, lost, task, todo, mod, i, id_count, extent, writes>>
      /\ inside' \subseteq inside /\ IdentityCreate(reg[w], TRUE)
      /\ wpc' = [wpc EXCEPT ![w] = "increment"] /\ reg' = [reg EXCEPT ![w] = 0]
  BY DEF ListAdd, Write, Leave, threadVars, modVars
<1>3. reg[w] \in Nat
  BY <1>1 DEF WriteType
<1>4. ListType' /\ Sorted' /\ undefined' = undefined
  BY <1>1, <1>2, <1>3, CreateFacts DEF ListType
<1>5. ThreadType' /\ ModType' /\ (mod' = "init" => todo' # <<>>)
  BY <1>1, <1>2, <1>4 DEF ThreadType, ModType
<1>6. WriteType' /\ WakeUpUnderWay'
  BY <1>1, <1>2 DEF WriteType, WakeUpUnderWay
<1>7. Woken'
  BY <1>1, <1>2, <1>6 DEF Woken
<1> QED BY <1>4, <1>5, <1>6, <1>7, TypeParts

(* wake_up_process(): the thread is now on its way, or the wake-up is lost *)
(* because the thread was busy.                                            *)
LEMMA WakeKeeps ==
  ASSUME DInv, NEW w \in Writers, WakeUpProcess(w)
  PROVE  DInv'
<1> USE DEF DInv
<1>1. ListType /\ ThreadType /\ ModType /\ WriteType /\ Sorted /\ Woken
  BY TypeParts
<1>2. /\ UNCHANGED <<my_id_list, created, id_get, inside, tpc, should_stop, task, todo, mod, i>>
      /\ UNCHANGED <<id_count, extent, writes, reg>>
      /\ intr' = FALSE /\ wpc' = [wpc EXCEPT ![w] = "idle"]
  BY DEF WakeUpProcess, Write, listVars, modVars
<1>3. lost' \in BOOLEAN /\ (tpc \in {"busy", "kmalloc", "prepare"} => lost')
  BY Zenon DEF WakeUpProcess
<1>4. undefined' \in BOOLEAN /\ (task # "task" => undefined')
  <2>1. CASE task # "task"
    BY <2>1, Zenon DEF WakeUpProcess, UseTask
  <2>2. CASE task = "task"
    BY <2>2, Zenon DEF WakeUpProcess, UseTask
  <2> QED BY <2>1, <2>2
<1>5. ListType' /\ Sorted'
  BY <1>1, <1>2, ListFrame DEF ListType
<1>6. ThreadType' /\ ModType' /\ WriteType' /\ (mod' = "init" => todo' # <<>>)
  BY <1>1, <1>2, <1>3, <1>4 DEF ThreadType, ModType, WriteType
<1>7. Woken'
  BY <1>1, <1>2, <1>3, <1>4 DEF Woken, ThreadType
<1> QED BY <1>5, <1>6, <1>7, TypeParts

-----------------------------------------------------------------------------
(* The steps of misc_init() and misc_exit() *)

Calls == {"misc_register", "kthread_run", "assign", "create", "get", "find", "destroy"} \X Nat

(* misc_init() makes one call after the other, and is done after the last. *)
LEMMA DoneFacts ==
  ASSUME ModType, todo # <<>>
  PROVE  /\ Head(todo)[2] \in Nat
         /\ Done => /\ \E k \in 1 .. Len(InitCalls) + 1 : todo' = SubSeq(InitCalls, k, Len(InitCalls))
                    /\ mod' \in {"live", "init"} /\ (mod' = "init" => todo' # <<>>)
<1> DEFINE N == Len(InitCalls)
<1>1. InitCalls \in Seq(Calls) /\ N \in Nat
  <2> HIDE DEF N
  <2>1. InitCalls \in Seq(Calls)
    BY DEF InitCalls, Calls
  <2> QED BY <2>1, LenProperties DEF N
<1>2. PICK k \in 1 .. N + 1 : todo = SubSeq(InitCalls, k, N)
  BY DEF ModType
<1> HIDE DEF N
<1>3. todo \in Seq(Calls) /\ Len(todo) = (IF k <= N THEN N - k + 1 ELSE 0)
  BY <1>1, <1>2, SubSeqProperties DEF N
<1>4. k <= N
  BY <1>1, <1>3, EmptySeq
<1>5. Head(todo) \in Calls
  BY <1>3, HeadTailProperties
<1>6. Head(todo)[2] \in Nat
  BY <1>5 DEF Calls
<1>7. ASSUME Done
      PROVE  /\ \E j \in 1 .. N + 1 : todo' = SubSeq(InitCalls, j, N)
             /\ mod' \in {"live", "init"} /\ (mod' = "init" => todo' # <<>>)
  <2>1. todo' = Tail(todo) /\ mod' = IF Len(todo) = 1 THEN "live" ELSE "init"
    BY <1>7 DEF Done
  <2>2. Tail(todo) = SubSeq(InitCalls, k + 1, N)
    BY <1>1, <1>2, <1>4, HeadTailOfSubSeq DEF N
  <2>3. k + 1 \in 1 .. N + 1
    BY <1>1, <1>4
  <2>4. mod' = "init" => todo' # <<>>
    <3>1. mod' = "init" => Len(todo) # 1
      BY <2>1
    <3>2. Len(Tail(todo)) = Len(todo) - 1 /\ Len(todo) \in Nat
      BY <1>3, HeadTailProperties, LenProperties
    <3>3. Len(todo) # 0 /\ Len(<<>>) = 0
      BY <1>3, EmptySeq
    <3> QED BY <2>1, <3>1, <3>2, <3>3
  <2> QED BY <2>1, <2>2, <2>3, <2>4
<1> QED BY <1>6, <1>7 DEF N

(* misc_init() registers the device, starts the thread, remembers it and   *)
(* tries the list operations out.                                          *)
LEMMA InitKeeps ==
  ASSUME DInv, ~undefined, InitStep
  PROVE  DInv'
<1> USE DEF DInv
<1>1. ListType /\ ThreadType /\ ModType /\ WriteType /\ Sorted /\ Woken
  BY TypeParts
<1>2. UNCHANGED <<id_count, extent, wpc, writes, reg, intr, should_stop, lost, i>> /\ mod = "init"
  BY DEF InitStep, MiscRegister, KthreadRun, AssignThread, InitEnter, InitLeave, threadVars, writeVars
<1>3. WriteType' /\ (WakeUpUnderWay' <=> WakeUpUnderWay)
  BY <1>1, <1>2 DEF WriteType, WakeUpUnderWay
<1>4. /\ \/ todo' = todo /\ mod' \in {mod, "unloaded"}
         \/ Done
      /\ task' = task \/ AssignThread
  BY DEF InitStep, MiscRegister, KthreadRun, AssignThread, InitEnter, InitLeave
<1>5. task' \in {"NULL", "ERR", "task"}
  BY <1>1, <1>4 DEF AssignThread, ModType
<1>6. ModType' /\ (mod' = "init" => todo' # <<>>)
  <2>1. CASE todo' = todo /\ mod' \in {mod, "unloaded"}
    BY <1>1, <1>2, <1>5, <2>1 DEF ModType
  <2>2. CASE Done
    BY <1>1, <1>2, <1>5, <2>2, DoneFacts DEF ModType
  <2> QED BY <1>4, <2>1, <2>2
<1>7. CASE MiscRegister \/ KthreadRun \/ AssignThread
  <2>1. /\ UNCHANGED <<my_id_list, created, id_get, inside, undefined>>
        /\ tpc' = tpc \/ (tpc = "none" /\ tpc' = "kmalloc")
        /\ task' = task \/ (tpc' = tpc /\ task' = IF tpc = "none" THEN "ERR" ELSE "task")
    BY <1>7 DEF MiscRegister, KthreadRun, AssignThread, Thread, listVars, threadVars
  <2>2. ListType' /\ Sorted' /\ Pending' = Pending
    BY <1>1, <2>1, ListFrame DEF ListType
  <2>3. ThreadType'
    BY <1>1, <1>2, <2>1 DEF ThreadType
  <2>4. Woken'
    BY <1>1, <1>2, <1>3, <2>1, <2>2 DEF Woken
  <2> QED BY <1>3, <1>6, <2>2, <2>3, <2>4, TypeParts
<1>8. CASE InitEnter
  <2>1. UNCHANGED <<my_id_list, created, id_get, tpc, task>> /\ inside' \subseteq inside \cup {"mod"}
    BY <1>8 DEF InitEnter, Enter, threadVars
  <2>2. undefined' \in BOOLEAN
    BY <1>1, <1>8, Zenon DEF InitEnter, Enter, ThreadType
  <2>3. ListType' /\ Sorted' /\ Pending' = Pending
    BY <1>1, <2>1, ListFrame DEF ListType
  <2>4. ThreadType'
    BY <1>1, <1>2, <2>1, <2>2 DEF ThreadType
  <2>5. Woken'
    BY <1>1, <1>2, <1>3, <2>1, <2>3 DEF Woken
  <2> QED BY <1>3, <1>6, <2>3, <2>4, <2>5, TypeParts
<1>9. CASE InitLeave
  <2> DEFINE id == Head(todo)[2]
  <2>1. /\ UNCHANGED <<tpc, task>> /\ inside' \subseteq inside
        /\ IdentityCreate(id, FALSE) \/ IdentityGet \/ IdentityFind \/ IdentityDestroy(id)
    BY <1>9 DEF InitLeave, Leave, threadVars
  <2>2. id \in Nat
    BY <1>1, <1>2, DoneFacts
  <2> HIDE DEF id
  <2>3. ListType' /\ Sorted' /\ undefined' \in BOOLEAN /\ (Pending' # {} => Pending # {})
    <3>1. CASE IdentityCreate(id, FALSE)
      BY <1>1, <2>1, <2>2, <3>1, CreateFacts DEF ListType, ThreadType
    <3>2. CASE IdentityGet
      BY <1>1, <2>1, <3>2, GetFacts DEF ListType
    <3>3. CASE IdentityFind
      <4>1. UNCHANGED <<my_id_list, created, id_get, undefined>>
        BY <3>3 DEF IdentityFind
      <4> QED BY <1>1, <2>1, <4>1, ListFrame DEF ListType, ThreadType
    <3>4. CASE IdentityDestroy(id)
      BY <1>1, <2>1, <3>4, DestroyFacts DEF ListType
    <3> QED BY <2>1, <3>1, <3>2, <3>3, <3>4
  <2>4. ThreadType'
    BY <1>1, <1>2, <2>1, <2>3 DEF ThreadType
  <2>5. Woken'
    BY <1>1, <1>2, <1>3, <2>1, <2>3 DEF Woken
  <2> QED BY <1>3, <1>6, <2>3, <2>4, <2>5, TypeParts
<1> QED BY <1>7, <1>8, <1>9 DEF InitStep

(* misc_exit() destroys identities, and stops the thread. *)
LEMMA ExitKeeps ==
  ASSUME DInv, ~undefined, MiscExit \/ ExitStep
  PROVE  DInv'
<1> USE DEF DInv
<1>1. ListType /\ ThreadType /\ ModType /\ WriteType /\ Sorted /\ Woken
  BY TypeParts
<1>2. UNCHANGED <<id_count, extent, wpc, writes, reg, tpc, lost, task, todo>> /\ mod' # "init"
  BY DEF ExitStep, MiscExit, ExitTest, ExitDestroy, KthreadStop, StopReturns, MiscDeregister,
         threadVars, writeVars
<1>3. WriteType' /\ (WakeUpUnderWay' <=> WakeUpUnderWay)
  BY <1>1, <1>2 DEF WriteType, WakeUpUnderWay
<1>4. /\ mod' \in {mod, "destroy", "stop", "wait", "deregister", "unloaded"}
      /\ i' \in {i, i + 1}
      /\ inside' \subseteq inside \cup {"mod"}
  BY DEF ExitStep, MiscExit, ExitTest, ExitDestroy, KthreadStop, StopReturns, MiscDeregister,
         Enter, Leave, listVars
<1>5. ModType'
  BY <1>1, <1>2, <1>4 DEF ModType
<1>6. \/ intr' = intr /\ should_stop' = should_stop
      \/ intr' = FALSE /\ should_stop' = TRUE
  BY DEF ExitStep, MiscExit, ExitTest, ExitDestroy, KthreadStop, StopReturns, MiscDeregister, threadVars
<1>7. CASE ExitDestroy
  <2>1. IdentityDestroy(i)
    BY <1>7 DEF ExitDestroy
  <2>2. ListType' /\ Sorted' /\ undefined' \in BOOLEAN /\ (Pending' # {} => Pending # {})
    BY <1>1, <1>4, <2>1, DestroyFacts DEF ListType
  <2>3. ThreadType'
    BY <1>1, <1>2, <1>6, <2>2 DEF ThreadType
  <2>4. Woken'
    BY <1>1, <1>2, <1>3, <1>6, <2>2 DEF Woken
  <2> QED BY <1>2, <1>3, <1>5, <2>2, <2>3, <2>4, TypeParts
<1>8. CASE ~ExitDestroy
  <2>1. UNCHANGED <<my_id_list, created, id_get>>
    BY <1>8 DEF ExitStep, MiscExit, ExitTest, KthreadStop, StopReturns, MiscDeregister, listVars
  <2>2. undefined' \in BOOLEAN
    <3>1. CASE ExitTest
      BY <1>1, <3>1, Zenon DEF ExitTest, Enter, ThreadType
    <3>2. CASE KthreadStop
      BY <3>2, Zenon DEF KthreadStop, UseTask
    <3>3. CASE MiscDeregister
      BY <3>3, Zenon DEF MiscDeregister
    <3>4. CASE MiscExit \/ StopReturns
      BY <1>1, <3>4 DEF MiscExit, StopReturns, ThreadType
    <3> QED BY <1>8, <3>1, <3>2, <3>3, <3>4 DEF ExitStep
  <2>3. ListType' /\ Sorted' /\ Pending' = Pending
    BY <1>1, <1>4, <2>1, ListFrame DEF ListType
  <2>4. ThreadType'
    BY <1>1, <1>2, <1>6, <2>2 DEF ThreadType
  <2>5. Woken'
    BY <1>1, <1>2, <1>3, <1>6, <2>3 DEF Woken
  <2> QED BY <1>2, <1>3, <1>5, <2>3, <2>4, <2>5, TypeParts
<1> QED BY <1>7, <1>8

-----------------------------------------------------------------------------
(* The results *)

(* Every step keeps the invariant. *)
LEMMA DInvNext == DInv /\ [Next]_vars => DInv'
<1> SUFFICES ASSUME DInv, [Next]_vars PROVE DInv'
  OBVIOUS
<1>1. CASE UNCHANGED vars
  <2>1. /\ UNCHANGED <<my_id_list, created, id_get, inside, undefined, tpc, intr, should_stop, lost>>
        /\ UNCHANGED <<task, todo, mod, i, id_count, extent, wpc, writes, reg>>
    BY <1>1 DEF vars, listVars, threadVars, modVars, writeVars
  <2>2. TypeOK'
    BY <2>1 DEF DInv, TypeOK
  <2>3. Sorted' /\ Woken' /\ (mod' = "init" => todo' # <<>>)
    BY <2>1 DEF DInv, Sorted, Woken, Pending, WakeUpUnderWay
  <2> QED BY <2>2, <2>3 DEF DInv
<1>2. CASE ~undefined /\ ThreadStep
  BY <1>2, ThreadKeeps
<1>3. ASSUME NEW w \in Writers, ~undefined, WriteStep(w)
      PROVE  DInv'
  BY <1>3, WriteKeeps, ListAddKeeps, WakeKeeps DEF WriteStep
<1>4. CASE ~undefined /\ InitStep
  BY <1>4, InitKeeps
<1>5. CASE ~undefined /\ (MiscExit \/ ExitStep)
  BY <1>5, ExitKeeps
<1> QED BY <1>1, <1>2, <1>3, <1>4, <1>5 DEF Next, Over

(* The invariant holds of every behaviour of the device. *)
LEMMA DInvariant == Spec => []DInv
<1> QED BY DInvInit, DInvNext, PTL DEF Spec

(* The clamp of simple_dev_write() keeps user_input terminated, whatever   *)
(* the offsets of the files are: for every length of the names.            *)
THEOREM DeviceTypeCorrect == Spec => []TypeOK
<1>1. DInv => TypeOK
  BY DEF DInv
<1> QED BY <1>1, DInvariant, PTL

(* The thread of Task 18 sleeps on with an identity on the list only when  *)
(* wake_up_process() met it before its first prepare_to_wait(), or between *)
(* identity_get() and the next one: from prepare_to_wait() to the end of   *)
(* identity_get() no wake-up is lost, for any number of writers.           *)
THEOREM OnlyUnpreparedLoses == Spec => []WakeUpLostOnlyUnprepared
<1>1. DInv => WakeUpLostOnlyUnprepared
  BY DEF DInv, Woken, WakeUpLostOnlyUnprepared, Asleep
<1> QED BY <1>1, DInvariant, PTL

(* identity_get() never goes back to an identity that is older than the    *)
(* one it reported before.                                                 *)
THEOREM ReportsInOrder == Spec => InOrder
<1>1. DInv /\ [Next]_vars => [id_get' # id_get => id_get'.serial > id_get.serial]_id_get
  <2> SUFFICES ASSUME DInv, [Next]_vars, id_get' # id_get
               PROVE  id_get'.serial > id_get.serial
    OBVIOUS
  <2>1. IdentityGet
    <3>1. CASE UNCHANGED vars
      BY <3>1 DEF vars, listVars
    <3>2. CASE ThreadStep
      BY <3>2 DEF ThreadStep, Kmalloc, PrepareToWait, TestStop, Schedule, Awake, Get, Report, listVars
    <3>3. ASSUME NEW w \in Writers, WriteStep(w)
          PROVE  IdentityGet
      BY <3>3 DEF WriteStep, CopyFromUser, LoadId, EnterListAdd, ListAdd, IncrementLoad, IncrementStore,
                  WakeUpProcess, IdentityCreate, listVars
    <3>4. CASE InitStep
      BY <3>4 DEF InitStep, MiscRegister, KthreadRun, AssignThread, InitEnter, InitLeave,
                  IdentityCreate, IdentityFind, IdentityDestroy, listVars
    <3>5. CASE MiscExit \/ ExitStep
      BY <3>5 DEF MiscExit, ExitStep, ExitTest, ExitDestroy, KthreadStop, StopReturns, MiscDeregister,
                  IdentityDestroy, listVars
    <3> QED BY <3>1, <3>2, <3>3, <3>4, <3>5 DEF Next
  <2>2. ListType /\ Sorted
    BY TypeParts DEF DInv
  <2> QED BY <2>1, <2>2, GetFacts
<1> QED BY <1>1, DInvariant, PTL DEF Spec, InOrder
=============================================================================
