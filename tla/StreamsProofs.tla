--------------------------- MODULE StreamsProofs ---------------------------
(***************************************************************************)
(* Proofs about put() and get() of prod-cons.c (module Streams), for any   *)
(* number of threads and streams and any buffer size, and about what its   *)
(* network computes when they are atomic (module Pipeline), for any        *)
(* factors.                                                                *)
(***************************************************************************)
EXTENDS Streams, Pipeline, FiniteSetTheorems, TLAPS

Indicator(c) == IF c THEN 1 ELSE 0

(* The number of threads at given locations of a call on s is a natural    *)
(* number, and positive when a thread is there.                            *)
LEMMA CountType ==
  ASSUME NEW s, NEW L
  PROVE  /\ Cardinality(InCall(s, L)) \in Nat
         /\ \A t \in InCall(s, L) : Cardinality(InCall(s, L)) > 0
<1>1. IsFiniteSet(InCall(s, L))
  BY StreamsAssumption, FS_Subset DEF InCall
<1>2. Cardinality(InCall(s, L)) \in Nat
  BY <1>1, FS_CardinalityType
<1>3. ASSUME NEW t \in InCall(s, L) PROVE Cardinality(InCall(s, L)) > 0
  BY <1>1, <1>2, FS_EmptySet
<1> QED BY <1>2, <1>3

(* The locations that the groups of threads of the invariant stand for. *)
Holding == {"put_enqueue", "put_up_mutex", "get_dequeue", "get_up_mutex"}
Putting == {"put_down_mutex", "put_enqueue"}
DonePut == {"put_up_mutex", "put_up_full"}
Getting == {"get_down_mutex", "get_dequeue"}
DoneGet == {"get_up_mutex", "get_up_empty"}

(* The sizes of the five groups of threads, for every stream. *)
nHolding == [s \in Streams |-> Cardinality(HoldsMutex(s))]
nPutting == [s \in Streams |-> Cardinality(PutReserved(s))]
nDonePut == [s \in Streams |-> Cardinality(PutPending(s))]
nGetting == [s \in Streams |-> Cardinality(GetReserved(s))]
nDoneGet == [s \in Streams |-> Cardinality(GetPending(s))]
nTokens == [s \in Streams |-> Len(buffer[s])]

(* The sizes of the five groups of callers of put() and get() are natural  *)
(* numbers.                                                                *)
LEMMA GroupType ==
  ASSUME NEW s \in Streams
  PROVE  /\ nHolding[s] \in Nat
         /\ nPutting[s] \in Nat
         /\ nDonePut[s] \in Nat
         /\ nGetting[s] \in Nat
         /\ nDoneGet[s] \in Nat
BY CountType DEF nHolding, nPutting, nDonePut, nGetting, nDoneGet,
  HoldsMutex, PutReserved, PutPending, GetReserved, GetPending

(* CountType for the state after a step of a caller.                       *)
LEMMA CountTypePrime ==
  ASSUME NEW s, NEW L
  PROVE  Cardinality(InCall(s, L))' \in Nat
<1>1. IsFiniteSet(InCall(s, L)')
  BY StreamsAssumption, FS_Subset DEF InCall
<1> QED BY <1>1, FS_CardinalityType

(* A step of thread t changes the size of each group by the arrival and    *)
(* the departure of t.                                                     *)
LEMMA GroupStep ==
  ASSUME NEW t \in Threads,
         \A u \in Threads \ {t} : pc'[u] = pc[u] /\ arg'[u] = arg[u],
         NEW s \in Streams
  PROVE  /\ nHolding'[s] = nHolding[s] + Indicator(arg'[t] = s /\ pc'[t] \in Holding)
              - Indicator(arg[t] = s /\ pc[t] \in Holding)
         /\ nPutting'[s] = nPutting[s] + Indicator(arg'[t] = s /\ pc'[t] \in Putting)
              - Indicator(arg[t] = s /\ pc[t] \in Putting)
         /\ nDonePut'[s] = nDonePut[s] + Indicator(arg'[t] = s /\ pc'[t] \in DonePut)
              - Indicator(arg[t] = s /\ pc[t] \in DonePut)
         /\ nGetting'[s] = nGetting[s] + Indicator(arg'[t] = s /\ pc'[t] \in Getting)
              - Indicator(arg[t] = s /\ pc[t] \in Getting)
         /\ nDoneGet'[s] = nDoneGet[s] + Indicator(arg'[t] = s /\ pc'[t] \in DoneGet)
              - Indicator(arg[t] = s /\ pc[t] \in DoneGet)
<1>1. ASSUME NEW L
      PROVE  Cardinality({u \in Threads : arg'[u] = s /\ pc'[u] \in L}) =
               Cardinality({u \in Threads : arg[u] = s /\ pc[u] \in L})
                 + Indicator(arg'[t] = s /\ pc'[t] \in L)
                 - Indicator(arg[t] = s /\ pc[t] \in L)
  <2> DEFINE Others == {u \in Threads \ {t} : arg[u] = s /\ pc[u] \in L}
             Before == {u \in Threads : arg[u] = s /\ pc[u] \in L}
             After == {u \in Threads : arg'[u] = s /\ pc'[u] \in L}
  <2>1. IsFiniteSet(Others) /\ Cardinality(Others) \in Nat
    BY StreamsAssumption, FS_Subset, FS_RemoveElement, FS_CardinalityType
  <2>2. Cardinality(Others \cup {t}) = Cardinality(Others) + 1
    BY <2>1, FS_AddElement
  <2>3. Before = IF arg[t] = s /\ pc[t] \in L THEN Others \cup {t} ELSE Others
    OBVIOUS
  <2>4. After = IF arg'[t] = s /\ pc'[t] \in L THEN Others \cup {t} ELSE Others
    OBVIOUS
  <2>5. Cardinality(After) = Cardinality(Before)
          + Indicator(arg'[t] = s /\ pc'[t] \in L)
          - Indicator(arg[t] = s /\ pc[t] \in L)
    <3> HIDE DEF Others, Before, After
    <3> QED BY <2>1, <2>2, <2>3, <2>4 DEF Indicator
  <2> QED BY <2>5
<1>2. nHolding'[s] = nHolding[s] + Indicator(arg'[t] = s /\ pc'[t] \in Holding)
        - Indicator(arg[t] = s /\ pc[t] \in Holding)
  BY <1>1, Zenon DEF nHolding, HoldsMutex, InCall, Holding
<1>3. nPutting'[s] = nPutting[s] + Indicator(arg'[t] = s /\ pc'[t] \in Putting)
        - Indicator(arg[t] = s /\ pc[t] \in Putting)
  BY <1>1, Zenon DEF nPutting, PutReserved, InCall, Putting
<1>4. nDonePut'[s] = nDonePut[s] + Indicator(arg'[t] = s /\ pc'[t] \in DonePut)
        - Indicator(arg[t] = s /\ pc[t] \in DonePut)
  BY <1>1, Zenon DEF nDonePut, PutPending, InCall, DonePut
<1>5. nGetting'[s] = nGetting[s] + Indicator(arg'[t] = s /\ pc'[t] \in Getting)
        - Indicator(arg[t] = s /\ pc[t] \in Getting)
  BY <1>1, Zenon DEF nGetting, GetReserved, InCall, Getting
<1>6. nDoneGet'[s] = nDoneGet[s] + Indicator(arg'[t] = s /\ pc'[t] \in DoneGet)
        - Indicator(arg[t] = s /\ pc[t] \in DoneGet)
  BY <1>1, Zenon DEF nDoneGet, GetPending, InCall, DoneGet
<1> QED BY <1>2, <1>3, <1>4, <1>5, <1>6

(* A get that is about to dequeue finds a token. *)
LEMMA DequeueFinds ==
  ASSUME TypeOK, TokensBacked, NEW t \in Threads, pc[t] = "get_dequeue"
  PROVE  buffer[arg[t]] # << >>
<1>1. arg[t] \in Streams /\ full[arg[t]] \in Nat
  BY DEF TypeOK
<1>2. t \in GetReserved(arg[t])
  BY DEF GetReserved, InCall
<1>3. Cardinality(GetReserved(arg[t])) > 0
  BY <1>2, CountType DEF GetReserved
<1>4. Len(buffer[arg[t]]) > 0
  BY <1>1, <1>3, GroupType DEF TokensBacked, TypeOK, nGetting, nDonePut
<1> QED BY <1>4

(* A put that is about to enqueue finds a free slot. *)
LEMMA EnqueueFits ==
  ASSUME TypeOK, SlotsBacked, NEW t \in Threads, pc[t] = "put_enqueue"
  PROVE  Len(buffer[arg[t]]) < BUFFER_SIZE
<1>1. arg[t] \in Streams /\ empty[arg[t]] \in Nat /\ Len(buffer[arg[t]]) \in Nat
  BY DEF TypeOK
<1>2. t \in PutReserved(arg[t])
  BY DEF PutReserved, InCall
<1>3. Cardinality(PutReserved(arg[t])) > 0
  BY <1>2, CountType DEF PutReserved
<1> QED
  BY <1>1, <1>3, GroupType, StreamsAssumption DEF SlotsBacked, nPutting, nDoneGet

-----------------------------------------------------------------------------
(* The accounting part of Inv for one stream. *)
Accounts(s) ==
  /\ mutex[s] + nHolding[s] = 1
  /\ full[s] + nGetting[s] + nDonePut[s]
       <= nTokens[s]
  /\ empty[s] + nPutting[s] + nDoneGet[s]
       + nTokens[s] <= BUFFER_SIZE
  /\ ~Signals =>
       /\ full[s] + nGetting[s] + nDonePut[s]
            = nTokens[s]
       /\ empty[s] + nPutting[s] + nDoneGet[s]
            + nTokens[s] = BUFFER_SIZE

(* The accounting of Inv holds exactly when it holds for each stream's     *)
(* semaphores and queue on their own.                                      *)
LEMMA InvAccounts == Inv <=> TypeOK /\ \A s \in Streams : Accounts(s)
BY DEF Inv, Accounts, MutexAccounted, TokensBacked, SlotsBacked, NothingStranded,
  nHolding, nPutting, nDonePut, nGetting, nDoneGet, nTokens

(* InvAccounts for the state after a step of a caller.                     *)
LEMMA InvAccountsPrime == Inv' <=> TypeOK' /\ \A s \in Streams : Accounts(s)'
BY DEF Inv, Accounts, MutexAccounted, TokensBacked, SlotsBacked, NothingStranded,
  nHolding, nPutting, nDonePut, nGetting, nDoneGet, nTokens

(* A step that, for stream r, keeps the sums the invariant is about, or    *)
(* lowers them when signals are possible.                                  *)
Settles(r) ==
  /\ mutex'[r] + nHolding'[r] = mutex[r] + nHolding[r]
  /\ full'[r] + nGetting'[r] + nDonePut'[r] - nTokens'[r]
       <= full[r] + nGetting[r] + nDonePut[r] - nTokens[r]
  /\ empty'[r] + nPutting'[r] + nDoneGet'[r] + nTokens'[r]
       <= empty[r] + nPutting[r] + nDoneGet[r] + nTokens[r]
  /\ ~Signals =>
       /\ full'[r] + nGetting'[r] + nDonePut'[r] - nTokens'[r]
            = full[r] + nGetting[r] + nDonePut[r] - nTokens[r]
       /\ empty'[r] + nPutting'[r] + nDoneGet'[r] + nTokens'[r]
            = empty[r] + nPutting[r] + nDoneGet[r] + nTokens[r]

(* All that is counted for stream r. *)
Naturals(r) ==
  /\ mutex[r] \in Nat /\ full[r] \in Nat /\ empty[r] \in Nat /\ nTokens[r] \in Nat
  /\ nHolding[r] \in Nat /\ nPutting[r] \in Nat /\ nDonePut[r] \in Nat
  /\ nGetting[r] \in Nat /\ nDoneGet[r] \in Nat

(* A stream's three semaphores and the length of its queue are naturals.   *)
LEMMA SemaphoreType ==
  ASSUME TypeOK, NEW s \in Streams
  PROVE  /\ mutex[s] \in Nat /\ full[s] \in Nat /\ empty[s] \in Nat
         /\ nTokens[s] \in Nat
BY DEF TypeOK, nTokens

(* GroupType for the state after a step of a caller.                       *)
LEMMA GroupTypePrime ==
  ASSUME NEW s \in Streams
  PROVE  /\ nHolding'[s] \in Nat
         /\ nPutting'[s] \in Nat
         /\ nDonePut'[s] \in Nat
         /\ nGetting'[s] \in Nat
         /\ nDoneGet'[s] \in Nat
BY CountTypePrime DEF nHolding, nPutting, nDonePut, nGetting, nDoneGet,
  HoldsMutex, PutReserved, PutPending, GetReserved, GetPending

(* A step of put() or get() that settles a stream's sums preserves its     *)
(* accounting.                                                             *)
LEMMA SettledAccounts ==
  ASSUME NEW r \in Streams, TypeOK, TypeOK', Accounts(r), Settles(r)
  PROVE  Accounts(r)'
<1>1. /\ mutex[r] \in Nat /\ full[r] \in Nat /\ empty[r] \in Nat /\ nTokens[r] \in Nat
      /\ mutex'[r] \in Nat /\ full'[r] \in Nat /\ empty'[r] \in Nat /\ nTokens'[r] \in Nat
  BY DEF TypeOK, nTokens
<1>2. /\ nHolding[r] \in Nat /\ nPutting[r] \in Nat /\ nDonePut[r] \in Nat
      /\ nGetting[r] \in Nat /\ nDoneGet[r] \in Nat
  BY GroupType
<1>3. /\ nHolding'[r] \in Nat /\ nPutting'[r] \in Nat /\ nDonePut'[r] \in Nat
      /\ nGetting'[r] \in Nat /\ nDoneGet'[r] \in Nat
  BY GroupTypePrime
<1>4. mutex'[r] + nHolding'[r] = 1
  BY DEF Settles, Accounts
<1>5. full'[r] + nGetting'[r] + nDonePut'[r] <= nTokens'[r]
  BY <1>1, <1>2, <1>3 DEF Settles, Accounts
<1>6. empty'[r] + nPutting'[r] + nDoneGet'[r] + nTokens'[r] <= BUFFER_SIZE
  BY <1>1, <1>2, <1>3, StreamsAssumption DEF Settles, Accounts
<1>7. ~Signals => /\ full'[r] + nGetting'[r] + nDonePut'[r] = nTokens'[r]
                  /\ empty'[r] + nPutting'[r] + nDoneGet'[r] + nTokens'[r] = BUFFER_SIZE
  BY <1>1, <1>2, <1>3, StreamsAssumption DEF Settles, Accounts
<1> QED BY <1>4, <1>5, <1>6, <1>7 DEF Accounts

(* put() taking a slot from empty preserves the accounting: the slot moves *)
(* from the semaphore to the caller.                                       *)
LEMMA PutDownEmptyInv ==
  ASSUME Inv, NEW t \in Threads, NEW s \in Streams, NEW v \in Tokens, PutDownEmpty(t, s, v)
  PROVE  Inv'
<1>1. TypeOK /\ \A r \in Streams : Accounts(r)
  BY InvAccounts
<1>2. TypeOK'
  BY <1>1 DEF PutDownEmpty, At, TypeOK, PutLocations, GetLocations
<1>3. \A u \in Threads \ {t} : pc'[u] = pc[u] /\ arg'[u] = arg[u]
  BY <1>1 DEF PutDownEmpty, At, TypeOK
<1>4. ASSUME NEW r \in Streams PROVE Settles(r)
  <2>1. pc[t] = "idle" /\ pc'[t] = "put_down_mutex" /\ arg'[t] = s
    BY <1>1 DEF PutDownEmpty, At, TypeOK
  <2>2. /\ nHolding'[r] = nHolding[r]
        /\ nPutting'[r] = nPutting[r] + Indicator(s = r)
        /\ nDonePut'[r] = nDonePut[r]
        /\ nGetting'[r] = nGetting[r]
        /\ nDoneGet'[r] = nDoneGet[r]
    BY <1>3, <2>1, GroupStep, GroupType
       DEF Holding, Putting, DonePut, Getting, DoneGet, Indicator
  <2>3. /\ mutex'[r] = mutex[r]
        /\ full'[r] = full[r]
        /\ empty'[r] = empty[r] - Indicator(s = r)
        /\ nTokens'[r] = nTokens[r]
    BY <1>1 DEF PutDownEmpty, TypeOK, Indicator, nTokens
  <2>8. Naturals(r)
    BY <1>1, SemaphoreType, GroupType DEF Naturals
  <2>9. mutex'[r] + nHolding'[r] = mutex[r] + nHolding[r]
    BY <2>2, <2>3, <2>8 DEF Naturals, Indicator
  <2>10. full'[r] + nGetting'[r] + nDonePut'[r] - nTokens'[r]
           = full[r] + nGetting[r] + nDonePut[r] - nTokens[r]
    BY <2>2, <2>3, <2>8 DEF Naturals, Indicator
  <2>11. empty'[r] + nPutting'[r] + nDoneGet'[r] + nTokens'[r]
           = empty[r] + nPutting[r] + nDoneGet[r] + nTokens[r]
    BY <2>2, <2>3, <2>8 DEF Naturals, Indicator
  <2> QED BY <2>8, <2>9, <2>10, <2>11 DEF Naturals, Settles
<1> QED BY <1>1, <1>2, <1>4, SettledAccounts, InvAccountsPrime

(* get() taking a token from full preserves the accounting: the promise    *)
(* moves from the semaphore to the caller.                                 *)
LEMMA GetDownFullInv ==
  ASSUME Inv, NEW t \in Threads, NEW s \in Streams, GetDownFull(t, s)
  PROVE  Inv'
<1>1. TypeOK /\ \A r \in Streams : Accounts(r)
  BY InvAccounts
<1>2. TypeOK'
  BY <1>1 DEF GetDownFull, At, TypeOK, PutLocations, GetLocations
<1>3. \A u \in Threads \ {t} : pc'[u] = pc[u] /\ arg'[u] = arg[u]
  BY <1>1 DEF GetDownFull, At, TypeOK
<1>4. ASSUME NEW r \in Streams PROVE Settles(r)
  <2>1. pc[t] = "idle" /\ pc'[t] = "get_down_mutex" /\ arg'[t] = s
    BY <1>1 DEF GetDownFull, At, TypeOK
  <2>2. /\ nHolding'[r] = nHolding[r]
        /\ nPutting'[r] = nPutting[r]
        /\ nDonePut'[r] = nDonePut[r]
        /\ nGetting'[r] = nGetting[r] + Indicator(s = r)
        /\ nDoneGet'[r] = nDoneGet[r]
    BY <1>3, <2>1, GroupStep, GroupType
       DEF Holding, Putting, DonePut, Getting, DoneGet, Indicator
  <2>3. /\ mutex'[r] = mutex[r]
        /\ full'[r] = full[r] - Indicator(s = r)
        /\ empty'[r] = empty[r]
        /\ nTokens'[r] = nTokens[r]
    BY <1>1 DEF GetDownFull, TypeOK, Indicator, nTokens
  <2>8. Naturals(r)
    BY <1>1, SemaphoreType, GroupType DEF Naturals
  <2>9. mutex'[r] + nHolding'[r] = mutex[r] + nHolding[r]
    BY <2>2, <2>3, <2>8 DEF Naturals, Indicator
  <2>10. full'[r] + nGetting'[r] + nDonePut'[r] - nTokens'[r]
           = full[r] + nGetting[r] + nDonePut[r] - nTokens[r]
    BY <2>2, <2>3, <2>8 DEF Naturals, Indicator
  <2>11. empty'[r] + nPutting'[r] + nDoneGet'[r] + nTokens'[r]
           = empty[r] + nPutting[r] + nDoneGet[r] + nTokens[r]
    BY <2>2, <2>3, <2>8 DEF Naturals, Indicator
  <2> QED BY <2>8, <2>9, <2>10, <2>11 DEF Naturals, Settles
<1> QED BY <1>1, <1>2, <1>4, SettledAccounts, InvAccountsPrime

(* Taking the stream's mutex, in put() and get(), preserves the accounting. *)
LEMMA DownMutexInv ==
  ASSUME Inv, NEW t \in Threads, DownMutex(t)
  PROVE  Inv'
<1>1. TypeOK /\ \A r \in Streams : Accounts(r)
  BY InvAccounts
<1>2. TypeOK'
  BY <1>1 DEF DownMutex, At, TypeOK, PutLocations, GetLocations
<1>3. \A u \in Threads \ {t} : pc'[u] = pc[u] /\ arg'[u] = arg[u]
  BY <1>1 DEF DownMutex, At, TypeOK
<1>4. ASSUME NEW r \in Streams PROVE Settles(r)
  <2>1. /\ \/ (pc[t] = "put_down_mutex" /\ pc'[t] = "put_enqueue")
           \/ (pc[t] = "get_down_mutex" /\ pc'[t] = "get_dequeue")
        /\ arg'[t] = arg[t]
    BY <1>1 DEF DownMutex, At, TypeOK
  <2>2. /\ nHolding'[r] = nHolding[r] + Indicator(arg[t] = r)
        /\ nPutting'[r] = nPutting[r]
        /\ nDonePut'[r] = nDonePut[r]
        /\ nGetting'[r] = nGetting[r]
        /\ nDoneGet'[r] = nDoneGet[r]
    <3>1. CASE pc[t] = "put_down_mutex"
      BY <1>3, <2>1, <3>1, GroupStep, GroupType
         DEF Holding, Putting, DonePut, Getting, DoneGet, Indicator
    <3>2. CASE pc[t] = "get_down_mutex"
      BY <1>3, <2>1, <3>2, GroupStep, GroupType
         DEF Holding, Putting, DonePut, Getting, DoneGet, Indicator
    <3> QED BY <2>1, <3>1, <3>2
  <2>3. /\ mutex'[r] = mutex[r] - Indicator(arg[t] = r)
        /\ full'[r] = full[r]
        /\ empty'[r] = empty[r]
        /\ nTokens'[r] = nTokens[r]
    BY <1>1 DEF DownMutex, TypeOK, Indicator, nTokens
  <2>8. Naturals(r)
    BY <1>1, SemaphoreType, GroupType DEF Naturals
  <2>9. mutex'[r] + nHolding'[r] = mutex[r] + nHolding[r]
    BY <2>2, <2>3, <2>8 DEF Naturals, Indicator
  <2>10. full'[r] + nGetting'[r] + nDonePut'[r] - nTokens'[r]
           = full[r] + nGetting[r] + nDonePut[r] - nTokens[r]
    BY <2>2, <2>3, <2>8 DEF Naturals, Indicator
  <2>11. empty'[r] + nPutting'[r] + nDoneGet'[r] + nTokens'[r]
           = empty[r] + nPutting[r] + nDoneGet[r] + nTokens[r]
    BY <2>2, <2>3, <2>8 DEF Naturals, Indicator
  <2> QED BY <2>8, <2>9, <2>10, <2>11 DEF Naturals, Settles
<1> QED BY <1>1, <1>2, <1>4, SettledAccounts, InvAccountsPrime

(* enqueue() preserves the accounting: the reserved slot becomes a token.  *)
LEMMA EnqueueInv ==
  ASSUME Inv, NEW t \in Threads, Enqueue(t)
  PROVE  Inv'
<1>1. TypeOK /\ \A r \in Streams : Accounts(r)
  BY InvAccounts
<1>2. TypeOK'
  BY <1>1 DEF Enqueue, At, TypeOK, PutLocations, GetLocations
<1>3. \A u \in Threads \ {t} : pc'[u] = pc[u] /\ arg'[u] = arg[u]
  BY <1>1 DEF Enqueue, At, TypeOK
<1>4. ASSUME NEW r \in Streams PROVE Settles(r)
  <2>1. pc[t] = "put_enqueue" /\ pc'[t] = "put_up_mutex" /\ arg'[t] = arg[t]
    BY <1>1 DEF Enqueue, At, TypeOK
  <2>2. /\ nHolding'[r] = nHolding[r]
        /\ nPutting'[r] = nPutting[r] - Indicator(arg[t] = r)
        /\ nDonePut'[r] = nDonePut[r] + Indicator(arg[t] = r)
        /\ nGetting'[r] = nGetting[r]
        /\ nDoneGet'[r] = nDoneGet[r]
    BY <1>3, <2>1, GroupStep, GroupType
       DEF Holding, Putting, DonePut, Getting, DoneGet, Indicator
  <2>3. /\ mutex'[r] = mutex[r]
        /\ full'[r] = full[r]
        /\ empty'[r] = empty[r]
        /\ nTokens'[r] = nTokens[r] + Indicator(arg[t] = r)
    BY <1>1 DEF Enqueue, TypeOK, Indicator, nTokens
  <2>8. Naturals(r)
    BY <1>1, SemaphoreType, GroupType DEF Naturals
  <2>9. mutex'[r] + nHolding'[r] = mutex[r] + nHolding[r]
    BY <2>2, <2>3, <2>8 DEF Naturals, Indicator
  <2>10. full'[r] + nGetting'[r] + nDonePut'[r] - nTokens'[r]
           = full[r] + nGetting[r] + nDonePut[r] - nTokens[r]
    BY <2>2, <2>3, <2>8 DEF Naturals, Indicator
  <2>11. empty'[r] + nPutting'[r] + nDoneGet'[r] + nTokens'[r]
           = empty[r] + nPutting[r] + nDoneGet[r] + nTokens[r]
    BY <2>2, <2>3, <2>8 DEF Naturals, Indicator
  <2> QED BY <2>8, <2>9, <2>10, <2>11 DEF Naturals, Settles
<1> QED BY <1>1, <1>2, <1>4, SettledAccounts, InvAccountsPrime

(* dequeue() preserves the accounting: there is a token for it to take.    *)
LEMMA DequeueInv ==
  ASSUME Inv, NEW t \in Threads, Dequeue(t)
  PROVE  Inv'
<1>1. TypeOK /\ \A r \in Streams : Accounts(r)
  BY InvAccounts
<1>2. /\ arg[t] \in Streams /\ buffer[arg[t]] \in Seq(Tokens) /\ buffer[arg[t]] # << >>
      /\ Head(buffer[arg[t]]) \in Tokens /\ Tail(buffer[arg[t]]) \in Seq(Tokens)
      /\ Len(Tail(buffer[arg[t]])) = Len(buffer[arg[t]]) - 1
  <2>1. pc[t] = "get_dequeue" /\ arg[t] \in Streams /\ buffer[arg[t]] \in Seq(Tokens)
    BY <1>1 DEF Dequeue, At, TypeOK
  <2>2. buffer[arg[t]] # << >>
    BY <1>1, <2>1, DequeueFinds DEF Inv
  <2> QED BY <2>1, <2>2
<1>3. /\ val' = [val EXCEPT ![t] = Head(buffer[arg[t]])]
      /\ buffer' = [buffer EXCEPT ![arg[t]] = Tail(buffer[arg[t]])]
      /\ UNCHANGED <<empty, full, mutex>>
  BY <1>2 DEF Dequeue
<1>4. TypeOK'
  BY <1>1, <1>2, <1>3 DEF Dequeue, At, TypeOK, PutLocations, GetLocations
<1>5. \A u \in Threads \ {t} : pc'[u] = pc[u] /\ arg'[u] = arg[u]
  BY <1>1 DEF Dequeue, At, TypeOK
<1>6. ASSUME NEW r \in Streams PROVE Settles(r)
  <2>1. pc[t] = "get_dequeue" /\ pc'[t] = "get_up_mutex" /\ arg'[t] = arg[t]
    BY <1>1 DEF Dequeue, At, TypeOK
  <2>2. /\ nHolding'[r] = nHolding[r]
        /\ nPutting'[r] = nPutting[r]
        /\ nDonePut'[r] = nDonePut[r]
        /\ nGetting'[r] = nGetting[r] - Indicator(arg[t] = r)
        /\ nDoneGet'[r] = nDoneGet[r] + Indicator(arg[t] = r)
    BY <1>5, <2>1, GroupStep, GroupType
       DEF Holding, Putting, DonePut, Getting, DoneGet, Indicator
  <2>3. /\ mutex'[r] = mutex[r]
        /\ full'[r] = full[r]
        /\ empty'[r] = empty[r]
        /\ nTokens'[r] = nTokens[r] - Indicator(arg[t] = r)
    <3>1. buffer'[r] = IF r = arg[t] THEN Tail(buffer[arg[t]]) ELSE buffer[r]
      BY <1>1, <1>2, <1>3 DEF TypeOK
    <3>2. nTokens'[r] = Len(buffer'[r]) /\ nTokens[r] = Len(buffer[r]) /\ nTokens[r] \in Nat
      BY <1>1 DEF TypeOK, nTokens
    <3>3. nTokens'[r] = nTokens[r] - Indicator(arg[t] = r)
      <4>1. CASE r = arg[t]
        <5>1. Len(buffer'[r]) = Len(buffer[r]) - 1
          BY <1>2, <3>1, <4>1
        <5> QED BY <3>2, <4>1, <5>1 DEF Indicator
      <4>2. CASE r # arg[t]
        <5>1. nTokens'[r] = nTokens[r]
          BY <3>1, <3>2, <4>2
        <5>2. Indicator(arg[t] = r) = 0
          BY <4>2 DEF Indicator
        <5>3. nTokens[r] \in Nat
          BY <3>2
        <5> QED BY <5>1, <5>2, <5>3
      <4> QED BY <4>1, <4>2
    <3> QED BY <1>3, <3>3
  <2>8. Naturals(r)
    BY <1>1, SemaphoreType, GroupType DEF Naturals
  <2>9. mutex'[r] + nHolding'[r] = mutex[r] + nHolding[r]
    BY <2>2, <2>3, <2>8 DEF Naturals, Indicator
  <2>10. full'[r] + nGetting'[r] + nDonePut'[r] - nTokens'[r]
           = full[r] + nGetting[r] + nDonePut[r] - nTokens[r]
    BY <2>2, <2>3, <2>8 DEF Naturals, Indicator
  <2>11. empty'[r] + nPutting'[r] + nDoneGet'[r] + nTokens'[r]
           = empty[r] + nPutting[r] + nDoneGet[r] + nTokens[r]
    BY <2>2, <2>3, <2>8 DEF Naturals, Indicator
  <2> QED BY <2>8, <2>9, <2>10, <2>11 DEF Naturals, Settles
<1> QED BY <1>1, <1>4, <1>6, SettledAccounts, InvAccountsPrime

(* Releasing the stream's mutex, in put() and get(), preserves the accounting. *)
LEMMA UpMutexInv ==
  ASSUME Inv, NEW t \in Threads, UpMutex(t)
  PROVE  Inv'
<1>1. TypeOK /\ \A r \in Streams : Accounts(r)
  BY InvAccounts
<1>2. TypeOK'
  <2>1. arg[t] \in Streams /\ mutex' \in [Streams -> Nat]
    BY <1>1 DEF UpMutex, TypeOK
  <2>2. pc' \in [Threads -> PutLocations \cup GetLocations \cup {"idle"}]
    BY <1>1 DEF UpMutex, At, TypeOK, PutLocations, GetLocations
  <2>3. \A u \in Threads : pc'[u] \in PutLocations => val[u] \in Tokens
    BY <1>1 DEF UpMutex, At, TypeOK, PutLocations, GetLocations
  <2> QED BY <1>1, <2>1, <2>2, <2>3 DEF UpMutex, TypeOK
<1>3. \A u \in Threads \ {t} : pc'[u] = pc[u] /\ arg'[u] = arg[u]
  BY <1>1 DEF UpMutex, At, TypeOK
<1>4. ASSUME NEW r \in Streams PROVE Settles(r)
  <2>1. /\ \/ (pc[t] = "put_up_mutex" /\ pc'[t] = "put_up_full")
           \/ (pc[t] = "get_up_mutex" /\ pc'[t] = "get_up_empty")
        /\ arg'[t] = arg[t]
    BY <1>1 DEF UpMutex, At, TypeOK
  <2>2. /\ nHolding'[r] = nHolding[r] - Indicator(arg[t] = r)
        /\ nPutting'[r] = nPutting[r]
        /\ nDonePut'[r] = nDonePut[r]
        /\ nGetting'[r] = nGetting[r]
        /\ nDoneGet'[r] = nDoneGet[r]
    <3>1. CASE pc[t] = "put_up_mutex"
      BY <1>3, <2>1, <3>1, GroupStep, GroupType
         DEF Holding, Putting, DonePut, Getting, DoneGet, Indicator
    <3>2. CASE pc[t] = "get_up_mutex"
      BY <1>3, <2>1, <3>2, GroupStep, GroupType
         DEF Holding, Putting, DonePut, Getting, DoneGet, Indicator
    <3> QED BY <2>1, <3>1, <3>2
  <2>3. /\ mutex'[r] = mutex[r] + Indicator(arg[t] = r)
        /\ full'[r] = full[r]
        /\ empty'[r] = empty[r]
        /\ nTokens'[r] = nTokens[r]
    BY <1>1 DEF UpMutex, TypeOK, Indicator, nTokens
  <2>8. Naturals(r)
    BY <1>1, SemaphoreType, GroupType DEF Naturals
  <2>9. mutex'[r] + nHolding'[r] = mutex[r] + nHolding[r]
    BY <2>2, <2>3, <2>8 DEF Naturals, Indicator
  <2>10. full'[r] + nGetting'[r] + nDonePut'[r] - nTokens'[r]
           = full[r] + nGetting[r] + nDonePut[r] - nTokens[r]
    BY <2>2, <2>3, <2>8 DEF Naturals, Indicator
  <2>11. empty'[r] + nPutting'[r] + nDoneGet'[r] + nTokens'[r]
           = empty[r] + nPutting[r] + nDoneGet[r] + nTokens[r]
    BY <2>2, <2>3, <2>8 DEF Naturals, Indicator
  <2> QED BY <2>8, <2>9, <2>10, <2>11 DEF Naturals, Settles
<1> QED BY <1>1, <1>2, <1>4, SettledAccounts, InvAccountsPrime

(* put() announcing its token on full preserves the accounting.            *)
LEMMA PutUpFullInv ==
  ASSUME Inv, NEW t \in Threads, PutUpFull(t)
  PROVE  Inv'
<1>1. TypeOK /\ \A r \in Streams : Accounts(r)
  BY InvAccounts
<1>2. TypeOK'
  BY <1>1 DEF PutUpFull, At, TypeOK, PutLocations, GetLocations
<1>3. \A u \in Threads \ {t} : pc'[u] = pc[u] /\ arg'[u] = arg[u]
  BY <1>1 DEF PutUpFull, At, TypeOK
<1>4. ASSUME NEW r \in Streams PROVE Settles(r)
  <2>1. pc[t] = "put_up_full" /\ pc'[t] = "idle" /\ arg'[t] = arg[t]
    BY <1>1 DEF PutUpFull, At, TypeOK
  <2>2. /\ nHolding'[r] = nHolding[r]
        /\ nPutting'[r] = nPutting[r]
        /\ nDonePut'[r] = nDonePut[r] - Indicator(arg[t] = r)
        /\ nGetting'[r] = nGetting[r]
        /\ nDoneGet'[r] = nDoneGet[r]
    BY <1>3, <2>1, GroupStep, GroupType
       DEF Holding, Putting, DonePut, Getting, DoneGet, Indicator
  <2>3. /\ mutex'[r] = mutex[r]
        /\ full'[r] = full[r] + Indicator(arg[t] = r)
        /\ empty'[r] = empty[r]
        /\ nTokens'[r] = nTokens[r]
    BY <1>1 DEF PutUpFull, TypeOK, Indicator, nTokens
  <2>8. Naturals(r)
    BY <1>1, SemaphoreType, GroupType DEF Naturals
  <2>9. mutex'[r] + nHolding'[r] = mutex[r] + nHolding[r]
    BY <2>2, <2>3, <2>8 DEF Naturals, Indicator
  <2>10. full'[r] + nGetting'[r] + nDonePut'[r] - nTokens'[r]
           = full[r] + nGetting[r] + nDonePut[r] - nTokens[r]
    BY <2>2, <2>3, <2>8 DEF Naturals, Indicator
  <2>11. empty'[r] + nPutting'[r] + nDoneGet'[r] + nTokens'[r]
           = empty[r] + nPutting[r] + nDoneGet[r] + nTokens[r]
    BY <2>2, <2>3, <2>8 DEF Naturals, Indicator
  <2> QED BY <2>8, <2>9, <2>10, <2>11 DEF Naturals, Settles
<1> QED BY <1>1, <1>2, <1>4, SettledAccounts, InvAccountsPrime

(* get() giving its slot back to empty preserves the accounting.           *)
LEMMA GetUpEmptyInv ==
  ASSUME Inv, NEW t \in Threads, GetUpEmpty(t)
  PROVE  Inv'
<1>1. TypeOK /\ \A r \in Streams : Accounts(r)
  BY InvAccounts
<1>2. TypeOK'
  BY <1>1 DEF GetUpEmpty, At, TypeOK, PutLocations, GetLocations
<1>3. \A u \in Threads \ {t} : pc'[u] = pc[u] /\ arg'[u] = arg[u]
  BY <1>1 DEF GetUpEmpty, At, TypeOK
<1>4. ASSUME NEW r \in Streams PROVE Settles(r)
  <2>1. pc[t] = "get_up_empty" /\ pc'[t] = "idle" /\ arg'[t] = arg[t]
    BY <1>1 DEF GetUpEmpty, At, TypeOK
  <2>2. /\ nHolding'[r] = nHolding[r]
        /\ nPutting'[r] = nPutting[r]
        /\ nDonePut'[r] = nDonePut[r]
        /\ nGetting'[r] = nGetting[r]
        /\ nDoneGet'[r] = nDoneGet[r] - Indicator(arg[t] = r)
    BY <1>3, <2>1, GroupStep, GroupType
       DEF Holding, Putting, DonePut, Getting, DoneGet, Indicator
  <2>3. /\ mutex'[r] = mutex[r]
        /\ full'[r] = full[r]
        /\ empty'[r] = empty[r] + Indicator(arg[t] = r)
        /\ nTokens'[r] = nTokens[r]
    BY <1>1 DEF GetUpEmpty, TypeOK, Indicator, nTokens
  <2>8. Naturals(r)
    BY <1>1, SemaphoreType, GroupType DEF Naturals
  <2>9. mutex'[r] + nHolding'[r] = mutex[r] + nHolding[r]
    BY <2>2, <2>3, <2>8 DEF Naturals, Indicator
  <2>10. full'[r] + nGetting'[r] + nDonePut'[r] - nTokens'[r]
           = full[r] + nGetting[r] + nDonePut[r] - nTokens[r]
    BY <2>2, <2>3, <2>8 DEF Naturals, Indicator
  <2>11. empty'[r] + nPutting'[r] + nDoneGet'[r] + nTokens'[r]
           = empty[r] + nPutting[r] + nDoneGet[r] + nTokens[r]
    BY <2>2, <2>3, <2>8 DEF Naturals, Indicator
  <2> QED BY <2>8, <2>9, <2>10, <2>11 DEF Naturals, Settles
<1> QED BY <1>1, <1>2, <1>4, SettledAccounts, InvAccountsPrime

(* put() returning -1 on a signal preserves the accounting: the sums can   *)
(* only shrink.                                                            *)
LEMMA PutInterruptedInv ==
  ASSUME Inv, NEW t \in Threads, PutInterrupted(t)
  PROVE  Inv'
<1>1. TypeOK /\ \A r \in Streams : Accounts(r)
  BY InvAccounts
<1>2. TypeOK'
  BY <1>1 DEF PutInterrupted, At, TypeOK, PutLocations, GetLocations
<1>3. \A u \in Threads \ {t} : pc'[u] = pc[u] /\ arg'[u] = arg[u]
  BY <1>1 DEF PutInterrupted, At, TypeOK
<1>4. ASSUME NEW r \in Streams PROVE Settles(r)
  <2>1. pc[t] = "put_down_mutex" /\ pc'[t] = "idle" /\ arg'[t] = arg[t]
    BY <1>1 DEF PutInterrupted, At, TypeOK
  <2>2. /\ nHolding'[r] = nHolding[r]
        /\ nPutting'[r] = nPutting[r] - Indicator(arg[t] = r)
        /\ nDonePut'[r] = nDonePut[r]
        /\ nGetting'[r] = nGetting[r]
        /\ nDoneGet'[r] = nDoneGet[r]
    BY <1>3, <2>1, GroupStep, GroupType
       DEF Holding, Putting, DonePut, Getting, DoneGet, Indicator
  <2>3. /\ mutex'[r] = mutex[r]
        /\ full'[r] = full[r]
        /\ empty'[r] = empty[r]
        /\ nTokens'[r] = nTokens[r]
    BY <1>1 DEF PutInterrupted, TypeOK, Indicator, nTokens
  <2>4. Signals
    BY DEF PutInterrupted
  <2>8. Naturals(r)
    BY <1>1, SemaphoreType, GroupType DEF Naturals
  <2>9. mutex'[r] + nHolding'[r] = mutex[r] + nHolding[r]
    BY <2>2, <2>3, <2>8 DEF Naturals, Indicator
  <2>10. full'[r] + nGetting'[r] + nDonePut'[r] - nTokens'[r]
           <= full[r] + nGetting[r] + nDonePut[r] - nTokens[r]
    BY <2>2, <2>3, <2>8 DEF Naturals, Indicator
  <2>11. empty'[r] + nPutting'[r] + nDoneGet'[r] + nTokens'[r]
           <= empty[r] + nPutting[r] + nDoneGet[r] + nTokens[r]
    BY <2>2, <2>3, <2>8 DEF Naturals, Indicator
  <2> QED BY <2>8, <2>4, <2>9, <2>10, <2>11 DEF Naturals, Settles
<1> QED BY <1>1, <1>2, <1>4, SettledAccounts, InvAccountsPrime

(* get() returning NULL on a signal preserves the accounting: the sums can *)
(* only shrink.                                                            *)
LEMMA GetInterruptedInv ==
  ASSUME Inv, NEW t \in Threads, GetInterrupted(t)
  PROVE  Inv'
<1>1. TypeOK /\ \A r \in Streams : Accounts(r)
  BY InvAccounts
<1>2. TypeOK'
  BY <1>1 DEF GetInterrupted, At, TypeOK, PutLocations, GetLocations
<1>3. \A u \in Threads \ {t} : pc'[u] = pc[u] /\ arg'[u] = arg[u]
  BY <1>1 DEF GetInterrupted, At, TypeOK
<1>4. ASSUME NEW r \in Streams PROVE Settles(r)
  <2>1. /\ \/ pc[t] = "idle" /\ pc'[t] = "idle"
           \/ pc[t] = "get_down_mutex" /\ pc'[t] = "idle"
        /\ arg'[t] = arg[t]
        /\ Signals
    BY <1>1 DEF GetInterrupted, At, TypeOK
  <2>2. /\ nHolding'[r] = nHolding[r]
        /\ nPutting'[r] = nPutting[r]
        /\ nDonePut'[r] = nDonePut[r]
        /\ nGetting'[r] \in {nGetting[r], nGetting[r] - 1}
        /\ nDoneGet'[r] = nDoneGet[r]
    BY <1>3, <2>1, GroupStep, GroupType
       DEF Holding, Putting, DonePut, Getting, DoneGet, Indicator
  <2>3. /\ mutex'[r] = mutex[r]
        /\ full'[r] = full[r]
        /\ empty'[r] = empty[r]
        /\ nTokens'[r] = nTokens[r]
    BY <1>1 DEF GetInterrupted, TypeOK, nTokens
  <2>8. Naturals(r)
    BY <1>1, SemaphoreType, GroupType DEF Naturals
  <2>9. mutex'[r] + nHolding'[r] = mutex[r] + nHolding[r]
    BY <2>2, <2>3
  <2>10. full'[r] + nGetting'[r] + nDonePut'[r] - nTokens'[r]
           <= full[r] + nGetting[r] + nDonePut[r] - nTokens[r]
    BY <2>2, <2>3, <2>8 DEF Naturals
  <2>11. empty'[r] + nPutting'[r] + nDoneGet'[r] + nTokens'[r]
           = empty[r] + nPutting[r] + nDoneGet[r] + nTokens[r]
    BY <2>2, <2>3
  <2> QED BY <2>1, <2>8, <2>9, <2>10, <2>11 DEF Naturals, Settles
<1> QED BY <1>1, <1>2, <1>4, SettledAccounts, InvAccountsPrime

(* init_stream() establishes the accounting.                               *)
LEMMA InitInv == Init => Inv
<1> SUFFICES ASSUME Init PROVE Inv
  OBVIOUS
<1>1. TypeOK
  BY StreamsAssumption DEF Init, TypeOK, PutLocations, GetLocations
<1>2. ASSUME NEW s \in Streams PROVE Accounts(s)
  <2>1. /\ HoldsMutex(s) = {} /\ PutReserved(s) = {} /\ PutPending(s) = {}
        /\ GetReserved(s) = {} /\ GetPending(s) = {}
    BY DEF Init, HoldsMutex, PutReserved, PutPending, GetReserved, GetPending, InCall
  <2>2. /\ nHolding[s] = 0 /\ nPutting[s] = 0 /\ nDonePut[s] = 0
        /\ nGetting[s] = 0 /\ nDoneGet[s] = 0
    BY <2>1, FS_EmptySet DEF nHolding, nPutting, nDonePut, nGetting, nDoneGet
  <2>3. /\ mutex[s] = 1 /\ full[s] = 0 /\ empty[s] = BUFFER_SIZE /\ nTokens[s] = 0
    BY DEF Init, nTokens
  <2> QED BY <2>2, <2>3, StreamsAssumption DEF Accounts
<1> QED BY <1>1, <1>2, InvAccounts

(* A step outside put() and get() preserves the accounting.                *)
LEMMA StutterInv == Inv /\ UNCHANGED vars => Inv'
<1> SUFFICES ASSUME Inv, UNCHANGED vars PROVE Inv'
  OBVIOUS
<1>1. TypeOK'
  BY DEF Inv, TypeOK, vars
<1>2. \A r \in Streams : Accounts(r)'
  <2>1. \A r \in Streams : Accounts(r)
    BY InvAccounts
  <2>2. /\ nHolding' = nHolding /\ nPutting' = nPutting /\ nDonePut' = nDonePut
        /\ nGetting' = nGetting /\ nDoneGet' = nDoneGet /\ nTokens' = nTokens
    BY DEF vars, nHolding, nPutting, nDonePut, nGetting, nDoneGet, nTokens,
           HoldsMutex, PutReserved, PutPending, GetReserved, GetPending, InCall
  <2> QED BY <2>1, <2>2 DEF Accounts, vars
<1> QED BY <1>1, <1>2, InvAccountsPrime

(* Every step of put() and get() preserves the invariant. *)
LEMMA InvNext == Inv /\ [Next]_vars => Inv'
<1> SUFFICES ASSUME Inv, [Next]_vars PROVE Inv'
  OBVIOUS
<1>1. CASE UNCHANGED vars
  BY <1>1, StutterInv
<1>2. ASSUME NEW t \in Threads, NEW s \in Streams, GetDownFull(t, s) PROVE Inv'
  BY <1>2, GetDownFullInv
<1>3. ASSUME NEW t \in Threads, NEW s \in Streams, NEW v \in Tokens,
             PutDownEmpty(t, s, v)
      PROVE  Inv'
  BY <1>3, PutDownEmptyInv
<1>4. ASSUME NEW t \in Threads, Inside(t) PROVE Inv'
  BY <1>4, DownMutexInv, EnqueueInv, DequeueInv, UpMutexInv, PutUpFullInv,
     GetUpEmptyInv, PutInterruptedInv, GetInterruptedInv DEF Inside
<1> QED BY <1>1, <1>2, <1>3, <1>4 DEF Next

(* What Inv says of the queue: enqueue() in put() finds a free slot and    *)
(* dequeue() in get() a token.                                             *)
LEMMA InvQueues ==
  ASSUME Inv
  PROVE  /\ \A t \in Threads : pc[t] = "put_enqueue" => Len(buffer[arg[t]]) < BUFFER_SIZE
         /\ \A t \in Threads : pc[t] = "get_dequeue" => buffer[arg[t]] # << >>
BY DequeueFinds, EnqueueFits DEF Inv

(* The semaphores, the callers of put() and get() and the queue of every   *)
(* stream always add up, for any number of threads and any buffer size.    *)
THEOREM Invariance == Spec => []Inv
BY InvNext, InitInv, PTL DEF Spec

(* Put and get keep their types. *)
THEOREM TypeCorrect == Spec => []TypeOK
<1>1. Inv => TypeOK
  BY DEF Inv
<1> QED BY <1>1, Invariance, PTL

(* At most one thread is between the down and the up of a stream's mutex,  *)
(* in put() and get().                                                     *)
THEOREM Exclusion == Spec => []MutualExclusion
<1>1. Inv => MutualExclusion
  <2> SUFFICES ASSUME Inv, NEW s \in Streams,
                      NEW t \in HoldsMutex(s), NEW u \in HoldsMutex(s), t # u
               PROVE  FALSE
    BY DEF MutualExclusion
  <2>1. IsFiniteSet(HoldsMutex(s))
    BY StreamsAssumption, FS_Subset DEF HoldsMutex, InCall
  <2>2. Cardinality(HoldsMutex(s)) \in {0, 1}
    BY <2>1, FS_CardinalityType DEF Inv, TypeOK, MutexAccounted
  <2>3. HoldsMutex(s) = {} \/ \E x : HoldsMutex(s) = {x}
    BY <2>1, <2>2, FS_EmptySet, FS_Singleton
  <2> QED BY <2>3
<1> QED BY <1>1, Invariance, PTL

(* The semaphore full of a stream never announces a token that is not in   *)
(* the queue, nor empty a slot that is not free.                           *)
THEOREM Backing == Spec => []Backed
<1>1. Inv => Backed
  BY DEF Inv, Backed
<1> QED BY <1>1, Invariance, PTL

(* Without signals put() and get() lose no slot and no token.              *)
THEOREM Exactness == Spec => []NothingStranded
<1>1. Inv => NothingStranded
  BY DEF Inv
<1> QED BY <1>1, Invariance, PTL

-----------------------------------------------------------------------------
(* The refinement mapping, named as in Fifo. *)
phases == [t \in Threads |-> Phase(t)]

(* A step of one caller changes the abstract phase of no other.            *)
LEMMA PhaseStep ==
  ASSUME TypeOK, NEW t \in Threads,
         \A u \in Threads \ {t} : pc'[u] = pc[u]
  PROVE  phases' = [phases EXCEPT ![t] = phases'[t]]
<1>1. \A u \in Threads \ {t} : phases'[u] = phases[u]
  BY DEF phases, Phase
<1> QED BY <1>1 DEF phases

(* Every step of put() and get() is a step of the abstract queue or leaves *)
(* it unchanged: the effect of a call is its enqueue() or dequeue().       *)
LEMMA RefinesStep ==
  ASSUME Inv, [Next]_vars
  PROVE  [Fifo!Next]_(Fifo!vars)
<1> USE DEF Inv
<1>1. CASE UNCHANGED vars
  BY <1>1 DEF vars, Fifo!vars, Phase
<1>2. ASSUME NEW t \in Threads, NEW s \in Streams, NEW v \in Tokens, PutDownEmpty(t, s, v)
      PROVE  Fifo!Next
  <2>1. phases' = [phases EXCEPT ![t] = phases'[t]]
    BY <1>2, PhaseStep DEF PutDownEmpty, At, TypeOK
  <2>2. phases[t] = "none" /\ phases'[t] = "put"
    BY <1>2 DEF PutDownEmpty, At, TypeOK, phases, Phase
  <2>3. Fifo!InvokePut(t, s, v)
    BY <1>2, <2>1, <2>2 DEF Fifo!InvokePut, PutDownEmpty, phases
  <2> QED BY <2>3 DEF Fifo!Next
<1>3. ASSUME NEW t \in Threads, NEW s \in Streams, GetDownFull(t, s)
      PROVE  Fifo!Next
  <2>1. phases' = [phases EXCEPT ![t] = phases'[t]]
    BY <1>3, PhaseStep DEF GetDownFull, At, TypeOK
  <2>2. phases[t] = "none" /\ phases'[t] = "get"
    BY <1>3 DEF GetDownFull, At, TypeOK, phases, Phase
  <2>3. Fifo!InvokeGet(t, s)
    BY <1>3, <2>1, <2>2 DEF Fifo!InvokeGet, GetDownFull, phases
  <2> QED BY <2>3 DEF Fifo!Next
<1>4. ASSUME NEW t \in Threads, DownMutex(t) \/ UpMutex(t)
      PROVE  UNCHANGED Fifo!vars
  <2>1. phases' = [phases EXCEPT ![t] = phases'[t]]
    BY <1>4, PhaseStep DEF DownMutex, UpMutex, At, TypeOK
  <2>2. phases'[t] = phases[t]
    BY <1>4 DEF DownMutex, UpMutex, At, TypeOK, phases, Phase
  <2>3. phases' = phases
    BY <2>1, <2>2 DEF phases
  <2> QED BY <1>4, <2>3 DEF Fifo!vars, phases, DownMutex, UpMutex
<1>5. ASSUME NEW t \in Threads, Enqueue(t)
      PROVE  Fifo!Next
  <2>1. phases' = [phases EXCEPT ![t] = phases'[t]]
    BY <1>5, PhaseStep DEF Enqueue, At, TypeOK
  <2>2. pc[t] = "put_enqueue" /\ phases[t] = "put" /\ phases'[t] = "returning"
    BY <1>5 DEF Enqueue, At, TypeOK, phases, Phase
  <2>3. Len(buffer[arg[t]]) < BUFFER_SIZE
    BY <2>2, EnqueueFits
  <2>4. Fifo!CommitPut(t)
    BY <1>5, <2>1, <2>2, <2>3 DEF Fifo!CommitPut, Enqueue, phases
  <2> QED BY <2>4 DEF Fifo!Next
<1>6. ASSUME NEW t \in Threads, Dequeue(t)
      PROVE  Fifo!Next
  <2>1. phases' = [phases EXCEPT ![t] = phases'[t]]
    BY <1>6, PhaseStep DEF Dequeue, At, TypeOK
  <2>2. pc[t] = "get_dequeue" /\ phases[t] = "get" /\ phases'[t] = "returning"
    BY <1>6 DEF Dequeue, At, TypeOK, phases, Phase
  <2>3. buffer[arg[t]] # << >>
    BY <2>2, DequeueFinds
  <2>4. Fifo!CommitGet(t)
    BY <1>6, <2>1, <2>2, <2>3 DEF Fifo!CommitGet, Dequeue, phases
  <2> QED BY <2>4 DEF Fifo!Next
<1>7. ASSUME NEW t \in Threads, PutUpFull(t) \/ GetUpEmpty(t)
      PROVE  Fifo!Next
  <2>1. phases' = [phases EXCEPT ![t] = phases'[t]]
    BY <1>7, PhaseStep DEF PutUpFull, GetUpEmpty, At, TypeOK
  <2>2. phases[t] = "returning" /\ phases'[t] = "none"
    BY <1>7 DEF PutUpFull, GetUpEmpty, At, TypeOK, phases, Phase
  <2>3. Fifo!Return(t)
    BY <1>7, <2>1, <2>2 DEF Fifo!Return, PutUpFull, GetUpEmpty, phases
  <2> QED BY <2>3 DEF Fifo!Next
<1>8. ASSUME NEW t \in Threads, PutInterrupted(t) \/ GetInterrupted(t)
      PROVE  Fifo!Next
  <2>1. phases' = [phases EXCEPT ![t] = phases'[t]]
    BY <1>8, PhaseStep DEF PutInterrupted, GetInterrupted, At, TypeOK
  <2>2. phases[t] \in {"none", "put", "get"} /\ phases'[t] = "none"
    BY <1>8 DEF PutInterrupted, GetInterrupted, At, TypeOK, phases, Phase
  <2>3. Fifo!Abort(t)
    BY <1>8, <2>1, <2>2 DEF Fifo!Abort, PutInterrupted, GetInterrupted, phases
  <2> QED BY <2>3 DEF Fifo!Next
<1> QED
  BY <1>1, <1>2, <1>3, <1>4, <1>5, <1>6, <1>7, <1>8 DEF Next, Inside

(* put() and get() over the semaphores implement the bounded FIFO queue:   *)
(* every call takes effect atomically, in order and within the capacity.   *)
THEOREM Refinement == Spec => ImplementsFifo
<1>1. Init => Fifo!Init
  BY DEF Init, Fifo!Init, Phase
<1> QED BY <1>1, RefinesStep, Invariance, PTL DEF Spec, ImplementsFifo, Fifo!Spec

-----------------------------------------------------------------------------
Pipes == Successors \cup TimesThreads \cup {"mrg"}

(* How many ints a variable holds. *)
Holds(x) == IF x = NONE THEN 0 ELSE 1

(* How many ints the times thread t has taken and has passed on, and how   *)
(* many of these merge has taken and has passed on.                        *)
Taken(t) == n[Source(t)] - 1 - Len(q[Source(t)])
Passed(t) == Taken(t) - Holds(hand[t])
Arrived(t) == Passed(t) - Len(q[t])
Merged(t) == Arrived(t) - Holds(head[t])

PTypeOK ==
  /\ q \in [Pipes -> Seq(Nat)]
  /\ n \in [Successors -> Nat]
  /\ hand \in [TimesThreads -> Nat \cup {NONE}]
  /\ head \in [TimesThreads -> Nat \cup {NONE}]
  /\ out \in Seq(Nat)

(* What is on the way from a successor through the times thread t to       *)
(* merge.                                                                  *)
Line(t) ==
  /\ Merged(t) \in Nat
  /\ \A k \in 1 .. Len(q[Source(t)]) : q[Source(t)][k] = Taken(t) + k
  /\ hand[t] # NONE => hand[t] = Taken(t) * Factor(t)
  /\ \A k \in 1 .. Len(q[t]) : q[t][k] = (Arrived(t) + k) * Factor(t)
  /\ head[t] # NONE => head[t] = Arrived(t) * Factor(t)

(* The multiples c and d times the factors are the last that merge has     *)
(* passed on: neither is behind the next one of the other.                 *)
InStep(c, d) == c * mult1 <= (d + 1) * mult2 /\ d * mult2 < (c + 1) * mult1

(* What merge has passed on. *)
Output ==
  /\ InStep(Merged("tms1"), Merged("tms2"))
  /\ Len(out) + Len(q["mrg"]) = Merged("tms1") + Merged("tms2")
  /\ \A k \in 1 .. Len(out) : out[k] = KthMultiple(k)
  /\ \A k \in 1 .. Len(q["mrg"]) : q["mrg"][k] = KthMultiple(Len(out) + k)

PInv == PTypeOK /\ (\A t \in TimesThreads : Line(t)) /\ Output

USE PipelineAssumption

-----------------------------------------------------------------------------
(* Multiplication and division by the factors of the times threads. *)
LEMMA Multiples ==
  ASSUME NEW f \in Nat \ {0}
  PROVE  /\ \A x, y \in Int : x <= y => x * f <= y * f
         /\ \A x \in Nat : x * f \in Nat
         /\ \A x \in Int : (x + 1) * f = x * f + f
         /\ \A v \in Nat : /\ v \div f \in Nat
                           /\ (v \div f) * f <= v
                           /\ v < (v \div f + 1) * f
<1>1. \A x, y \in Int : x <= y => x * f <= y * f
  OBVIOUS
<1>2. \A x \in Nat : x * f \in Nat
  OBVIOUS
<1>3. \A x \in Int : (x + 1) * f = x * f + f
  OBVIOUS
<1>4. \A v \in Nat : /\ v \div f \in Nat
                     /\ (v \div f) * f <= v
                     /\ v < (v \div f + 1) * f
  OBVIOUS
<1> QED BY <1>1, <1>2, <1>3, <1>4

(* The ints taken from a queue do not change when one is put into it. *)
LEMMA Shifted ==
  ASSUME NEW x \in Nat, NEW l \in Nat, NEW y, NEW m, y = x + 1, m = l + 1
  PROVE  /\ y - 1 - m = x - 1 - l
         /\ (x - 1 - l) + l + 1 = x
OBVIOUS

(* v \div f counts the multiples of f up to v. *)
LEMMA Counting ==
  ASSUME NEW f \in Nat \ {0}, NEW v \in Nat, NEW c \in Nat
  PROVE  /\ c * f <= v => v \div f >= c
         /\ v < (c + 1) * f => v \div f <= c
<1>0. /\ v \div f \in Nat
      /\ (v \div f) * f <= v
      /\ v < (v \div f + 1) * f
  BY Multiples
<1>1. ASSUME c * f <= v, ~(v \div f >= c) PROVE FALSE
  <2>1. v \div f + 1 <= c
    BY <1>0, <1>1
  <2>2. (v \div f + 1) * f <= c * f
    BY <2>1, <1>0, Multiples
  <2>3. c * f \in Nat /\ (v \div f + 1) * f \in Nat
    BY <1>0, Multiples
  <2> QED BY <2>2, <2>3, <1>0, <1>1
<1>2. ASSUME v < (c + 1) * f, ~(v \div f <= c) PROVE FALSE
  <2>1. c + 1 <= v \div f
    BY <1>0, <1>2
  <2>2. (c + 1) * f <= (v \div f) * f
    BY <2>1, <1>0, Multiples
  <2>3. (c + 1) * f \in Nat /\ (v \div f) * f \in Nat
    BY <1>0, Multiples
  <2> QED BY <2>2, <2>3, <1>0, <1>2
<1> QED BY <1>1, <1>2

(* merge() picks the right one: the smaller of the next multiples is the   *)
(* next in the sorted sequence.                                            *)
LEMMA NextMultiple ==
  ASSUME NEW c \in Nat, NEW d \in Nat, InStep(c, d)
  PROVE  KthMultiple(c + d + 1) =
           IF (d + 1) * mult2 < (c + 1) * mult1 THEN (d + 1) * mult2 ELSE (c + 1) * mult1
<1> DEFINE k == c + d + 1
           x == (c + 1) * mult1
           y == (d + 1) * mult2
           v == IF y < x THEN y ELSE x
           S == {w \in 1 .. k * mult1 : w \div mult1 + w \div mult2 >= k}
<1>1. k \in Nat /\ x \in Nat /\ y \in Nat /\ k * mult1 \in Nat /\ c * mult1 \in Nat /\ d * mult2 \in Nat
  BY Multiples
<1>2. /\ x = c * mult1 + mult1
      /\ y = d * mult2 + mult2
      /\ x <= k * mult1
      /\ c * mult1 <= y
      /\ d * mult2 < x
  BY Multiples DEF InStep
<1>0. mult1 \in Nat \ {0} /\ mult2 \in Nat \ {0} /\ c + 1 \in Nat /\ d + 1 \in Nat
  OBVIOUS
<1> HIDE DEF k, x, y
<1>3. /\ v \in 1 .. k * mult1
      /\ y < x => v = y
      /\ ~(y < x) => v = x
  BY <1>1, <1>2
<1> HIDE DEF v
<1>4. v \div mult1 + v \div mult2 >= k
  <2>1. v \in Nat /\ v \div mult1 \in Nat /\ v \div mult2 \in Nat
    BY <1>1, <1>3, Multiples
  <2>2. CASE y < x
    <3>1. c * mult1 <= v /\ (d + 1) * mult2 <= v
      BY <2>2, <1>1, <1>2, <1>3 DEF y
    <3>2. v \div mult1 >= c /\ v \div mult2 >= d + 1
      BY Zenon, <1>0, <3>1, <2>1, Counting
    <3> QED BY <3>2, <2>1 DEF k
  <2>3. CASE ~(y < x)
    <3>1. d * mult2 <= v /\ (c + 1) * mult1 <= v
      BY <2>3, <1>1, <1>2, <1>3 DEF x
    <3>2. v \div mult2 >= d /\ v \div mult1 >= c + 1
      BY Zenon, <1>0, <3>1, <2>1, Counting
    <3> QED BY <3>2, <2>1 DEF k
  <2> QED BY <2>2, <2>3
<1>5. ASSUME NEW w \in S PROVE v <= w
  <2>1. w \in Nat /\ w \div mult1 \in Nat /\ w \div mult2 \in Nat
    BY <1>1, Multiples
  <2>2. ASSUME ~(v <= w) PROVE FALSE
    <3>1. w < x /\ w < y
      BY <2>1, <2>2, <1>1, <1>3
    <3>2. w \div mult1 <= c /\ w \div mult2 <= d
      BY Zenon, <1>0, <3>1, <2>1, Counting DEF x, y
    <3> QED BY <3>2, <2>1 DEF k
  <2> QED BY <2>2
<1>6. v \in S
  BY <1>3, <1>4
<1>7. \A w \in S : w \in Nat
  BY <1>1
<1> HIDE DEF S
<1>8. ASSUME NEW w \in S, \A u \in S : w <= u PROVE w = v
  BY <1>5, <1>6, <1>7, <1>8
<1>9. Min(S) = v
  BY <1>5, <1>6, <1>8 DEF Min
<1> QED BY <1>9 DEF KthMultiple, S, k, v, x, y
-----------------------------------------------------------------------------
(* put() appends to a queue of the network. *)
LEMMA InsertFacts ==
  ASSUME PTypeOK, NEW s \in Pipes, NEW x \in Nat, Insert(s, x)
  PROVE  /\ q' \in [Pipes -> Seq(Nat)]
         /\ Len(q[s]) \in Nat /\ Len(q'[s]) = Len(q[s]) + 1
         /\ \A k \in 1 .. Len(q[s]) : q'[s][k] = q[s][k]
         /\ q'[s][Len(q[s]) + 1] = x
         /\ \A r \in Pipes \ {s} : q'[r] = q[r]
BY DEF PTypeOK, Insert

(* get() removes the first int of a queue of the network. *)
LEMMA ExtractFacts ==
  ASSUME PTypeOK, NEW s \in Pipes, Extract(s)
  PROVE  /\ q' \in [Pipes -> Seq(Nat)]
         /\ Len(q[s]) \in Nat \ {0} /\ Len(q'[s]) = Len(q[s]) - 1
         /\ Head(q[s]) \in Nat /\ Head(q[s]) = q[s][1]
         /\ \A k \in 1 .. Len(q'[s]) : q'[s][k] = q[s][k + 1]
         /\ \A r \in Pipes \ {s} : q'[r] = q[r]
<1>1. q[s] \in Seq(Nat) /\ q[s] # << >> /\ q'[s] = Tail(q[s])
  BY DEF PTypeOK, Extract
<1>2. /\ Len(q[s]) \in Nat \ {0} /\ Len(q'[s]) = Len(q[s]) - 1
      /\ q'[s] \in Seq(Nat)
      /\ Head(q[s]) \in Nat /\ Head(q[s]) = q[s][1]
      /\ \A k \in 1 .. Len(q'[s]) : q'[s][k] = q[s][k + 1]
  BY <1>1
<1>3. /\ q' \in [Pipes -> Seq(Nat)]
      /\ \A r \in Pipes \ {s} : q'[r] = q[r]
  BY <1>1, <1>2 DEF PTypeOK, Extract
<1> QED BY <1>2, <1>3

(* The queues of prod-cons.c by their names. *)
LEMMA Names ==
  ASSUME NEW t \in TimesThreads
  PROVE  /\ Source(t) \in Successors /\ Source(t) \in Pipes /\ t \in Pipes /\ "mrg" \in Pipes
         /\ Source(t) # t /\ Source(t) # "mrg" /\ t # "mrg"
         /\ \A u \in TimesThreads \ {t} : Source(u) # Source(t) /\ Source(u) # t
         /\ Factor(t) \in Nat \ {0}
BY DEF Source, Successors, TimesThreads, Pipes, Factor

(* hand, head: nothing or one int is held between get() and put(). *)
LEMMA HoldsFacts ==
  /\ \A x : Holds(x) \in Nat
  /\ Holds(NONE) = 0
  /\ \A x \in Nat : Holds(x) = 1 /\ x # NONE
BY DEF Holds

(* The counts are integers; what has been taken is at least what has been  *)
(* passed on, and so on towards merge().                                   *)
LEMMA CountTypes ==
  ASSUME PTypeOK, NEW t \in TimesThreads
  PROVE  /\ Taken(t) \in Int /\ Passed(t) \in Int /\ Arrived(t) \in Int /\ Merged(t) \in Int
         /\ Merged(t) <= Arrived(t) /\ Arrived(t) <= Passed(t) /\ Passed(t) <= Taken(t)
<1>1. /\ n[Source(t)] \in Nat /\ Len(q[Source(t)]) \in Nat /\ Len(q[t]) \in Nat
  BY Names DEF PTypeOK
<1>2. Holds(hand[t]) \in Nat /\ Holds(head[t]) \in Nat
  BY HoldsFacts
<1>3. Taken(t) \in Int
  BY <1>1 DEF Taken
<1>4. Passed(t) \in Int /\ Passed(t) <= Taken(t)
  BY <1>2, <1>3 DEF Passed
<1>5. Arrived(t) \in Int /\ Arrived(t) <= Passed(t)
  BY <1>1, <1>4 DEF Arrived
<1>6. Merged(t) \in Int /\ Merged(t) <= Arrived(t)
  BY <1>2, <1>5 DEF Merged
<1> QED BY <1>3, <1>4, <1>5, <1>6

(* A step that does not touch the line of t. *)
Untouched(t) ==
  /\ n'[Source(t)] = n[Source(t)] /\ q'[Source(t)] = q[Source(t)] /\ q'[t] = q[t]
  /\ hand'[t] = hand[t] /\ head'[t] = head[t]

(* Such a step keeps what is on that line to merge(). *)
LEMMA LineKept ==
  ASSUME NEW t \in TimesThreads, Line(t), Untouched(t)
  PROVE  Line(t)' /\ Merged(t)' = Merged(t)
<1>1. Source(t)' = Source(t) /\ Factor(t)' = Factor(t)
  BY Zenon DEF Source, Factor
<1>2. Taken(t)' = Taken(t)
  BY Zenon, <1>1 DEF Taken, Untouched
<1>3. Passed(t)' = Passed(t)
  BY Zenon, <1>2 DEF Passed, Untouched
<1>4. Arrived(t)' = Arrived(t)
  BY Zenon, <1>3 DEF Arrived, Untouched
<1>5. Merged(t)' = Merged(t)
  BY Zenon, <1>4 DEF Merged, Untouched
<1>6. Line(t)'
  BY Zenon, <1>1, <1>2, <1>4, <1>5 DEF Line, Untouched
<1> QED BY <1>5, <1>6

(* What merge() has passed on stays what it is as long as merge() and the  *)
(* consumer do nothing.                                                    *)
LEMMA OutputKept ==
  ASSUME Output, out' = out, q'["mrg"] = q["mrg"],
         \A t \in TimesThreads : Merged(t)' = Merged(t)
  PROVE  Output'
BY DEF Output, InStep, KthMultiple, TimesThreads

(* successor(): put(self, value); i++ *)
LEMMA SuccessorKeeps ==
  ASSUME PInv, NEW s \in Successors, SuccessorStep(s)
  PROVE  PInv'
<1>1. PTypeOK /\ Output /\ n[s] \in Nat /\ s \in Pipes
  BY DEF PInv, PTypeOK, Pipes
<1>2. /\ q' \in [Pipes -> Seq(Nat)]
      /\ Len(q[s]) \in Nat /\ Len(q'[s]) = Len(q[s]) + 1
      /\ \A k \in 1 .. Len(q[s]) : q'[s][k] = q[s][k]
      /\ q'[s][Len(q[s]) + 1] = n[s]
      /\ \A r \in Pipes \ {s} : q'[r] = q[r]
  BY <1>1, InsertFacts DEF SuccessorStep
<1>3. /\ n' \in [Successors -> Nat] /\ n'[s] = n[s] + 1
      /\ \A r \in Successors \ {s} : n'[r] = n[r]
      /\ hand' = hand /\ head' = head /\ out' = out
  BY <1>1 DEF SuccessorStep, PTypeOK
<1>4. PTypeOK'
  BY <1>1, <1>2, <1>3 DEF PTypeOK
<1>5. ASSUME NEW t \in TimesThreads PROVE Line(t)' /\ Merged(t)' = Merged(t)
  <2>1. Line(t) /\ Source(t) \in Successors /\ Source(t) \in Pipes /\ t \in Pipes /\ t # s
    BY Names DEF PInv, Successors, TimesThreads
  <2>2. CASE Source(t) # s
    BY Zenon, <2>1, <2>2, <1>2, <1>3, LineKept DEF Untouched
  <2>3. CASE Source(t) = s
    <3>0. Source(t)' = s /\ Factor(t)' = Factor(t)
      BY <2>3 DEF Source, Factor
    <3>1. /\ Taken(t)' = Taken(t) /\ Passed(t)' = Passed(t)
          /\ Arrived(t)' = Arrived(t) /\ Merged(t)' = Merged(t)
          /\ q'[t] = q[t] /\ Taken(t) + Len(q[s]) + 1 = n[s]
      <4>1. Taken(t)' = Taken(t) /\ Taken(t) + Len(q[s]) + 1 = n[s]
        <5>1. Taken(t) = n[s] - 1 - Len(q[s])
          BY <2>3 DEF Taken
        <5>2. Taken(t)' = n'[s] - 1 - Len(q'[s])
          BY <3>0 DEF Taken
        <5> DEFINE x == n[s]
                   l == Len(q[s])
                   y == n'[s]
                   m == Len(q'[s])
        <5>3. y = x + 1 /\ m = l + 1 /\ l \in Nat /\ x \in Nat
          BY Zenon, <1>1, <1>2, <1>3
        <5> HIDE DEF x, l, y, m
        <5>4. y - 1 - m = x - 1 - l /\ (x - 1 - l) + l + 1 = x
          BY <5>3, Shifted
        <5> QED BY Zenon, <5>1, <5>2, <5>4 DEF x, l, y, m
      <4>2. q'[t] = q[t]
        BY <2>1, <1>2
      <4> QED BY <4>1, <4>2, <1>3 DEF Passed, Arrived, Merged
    <3>2. \A k \in 1 .. Len(q'[s]) : q'[s][k] = Taken(t) + k
      <4>1. \A k \in 1 .. Len(q[s]) : q[s][k] = Taken(t) + k
        BY <2>1, <2>3 DEF Line
      <4>2. Taken(t) \in Int
        BY <1>1, CountTypes
      <4>3. ASSUME NEW k \in 1 .. Len(q'[s]) PROVE q'[s][k] = Taken(t) + k
        <5>1. k \in 1 .. Len(q[s]) \/ k = Len(q[s]) + 1
          BY <1>2
        <5>2. Taken(t) + (Len(q[s]) + 1) = n[s]
          BY <4>2, <3>1, <1>1, <1>2
        <5> QED BY <5>1, <5>2, <4>1, <1>2
      <4> QED BY <4>3
    <3> QED BY Zenon, <2>1, <2>3, <3>0, <3>1, <3>2, <1>3 DEF Line
  <2> QED BY <2>2, <2>3
<1>6. Output'
  <2>1. q'["mrg"] = q["mrg"]
    BY Zenon, <1>2 DEF Pipes, Successors
  <2> QED BY Zenon, <2>1, <1>1, <1>3, <1>5, OutputKept
<1> QED BY <1>4, <1>5, <1>6 DEF PInv
(* times(): value = get(prod) *)
LEMMA TimesTakeKeeps ==
  ASSUME PInv, NEW t \in TimesThreads, TimesTake(t)
  PROVE  PInv'
<1> DEFINE s == Source(t)
           f == Factor(t)
<1>1. PTypeOK /\ Output /\ Line(t) /\ hand[t] = NONE
  BY DEF PInv, TimesTake
<1>2. s \in Pipes /\ s # t /\ t \in Pipes /\ s # "mrg" /\ f \in Nat \ {0} /\ s' = s /\ f' = f
  BY Names DEF Source, Factor
<1>3. /\ q' \in [Pipes -> Seq(Nat)]
      /\ Len(q[s]) \in Nat \ {0} /\ Len(q'[s]) = Len(q[s]) - 1
      /\ Head(q[s]) \in Nat /\ Head(q[s]) = q[s][1]
      /\ \A k \in 1 .. Len(q'[s]) : q'[s][k] = q[s][k + 1]
      /\ \A r \in Pipes \ {s} : q'[r] = q[r]
  BY <1>1, <1>2, ExtractFacts DEF TimesTake
<1>4. Head(q[s]) * f \in Nat
  BY <1>2, <1>3, Multiples
<1>5. /\ hand' \in [TimesThreads -> Nat \cup {NONE}]
      /\ hand'[t] = Head(q[s]) * f
      /\ \A u \in TimesThreads \ {t} : hand'[u] = hand[u]
      /\ n' = n /\ head' = head /\ out' = out
  BY <1>1, <1>4 DEF TimesTake, PTypeOK
<1>6. PTypeOK'
  BY <1>1, <1>3, <1>5 DEF PTypeOK
<1>7. /\ Taken(t) \in Int
      /\ Taken(t)' = Taken(t) + 1 /\ Passed(t)' = Passed(t)
      /\ Arrived(t)' = Arrived(t) /\ Merged(t)' = Merged(t)
  <2>1. Taken(t) \in Int /\ n[s] \in Nat
    BY <1>1, CountTypes, Names DEF PTypeOK
  <2>2. Taken(t) = n[s] - 1 - Len(q[s])
    BY DEF Taken
  <2>3. Taken(t)' = n[s] - 1 - Len(q'[s])
    BY <1>2, <1>5 DEF Taken
  <2>4. Taken(t)' = Taken(t) + 1
    <3>1. Len(q[s]) \in Nat /\ Len(q'[s]) = Len(q[s]) - 1
      BY <1>3
    <3>2. \A x \in Nat, l \in Nat : x - 1 - (l - 1) = (x - 1 - l) + 1
      OBVIOUS
    <3>3. n[s] - 1 - (Len(q[s]) - 1) = (n[s] - 1 - Len(q[s])) + 1
      BY Zenon, <2>1, <3>1, <3>2
    <3>4. Taken(t)' = n[s] - 1 - (Len(q[s]) - 1)
      BY Zenon, <2>3, <3>1
    <3> QED BY Zenon, <2>2, <3>3, <3>4
  <2>5. Holds(hand[t]) = 0 /\ Holds(hand'[t]) = 1
    BY <1>1, <1>4, <1>5, HoldsFacts
  <2>6. Passed(t)' = Passed(t)
    <3>1. Passed(t) = Taken(t) - Holds(hand[t]) /\ Passed(t)' = Taken(t)' - Holds(hand'[t])
      BY Zenon DEF Passed
    <3> QED BY <3>1, <2>1, <2>4, <2>5
  <2> QED BY <2>1, <2>4, <2>6, <1>2, <1>3, <1>5 DEF Arrived, Merged
<1>8. Line(t)'
  <2>1. \A k \in 1 .. Len(q[s]) : q[s][k] = Taken(t) + k
    BY <1>1 DEF Line
  <2>2. ASSUME NEW k \in 1 .. Len(q'[s]) PROVE q'[s][k] = Taken(t)' + k
    <3>1. k + 1 \in 1 .. Len(q[s]) /\ Taken(t) + (k + 1) = Taken(t) + 1 + k
      <4>1. Len(q[s]) \in Nat /\ Len(q'[s]) = Len(q[s]) - 1
        BY <1>3
      <4> QED BY <4>1, <1>7
    <3> QED BY <3>1, <2>1, <1>3, <1>7
  <2>3. hand'[t] = Taken(t)' * f
    <3>1. 1 \in 1 .. Len(q[s])
      BY <1>3
    <3> QED BY Zenon, <3>1, <2>1, <1>3, <1>5, <1>7
  <2>4. q'[t] = q[t]
    BY <1>2, <1>3
  <2> QED BY Zenon, <2>2, <2>3, <2>4, <1>1, <1>2, <1>5, <1>7 DEF Line
<1>9. ASSUME NEW u \in TimesThreads, u # t PROVE Line(u)' /\ Merged(u)' = Merged(u)
  <2>1. Untouched(u) /\ Line(u)
    BY Zenon, <1>3, <1>5, <1>9, Names DEF Untouched, PInv
  <2> QED BY <2>1, LineKept
<1>10. Output'
  <2>1. q'["mrg"] = q["mrg"]
    BY Zenon, <1>2, <1>3, Names
  <2> QED BY Zenon, <2>1, <1>1, <1>5, <1>7, <1>9, OutputKept
<1> QED BY <1>6, <1>8, <1>9, <1>10 DEF PInv

(* times(): put(self, value) *)
LEMMA TimesPassKeeps ==
  ASSUME PInv, NEW t \in TimesThreads, TimesPass(t)
  PROVE  PInv'
<1> DEFINE s == Source(t)
           f == Factor(t)
<1>1. PTypeOK /\ Output /\ Line(t) /\ hand[t] \in Nat /\ hand[t] # NONE
  BY DEF PInv, TimesPass, PTypeOK
<1>2. s \in Pipes /\ s # t /\ t \in Pipes /\ t # "mrg" /\ f \in Nat \ {0} /\ s' = s /\ f' = f
  BY Names DEF Source, Factor
<1>3. /\ q' \in [Pipes -> Seq(Nat)]
      /\ Len(q[t]) \in Nat /\ Len(q'[t]) = Len(q[t]) + 1
      /\ \A k \in 1 .. Len(q[t]) : q'[t][k] = q[t][k]
      /\ q'[t][Len(q[t]) + 1] = hand[t]
      /\ \A r \in Pipes \ {t} : q'[r] = q[r]
  BY <1>1, <1>2, InsertFacts DEF TimesPass
<1>5. /\ hand' \in [TimesThreads -> Nat \cup {NONE}]
      /\ hand'[t] = NONE
      /\ \A u \in TimesThreads \ {t} : hand'[u] = hand[u]
      /\ n' = n /\ head' = head /\ out' = out
  BY <1>1 DEF TimesPass, PTypeOK
<1>6. PTypeOK'
  BY <1>1, <1>3, <1>5 DEF PTypeOK
<1>7. /\ Taken(t) \in Int /\ Arrived(t) \in Int
      /\ Taken(t)' = Taken(t) /\ Taken(t) = Arrived(t) + (Len(q[t]) + 1)
      /\ Arrived(t)' = Arrived(t) /\ Merged(t)' = Merged(t)
  <2>1. Taken(t) \in Int /\ Passed(t) \in Int /\ Arrived(t) \in Int
    BY <1>1, CountTypes
  <2>2. Taken(t)' = Taken(t)
    BY <1>2, <1>3, <1>5 DEF Taken
  <2>3. Holds(hand[t]) = 1 /\ Holds(hand'[t]) = 0
    BY <1>1, <1>5, HoldsFacts
  <2>4. Passed(t) = Taken(t) - 1 /\ Passed(t)' = Taken(t)
    BY <2>1, <2>2, <2>3 DEF Passed
  <2>5. Arrived(t) = Passed(t) - Len(q[t]) /\ Arrived(t)' = Passed(t)' - Len(q'[t])
    BY DEF Arrived
  <2>6. Arrived(t)' = Arrived(t) /\ Taken(t) = Arrived(t) + (Len(q[t]) + 1)
    <3>1. Len(q[t]) \in Nat /\ Len(q'[t]) = Len(q[t]) + 1
      BY <1>3
    <3> QED BY <2>1, <2>4, <2>5, <3>1
  <2> QED BY <2>1, <2>2, <2>6, <1>5 DEF Merged
<1>8. Line(t)'
  <2>1. \A k \in 1 .. Len(q[t]) : q[t][k] = (Arrived(t) + k) * f
    BY <1>1 DEF Line
  <2>2. hand[t] = (Arrived(t) + (Len(q[t]) + 1)) * f
    BY <1>1, <1>7 DEF Line
  <2>3. ASSUME NEW k \in 1 .. Len(q'[t]) PROVE q'[t][k] = (Arrived(t) + k) * f
    <3>1. k \in 1 .. Len(q[t]) \/ k = Len(q[t]) + 1
      BY <1>3
    <3> QED BY <3>1, <2>1, <2>2, <1>3
  <2>4. q'[s] = q[s]
    BY <1>2, <1>3
  <2> QED BY Zenon, <2>3, <2>4, <1>1, <1>2, <1>5, <1>7 DEF Line
<1>9. ASSUME NEW u \in TimesThreads, u # t PROVE Line(u)' /\ Merged(u)' = Merged(u)
  <2>1. Untouched(u) /\ Line(u)
    BY <1>3, <1>5, <1>9, Names DEF Untouched, PInv
  <2> QED BY <2>1, LineKept
<1>10. Output'
  <2>1. q'["mrg"] = q["mrg"]
    BY Zenon, <1>2, <1>3, Names
  <2> QED BY Zenon, <2>1, <1>1, <1>5, <1>7, <1>9, OutputKept
<1> QED BY <1>6, <1>8, <1>9, <1>10 DEF PInv
(* merge(): a = get(s1), b = get(s2) *)
LEMMA MergeTakeKeeps ==
  ASSUME PInv, NEW t \in TimesThreads, MergeTake(t)
  PROVE  PInv'
<1> DEFINE s == Source(t)
           f == Factor(t)
<1>1. PTypeOK /\ Output /\ Line(t) /\ head[t] = NONE
  BY DEF PInv, MergeTake
<1>2. s \in Pipes /\ s # t /\ t \in Pipes /\ t # "mrg" /\ s' = s /\ f' = f
  BY Names DEF Source, Factor
<1>3. /\ q' \in [Pipes -> Seq(Nat)]
      /\ Len(q[t]) \in Nat \ {0} /\ Len(q'[t]) = Len(q[t]) - 1
      /\ Head(q[t]) \in Nat /\ Head(q[t]) = q[t][1]
      /\ \A k \in 1 .. Len(q'[t]) : q'[t][k] = q[t][k + 1]
      /\ \A r \in Pipes \ {t} : q'[r] = q[r]
  BY <1>1, <1>2, ExtractFacts DEF MergeTake
<1>4. Len(q[t]) \in Nat /\ Len(q'[t]) = Len(q[t]) - 1
  BY <1>3
<1>5. /\ head' \in [TimesThreads -> Nat \cup {NONE}]
      /\ head'[t] = Head(q[t])
      /\ \A u \in TimesThreads \ {t} : head'[u] = head[u]
      /\ n' = n /\ hand' = hand /\ out' = out
  BY <1>1, <1>3 DEF MergeTake, PTypeOK
<1>6. PTypeOK'
  BY <1>1, <1>3, <1>5 DEF PTypeOK
<1>7. /\ Arrived(t) \in Int
      /\ Taken(t)' = Taken(t) /\ Arrived(t)' = Arrived(t) + 1 /\ Merged(t)' = Merged(t)
  <2>1. Passed(t) \in Int /\ Arrived(t) \in Int
    BY <1>1, CountTypes
  <2>2. Taken(t)' = Taken(t) /\ Passed(t)' = Passed(t)
    BY <1>2, <1>3, <1>5 DEF Taken, Passed
  <2>3. Holds(head[t]) = 0 /\ Holds(head'[t]) = 1
    BY Zenon, <1>1, <1>3, <1>5, HoldsFacts
  <2>4. Arrived(t) = Passed(t) - Len(q[t]) /\ Arrived(t)' = Passed(t)' - Len(q'[t])
    BY DEF Arrived
  <2>5. Arrived(t)' = Arrived(t) + 1
    BY <2>1, <2>2, <2>4, <1>4
  <2>6. Merged(t)' = Merged(t)
    BY <2>1, <2>3, <2>5 DEF Merged
  <2> QED BY <2>1, <2>2, <2>5, <2>6
<1>8. Line(t)'
  <2>1. \A k \in 1 .. Len(q[t]) : q[t][k] = (Arrived(t) + k) * f
    BY <1>1 DEF Line
  <2>2. ASSUME NEW k \in 1 .. Len(q'[t]) PROVE q'[t][k] = (Arrived(t)' + k) * f
    <3>1. k + 1 \in 1 .. Len(q[t]) /\ Arrived(t) + (k + 1) = Arrived(t) + 1 + k
      BY <1>4, <1>7
    <3> QED BY Zenon, <3>1, <2>1, <1>3, <1>7
  <2>3. head'[t] = Arrived(t)' * f
    <3>1. 1 \in 1 .. Len(q[t])
      BY <1>3
    <3> QED BY Zenon, <3>1, <2>1, <1>3, <1>5, <1>7
  <2>4. q'[s] = q[s]
    BY <1>2, <1>3
  <2> QED BY Zenon, <2>2, <2>3, <2>4, <1>1, <1>2, <1>5, <1>7 DEF Line
<1>9. ASSUME NEW u \in TimesThreads, u # t PROVE Line(u)' /\ Merged(u)' = Merged(u)
  <2>1. Untouched(u) /\ Line(u)
    BY <1>3, <1>5, <1>9, Names DEF Untouched, PInv
  <2> QED BY <2>1, LineKept
<1>10. Output'
  <2>1. q'["mrg"] = q["mrg"]
    BY Zenon, <1>2, <1>3, Names
  <2> QED BY Zenon, <2>1, <1>1, <1>5, <1>7, <1>9, OutputKept
<1> QED BY <1>6, <1>8, <1>9, <1>10 DEF PInv

(* merge(): the smaller of the two tokens is put, and after it the two     *)
(* inputs are still in step.                                               *)
LEMMA StaysInStep ==
  ASSUME NEW c \in Nat, NEW d \in Nat, InStep(c, d)
  PROVE  IF (d + 1) * mult2 < (c + 1) * mult1 THEN InStep(c, d + 1) ELSE InStep(c + 1, d)
<1>1. /\ c * mult1 \in Nat /\ (c + 1) * mult1 = c * mult1 + mult1
      /\ (c + 2) * mult1 = (c + 1) * mult1 + mult1
      /\ d * mult2 \in Nat /\ (d + 1) * mult2 = d * mult2 + mult2
      /\ (d + 2) * mult2 = (d + 1) * mult2 + mult2
  BY Multiples
<1>2. c * mult1 <= (d + 1) * mult2 /\ d * mult2 < (c + 1) * mult1
  BY DEF InStep
<1>3. ASSUME (d + 1) * mult2 < (c + 1) * mult1 PROVE InStep(c, d + 1)
  <2>1. c * mult1 <= (d + 2) * mult2
    BY <1>1, <1>2
  <2>2. d + 1 + 1 = d + 2
    OBVIOUS
  <2> QED BY <1>3, <2>1, <2>2 DEF InStep
<1>4. ASSUME ~((d + 1) * mult2 < (c + 1) * mult1) PROVE InStep(c + 1, d)
  <2>1. d * mult2 < (c + 2) * mult1 /\ (c + 1) * mult1 <= (d + 1) * mult2
    BY <1>1, <1>2, <1>4
  <2>2. c + 1 + 1 = c + 2
    OBVIOUS
  <2> QED BY <2>1, <2>2 DEF InStep
<1> QED BY <1>3, <1>4

(* merge(): if ( *a < *b) put(self, a) else put(self, b) *)
LEMMA MergePassKeeps ==
  ASSUME PInv, NEW t \in TimesThreads, MergePass(t)
  PROVE  PInv'
<1> DEFINE c == Merged("tms1")
           d == Merged("tms2")
           s == Source(t)
           f == Factor(t)
<1>1. /\ PTypeOK /\ Output /\ Line(t) /\ \A u \in TimesThreads : Line(u)
      /\ head[t] # NONE /\ \A u \in TimesThreads : head[u] \in Nat /\ head[u] # NONE
  BY DEF PInv, MergePass, PTypeOK, TimesThreads
<1>2. s \in Pipes /\ s # "mrg" /\ t \in Pipes /\ t # "mrg" /\ "mrg" \in Pipes /\ s' = s /\ f' = f
  BY Names DEF Source, Factor
<1>3. /\ q' \in [Pipes -> Seq(Nat)]
      /\ Len(q["mrg"]) \in Nat /\ Len(q'["mrg"]) = Len(q["mrg"]) + 1
      /\ \A k \in 1 .. Len(q["mrg"]) : q'["mrg"][k] = q["mrg"][k]
      /\ q'["mrg"][Len(q["mrg"]) + 1] = head[t]
      /\ \A r \in Pipes \ {"mrg"} : q'[r] = q[r]
  BY <1>1, <1>2, InsertFacts DEF MergePass
<1>4. /\ head' \in [TimesThreads -> Nat \cup {NONE}]
      /\ head'[t] = NONE
      /\ \A u \in TimesThreads \ {t} : head'[u] = head[u]
      /\ n' = n /\ hand' = hand /\ out' = out
  BY <1>1 DEF MergePass, PTypeOK
<1>5. PTypeOK'
  BY <1>1, <1>3, <1>4 DEF PTypeOK
<1>6. ASSUME NEW u \in TimesThreads
      PROVE  Merged(u) \in Nat /\ head[u] = (Merged(u) + 1) * Factor(u)
  <2>1. Merged(u) \in Nat /\ Arrived(u) \in Int /\ head[u] = Arrived(u) * Factor(u)
    BY <1>1, CountTypes DEF Line
  <2>2. Holds(head[u]) = 1
    BY <1>1, HoldsFacts
  <2>3. Arrived(u) = Merged(u) + 1
    BY <2>1, <2>2 DEF Merged
  <2> QED BY <2>1, <2>3
<1>7. /\ q'[s] = q[s] /\ q'[t] = q[t]
      /\ Taken(t)' = Taken(t) /\ Arrived(t)' = Arrived(t) /\ Merged(t)' = Merged(t) + 1
  <2>1. q'[s] = q[s] /\ q'[t] = q[t]
    BY <1>2, <1>3
  <2>2. Taken(t)' = Taken(t) /\ Arrived(t)' = Arrived(t)
    BY <2>1, <1>2, <1>4 DEF Taken, Passed, Arrived
  <2>3. Holds(head[t]) = 1 /\ Holds(head'[t]) = 0 /\ Arrived(t) \in Int
    BY <1>1, <1>4, HoldsFacts, CountTypes
  <2>4. Merged(t)' = Merged(t) + 1
    BY <2>2, <2>3 DEF Merged
  <2> QED BY <2>1, <2>2, <2>4
<1>8. Line(t)'
  <2>1. Merged(t)' \in Nat
    BY <1>6, <1>7
  <2> QED BY Zenon, <2>1, <1>1, <1>2, <1>4, <1>7 DEF Line
<1>9. ASSUME NEW u \in TimesThreads, u # t PROVE Line(u)' /\ Merged(u)' = Merged(u)
  <2>1. Untouched(u) /\ Line(u)
    BY <1>1, <1>3, <1>4, <1>9, Names DEF Untouched
  <2> QED BY <2>1, LineKept
<1>10. /\ c \in Nat /\ d \in Nat
       /\ head["tms1"] = (c + 1) * mult1 /\ head["tms2"] = (d + 1) * mult2
  BY <1>6 DEF TimesThreads, Factor
<1>11. \/ /\ (d + 1) * mult2 < (c + 1) * mult1 /\ t = "tms2"
          /\ c' = c /\ d' = d + 1
       \/ /\ ~((d + 1) * mult2 < (c + 1) * mult1) /\ t = "tms1"
          /\ c' = c + 1 /\ d' = d
  BY <1>7, <1>9, <1>10 DEF MergePass, TimesThreads
<1>12. InStep(c, d)
  BY <1>1 DEF Output
<1>13. InStep(c', d') /\ head[t] = KthMultiple(c + d + 1)
  BY <1>10, <1>11, <1>12, NextMultiple, StaysInStep
<1>14. Output'
  <2>1. /\ Len(out) \in Nat /\ Len(out) + Len(q["mrg"]) = c + d
        /\ \A k \in 1 .. Len(out) : out[k] = KthMultiple(k)
        /\ \A k \in 1 .. Len(q["mrg"]) : q["mrg"][k] = KthMultiple(Len(out) + k)
    <3>1. Len(out) \in Nat
      BY <1>1 DEF PTypeOK
    <3> QED BY Zenon, <3>1, <1>1 DEF Output
  <2>2. Len(q["mrg"]) \in Nat /\ Len(q'["mrg"]) = Len(q["mrg"]) + 1
    BY <1>3
  <2>3. c' + d' = c + d + 1
    BY <1>10, <1>11
  <2>4. /\ Len(out) + Len(q'["mrg"]) = c' + d'
        /\ Len(out) + (Len(q["mrg"]) + 1) = c + d + 1
    BY <2>1, <2>2, <2>3, <1>10
  <2>5. ASSUME NEW k \in 1 .. Len(q'["mrg"]) PROVE q'["mrg"][k] = KthMultiple(Len(out) + k)
    <3>1. k \in 1 .. Len(q["mrg"]) \/ k = Len(q["mrg"]) + 1
      BY <2>2
    <3> QED BY Zenon, <3>1, <2>1, <2>4, <1>3, <1>13
  <2>6. InStep(c, d)'
    BY <1>13 DEF InStep
  <2>7. \A k : KthMultiple(k)' = KthMultiple(k)
    BY DEF KthMultiple
  <2> QED BY <2>1, <2>4, <2>5, <2>6, <2>7, <1>4 DEF Output
<1> QED BY <1>5, <1>8, <1>9, <1>14 DEF PInv

(* consumer(): value = get(prod) and its output *)
LEMMA ConsumerKeeps ==
  ASSUME PInv, ConsumerTake
  PROVE  PInv'
<1>1. PTypeOK /\ Output /\ "mrg" \in Pipes
  BY DEF PInv, Pipes
<1>2. /\ q' \in [Pipes -> Seq(Nat)]
      /\ Len(q["mrg"]) \in Nat \ {0} /\ Len(q'["mrg"]) = Len(q["mrg"]) - 1
      /\ Head(q["mrg"]) \in Nat /\ Head(q["mrg"]) = q["mrg"][1]
      /\ \A k \in 1 .. Len(q'["mrg"]) : q'["mrg"][k] = q["mrg"][k + 1]
      /\ \A r \in Pipes \ {"mrg"} : q'[r] = q[r]
  BY <1>1, ExtractFacts DEF ConsumerTake
<1>3. /\ n' = n /\ hand' = hand /\ head' = head
      /\ out' = Append(out, Head(q["mrg"])) /\ out \in Seq(Nat)
  BY <1>1 DEF ConsumerTake, PTypeOK
<1>4. /\ out' \in Seq(Nat) /\ Len(out) \in Nat /\ Len(out') = Len(out) + 1
      /\ \A k \in 1 .. Len(out) : out'[k] = out[k]
      /\ out'[Len(out) + 1] = Head(q["mrg"])
  BY <1>2, <1>3
<1>5. PTypeOK'
  BY <1>1, <1>2, <1>3, <1>4 DEF PTypeOK
<1>6. ASSUME NEW t \in TimesThreads PROVE Line(t)' /\ Merged(t)' = Merged(t)
  <2>1. Untouched(t) /\ Line(t)
    BY <1>2, <1>3, Names DEF Untouched, PInv
  <2> QED BY <2>1, LineKept
<1>7. Output'
  <2>1. /\ InStep(Merged("tms1"), Merged("tms2"))
        /\ Len(out) + Len(q["mrg"]) = Merged("tms1") + Merged("tms2")
        /\ \A k \in 1 .. Len(out) : out[k] = KthMultiple(k)
        /\ \A k \in 1 .. Len(q["mrg"]) : q["mrg"][k] = KthMultiple(Len(out) + k)
    BY <1>1 DEF Output
  <2>2. Len(q["mrg"]) \in Nat \ {0} /\ Len(q'["mrg"]) = Len(q["mrg"]) - 1
    BY <1>2
  <2>3. Merged("tms1")' = Merged("tms1") /\ Merged("tms2")' = Merged("tms2")
    BY <1>6 DEF TimesThreads
  <2>4. Len(out') + Len(q'["mrg"]) = Len(out) + Len(q["mrg"])
    <3>1. Len(out) \in Int /\ Len(out') = Len(out) + 1
      BY <1>4
    <3>2. Len(q["mrg"]) \in Int /\ Len(q'["mrg"]) = Len(q["mrg"]) - 1
      BY <2>2
    <3>3. \A x, y \in Int : (x + 1) + (y - 1) = x + y
      OBVIOUS
    <3> QED BY <3>1, <3>2, <3>3, Zenon
  <2>5. ASSUME NEW k \in 1 .. Len(out') PROVE out'[k] = KthMultiple(k)
    <3>1. k \in 1 .. Len(out) \/ k = Len(out) + 1
      BY <1>4
    <3>2. 1 \in 1 .. Len(q["mrg"])
      BY <2>2
    <3> QED BY Zenon, <3>1, <3>2, <2>1, <1>2, <1>4
  <2>6. ASSUME NEW k \in 1 .. Len(q'["mrg"]) PROVE q'["mrg"][k] = KthMultiple(Len(out') + k)
    <3>1. k + 1 \in 1 .. Len(q["mrg"]) /\ Len(out) + (k + 1) = Len(out') + k
      BY <2>2, <1>4
    <3> QED BY <3>1, <2>1, <1>2
  <2>7. InStep(Merged("tms1"), Merged("tms2"))'
    BY <2>1, <2>3 DEF InStep
  <2>8. \A k : KthMultiple(k)' = KthMultiple(k)
    BY DEF KthMultiple
  <2> QED BY <2>1, <2>3, <2>4, <2>5, <2>6, <2>7, <2>8 DEF Output
<1> QED BY <1>5, <1>6, <1>7 DEF PInv

-----------------------------------------------------------------------------
(* The network as init_module() starts it: nothing is under way. *)
LEMMA PInvInit == PipeInit => PInv
<1> SUFFICES ASSUME PipeInit PROVE PInv
  OBVIOUS
<1>1. PTypeOK
  BY DEF PipeInit, PTypeOK, Pipes
<1>2. ASSUME NEW t \in TimesThreads
      PROVE  /\ Taken(t) = 0 /\ Arrived(t) = 0 /\ Merged(t) = 0
             /\ Len(q[Source(t)]) = 0 /\ Len(q[t]) = 0
  <2>1. /\ n[Source(t)] = 1 /\ q[Source(t)] = << >> /\ q[t] = << >>
        /\ hand[t] = NONE /\ head[t] = NONE
    BY Names DEF PipeInit, Pipes
  <2>2. Len(q[Source(t)]) = 0 /\ Len(q[t]) = 0
    BY <2>1
  <2>3. Taken(t) = 0
    <3>1. n[Source(t)] = 1 /\ Len(q[Source(t)]) = 0
      BY <2>1, <2>2
    <3>2. Taken(t) = 1 - 1 - 0
      BY <3>1, Zenon DEF Taken
    <3> QED BY <3>2
  <2>4. Passed(t) = 0
    <3>1. Passed(t) = 0 - 0
      BY Zenon, <2>1, <2>3, HoldsFacts DEF Passed
    <3> QED BY <3>1
  <2>5. Arrived(t) = 0
    <3>1. Arrived(t) = 0 - 0
      BY Zenon, <2>2, <2>4 DEF Arrived
    <3> QED BY <3>1
  <2>6. Merged(t) = 0
    <3>1. Merged(t) = 0 - 0
      BY Zenon, <2>1, <2>5, HoldsFacts DEF Merged
    <3> QED BY <3>1
  <2> QED BY <2>2, <2>3, <2>5, <2>6
<1>3. ASSUME NEW t \in TimesThreads PROVE Line(t)
  <2>1. hand[t] = NONE /\ head[t] = NONE
    BY DEF PipeInit
  <2>2. 1 .. Len(q[Source(t)]) = {} /\ 1 .. Len(q[t]) = {} /\ Merged(t) \in Nat
    BY <1>2
  <2> QED BY <2>1, <2>2 DEF Line
<1>4. Output
  <2>1. out = << >> /\ q["mrg"] = << >>
    BY DEF PipeInit
  <2>2. Merged("tms1") = 0 /\ Merged("tms2") = 0
    BY <1>2 DEF TimesThreads
  <2>3. InStep(0, 0)
    BY DEF InStep
  <2> QED BY <2>1, <2>2, <2>3 DEF Output
<1> QED BY <1>1, <1>3, <1>4 DEF PInv

(* A step of any of the threads keeps the invariant of the network. *)
LEMMA PInvNext == PInv /\ [PipeNext]_pipeVars => PInv'
<1> SUFFICES ASSUME PInv, [PipeNext]_pipeVars PROVE PInv'
  OBVIOUS
<1>1. CASE UNCHANGED pipeVars
  <2>1. q' = q /\ n' = n /\ hand' = hand /\ head' = head /\ out' = out
    BY <1>1 DEF pipeVars
  <2>2. ASSUME NEW t \in TimesThreads PROVE Line(t)' /\ Merged(t)' = Merged(t)
    BY <2>1, LineKept DEF PInv, Untouched
  <2>3. Output'
    BY Zenon, <2>1, <2>2, OutputKept DEF PInv
  <2> QED BY <2>1, <2>2, <2>3 DEF PInv, PTypeOK
<1>2. ASSUME NEW s \in Successors, SuccessorStep(s) PROVE PInv'
  BY <1>2, SuccessorKeeps
<1>3. ASSUME NEW t \in TimesThreads, TimesTake(t) \/ TimesPass(t) PROVE PInv'
  BY <1>3, TimesTakeKeeps, TimesPassKeeps
<1>4. ASSUME NEW t \in TimesThreads, MergeTake(t) \/ MergePass(t) PROVE PInv'
  BY <1>4, MergeTakeKeeps, MergePassKeeps
<1>5. CASE ConsumerTake
  BY <1>5, ConsumerKeeps
<1> QED BY <1>1, <1>2, <1>3, <1>4, <1>5 DEF PipeNext

(* Whatever the order in which the threads of prod-cons.c run, the         *)
(* consumer gets the multiples of the two factors in ascending order, a    *)
(* common multiple twice: for any factors, any capacity of the queues and  *)
(* any number of tokens.                                                   *)
THEOREM OutputSorted == PipeSpec => []SortedOutput
<1>1. PInv => SortedOutput
  BY DEF PInv, Output, SortedOutput
<1> QED BY <1>1, PInvInit, PInvNext, PTL DEF PipeSpec
=============================================================================
