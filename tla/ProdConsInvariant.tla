------------------------- MODULE ProdConsInvariant -------------------------
(***************************************************************************)
(* The invariant of the thread network of prod-cons.c (module ProdCons),   *)
(* for any factors, buffer size and number of tokens, given what put() and *)
(* get() guarantee, and what a step does to the variables of Pipeline;     *)
(* module ProdConsProofs draws the theorems from it.                       *)
(*                                                                         *)
(* The lemmas rest on one view of a step: it leaves tokens, queues and     *)
(* heap alone, or it moves one token: into a queue, out of a queue, or out *)
(* of and back into the heap.                                              *)
(***************************************************************************)
EXTENDS ProdCons, TLAPS

(* What vmalloc() returns to the successors. *)
Pointers == Successors \X Nat

(* What put() and get() guarantee to the threads (module StreamsProofs). *)
StreamsOK ==
  /\ pc \in [Threads -> PutLocations \cup GetLocations \cup {"idle"}]
  /\ arg \in [Threads -> Streams]
  /\ val \in [Threads -> Pointers \cup {NULL}]
  /\ \A t \in Threads : pc[t] \in PutLocations => val[t] \in Pointers
  /\ buffer \in [Streams -> Seq(Pointers)]
  /\ \A t \in Threads : pc[t] = "put_enqueue" => Len(buffer[arg[t]]) < BUFFER_SIZE
  /\ \A t \in Threads : pc[t] = "get_dequeue" => buffer[arg[t]] # << >>

(* The input lists of the threads that have inputs. *)
Inputs(tms1, tms2, mrg, cons) ==
  /\ DOMAIN inputs = Threads
  /\ inputs["tms1"] = tms1 /\ inputs["tms2"] = tms2
  /\ inputs["mrg"] = mrg /\ inputs["cons"] = cons

(* init_module() has made the first connect() calls. *)
Wired ==
  \/ wires = Wiring /\ Inputs(<< >>, << >>, << >>, << >>)
  \/ /\ wires = << <<"tms2", "suc2">>, <<"mrg", "tms1">>, <<"mrg", "tms2">>, <<"cons", "mrg">> >>
     /\ Inputs(<<"suc1">>, << >>, << >>, << >>)
  \/ /\ wires = << <<"mrg", "tms1">>, <<"mrg", "tms2">>, <<"cons", "mrg">> >>
     /\ Inputs(<<"suc1">>, <<"suc2">>, << >>, << >>)
  \/ /\ wires = << <<"mrg", "tms2">>, <<"cons", "mrg">> >>
     /\ Inputs(<<"suc1">>, <<"suc2">>, <<"tms1">>, << >>)
  \/ /\ wires = << <<"cons", "mrg">> >>
     /\ Inputs(<<"suc1">>, <<"suc2">>, <<"tms2", "tms1">>, << >>)
  \/ wires = << >> /\ Inputs(<<"suc1">>, <<"suc2">>, <<"tms2", "tms1">>, <<"mrg">>)

NetTypeOK ==
  /\ kills = << >>
  /\ loc \in [Threads -> {"put", "get", "get_a_first", "get_b_first", "get_a", "get_b",
                          "got_a", "got_b", "free"}]
  /\ i \in [Threads -> Nat]
  /\ a \in Pointers \cup {NULL}
  /\ b \in Pointers \cup {NULL}
  /\ heap \in [DOMAIN heap -> Nat]
  /\ \A p \in DOMAIN heap : p \in Pointers /\ p[2] < i[p[1]]
  /\ consumed \in Seq(Nat)
  /\ Len(consumed) = i["cons"]

(* A thread is inside put(s) or get(s), or outside. *)
InPut(t, s) == pc[t] = "idle" \/ (pc[t] \in PutLocations /\ arg[t] = s)
InGet(t, s) == /\ pc[t] = "idle" \/ (pc[t] \in GetLocations /\ arg[t] = s)
               /\ Received(t) => val[t] # NULL

Supplier(t) == IF t = "tms1" THEN "suc1" ELSE "suc2"

(* Where a thread is in its loop, and what it has in its variables there. *)
MergeControl ==
  \/ loc["mrg"] = "get_a_first" /\ pc["mrg"] = "idle"
  \/ loc["mrg"] = "get_b_first" /\ InGet("mrg", "tms2")
  \/ loc["mrg"] = "got_a" /\ InGet("mrg", "tms2") /\ b # NULL
  \/ loc["mrg"] = "got_b" /\ InGet("mrg", "tms1") /\ a # NULL
  \/ loc["mrg"] = "get_a" /\ InPut("mrg", "mrg") /\ b # NULL /\ (pc["mrg"] # "idle" => val["mrg"] = a)
  \/ loc["mrg"] = "get_b" /\ InPut("mrg", "mrg") /\ a # NULL /\ (pc["mrg"] # "idle" => val["mrg"] = b)

ControlOf(t) ==
  /\ t \in Successors => loc[t] = "put" /\ InPut(t, t)
  /\ t \in TimesThreads => \/ loc[t] = "put" /\ InGet(t, Supplier(t))
                           \/ loc[t] = "get" /\ InPut(t, t)
  /\ t = "mrg" => MergeControl
  /\ t = "cons" => \/ loc[t] = "get" /\ pc[t] = "idle"
                   \/ loc[t] = "free" /\ InGet(t, "mrg") /\ i[t] < ConsumerLimit

Control == \A t \in Threads : ControlOf(t)

(* L[x]: the token in local variable x, B[s]: the tokens in stream s, H:   *)
(* the allocated tokens.                                                   *)
Owned(L, B, H) ==
  /\ \A x \in LocalVariables : L[x] # NULL => L[x] \in H
  /\ \A s \in Streams : \A k \in DOMAIN B[s] : B[s][k] \in H
  /\ \A x, y \in LocalVariables : L[x] # NULL /\ L[x] = L[y] => x = y
  /\ \A s, r \in Streams : \A k \in DOMAIN B[s], j \in DOMAIN B[r] :
       B[s][k] = B[r][j] => s = r /\ k = j
  /\ \A x \in LocalVariables, s \in Streams : \A k \in DOMAIN B[s] : L[x] # B[s][k]
  /\ \A p \in H : \/ \E x \in LocalVariables : L[x] = p
                  \/ \E s \in Streams : \E k \in DOMAIN B[s] : B[s][k] = p

Locals == [x \in LocalVariables |-> Local(x)]

OwnerInv == Owned(Locals, buffer, DOMAIN heap)

(* The int that successor s puts next, as Pipeline counts. *)
NextInt(s) == IF Unsent(s) THEN i[s] - 1 ELSE i[s]

(* Where merge() goes on after the put() that it has called, until the     *)
(* token is in the queue.                                                  *)
Merging == IF Unsent("mrg") THEN loc["mrg"] ELSE "none"

DataInv ==
  /\ \A s \in Successors : Local(s) # NULL => heap[Local(s)] = NextInt(s)
  /\ Merging = "get_a" => heap[Local("a")] < heap[Local("b")]
  /\ Merging = "get_b" => heap[Local("a")] >= heap[Local("b")]

NetInv == Wired /\ NetTypeOK /\ Control /\ OwnerInv /\ DataInv
-----------------------------------------------------------------------------
(* vmalloc(): a token that was not allocated gets an owner. *)
LEMMA OwnedAlloc ==
  ASSUME NEW L \in [LocalVariables -> Pointers \cup {NULL}], NEW B, NEW H,
         Owned(L, B, H), NULL \notin H,
         NEW x \in LocalVariables, L[x] = NULL, NEW p, p \notin H, p # NULL
  PROVE  Owned([L EXCEPT ![x] = p], B, H \cup {p})
<1> DEFINE M == [L EXCEPT ![x] = p]
<1>a. \A y \in LocalVariables : L[y] # NULL => L[y] \in H
  BY DEF Owned
<1>b. \A r \in Streams : \A k \in DOMAIN B[r] : B[r][k] \in H
  BY DEF Owned
<1>c. \A y, w \in LocalVariables : L[y] # NULL /\ L[y] = L[w] => y = w
  BY DEF Owned
<1>d. \A q, r \in Streams : \A k \in DOMAIN B[q], j \in DOMAIN B[r] :
        B[q][k] = B[r][j] => q = r /\ k = j
  BY DEF Owned
<1>e. \A y \in LocalVariables, r \in Streams : \A k \in DOMAIN B[r] : L[y] # B[r][k]
  BY DEF Owned
<1>f. \A v \in H : \/ \E y \in LocalVariables : L[y] = v
                  \/ \E r \in Streams : \E k \in DOMAIN B[r] : B[r][k] = v
  BY DEF Owned
<1>1. M[x] = p /\ \A y \in LocalVariables \ {x} : M[y] = L[y]
  OBVIOUS
<1> HIDE DEF M
<1>2. \A y \in LocalVariables : M[y] # NULL => M[y] \in H \cup {p}
  BY <1>1, <1>a
<1>3. \A y, w \in LocalVariables : M[y] # NULL /\ M[y] = M[w] => y = w
  BY <1>1, <1>a, <1>c
<1>4. \A y \in LocalVariables, r \in Streams : \A k \in DOMAIN B[r] : M[y] # B[r][k]
  BY <1>1, <1>b, <1>e
<1>5. \A v \in H \cup {p} : \/ \E y \in LocalVariables : M[y] = v
                          \/ \E r \in Streams : \E k \in DOMAIN B[r] : B[r][k] = v
  BY <1>1, <1>f
<1>6. Owned(M, B, H \cup {p})
  BY <1>b, <1>d, <1>2, <1>3, <1>4, <1>5, Zenon DEF Owned
<1> QED BY <1>6 DEF M

(* vfree(): the owner of a token gives it back. *)
LEMMA OwnedFree ==
  ASSUME NEW L \in [LocalVariables -> Pointers \cup {NULL}], NEW B, NEW H,
         Owned(L, B, H), NULL \notin H,
         NEW x \in LocalVariables, L[x] # NULL
  PROVE  Owned([L EXCEPT ![x] = NULL], B, H \ {L[x]})
BY DEF Owned

(* enqueue(): a token goes from its owner to a queue. *)
LEMMA OwnedEnqueue ==
  ASSUME NEW L \in [LocalVariables -> Pointers \cup {NULL}], NEW B \in [Streams -> Seq(Pointers)], NEW H,
         Owned(L, B, H), NULL \notin H,
         NEW x \in LocalVariables, L[x] # NULL, NEW s \in Streams
  PROVE  Owned([L EXCEPT ![x] = NULL], [B EXCEPT ![s] = Append(B[s], L[x])], H)
<1> DEFINE M == [L EXCEPT ![x] = NULL]
           C == [B EXCEPT ![s] = Append(B[s], L[x])]
           z == Len(B[s]) + 1
<1>a. \A y \in LocalVariables : L[y] # NULL => L[y] \in H
  BY DEF Owned
<1>b. \A r \in Streams : \A k \in DOMAIN B[r] : B[r][k] \in H
  BY DEF Owned
<1>c. \A y, w \in LocalVariables : L[y] # NULL /\ L[y] = L[w] => y = w
  BY DEF Owned
<1>d. \A q, r \in Streams : \A k \in DOMAIN B[q], j \in DOMAIN B[r] :
        B[q][k] = B[r][j] => q = r /\ k = j
  BY DEF Owned
<1>e. \A y \in LocalVariables, r \in Streams : \A k \in DOMAIN B[r] : L[y] # B[r][k]
  BY DEF Owned
<1>f. \A p \in H : \/ \E y \in LocalVariables : L[y] = p
                  \/ \E r \in Streams : \E k \in DOMAIN B[r] : B[r][k] = p
  BY DEF Owned
<1>1. /\ L[x] \in Pointers /\ B[s] \in Seq(Pointers) /\ z \in Nat
      /\ C[s] = Append(B[s], L[x])
      /\ \A r \in Streams \ {s} : C[r] = B[r]
  OBVIOUS
<1>2. /\ DOMAIN C[s] = DOMAIN B[s] \cup {z} /\ z \notin DOMAIN B[s]
      /\ \A k \in DOMAIN B[s] : C[s][k] = B[s][k]
      /\ C[s][z] = L[x]
  BY <1>1
<1>3. M[x] = NULL /\ \A y \in LocalVariables \ {x} : M[y] = L[y]
  OBVIOUS
<1> HIDE DEF M, C, z
<1>4. /\ \A y \in LocalVariables : M[y] # NULL => M[y] \in H
      /\ \A r \in Streams : \A k \in DOMAIN C[r] : C[r][k] \in H
  <2>1. \A y \in LocalVariables : M[y] # NULL => M[y] \in H
    BY <1>3, <1>a
  <2>2. \A k \in DOMAIN C[s] : C[s][k] \in H
    BY <1>2, <1>a, <1>b
  <2> QED BY Zenon, <2>1, <2>2, <1>1, <1>b
<1>5. \A y, w \in LocalVariables : M[y] # NULL /\ M[y] = M[w] => y = w
  BY <1>3, <1>c
<1>6. ASSUME NEW q \in Streams, NEW r \in Streams, NEW k \in DOMAIN C[q], NEW j \in DOMAIN C[r],
             C[q][k] = C[r][j]
      PROVE  q = r /\ k = j
  <2>1. CASE q = s /\ r = s
    BY <2>1, <1>2, <1>6, <1>d, <1>e
  <2>2. CASE q = s /\ r # s
    BY <2>2, <1>1, <1>2, <1>6, <1>d, <1>e
  <2>3. CASE q # s /\ r = s
    BY <2>3, <1>1, <1>2, <1>6, <1>d, <1>e
  <2>4. CASE q # s /\ r # s
    BY <2>4, <1>1, <1>6, <1>d
  <2> QED BY <2>1, <2>2, <2>3, <2>4
<1>7. ASSUME NEW y \in LocalVariables, NEW r \in Streams, NEW k \in DOMAIN C[r] PROVE M[y] # C[r][k]
  <2>1. C[r][k] \in H
    BY <1>4
  <2>2. CASE y = x
    BY <2>1, <2>2, <1>3
  <2>3. CASE y # x /\ r = s
    BY <2>3, <1>2, <1>3, <1>c, <1>e
  <2>4. CASE y # x /\ r # s
    BY <2>4, <1>1, <1>3, <1>e
  <2> QED BY <2>2, <2>3, <2>4
<1>8. ASSUME NEW p \in H
      PROVE  \/ \E y \in LocalVariables : M[y] = p
             \/ \E r \in Streams : \E k \in DOMAIN C[r] : C[r][k] = p
  <2>1. ASSUME NEW y \in LocalVariables, L[y] = p
        PROVE  \/ \E y1 \in LocalVariables : M[y1] = p
               \/ \E r \in Streams : \E k \in DOMAIN C[r] : C[r][k] = p
    BY <2>1, <1>2, <1>3
  <2>2. ASSUME NEW r \in Streams, NEW k \in DOMAIN B[r], B[r][k] = p
        PROVE  \E r1 \in Streams : \E k1 \in DOMAIN C[r1] : C[r1][k1] = p
    BY Zenon, <2>2, <1>1, <1>2
  <2> QED BY Zenon, <2>1, <2>2, <1>f
<1>9. Owned(M, C, H)
  BY <1>4, <1>5, <1>6, <1>7, <1>8 DEF Owned
<1> QED BY <1>9 DEF M, C

(* dequeue(): a token goes from a queue to the caller of get(). *)
LEMMA OwnedDequeue ==
  ASSUME NEW L \in [LocalVariables -> Pointers \cup {NULL}], NEW B \in [Streams -> Seq(Pointers)], NEW H,
         Owned(L, B, H), NULL \notin H,
         NEW x \in LocalVariables, L[x] = NULL, NEW s \in Streams, B[s] # << >>
  PROVE  Owned([L EXCEPT ![x] = Head(B[s])], [B EXCEPT ![s] = Tail(B[s])], H)
<1> DEFINE M == [L EXCEPT ![x] = Head(B[s])]
           C == [B EXCEPT ![s] = Tail(B[s])]
<1>a. \A y \in LocalVariables : L[y] # NULL => L[y] \in H
  BY DEF Owned
<1>b. \A r \in Streams : \A k \in DOMAIN B[r] : B[r][k] \in H
  BY DEF Owned
<1>c. \A y, w \in LocalVariables : L[y] # NULL /\ L[y] = L[w] => y = w
  BY DEF Owned
<1>d. \A q, r \in Streams : \A k \in DOMAIN B[q], j \in DOMAIN B[r] :
        B[q][k] = B[r][j] => q = r /\ k = j
  BY DEF Owned
<1>e. \A y \in LocalVariables, r \in Streams : \A k \in DOMAIN B[r] : L[y] # B[r][k]
  BY DEF Owned
<1>f. \A p \in H : \/ \E y \in LocalVariables : L[y] = p
                  \/ \E r \in Streams : \E k \in DOMAIN B[r] : B[r][k] = p
  BY DEF Owned
<1>1. /\ B[s] \in Seq(Pointers) /\ Len(B[s]) \in Nat /\ 1 \in DOMAIN B[s] /\ Head(B[s]) = B[s][1]
      /\ C[s] = Tail(B[s])
      /\ \A r \in Streams \ {s} : C[r] = B[r]
  OBVIOUS
<1>2. /\ \A k \in DOMAIN C[s] : k \in Nat /\ k + 1 \in DOMAIN B[s] /\ k + 1 # 1 /\ C[s][k] = B[s][k + 1]
      /\ \A k \in DOMAIN B[s] : k # 1 => k \in Nat /\ k - 1 \in DOMAIN C[s] /\ (k - 1) + 1 = k
  BY <1>1
<1>3. M[x] = B[s][1] /\ \A y \in LocalVariables \ {x} : M[y] = L[y]
  BY <1>1
<1> HIDE DEF M, C
<1>4. /\ \A y \in LocalVariables : M[y] # NULL => M[y] \in H
      /\ \A r \in Streams : \A k \in DOMAIN C[r] : C[r][k] \in H
  <2>1. \A y \in LocalVariables : M[y] # NULL => M[y] \in H
    BY <1>1, <1>3, <1>a, <1>b
  <2>2. \A k \in DOMAIN C[s] : C[s][k] \in H
    BY <1>2, <1>b
  <2> QED BY Zenon, <2>1, <2>2, <1>1, <1>b
<1>5. \A y, w \in LocalVariables : M[y] # NULL /\ M[y] = M[w] => y = w
  BY <1>1, <1>3, <1>c, <1>e
<1>6. ASSUME NEW q \in Streams, NEW r \in Streams, NEW k \in DOMAIN C[q], NEW j \in DOMAIN C[r],
             C[q][k] = C[r][j]
      PROVE  q = r /\ k = j
  <2>1. CASE q = s /\ r = s
    BY <2>1, <1>2, <1>6, <1>d, <1>e
  <2>2. CASE q = s /\ r # s
    BY <2>2, <1>1, <1>2, <1>6, <1>d, <1>e
  <2>3. CASE q # s /\ r = s
    BY <2>3, <1>1, <1>2, <1>6, <1>d, <1>e
  <2>4. CASE q # s /\ r # s
    BY <2>4, <1>1, <1>6, <1>d
  <2> QED BY <2>1, <2>2, <2>3, <2>4
<1>7. ASSUME NEW y \in LocalVariables, NEW r \in Streams, NEW k \in DOMAIN C[r] PROVE M[y] # C[r][k]
  <2>1. CASE y = x /\ r = s
    BY <2>1, <1>1, <1>2, <1>3, <1>d
  <2>2. CASE y = x /\ r # s
    BY <2>2, <1>1, <1>3, <1>d
  <2>3. CASE y # x /\ r = s
    BY <2>3, <1>2, <1>3, <1>e
  <2>4. CASE y # x /\ r # s
    BY <2>4, <1>1, <1>3, <1>e
  <2> QED BY <2>1, <2>2, <2>3, <2>4
<1>8. ASSUME NEW p \in H
      PROVE  \/ \E y \in LocalVariables : M[y] = p
             \/ \E r \in Streams : \E k \in DOMAIN C[r] : C[r][k] = p
  <2>1. ASSUME NEW y \in LocalVariables, L[y] = p PROVE \E y1 \in LocalVariables : M[y1] = p
    BY <2>1, <1>3
  <2>2. ASSUME NEW r \in Streams, NEW k \in DOMAIN B[r], B[r][k] = p
        PROVE  \/ \E y \in LocalVariables : M[y] = p
               \/ \E r1 \in Streams : \E k1 \in DOMAIN C[r1] : C[r1][k1] = p
    <3>1. CASE r # s
      BY <2>2, <3>1, <1>1
    <3>2. CASE r = s /\ k = 1
      BY <2>2, <3>2, <1>3
    <3>3. CASE r = s /\ k # 1
      <4>1. k - 1 \in DOMAIN C[s] /\ C[s][k - 1] = B[s][k]
        BY <3>3, <1>2
      <4> QED BY <2>2, <3>3, <4>1
    <3> QED BY <3>1, <3>2, <3>3
  <2> QED BY <2>1, <2>2, <1>f
<1>9. Owned(M, C, H)
  BY Zenon, <1>4, <1>5, <1>6, <1>7, <1>8 DEF Owned
<1> QED BY <1>9 DEF M, C
-----------------------------------------------------------------------------
(* T[p] is the token in place p. *)
Placed(L, B, T) ==
  /\ \A p : p \in DOMAIN T <=> \/ \E y \in LocalVariables : p = <<y, 0>> /\ L[y] # NULL
                               \/ \E s \in Streams : \E k \in DOMAIN B[s] : p = <<s, k>>
  /\ \A y \in LocalVariables : L[y] # NULL => T[<<y, 0>>] = L[y]
  /\ \A s \in Streams : \A k \in DOMAIN B[s] : T[<<s, k>>] = B[s][k]

(* Tokens with one owner are in one place each. *)
LEMMA OwnedPlaces ==
  ASSUME NEW L, NEW B, NEW H, Owned(L, B, H), NULL \notin H, NEW T, Placed(L, B, T)
  PROVE  IsInjective(T) /\ Range(T) = H
<1> DEFINE InVariable(p) == \E y \in LocalVariables : p = <<y, 0>> /\ L[y] # NULL
           InQueue(p) == \E s \in Streams : \E k \in DOMAIN B[s] : p = <<s, k>>
<1>a. \A y \in LocalVariables : L[y] # NULL => L[y] \in H
  BY Zenon DEF Owned
<1>b. \A s \in Streams : \A k \in DOMAIN B[s] : B[s][k] \in H
  BY Zenon DEF Owned
<1>c. \A y, z \in LocalVariables : L[y] # NULL /\ L[y] = L[z] => y = z
  BY Zenon DEF Owned
<1>d. \A s, r \in Streams : \A k \in DOMAIN B[s], j \in DOMAIN B[r] :
        B[s][k] = B[r][j] => s = r /\ k = j
  BY Zenon DEF Owned
<1>e. \A y \in LocalVariables, s \in Streams : \A k \in DOMAIN B[s] : L[y] # B[s][k]
  BY Zenon DEF Owned
<1>f. \A y \in LocalVariables : L[y] # NULL => T[<<y, 0>>] = L[y]
  BY Zenon DEF Placed
<1>g. \A s \in Streams : \A k \in DOMAIN B[s] : T[<<s, k>>] = B[s][k]
  BY Zenon DEF Placed
<1>1. ASSUME NEW p \in DOMAIN T PROVE InVariable(p) \/ InQueue(p)
  BY Zenon DEF Placed
<1>2. ASSUME NEW p, InVariable(p)
      PROVE  \E y \in LocalVariables : p = <<y, 0>> /\ L[y] # NULL /\ T[p] = L[y] /\ L[y] \in H
  BY Zenon, <1>2, <1>a, <1>f
<1>3. ASSUME NEW p, InQueue(p)
      PROVE  \E s \in Streams : \E k \in DOMAIN B[s] : p = <<s, k>> /\ T[p] = B[s][k] /\ B[s][k] \in H
  <2>1. PICK s \in Streams : \E k \in DOMAIN B[s] : p = <<s, k>>
    BY Zenon, <1>3
  <2>2. PICK k \in DOMAIN B[s] : p = <<s, k>>
    BY Zenon, <2>1
  <2>3. T[p] = B[s][k] /\ B[s][k] \in H
    BY Zenon, <1>b, <1>g, <2>2
  <2> QED BY Zenon, <2>2, <2>3
<1>4. ASSUME NEW p \in DOMAIN T, NEW r \in DOMAIN T, T[p] = T[r] PROVE p = r
  <2>1. CASE InVariable(p) /\ InVariable(r)
    <3>1. PICK y \in LocalVariables : p = <<y, 0>> /\ L[y] # NULL /\ T[p] = L[y]
      BY Zenon, <1>2, <2>1
    <3>2. PICK z \in LocalVariables : r = <<z, 0>> /\ T[r] = L[z]
      BY Zenon, <1>2, <2>1
    <3>3. y = z
      BY Zenon, <1>4, <1>c, <3>1, <3>2
    <3> QED BY Zenon, <3>1, <3>2, <3>3
  <2>2. ASSUME NEW u, NEW v, InVariable(u), InQueue(v) PROVE T[u] # T[v]
    <3>1. PICK y \in LocalVariables : T[u] = L[y]
      BY Zenon, <1>2, <2>2
    <3>2. PICK s \in Streams : \E k \in DOMAIN B[s] : v = <<s, k>> /\ T[v] = B[s][k] /\ B[s][k] \in H
      BY Zenon, <1>3, <2>2
    <3>3. PICK k \in DOMAIN B[s] : T[v] = B[s][k]
      BY Zenon, <3>2
    <3>4. L[y] # B[s][k]
      BY Zenon, <1>e
    <3> QED BY Zenon, <3>1, <3>3, <3>4
  <2>3. CASE InQueue(p) /\ InQueue(r)
    <3>1. PICK s \in Streams : \E k \in DOMAIN B[s] : p = <<s, k>> /\ T[p] = B[s][k]
      BY Zenon, <1>3, <2>3
    <3>2. PICK k \in DOMAIN B[s] : p = <<s, k>> /\ T[p] = B[s][k]
      BY Zenon, <3>1
    <3>3. PICK z \in Streams : \E j \in DOMAIN B[z] : r = <<z, j>> /\ T[r] = B[z][j]
      BY Zenon, <1>3, <2>3
    <3>4. PICK j \in DOMAIN B[z] : r = <<z, j>> /\ T[r] = B[z][j]
      BY Zenon, <3>3
    <3>5. B[s][k] = B[z][j]
      BY Zenon, <1>4, <3>2, <3>4
    <3>6. s = z /\ k = j
      BY Zenon, <1>d, <3>5
    <3> QED BY Zenon, <3>2, <3>4, <3>6
  <2>4. (InVariable(p) \/ InQueue(p)) /\ (InVariable(r) \/ InQueue(r))
    BY Zenon, <1>1
  <2> HIDE DEF InVariable, InQueue
  <2> QED BY Zenon, <1>4, <2>1, <2>2, <2>3, <2>4
<1>5. IsInjective(T)
  BY Zenon, <1>4 DEF IsInjective
<1>6. ASSUME NEW p \in DOMAIN T PROVE T[p] \in H
  <2>1. CASE InVariable(p)
    BY Zenon, <1>2, <2>1
  <2>2. CASE InQueue(p)
    BY Zenon, <1>3, <2>2
  <2> QED BY Zenon, <1>1, <2>1, <2>2
<1>7. ASSUME NEW v \in H PROVE \E p \in DOMAIN T : v = T[p]
  <2>1. CASE \E y \in LocalVariables : L[y] = v
    <3>1. PICK y \in LocalVariables : L[y] = v
      BY Zenon, <2>1
    <3>2. L[y] # NULL
      BY Zenon, <3>1
    <3>3. <<y, 0>> \in DOMAIN T /\ T[<<y, 0>>] = v
      BY Zenon, <3>1, <3>2 DEF Placed
    <3> QED BY Zenon, <3>3
  <2>2. CASE \E s \in Streams : \E k \in DOMAIN B[s] : B[s][k] = v
    <3>1. PICK s \in Streams : \E k \in DOMAIN B[s] : B[s][k] = v
      BY Zenon, <2>2
    <3>2. PICK k \in DOMAIN B[s] : B[s][k] = v
      BY Zenon, <3>1
    <3>3. <<s, k>> \in DOMAIN T /\ T[<<s, k>>] = v
      BY Zenon, <3>2 DEF Placed
    <3> QED BY Zenon, <3>3
  <2> QED BY Zenon, <2>1, <2>2 DEF Owned
<1>8. Range(T) = H
  BY Zenon, <1>6, <1>7 DEF Range
<1> QED BY Zenon, <1>5, <1>8

(* The positions of the tokens in the buffer of a stream. *)
LEMMA SequenceDomain ==
  ASSUME NEW S, NEW w \in Seq(S)
  PROVE  DOMAIN w = 1 .. Len(w)
OBVIOUS

(* The product that times() computes. *)
LEMMA NatTimes ==
  ASSUME NEW x \in Nat, NEW y \in Nat
  PROVE  x * y \in Nat
OBVIOUS

(* An assignment to one element of an array. *)
LEMMA Assigned ==
  ASSUME NEW S, NEW F, NEW G, F = [r \in S |-> F[r]], G = [r \in S |-> G[r]],
         NEW s \in S, NEW v, G[s] = v, \A r \in S \ {s} : G[r] = F[r]
  PROVE  G = [F EXCEPT ![s] = v]
<1> DEFINE E == [F EXCEPT ![s] = v]
<1>1. DOMAIN F = S
  BY Zenon
<1>2. E = [r \in S |-> IF r = s THEN v ELSE F[r]]
  BY <1>1
<1>3. \A r \in S : G[r] = IF r = s THEN v ELSE F[r]
  BY Zenon
<1> HIDE DEF E
<1>4. G = E
  BY Zenon, <1>2, <1>3
<1> QED BY <1>4 DEF E

(* A queue of tokens that are allocated in heap H, and their ints. *)
Allocated(queue, H) ==
  queue \in Seq(Pointers) /\ H \in [DOMAIN H -> Nat] /\ \A k \in DOMAIN queue : queue[k] \in DOMAIN H
Ints(queue, H) == [k \in 1 .. Len(queue) |-> H[queue[k]]]

(* The ints of a queue form a queue. *)
LEMMA IntsType ==
  ASSUME NEW queue, NEW H, Allocated(queue, H)
  PROVE  /\ Ints(queue, H) \in Seq(Nat) /\ Len(Ints(queue, H)) = Len(queue)
         /\ \A k \in 1 .. Len(queue) : Ints(queue, H)[k] = H[queue[k]]
<1>1. Len(queue) \in Nat /\ \A k \in 1 .. Len(queue) : H[queue[k]] \in Nat
  BY DEF Allocated
<1>2. Ints(queue, H) \in [1 .. Len(queue) -> Nat]
  BY <1>1 DEF Ints
<1> QED BY <1>1, <1>2 DEF Ints

(* enqueue() *)
LEMMA IntsAppend ==
  ASSUME NEW queue, NEW H, Allocated(queue, H), NEW p \in Pointers, p \in DOMAIN H
  PROVE  Ints(Append(queue, p), H) = Append(Ints(queue, H), H[p])
<1> DEFINE r == Append(queue, p)
           u == Ints(queue, H)
           v == Ints(r, H)
           n == Len(queue)
           w == Append(u, H[p])
<1>1. /\ r \in Seq(Pointers) /\ Len(r) = n + 1 /\ r[n + 1] = p /\ n \in Nat
      /\ \A k \in 1 .. n : r[k] = queue[k] /\ k \in DOMAIN queue
  BY DEF Allocated
<1> HIDE DEF r, n
<1>2. u \in Seq(Nat) /\ Len(u) = n /\ \A k \in 1 .. n : u[k] = H[queue[k]]
  BY Zenon, IntsType DEF n
<1>3. Allocated(r, H)
  <2>1. ASSUME NEW k \in DOMAIN r PROVE r[k] \in DOMAIN H
    <3>1. k \in 1 .. n \/ k = n + 1
      BY <1>1
    <3> QED BY Zenon, <1>1, <3>1 DEF Allocated
  <2> QED BY Zenon, <1>1, <2>1 DEF Allocated
<1>4. /\ v \in Seq(Nat) /\ Len(v) = n + 1
      /\ \A k \in 1 .. (n + 1) : v[k] = H[r[k]]
  <2>1. v \in Seq(Nat) /\ Len(v) = Len(r) /\ \A k \in 1 .. Len(r) : v[k] = H[r[k]]
    BY Zenon, <1>3, IntsType
  <2> HIDE DEF v
  <2> QED BY <1>1, <2>1
<1>5. H[p] \in Nat
  BY Zenon DEF Allocated
<1> HIDE DEF u, v
<1>6. /\ w \in Seq(Nat) /\ Len(w) = n + 1 /\ w[n + 1] = H[p]
      /\ \A k \in 1 .. n : w[k] = u[k]
  BY <1>1, <1>2, <1>5
<1> HIDE DEF w
<1>7. ASSUME NEW k \in 1 .. (n + 1) PROVE v[k] = w[k]
  <2>1. k \in 1 .. n \/ k = n + 1
    BY <1>1
  <2>2. v[k] = H[r[k]]
    BY Zenon, <1>4
  <2> QED BY Zenon, <1>1, <1>2, <1>6, <2>1, <2>2
<1>8. v = w
  BY <1>1, <1>4, <1>6, <1>7
<1> QED BY <1>8 DEF r, u, v, w

(* dequeue() *)
LEMMA IntsTail ==
  ASSUME NEW queue, NEW H, Allocated(queue, H), queue # << >>
  PROVE  /\ Ints(Tail(queue), H) = Tail(Ints(queue, H)) /\ Ints(queue, H) # << >>
         /\ Head(Ints(queue, H)) = H[Head(queue)]
<1> DEFINE r == Tail(queue)
           u == Ints(queue, H)
           v == Ints(r, H)
           n == Len(queue)
           w == Tail(u)
<1>1. /\ r \in Seq(Pointers) /\ Len(r) = n - 1 /\ n \in Nat \ {0} /\ queue[1] = Head(queue)
      /\ \A k \in 1 .. (n - 1) : r[k] = queue[k + 1] /\ k + 1 \in DOMAIN queue
      /\ DOMAIN queue = 1 .. n
  BY DEF Allocated
<1> HIDE DEF r, n
<1>2. u \in Seq(Nat) /\ Len(u) = n /\ \A k \in 1 .. n : u[k] = H[queue[k]]
  BY Zenon, IntsType DEF n
<1>3. Allocated(r, H)
  BY <1>1 DEF Allocated
<1>4. v \in Seq(Nat) /\ Len(v) = n - 1 /\ \A k \in 1 .. (n - 1) : v[k] = H[r[k]]
  <2>1. v \in Seq(Nat) /\ Len(v) = Len(r) /\ \A k \in 1 .. Len(r) : v[k] = H[r[k]]
    BY Zenon, <1>3, IntsType
  <2> HIDE DEF v
  <2> QED BY <1>1, <2>1
<1> HIDE DEF u, v
<1>5. u # << >> /\ Head(u) = u[1] /\ 1 \in 1 .. n
  BY <1>1, <1>2
<1>6. w \in Seq(Nat) /\ Len(w) = n - 1 /\ \A k \in 1 .. (n - 1) : w[k] = u[k + 1]
  BY <1>1, <1>2, <1>5
<1> HIDE DEF w
<1>7. ASSUME NEW k \in 1 .. (n - 1) PROVE v[k] = w[k]
  <2>1. k + 1 \in 1 .. n
    BY <1>1
  <2>2. v[k] = H[r[k]] /\ r[k] = queue[k + 1]
    BY Zenon, <1>1, <1>4
  <2>3. w[k] = u[k + 1] /\ u[k + 1] = H[queue[k + 1]]
    BY Zenon, <1>2, <1>6, <2>1
  <2> QED BY Zenon, <2>2, <2>3
<1>8. v = w
  BY <1>1, <1>4, <1>6, <1>7
<1>9. Head(u) = H[Head(queue)]
  BY Zenon, <1>1, <1>2, <1>5
<1> QED BY Zenon, <1>5, <1>8, <1>9 DEF r, u, v, w

-----------------------------------------------------------------------------
(* The names of the threads and of their local variables. *)
LEMMA NetNames ==
  /\ Threads = {"suc1", "suc2", "tms1", "tms2", "mrg", "cons"}
  /\ Streams = {"suc1", "suc2", "tms1", "tms2", "mrg"}
  /\ Successors = {"suc1", "suc2"}
  /\ TimesThreads = {"tms1", "tms2"}
  /\ LocalVariables = {"suc1", "suc2", "tms1", "tms2", "a", "b", "cons"}
BY ProdConsAssumption DEF Successors, TimesThreads, LocalVariables

(* The tokens in the local variables, spelled out. *)
LocalsAre ==
  /\ \A x \in Successors : Local(x) = IF Unsent(x) THEN val[x] ELSE NULL
  /\ \A x \in TimesThreads :
       Local(x) = IF Unsent(x) \/ (loc[x] = "put" /\ Received(x)) THEN val[x] ELSE NULL
  /\ Local("cons") = IF loc["cons"] = "free" /\ Received("cons") THEN val["cons"] ELSE NULL

MergeLocalsAre ==
  /\ loc["mrg"] = "get_a_first" => Local("a") = NULL
  /\ loc["mrg"] \in {"get_b_first", "got_a"} =>
       Local("a") = IF Received("mrg") THEN val["mrg"] ELSE NULL
  /\ loc["mrg"] \in {"got_b", "get_b"} => Local("a") = a
  /\ loc["mrg"] = "get_a" => Local("a") = IF Unsent("mrg") THEN a ELSE NULL
  /\ loc["mrg"] \in {"get_a_first", "get_b_first"} => Local("b") = NULL
  /\ loc["mrg"] = "got_b" => Local("b") = IF Received("mrg") THEN val["mrg"] ELSE NULL
  /\ loc["mrg"] \in {"got_a", "get_a"} => Local("b") = b
  /\ loc["mrg"] = "get_b" => Local("b") = IF Unsent("mrg") THEN b ELSE NULL

(* The local variables of the threads of prod-cons.c, before and after a   *)
(* step.                                                                   *)
LEMMA LocalsFacts == LocalsAre /\ LocalsAre' /\ MergeLocalsAre /\ MergeLocalsAre'
<1>1. LocalsAre
  BY DEF LocalsAre, Local, Successors, TimesThreads
<1>2. LocalsAre'
  BY DEF LocalsAre, Local, Successors, TimesThreads
<1>3. MergeLocalsAre
  BY DEF MergeLocalsAre, Local, TimesThreads
<1>4. MergeLocalsAre'
  BY DEF MergeLocalsAre, Local, TimesThreads
<1> QED BY Zenon, <1>1, <1>2, <1>3, <1>4

(* The thread whose local variable x is. *)
Owner(x) == IF x \in {"a", "b"} THEN "mrg" ELSE x

(* A step that thread u does not notice. *)
Still(u) ==
  /\ pc'[u] = pc[u] /\ arg'[u] = arg[u] /\ val'[u] = val[u] /\ loc'[u] = loc[u] /\ i'[u] = i[u]
  /\ u = "mrg" => a' = a /\ b' = b

(* A thread of prod-cons.c that does not move keeps its place. *)
LEMMA StillControl ==
  ASSUME NEW u, Still(u), ControlOf(u)
  PROVE  ControlOf(u)' /\ (Unsent(u)' <=> Unsent(u)) /\ NextInt(u)' = NextInt(u)
<1>1. (Unsent(u)' <=> Unsent(u)) /\ (Received(u)' <=> Received(u)) /\ NextInt(u)' = NextInt(u)
  BY DEF Still, Unsent, Received, NextInt
<1>2. \A s : InPut(u, s)' <=> InPut(u, s)
  BY DEF Still, InPut
<1>3. \A s : InGet(u, s)' <=> InGet(u, s)
  BY <1>1 DEF Still, InGet
<1>4. u = "mrg" => MergeControl'
  <2> SUFFICES ASSUME u = "mrg" PROVE MergeControl'
    OBVIOUS
  <2>1. MergeControl
    BY DEF ControlOf
  <2> QED BY <2>1, <1>2, <1>3 DEF Still, MergeControl
<1> QED BY <1>1, <1>2, <1>3, <1>4 DEF Still, ControlOf, Supplier

(* A thread of prod-cons.c that does not move keeps its tokens. *)
LEMMA StillLocal ==
  ASSUME NEW x \in LocalVariables, Still(Owner(x)), ControlOf(Owner(x))
  PROVE  Local(x)' = Local(x)
<1> DEFINE u == Owner(x)
<1>1. (Unsent(u)' <=> Unsent(u)) /\ (Received(u)' <=> Received(u))
  BY DEF Still, Unsent, Received
<1>2. CASE x \in Successors \cup TimesThreads \cup {"cons"}
  <2>1. u = x
    BY <1>2, NetNames DEF Owner
  <2> QED BY <1>1, <1>2, <2>1, LocalsFacts DEF Still, LocalsAre
<1>3. CASE x \in {"a", "b"}
  <2>1. u = "mrg"
    BY <1>3 DEF Owner
  <2>2. MergeControl
    BY <2>1 DEF ControlOf
  <2> QED BY <1>1, <1>3, <2>1, <2>2, LocalsFacts DEF Still, MergeLocalsAre, MergeControl
<1> QED BY <1>2, <1>3 DEF LocalVariables

-----------------------------------------------------------------------------
(* Only thread t moves. *)
Only(t) == \A u \in Threads \ {t} : Still(u)

(* The threads in D apart, no successor has counted on, no times thread    *)
(* has come to or gone from the point where its product is under way, and  *)
(* merge has decided nothing.                                              *)
Uncounted(D) ==
  /\ \A s \in Successors \ D : NextInt(s)' = NextInt(s)
  /\ \A t \in TimesThreads \ D : Unsent(t)' <=> Unsent(t)
  /\ "mrg" \notin D => Merging' = Merging

(* What a step of one thread of prod-cons.c leaves to the others. *)
LEMMA OnlyKeeps ==
  ASSUME NEW t \in Threads, Only(t), Control
  PROVE  /\ ControlOf(t)' => Control'
         /\ \A x \in LocalVariables : Owner(x) # t => Local(x)' = Local(x)
         /\ Uncounted({t})
<1>1. ASSUME NEW u \in Threads \ {t}
      PROVE  ControlOf(u)' /\ (Unsent(u)' <=> Unsent(u)) /\ NextInt(u)' = NextInt(u)
  BY Zenon, StillControl DEF Only, Control
<1>2. ASSUME NEW x \in LocalVariables, Owner(x) # t PROVE Local(x)' = Local(x)
  <2>1. Owner(x) \in Threads \ {t}
    BY <1>2, NetNames DEF Owner
  <2> QED BY Zenon, <2>1, StillLocal DEF Only, Control
<1>3. Uncounted({t})
  <2>1. Successors \subseteq Threads /\ TimesThreads \subseteq Threads
    BY NetNames
  <2>2. "mrg" \notin {t} => Merging' = Merging
    <3> SUFFICES ASSUME "mrg" # t PROVE Merging' = Merging
      BY Zenon
    <3>1. Still("mrg") /\ (Unsent("mrg")' <=> Unsent("mrg"))
      BY Zenon, <1>1, NetNames DEF Only
    <3> QED BY <3>1 DEF Still, Merging
  <2> QED BY Zenon, <1>1, <2>1, <2>2 DEF Uncounted
<1>4. ASSUME ControlOf(t)' PROVE Control'
  BY Zenon, <1>1, <1>4 DEF Control
<1> QED BY Zenon, <1>2, <1>3, <1>4

(* A step that moves no token. *)
Quiet ==
  /\ Locals' = Locals /\ buffer' = buffer /\ heap' = heap /\ consumed' = consumed
  /\ Uncounted({})

(* A step of prod-cons.c is quiet when it is quiet for the thread that     *)
(* moves.                                                                  *)
LEMMA QuietStep ==
  ASSUME NEW t \in Threads, Only(t), Control, ControlOf(t)',
         UNCHANGED <<buffer, heap, consumed>>,
         \A x \in LocalVariables : Owner(x) = t => Local(x)' = Local(x),
         Unsent(t)' <=> Unsent(t), t \in Successors => NextInt(t)' = NextInt(t),
         t = "mrg" => Merging' = Merging
  PROVE  Quiet /\ Control'
<1>1. \A x \in LocalVariables : Local(x)' = Local(x)
  BY Zenon, OnlyKeeps
<1>2. Locals' = Locals
  BY Zenon, <1>1 DEF Locals
<1>3. Uncounted({})
  BY Zenon, OnlyKeeps DEF Uncounted
<1> QED BY Zenon, <1>2, <1>3, OnlyKeeps DEF Quiet

(* down(mutex), up(mutex) and up(full) in put(), and what follows down of  *)
(* a semaphore in get().                                                   *)
PutHops == {<<"put_down_mutex", "put_enqueue">>, <<"put_up_mutex", "put_up_full">>,
            <<"put_up_full", "idle">>}
GetHops == {<<"get_down_mutex", "get_dequeue">>, <<"get_up_mutex", "get_up_empty">>,
            <<"get_up_empty", "idle">>}

(* The thread goes on inside put() without a queue operation. *)
LEMMA PutHop ==
  ASSUME NEW t \in Threads, Only(t), Control, <<pc[t], pc'[t]>> \in PutHops,
         UNCHANGED <<buffer, arg, val, netVars>>
  PROVE  Quiet /\ Control'
<1>1. /\ pc[t] # "idle" /\ (Unsent(t)' <=> Unsent(t))
      /\ \A s : ~InGet(t, s) /\ (InPut(t, s) => InPut(t, s)')
  BY DEF PutHops, Unsent, InGet, InPut, PutLocations, GetLocations
<1>2. /\ arg' = arg /\ val' = val /\ loc' = loc /\ i' = i /\ a' = a /\ b' = b
      /\ buffer' = buffer /\ heap' = heap /\ consumed' = consumed
  BY DEF netVars
<1>3. ControlOf(t)
  BY DEF Control
<1>4. ControlOf(t)'
  BY <1>1, <1>2, <1>3 DEF ControlOf, MergeControl
<1>5. ASSUME NEW x \in LocalVariables, Owner(x) = t PROVE Local(x)' = Local(x)
  <2>1. CASE x \in {"a", "b"}
    <3>1. t = "mrg" /\ MergeControl
      BY <1>3, <1>5, <2>1 DEF Owner, ControlOf
    <3> QED BY <1>1, <1>2, <2>1, <3>1, LocalsFacts DEF MergeLocalsAre, MergeControl
  <2>2. CASE x \notin {"a", "b"}
    <3>1. t = x /\ x \in Successors \cup TimesThreads \cup {"cons"}
      BY <1>5, <2>2, NetNames DEF Owner
    <3> QED BY <1>1, <1>2, <1>3, <3>1, LocalsFacts DEF LocalsAre, ControlOf
  <2> QED BY <2>1, <2>2
<1>6. NextInt(t)' = NextInt(t) /\ (t = "mrg" => Merging' = Merging)
  BY <1>1, <1>2 DEF NextInt, Merging
<1> QED BY Zenon, <1>1, <1>2, <1>4, <1>5, <1>6, QuietStep

(* The thread goes on inside get() without a queue operation. *)
LEMMA GetHop ==
  ASSUME NEW t \in Threads, Only(t), Control, <<pc[t], pc'[t]>> \in GetHops,
         UNCHANGED <<buffer, arg, val, netVars>>
  PROVE  Quiet /\ Control'
<1>1. /\ pc[t] # "idle" /\ (Unsent(t)' <=> Unsent(t)) /\ (Received(t)' <=> Received(t)) /\ ~Unsent(t)
      /\ \A s : ~InPut(t, s)
  BY DEF GetHops, Unsent, Received, InPut, PutLocations, GetLocations
<1>2. /\ arg' = arg /\ val' = val /\ loc' = loc /\ i' = i /\ a' = a /\ b' = b
      /\ buffer' = buffer /\ heap' = heap /\ consumed' = consumed
  BY DEF netVars
<1>3. ControlOf(t)
  BY DEF Control
<1>4. ControlOf(t)'
  <2>1. \A s : InGet(t, s) => InGet(t, s)'
    BY <1>1, <1>2 DEF InGet, GetHops, GetLocations
  <2> QED BY <1>1, <1>2, <1>3, <2>1 DEF ControlOf, MergeControl, Supplier
<1>5. ASSUME NEW x \in LocalVariables, Owner(x) = t PROVE Local(x)' = Local(x)
  <2>1. CASE x \in {"a", "b"}
    <3>1. t = "mrg" /\ MergeControl
      BY <1>3, <1>5, <2>1 DEF Owner, ControlOf
    <3> QED BY <1>1, <1>2, <2>1, <3>1, LocalsFacts DEF MergeLocalsAre, MergeControl
  <2>2. CASE x \notin {"a", "b"}
    <3>1. t = x /\ x \in Successors \cup TimesThreads \cup {"cons"}
      BY <1>5, <2>2, NetNames DEF Owner
    <3> QED BY <1>1, <1>2, <1>3, <3>1, LocalsFacts DEF LocalsAre, ControlOf
  <2> QED BY <2>1, <2>2
<1>6. NextInt(t)' = NextInt(t) /\ (t = "mrg" => Merging' = Merging)
  BY <1>1, <1>2 DEF NextInt, Merging
<1> QED BY Zenon, <1>1, <1>2, <1>4, <1>5, <1>6, QuietStep

-----------------------------------------------------------------------------
(* The stream that the token in local variable x is put into. *)
Outlet(x) == IF x \in {"a", "b"} THEN "mrg" ELSE x

(* A step in which the token in x goes to a queue. *)
Sends(x) ==
  /\ Local(x) # NULL /\ Locals' = [Locals EXCEPT ![x] = NULL]
  /\ Outlet(x) \in Streams /\ Len(buffer[Outlet(x)]) < BUFFER_SIZE
  /\ buffer' = [buffer EXCEPT ![Outlet(x)] = Append(buffer[Outlet(x)], Local(x))]
  /\ heap' = heap /\ consumed' = consumed
  /\ Uncounted({Owner(x)})
  /\ x \in Successors => NextInt(x)' = NextInt(x) + 1
  /\ x \in TimesThreads => Unsent(x)
  /\ x \in {"a", "b"} => /\ Merging' = "none"
                         /\ Merging = IF x = "a" THEN "get_a" ELSE "get_b"
                         /\ Local("a") # NULL /\ Local("b") # NULL

(* The local variables of prod-cons.c when one of them changes. *)
LEMMA LocalsExcept ==
  ASSUME NEW x \in LocalVariables, NEW v, Local(x)' = v,
         \A y \in LocalVariables \ {x} : Local(y)' = Local(y)
  PROVE  Locals' = [Locals EXCEPT ![x] = v]
BY Zenon DEF Locals

(* enqueue() in put() *)
LEMMA EnqueueSends ==
  ASSUME NEW t \in Threads, StreamsOK, NetTypeOK, Control, Only(t), Enqueue(t), UNCHANGED netVars
  PROVE  Control' /\ \E x \in LocalVariables : x # "cons" /\ Sends(x)
<1>1. /\ pc[t] = "put_enqueue" /\ pc'[t] = "put_up_mutex"
      /\ buffer' = [buffer EXCEPT ![arg[t]] = Append(buffer[arg[t]], val[t])]
      /\ arg' = arg /\ val' = val
  BY DEF Enqueue, At, StreamsOK
<1>2. loc' = loc /\ i' = i /\ a' = a /\ b' = b /\ heap' = heap /\ consumed' = consumed
  BY DEF netVars
<1>3. val[t] \in Pointers /\ arg[t] \in Streams /\ Len(buffer[arg[t]]) < BUFFER_SIZE
  BY <1>1 DEF StreamsOK, PutLocations
<1>4. val[t] # NULL
  BY <1>3, ProdConsAssumption DEF Pointers, Successors
<1>5. /\ Unsent(t) /\ ~Unsent(t)'
      /\ \A s : ~InGet(t, s) /\ (InPut(t, s) => InPut(t, s)' /\ arg[t] = s)
  BY <1>1 DEF Unsent, InGet, InPut, PutLocations, GetLocations
<1>6. ControlOf(t)
  BY Zenon DEF Control
<1>7. ControlOf(t)'
  BY <1>1, <1>2, <1>5, <1>6 DEF ControlOf, MergeControl
<1>8. /\ Control' /\ Uncounted({t})
      /\ \A y \in LocalVariables : Owner(y) # t => Local(y)' = Local(y)
  BY Zenon, <1>7, OnlyKeeps
<1>9. CASE t = "mrg"
  <2>1. MergeControl
    BY Zenon, <1>6, <1>9 DEF ControlOf
  <2>2. PICK x \in {"a", "b"} : loc["mrg"] = IF x = "a" THEN "get_a" ELSE "get_b"
    BY <1>5, <1>9, <2>1, <1>1 DEF MergeControl
  <2>3. /\ arg[t] = "mrg" /\ a # NULL /\ b # NULL
        /\ val[t] = IF x = "a" THEN a ELSE b
    BY <1>1, <1>4, <1>5, <1>9, <2>1, <2>2 DEF MergeControl
  <2>4. /\ Local(x) = val[t] /\ Local("a") = a /\ Local("b") = b /\ Local(x)' = NULL
        /\ \A y \in {"a", "b"} : y # x => Local(y)' = Local(y)
    BY <1>1, <1>2, <1>5, <1>9, <2>2, <2>3, LocalsFacts DEF MergeLocalsAre
  <2>5. x \in LocalVariables /\ x # "cons" /\ Outlet(x) = "mrg" /\ Owner(x) = t
        /\ x \notin Successors /\ x \notin TimesThreads
        /\ \A y \in LocalVariables : Owner(y) = t => y \in {"a", "b"}
    BY <1>9, NetNames DEF Outlet, Owner
  <2>6. \A y \in LocalVariables \ {x} : Local(y)' = Local(y)
    BY Zenon, <1>8, <2>4, <2>5
  <2>7. Locals' = [Locals EXCEPT ![x] = NULL]
    BY Zenon, <2>4, <2>5, <2>6, LocalsExcept
  <2>8. Merging = (IF x = "a" THEN "get_a" ELSE "get_b") /\ Merging' = "none"
    BY <1>5, <1>9, <2>2 DEF Merging
  <2>9. Sends(x)
    BY Zenon, <1>1, <1>2, <1>3, <1>4, <1>8, <2>3, <2>4, <2>5, <2>7, <2>8 DEF Sends
  <2> QED BY Zenon, <1>8, <2>5, <2>9
<1>10. CASE t \in Successors \cup TimesThreads
  <2>1. arg[t] = t /\ (t \in TimesThreads => loc[t] = "get")
    BY <1>5, <1>6, <1>10 DEF ControlOf
  <2>2. Local(t) = val[t] /\ Local(t)' = NULL
    BY <1>1, <1>2, <1>5, <1>10, <2>1, NetNames, LocalsFacts DEF LocalsAre
  <2>3. t \in LocalVariables /\ t \notin {"a", "b", "cons"} /\ Outlet(t) = t /\ Owner(t) = t
        /\ \A y \in LocalVariables : Owner(y) = t => y = t
    BY <1>10, NetNames DEF Outlet, Owner
  <2>4. \A y \in LocalVariables \ {t} : Local(y)' = Local(y)
    BY Zenon, <1>8, <2>3
  <2>5. Locals' = [Locals EXCEPT ![t] = NULL]
    BY Zenon, <2>2, <2>3, <2>4, LocalsExcept
  <2>6. NextInt(t)' = NextInt(t) + 1
    BY <1>2, <1>5 DEF NextInt, NetTypeOK
  <2>7. Sends(t)
    BY Zenon, <1>1, <1>2, <1>3, <1>4, <1>5, <1>8, <2>1, <2>2, <2>3, <2>5, <2>6 DEF Sends
  <2> QED BY Zenon, <1>8, <2>3, <2>7
<1>11. CASE t = "cons"
  BY <1>1, <1>5, <1>6, <1>11 DEF ControlOf
<1> QED BY <1>9, <1>10, <1>11, NetNames

-----------------------------------------------------------------------------
(* The stream that local variable x is filled from. *)
Inlet(x) == CASE x \in TimesThreads -> Supplier(x)
              [] x = "a" -> "tms2"
              [] x = "b" -> "tms1"
              [] OTHER -> "mrg"

(* A step in which the oldest token of a queue gets into x. *)
Receives(x) ==
  /\ Local(x) = NULL /\ Locals' = [Locals EXCEPT ![x] = Head(buffer[Inlet(x)])]
  /\ Inlet(x) \in Streams /\ buffer[Inlet(x)] # << >>
  /\ buffer' = [buffer EXCEPT ![Inlet(x)] = Tail(buffer[Inlet(x)])]
  /\ heap' = heap /\ consumed' = consumed
  /\ x \notin Successors
  /\ Uncounted({})
  /\ x \in TimesThreads => ~Unsent(x)
  /\ x \in {"a", "b"} => Merging = "none"
  /\ x = "b" => Local("a") # NULL
  /\ x = "cons" => Len(consumed) < ConsumerLimit

(* dequeue() in get() *)
LEMMA DequeueReceives ==
  ASSUME NEW t \in Threads, StreamsOK, NetTypeOK, Control, Only(t), Dequeue(t), UNCHANGED netVars
  PROVE  Control' /\ \E x \in LocalVariables : Receives(x)
<1>1. /\ pc[t] = "get_dequeue" /\ pc'[t] = "get_up_mutex"
      /\ arg' = arg /\ arg[t] \in Streams
  BY DEF Dequeue, At, StreamsOK
<1>2. loc' = loc /\ i' = i /\ a' = a /\ b' = b /\ heap' = heap /\ consumed' = consumed
  BY DEF netVars
<1>3. buffer[arg[t]] # << >>
  BY <1>1 DEF StreamsOK
<1>4. /\ val'[t] = Head(buffer[arg[t]])
      /\ buffer' = [buffer EXCEPT ![arg[t]] = Tail(buffer[arg[t]])]
  BY <1>3 DEF Dequeue, StreamsOK
<1>5. val'[t] \in Pointers
  <2>1. buffer[arg[t]] \in Seq(Pointers)
    BY <1>1 DEF StreamsOK
  <2> QED BY <2>1, <1>3, <1>4
<1>6. val'[t] # NULL
  BY <1>5, ProdConsAssumption DEF Pointers, Successors
<1>7. /\ ~Unsent(t) /\ ~Unsent(t)' /\ ~Received(t) /\ Received(t)' /\ pc[t] # "idle"
      /\ \A s : ~InPut(t, s)
      /\ \A s : InGet(t, s) => InGet(t, s)' /\ arg[t] = s
  BY <1>1, <1>6 DEF Unsent, Received, InGet, InPut, PutLocations, GetLocations
<1>8. ControlOf(t)
  BY Zenon DEF Control
<1>9. ControlOf(t)'
  BY Zenon, <1>2, <1>7, <1>8 DEF ControlOf, MergeControl, Supplier
<1>10. /\ Control' /\ Uncounted({t})
       /\ \A y \in LocalVariables : Owner(y) # t => Local(y)' = Local(y)
  BY Zenon, <1>9, OnlyKeeps
<1>11. NextInt(t)' = NextInt(t) /\ (t = "mrg" => Merging = "none" /\ Merging' = "none")
  BY <1>2, <1>7 DEF NextInt, Merging
<1>12. Uncounted({})
  BY Zenon, <1>7, <1>10, <1>11 DEF Uncounted
<1>13. CASE t = "mrg"
  <2>1. MergeControl
    BY Zenon, <1>8, <1>13 DEF ControlOf
  <2>2. PICK x \in {"a", "b"} : /\ arg[t] = IF x = "a" THEN "tms2" ELSE "tms1"
                                /\ Local(x) = NULL /\ Local(x)' = val'[t]
                                /\ x = "b" => Local("a") # NULL
                                /\ \A y \in {"a", "b"} : y # x => Local(y)' = Local(y)
    <3>1. CASE loc["mrg"] \in {"get_b_first", "got_a"}
      <4>1. arg[t] = "tms2"
        BY <1>7, <1>13, <2>1, <3>1 DEF MergeControl
      <4>2. /\ Local("a") = NULL /\ Local("a")' = val'[t]
            /\ Local("b")' = Local("b")
        BY <1>2, <1>7, <1>13, <3>1, LocalsFacts DEF MergeLocalsAre
      <4> QED BY Zenon, <4>1, <4>2
    <3>2. CASE loc["mrg"] = "got_b"
      <4>1. arg[t] = "tms1" /\ a # NULL
        BY <1>7, <1>13, <2>1, <3>2 DEF MergeControl
      <4>2. /\ Local("b") = NULL /\ Local("b")' = val'[t]
            /\ Local("a") = a /\ Local("a")' = Local("a")
        BY <1>2, <1>7, <1>13, <3>2, LocalsFacts DEF MergeLocalsAre
      <4> QED BY <4>1, <4>2
    <3> QED BY Zenon, <1>7, <1>13, <2>1, <3>1, <3>2 DEF MergeControl
  <2>3. /\ x \in LocalVariables /\ x # "cons" /\ Inlet(x) = arg[t]
        /\ x \notin Successors /\ x \notin TimesThreads
        /\ \A y \in LocalVariables : Owner(y) = t => y \in {"a", "b"}
    BY <1>13, <2>2, NetNames DEF Inlet, Owner
  <2>4. \A y \in LocalVariables \ {x} : Local(y)' = Local(y)
    BY Zenon, <1>10, <2>2, <2>3
  <2>5. Locals' = [Locals EXCEPT ![x] = Head(buffer[Inlet(x)])]
    BY Zenon, <1>4, <2>2, <2>3, <2>4, LocalsExcept
  <2>6. Receives(x)
    BY Zenon, <1>1, <1>2, <1>3, <1>4, <1>11, <1>12, <1>13, <2>2, <2>3, <2>5 DEF Receives
  <2> QED BY Zenon, <1>10, <2>3, <2>6
<1>14. CASE t \in TimesThreads \cup {"cons"}
  <2>1. /\ Inlet(t) = arg[t] /\ loc[t] = (IF t = "cons" THEN "free" ELSE "put")
        /\ t = "cons" => i[t] < ConsumerLimit
    BY <1>1, <1>7, <1>8, <1>14 DEF Inlet, ControlOf, TimesThreads
  <2>2. Local(t) = NULL /\ Local(t)' = val'[t]
    BY Zenon, <1>2, <1>7, <1>14, <2>1, LocalsFacts DEF LocalsAre, TimesThreads
  <2>3. /\ t \in LocalVariables /\ t \notin {"a", "b"} /\ t \notin Successors
        /\ \A y \in LocalVariables : Owner(y) = t => y = t
    BY <1>14, NetNames DEF Owner
  <2>4. \A y \in LocalVariables \ {t} : Local(y)' = Local(y)
    BY Zenon, <1>10, <2>3
  <2>5. Locals' = [Locals EXCEPT ![t] = Head(buffer[Inlet(t)])]
    BY Zenon, <1>4, <2>1, <2>2, <2>3, <2>4, LocalsExcept
  <2>6. t = "cons" => Len(consumed) < ConsumerLimit
    BY Zenon, <2>1 DEF NetTypeOK
  <2>7. Receives(t)
    BY Zenon, <1>1, <1>2, <1>3, <1>4, <1>7, <1>12, <2>1, <2>2, <2>3, <2>5, <2>6 DEF Receives
  <2> QED BY Zenon, <1>10, <2>3, <2>7
<1>15. CASE t \in Successors
  BY <1>7, <1>8, <1>15 DEF ControlOf
<1> QED BY <1>13, <1>14, <1>15, NetNames

-----------------------------------------------------------------------------
(* Once init_module() has connected everything, a thread of prod-cons.c    *)
(* finds its input streams.                                                *)
LEMMA WiredInputs ==
  ASSUME Wired, wires = << >>
  PROVE  /\ \A t \in TimesThreads : inputs[t][1] = Supplier(t)
         /\ inputs["mrg"][1] = "tms2" /\ inputs["mrg"][2] = "tms1"
         /\ inputs["cons"][1] = "mrg"
<1>1. Inputs(<<"suc1">>, <<"suc2">>, <<"tms2", "tms1">>, <<"mrg">>)
  BY DEF Wired, Wiring
<1>2. /\ inputs["tms1"] = <<"suc1">> /\ inputs["tms2"] = <<"suc2">>
      /\ inputs["mrg"] = <<"tms2", "tms1">> /\ inputs["cons"] = <<"mrg">>
  BY Zenon, <1>1 DEF Inputs
<1> QED BY <1>2 DEF TimesThreads, Supplier

(* Thread t calls get(s), or put(s, v), and the others do nothing. *)
Gets(t, s, here, there) ==
  /\ Only(t)
  /\ pc[t] = "idle" /\ pc'[t] = "get_down_mutex" /\ arg'[t] = s /\ val' = val
  /\ loc[t] = here /\ loc'[t] = there /\ buffer' = buffer /\ wires = << >>
Puts(t, s, v, here, there) ==
  /\ Only(t)
  /\ pc[t] = "idle" /\ pc'[t] = "put_down_mutex" /\ arg'[t] = s /\ val'[t] = v
  /\ loc[t] = here /\ loc'[t] = there /\ buffer' = buffer

(* A call of get() by one thread leaves the others alone. *)
LEMMA GetOnly ==
  ASSUME NEW t \in Threads, StreamsOK, NetTypeOK, NEW s, GetDownFull(t, s),
         NEW here, NEW there, Goto(t, here, there), i' = i, t # "mrg" => a' = a /\ b' = b
  PROVE  Gets(t, s, here, there)
<1>1. pc' = [pc EXCEPT ![t] = "get_down_mutex"] /\ arg' = [arg EXCEPT ![t] = s] /\ val' = val
  BY DEF GetDownFull, At
<1>2. loc' = [loc EXCEPT ![t] = there]
  BY DEF Goto
<1>3. ASSUME NEW u \in Threads \ {t} PROVE Still(u)
  BY <1>1, <1>2 DEF Still, StreamsOK, NetTypeOK
<1>4. Only(t)
  BY Zenon, <1>3 DEF Only
<1>5. pc'[t] = "get_down_mutex" /\ arg'[t] = s /\ loc'[t] = there
  BY <1>1, <1>2 DEF StreamsOK, NetTypeOK
<1> QED BY Zenon, <1>1, <1>4, <1>5 DEF Gets, GetDownFull, At, Goto, Loaded

(* A call of put() by one thread leaves the others alone. *)
LEMMA PutOnly ==
  ASSUME NEW t \in Threads, StreamsOK, NetTypeOK, NEW s, NEW v, PutDownEmpty(t, s, v),
         NEW here, NEW there, Goto(t, here, there), \A u \in Threads \ {t} : i'[u] = i[u],
         t # "mrg" => a' = a /\ b' = b
  PROVE  Puts(t, s, v, here, there)
<1>1. pc' = [pc EXCEPT ![t] = "put_down_mutex"] /\ arg' = [arg EXCEPT ![t] = s] /\ val' = [val EXCEPT ![t] = v]
  BY DEF PutDownEmpty, At
<1>2. loc' = [loc EXCEPT ![t] = there]
  BY DEF Goto
<1>3. ASSUME NEW u \in Threads \ {t} PROVE Still(u)
  BY <1>1, <1>2 DEF Still, StreamsOK, NetTypeOK
<1>4. Only(t)
  BY Zenon, <1>3 DEF Only
<1>5. pc'[t] = "put_down_mutex" /\ arg'[t] = s /\ val'[t] = v /\ loc'[t] = there
  BY <1>1, <1>2 DEF StreamsOK, NetTypeOK
<1> QED BY Zenon, <1>4, <1>5 DEF Puts, PutDownEmpty, At, Goto

(* times() calls get(). *)
LEMMA TimesGetQuiet ==
  ASSUME NEW t \in Threads, StreamsOK, NetInv, TimesGet(t)
  PROVE  Quiet /\ Control'
<1>1. /\ t \in TimesThreads /\ t # "mrg" /\ Goto(t, "get", "put") /\ GetDownFull(t, inputs[t][1])
      /\ i' = i /\ a' = a /\ b' = b /\ heap' = heap /\ consumed' = consumed
  BY DEF TimesGet, TimesThreads
<1>2. Only(t) /\ pc[t] = "idle" /\ pc'[t] = "get_down_mutex" /\ arg'[t] = inputs[t][1] /\ val' = val
      /\ loc[t] = "get" /\ loc'[t] = "put" /\ buffer' = buffer /\ wires = << >>
  <2>1. Gets(t, inputs[t][1], "get", "put")
    BY Zenon, <1>1, GetOnly DEF NetInv
  <2> QED BY Zenon, <2>1 DEF Gets
<1>3. inputs[t][1] = Supplier(t)
  BY Zenon, <1>1, <1>2, WiredInputs DEF NetInv
<1>4. ~Unsent(t) /\ ~Unsent(t)' /\ ~Received(t)'
  BY <1>2 DEF Unsent, Received
<1>5. ControlOf(t)'
  BY <1>1, <1>2, <1>3, <1>4 DEF ControlOf, InGet, GetLocations, TimesThreads, Successors, Supplier
<1>6. Local(t) = NULL /\ Local(t)' = NULL
  BY <1>1, <1>2, <1>4, LocalsFacts DEF LocalsAre
<1>7. \A x \in LocalVariables : Owner(x) = t => x = t
  BY <1>1, NetNames DEF Owner
<1>8. t \notin Successors
  BY <1>1, NetNames
<1> QED BY Zenon, <1>1, <1>2, <1>4, <1>5, <1>6, <1>7, <1>8, QuietStep DEF NetInv

(* consumer() calls get(). *)
LEMMA ConsumerGetQuiet ==
  ASSUME StreamsOK, NetInv, ConsumerGet
  PROVE  Quiet /\ Control'
<1> DEFINE t == "cons"
<1>1. /\ t \in Threads /\ t # "mrg" /\ Goto(t, "get", "free") /\ GetDownFull(t, inputs[t][1])
      /\ i' = i /\ a' = a /\ b' = b /\ heap' = heap /\ consumed' = consumed /\ i[t] < ConsumerLimit
  BY NetNames DEF ConsumerGet
<1>2. Only(t) /\ pc[t] = "idle" /\ pc'[t] = "get_down_mutex" /\ arg'[t] = inputs[t][1] /\ val' = val
      /\ loc[t] = "get" /\ loc'[t] = "free" /\ buffer' = buffer /\ wires = << >>
  <2>1. Gets(t, inputs[t][1], "get", "free")
    BY Zenon, <1>1, GetOnly DEF NetInv
  <2> QED BY Zenon, <2>1 DEF Gets
<1>3. inputs[t][1] = "mrg"
  BY Zenon, <1>1, <1>2, WiredInputs DEF NetInv
<1>4. ~Unsent(t) /\ ~Unsent(t)' /\ ~Received(t)'
  BY <1>2 DEF Unsent, Received
<1>5. ControlOf(t)'
  BY <1>1, <1>2, <1>3, <1>4 DEF ControlOf, InGet, GetLocations, TimesThreads, Successors
<1>6. Local(t) = NULL /\ Local(t)' = NULL
  BY <1>1, <1>2, <1>4, LocalsFacts DEF LocalsAre
<1>7. \A x \in LocalVariables : Owner(x) = t => x = t
  BY <1>1, NetNames DEF Owner
<1>8. t \notin Successors
  BY <1>1, NetNames
<1> QED BY Zenon, <1>1, <1>2, <1>4, <1>5, <1>6, <1>7, <1>8, QuietStep DEF NetInv

(* merge() calls get(s1). *)
LEMMA MergeGetAQuiet ==
  ASSUME StreamsOK, NetInv, MergeGetA
  PROVE  Quiet /\ Control'
<1> DEFINE t == "mrg"
<1>1. /\ t \in Threads /\ GetDownFull(t, inputs[t][1])
      /\ i' = i /\ a' = a /\ b' = b /\ heap' = heap /\ consumed' = consumed
  BY NetNames DEF MergeGetA
<1>2. PICK here \in {"get_a_first", "get_a"} :
        Goto(t, here, IF here = "get_a" THEN "got_a" ELSE "get_b_first")
  BY DEF MergeGetA
<1>3. Only(t) /\ pc[t] = "idle" /\ pc'[t] = "get_down_mutex" /\ arg'[t] = inputs[t][1] /\ val' = val
      /\ loc[t] = here /\ loc'[t] = (IF here = "get_a" THEN "got_a" ELSE "get_b_first")
      /\ buffer' = buffer /\ wires = << >>
  <2>1. Gets(t, inputs[t][1], here, IF here = "get_a" THEN "got_a" ELSE "get_b_first")
    BY Zenon, <1>1, <1>2, GetOnly DEF NetInv
  <2> QED BY Zenon, <2>1 DEF Gets
<1>4. inputs[t][1] = "tms2"
  BY Zenon, <1>1, <1>3, WiredInputs DEF NetInv
<1>5. ~Unsent(t) /\ ~Unsent(t)' /\ ~Received(t)'
  BY <1>3 DEF Unsent, Received
<1>6. MergeControl
  BY Zenon, <1>1 DEF NetInv, Control, ControlOf
<1>7. InGet(t, "tms2")'
  BY <1>3, <1>4, <1>5 DEF InGet, GetLocations
<1>8. MergeControl'
  BY <1>1, <1>2, <1>3, <1>6, <1>7 DEF MergeControl
<1>9. ControlOf(t)'
  BY <1>8, NetNames DEF ControlOf
<1>10. Local("a")' = Local("a") /\ Local("b")' = Local("b")
  BY Zenon, <1>1, <1>2, <1>3, <1>5, LocalsFacts DEF MergeLocalsAre
<1>11. t \notin Successors /\ \A x \in LocalVariables : Owner(x) = t => x \in {"a", "b"}
  BY NetNames DEF Owner
<1>12. Merging = "none" /\ Merging' = "none"
  BY <1>5 DEF Merging
<1>13. \A x \in LocalVariables : Owner(x) = t => Local(x)' = Local(x)
  BY Zenon, <1>10, <1>11
<1> QED BY Zenon, <1>1, <1>3, <1>5, <1>9, <1>11, <1>12, <1>13, QuietStep DEF NetInv

(* merge() calls get(s2). *)
LEMMA MergeGetBQuiet ==
  ASSUME StreamsOK, NetInv, MergeGetB
  PROVE  Quiet /\ Control' /\ a' \in {a, val["mrg"]}
<1> DEFINE t == "mrg"
<1>1. /\ t \in Threads /\ GetDownFull(t, inputs[t][2])
      /\ i' = i /\ b' = b /\ heap' = heap /\ consumed' = consumed
  BY NetNames DEF MergeGetB
<1>2. PICK here \in {"get_b_first", "get_b"} :
        Goto(t, here, "got_b") /\ a' = IF here = "get_b" THEN a ELSE val[t]
  BY DEF MergeGetB
<1>3. Only(t) /\ pc[t] = "idle" /\ pc'[t] = "get_down_mutex" /\ arg'[t] = inputs[t][2] /\ val' = val
      /\ loc[t] = here /\ loc'[t] = "got_b" /\ buffer' = buffer /\ wires = << >>
  <2>1. Gets(t, inputs[t][2], here, "got_b")
    BY Zenon, <1>1, <1>2, GetOnly DEF NetInv
  <2> QED BY Zenon, <2>1 DEF Gets
<1>4. inputs[t][2] = "tms1"
  BY Zenon, <1>1, <1>3, WiredInputs DEF NetInv
<1>5. ~Unsent(t) /\ ~Unsent(t)' /\ ~Received(t)' /\ Received(t)
  BY <1>3 DEF Unsent, Received
<1>6. MergeControl
  BY Zenon, <1>1 DEF NetInv, Control, ControlOf
<1>7. InGet(t, "tms1")'
  BY <1>3, <1>4, <1>5 DEF InGet, GetLocations
<1>8. a' # NULL
  BY <1>2, <1>3, <1>5, <1>6 DEF MergeControl, InGet
<1>9. ControlOf(t)'
  BY <1>3, <1>7, <1>8, NetNames DEF ControlOf, MergeControl
<1>10. Local("a")' = Local("a") /\ Local("b")' = Local("b")
  BY Zenon, <1>1, <1>2, <1>3, <1>5, LocalsFacts DEF MergeLocalsAre
<1>11. t \notin Successors /\ \A x \in LocalVariables : Owner(x) = t => x \in {"a", "b"}
  BY NetNames DEF Owner
<1>12. Merging = "none" /\ Merging' = "none"
  BY <1>5 DEF Merging
<1>13. \A x \in LocalVariables : Owner(x) = t => Local(x)' = Local(x)
  BY Zenon, <1>10, <1>11
<1>14. a' \in {a, val["mrg"]}
  BY Zenon, <1>2
<1> QED BY Zenon, <1>1, <1>3, <1>5, <1>9, <1>11, <1>12, <1>13, <1>14, QuietStep DEF NetInv

-----------------------------------------------------------------------------
(* A successor gets a token from vmalloc() and writes its int to it. *)
Allocates(t) ==
  LET p == <<t, i[t]>> IN
  /\ t \in Successors /\ Local(t) = NULL /\ NextInt(t) = i[t]
  /\ Locals' = [Locals EXCEPT ![t] = p]
  /\ heap' = [q \in DOMAIN heap \cup {p} |-> IF q = p THEN i[t] ELSE heap[q]]
  /\ buffer' = buffer /\ consumed' = consumed
  /\ Uncounted({})

(* A times thread multiplies the int of its token. *)
Multiplies(t) ==
  /\ t \in TimesThreads /\ Local(t) # NULL /\ ~Unsent(t) /\ Unsent(t)'
  /\ heap' = [heap EXCEPT ![Local(t)] = heap[Local(t)] * Factor(t)]
  /\ Locals' = Locals /\ buffer' = buffer /\ consumed' = consumed
  /\ Uncounted({t})

(* merge() compares its tokens. *)
Decides ==
  /\ Local("a") # NULL /\ Local("b") # NULL
  /\ \/ Merging' = "get_a" /\ heap[Local("a")] < heap[Local("b")]
     \/ Merging' = "get_b" /\ heap[Local("a")] >= heap[Local("b")]
  /\ Locals' = Locals /\ buffer' = buffer /\ heap' = heap /\ consumed' = consumed
  /\ Uncounted({"mrg"})

(* consumer() prints and frees its token. *)
Frees ==
  LET p == Local("cons") IN
  /\ p # NULL
  /\ Locals' = [Locals EXCEPT !["cons"] = NULL]
  /\ heap' = [q \in DOMAIN heap \ {p} |-> heap[q]]
  /\ consumed' = Append(consumed, heap[p])
  /\ buffer' = buffer
  /\ Uncounted({})

(* successor() *)
LEMMA SuccessorPutAllocates ==
  ASSUME NEW t \in Threads, StreamsOK, NetInv, SuccessorPut(t)
  PROVE  Allocates(t) /\ Control'
<1> DEFINE p == <<t, i[t]>>
<1>1. /\ t \in Successors /\ t # "mrg" /\ Goto(t, "put", "put") /\ PutDownEmpty(t, t, p)
      /\ heap' = [q \in DOMAIN heap \cup {p} |-> IF q = p THEN i[t] ELSE heap[q]]
      /\ i' = [i EXCEPT ![t] = @ + 1] /\ a' = a /\ b' = b /\ consumed' = consumed
  BY DEF SuccessorPut, Successors
<1>2. i[t] \in Nat /\ i'[t] = i[t] + 1 /\ \A u \in Threads \ {t} : i'[u] = i[u]
  BY <1>1 DEF NetInv, NetTypeOK
<1>3. Puts(t, t, p, "put", "put")
  BY Zenon, <1>1, <1>2, PutOnly DEF NetInv
<1>4. /\ Only(t) /\ pc[t] = "idle" /\ pc'[t] = "put_down_mutex" /\ arg'[t] = t /\ val'[t] = p
      /\ loc[t] = "put" /\ loc'[t] = "put" /\ buffer' = buffer
  BY Zenon, <1>3 DEF Puts
<1>5. ~Unsent(t) /\ Unsent(t)'
  BY <1>4 DEF Unsent
<1>6. ControlOf(t)'
  BY Zenon, <1>1, <1>4 DEF ControlOf, InPut, PutLocations, TimesThreads, Successors
<1>7. /\ Control' /\ Uncounted({t})
      /\ \A y \in LocalVariables : Owner(y) # t => Local(y)' = Local(y)
  BY Zenon, <1>4, <1>6, OnlyKeeps DEF NetInv
<1>8. NextInt(t) = i[t] /\ NextInt(t)' = NextInt(t)
  <2>1. NextInt(t) = i[t]
    BY Zenon, <1>5 DEF NextInt
  <2>2. NextInt(t)' = i'[t] - 1
    BY <1>5 DEF NextInt
  <2>3. i'[t] - 1 = i[t]
    BY <1>2
  <2> QED BY Zenon, <2>1, <2>2, <2>3
<1>9. t \in LocalVariables /\ t \notin TimesThreads /\ \A y \in LocalVariables : Owner(y) = t => y = t
  BY <1>1, NetNames DEF Owner
<1>10. Uncounted({})
  BY Zenon, <1>1, <1>7, <1>8, <1>9 DEF Uncounted
<1>11. Local(t) = NULL /\ Local(t)' = p
  BY <1>1, <1>4, <1>5, LocalsFacts DEF LocalsAre
<1>12. \A y \in LocalVariables \ {t} : Local(y)' = Local(y)
  BY Zenon, <1>7, <1>9
<1>13. Locals' = [Locals EXCEPT ![t] = p]
  BY Zenon, <1>9, <1>11, <1>12, LocalsExcept
<1> QED BY Zenon, <1>1, <1>4, <1>7, <1>8, <1>10, <1>11, <1>13 DEF Allocates

(* times() calls put(). *)
LEMMA TimesPutMultiplies ==
  ASSUME NEW t \in Threads, StreamsOK, NetInv, TimesPut(t)
  PROVE  Multiplies(t) /\ Control'
<1>1. /\ t \in TimesThreads /\ t # "mrg" /\ Goto(t, "put", "get") /\ PutDownEmpty(t, t, val[t])
      /\ heap' = [heap EXCEPT ![val[t]] = heap[val[t]] * Factor(t)]
      /\ i' = i /\ a' = a /\ b' = b /\ consumed' = consumed
  BY DEF TimesPut, TimesThreads
<1>2. Puts(t, t, val[t], "put", "get")
  BY Zenon, <1>1, PutOnly DEF NetInv
<1>3. /\ Only(t) /\ pc[t] = "idle" /\ pc'[t] = "put_down_mutex" /\ arg'[t] = t /\ val'[t] = val[t]
      /\ loc[t] = "put" /\ loc'[t] = "get" /\ buffer' = buffer
  BY Zenon, <1>2 DEF Puts
<1>4. ~Unsent(t) /\ Unsent(t)' /\ Received(t)
  BY <1>3 DEF Unsent, Received
<1>5. t \in LocalVariables /\ t \notin Successors /\ \A y \in LocalVariables : Owner(y) = t => y = t
  BY <1>1, NetNames DEF Owner
<1>6. ControlOf(t)'
  BY Zenon, <1>1, <1>3, <1>5 DEF ControlOf, InPut, PutLocations, TimesThreads
<1>7. val[t] # NULL
  BY Zenon, <1>1, <1>3, <1>4 DEF NetInv, Control, ControlOf, InGet
<1>8. Local(t) = val[t] /\ Local(t)' = Local(t)
  BY Zenon, <1>1, <1>3, <1>4, LocalsFacts DEF LocalsAre
<1>9. /\ Control' /\ Uncounted({t})
      /\ \A y \in LocalVariables : Owner(y) # t => Local(y)' = Local(y)
  BY Zenon, <1>3, <1>6, OnlyKeeps DEF NetInv
<1>10. \A y \in LocalVariables : Local(y)' = Local(y)
  BY Zenon, <1>5, <1>8, <1>9
<1>11. Locals' = Locals
  BY Zenon, <1>10 DEF Locals
<1> QED BY Zenon, <1>1, <1>3, <1>4, <1>7, <1>8, <1>9, <1>11 DEF Multiplies

(* merge() calls put(). *)
LEMMA MergePutDecides ==
  ASSUME StreamsOK, NetInv, NEW here \in {"got_a", "got_b"}, MergePut(here)
  PROVE  Decides /\ Control' /\ a' \in {a, val["mrg"]} /\ b' \in {b, val["mrg"]}
<1> DEFINE t == "mrg"
<1>1. /\ t \in Threads /\ i' = i /\ heap' = heap /\ consumed' = consumed
      /\ a' = (IF here = "got_a" THEN val["mrg"] ELSE a)
      /\ b' = (IF here = "got_b" THEN val["mrg"] ELSE b)
  BY Zenon, NetNames DEF MergePut
<1>2. PICK there \in {"get_a", "get_b"} :
        /\ Goto(t, here, there) /\ PutDownEmpty(t, t, IF there = "get_a" THEN a' ELSE b')
        /\ IF there = "get_a" THEN heap[a'] < heap[b'] ELSE heap[a'] >= heap[b']
  BY Zenon DEF MergePut
<1>3. Puts(t, t, IF there = "get_a" THEN a' ELSE b', here, there)
  BY Zenon, <1>1, <1>2, PutOnly DEF NetInv
<1>4. /\ Only(t) /\ pc[t] = "idle" /\ pc'[t] = "put_down_mutex" /\ arg'[t] = t
      /\ val'[t] = (IF there = "get_a" THEN a' ELSE b')
      /\ loc[t] = here /\ loc'[t] = there /\ buffer' = buffer
  BY Zenon, <1>3 DEF Puts
<1>5. ~Unsent(t) /\ Unsent(t)' /\ Received(t)
  BY <1>4 DEF Unsent, Received
<1>6. MergeControl
  BY Zenon, <1>1 DEF NetInv, Control, ControlOf
<1>7. Local("a") = a' /\ Local("b") = b'
  BY Zenon, <1>1, <1>4, <1>5, LocalsFacts DEF MergeLocalsAre
<1>8. a' # NULL /\ b' # NULL
  BY Zenon, <1>1, <1>4, <1>5, <1>6 DEF MergeControl, InGet
<1>9. Local("a")' = a' /\ Local("b")' = b'
  BY Zenon, <1>2, <1>4, <1>5, LocalsFacts DEF MergeLocalsAre
<1>10. InPut(t, t)'
  BY <1>4 DEF InPut, PutLocations
<1>11. ControlOf(t)'
  BY Zenon, <1>2, <1>4, <1>8, <1>10, NetNames DEF ControlOf, MergeControl
<1>12. /\ Control' /\ Uncounted({t})
       /\ \A y \in LocalVariables : Owner(y) # t => Local(y)' = Local(y)
  BY Zenon, <1>1, <1>4, <1>11, OnlyKeeps DEF NetInv
<1>13. \A y \in LocalVariables : Owner(y) = t => y \in {"a", "b"}
  BY NetNames DEF Owner
<1>14. \A y \in LocalVariables : Local(y)' = Local(y)
  BY Zenon, <1>7, <1>9, <1>12, <1>13
<1>15. Locals' = Locals
  BY Zenon, <1>14 DEF Locals
<1>16. Merging' = there
  BY <1>4, <1>5 DEF Merging
<1>17. \/ Merging' = "get_a" /\ heap[Local("a")] < heap[Local("b")]
       \/ Merging' = "get_b" /\ heap[Local("a")] >= heap[Local("b")]
  BY <1>2, <1>7, <1>16
<1>18. Decides
  BY Zenon, <1>1, <1>4, <1>7, <1>8, <1>12, <1>15, <1>17 DEF Decides
<1>19. a' \in {a, val["mrg"]} /\ b' \in {b, val["mrg"]}
  BY Zenon, <1>1
<1> QED BY Zenon, <1>12, <1>18, <1>19

(* consumer() prints and frees. *)
LEMMA ConsumerFreeFrees ==
  ASSUME StreamsOK, NetInv, ConsumerFree
  PROVE  Frees /\ Control'
<1> DEFINE t == "cons"
           p == val["cons"]
<1>1. /\ t \in Threads /\ t # "mrg" /\ pc' = pc /\ arg' = arg /\ val' = val /\ buffer' = buffer
      /\ pc[t] = "idle" /\ loc[t] = "free" /\ loc' = [loc EXCEPT ![t] = "get"]
      /\ i' = [i EXCEPT ![t] = @ + 1] /\ a' = a /\ b' = b
      /\ heap' = [q \in DOMAIN heap \ {p} |-> heap[q]]
      /\ consumed' = Append(consumed, heap[p])
  BY Zenon, NetNames DEF ConsumerFree, Goto, vars
<1>2. ASSUME NEW u \in Threads \ {t} PROVE Still(u)
  BY <1>1 DEF Still, NetInv, NetTypeOK
<1>3. Only(t)
  BY Zenon, <1>2 DEF Only
<1>4. loc'[t] = "get"
  BY <1>1 DEF NetInv, NetTypeOK
<1>5. Received(t)
  BY <1>1 DEF Received
<1>6. t \in LocalVariables /\ t \notin Successors /\ t \notin TimesThreads
      /\ \A y \in LocalVariables : Owner(y) = t => y = t
  BY NetNames DEF Owner
<1>7. ControlOf(t)'
  BY <1>1, <1>4, <1>6 DEF ControlOf
<1>8. p # NULL
  BY <1>1, <1>5 DEF NetInv, Control, ControlOf, InGet
<1>9. Local(t) = p /\ Local(t)' = NULL
  BY <1>1, <1>4, <1>5, LocalsFacts DEF LocalsAre
<1>10. /\ Control' /\ Uncounted({t})
       /\ \A y \in LocalVariables : Owner(y) # t => Local(y)' = Local(y)
  BY Zenon, <1>1, <1>3, <1>7, OnlyKeeps DEF NetInv
<1>11. \A y \in LocalVariables \ {t} : Local(y)' = Local(y)
  BY Zenon, <1>6, <1>10
<1>12. Locals' = [Locals EXCEPT ![t] = NULL]
  BY Zenon, <1>6, <1>9, <1>11, LocalsExcept
<1>13. Uncounted({})
  BY Zenon, <1>6, <1>10 DEF Uncounted
<1>14. Frees
  BY Zenon, <1>1, <1>8, <1>9, <1>12, <1>13 DEF Frees
<1> QED BY Zenon, <1>10, <1>14

-----------------------------------------------------------------------------
(* What a step of the network does to the tokens. *)
Moves ==
  \/ Quiet
  \/ \E x \in LocalVariables : x # "cons" /\ Sends(x)
  \/ \E x \in LocalVariables : Receives(x)
  \/ \E t \in Successors : Allocates(t)
  \/ \E t \in TimesThreads : Multiplies(t)
  \/ Decides
  \/ Frees

(* A step inside put() or get() leaves the other threads alone. *)
LEMMA InsideOnly ==
  ASSUME NEW t \in Threads, StreamsOK, NetTypeOK, InCallStep(t)
  PROVE  Only(t)
<1>1. loc' = loc /\ i' = i /\ a' = a /\ b' = b
  BY DEF InCallStep, netVars
<1>2. arg' = arg /\ \E v : pc' = [pc EXCEPT ![t] = v]
  BY Zenon DEF InCallStep, Inside, DownMutex, Enqueue, Dequeue, UpMutex, PutUpFull, GetUpEmpty,
         PutInterrupted, GetInterrupted, At
<1>3. val' = val \/ \E v : val' = [val EXCEPT ![t] = v]
  BY DEF InCallStep, Inside, DownMutex, Enqueue, Dequeue, UpMutex, PutUpFull, GetUpEmpty,
         PutInterrupted, GetInterrupted
<1>4. ASSUME NEW u \in Threads \ {t} PROVE Still(u)
  BY <1>1, <1>2, <1>3 DEF Still, StreamsOK
<1> QED BY Zenon, <1>4 DEF Only

(* A step inside put() or get(). *)
LEMMA InsideMoves ==
  ASSUME NEW t \in Threads, StreamsOK, NetInv, InCallStep(t)
  PROVE  Moves /\ Control'
<1>1. Only(t) /\ Control /\ NetTypeOK /\ UNCHANGED netVars
  BY Zenon, InsideOnly DEF NetInv, InCallStep
<1>2. CASE Enqueue(t)
  BY Zenon, <1>1, <1>2, EnqueueSends DEF Moves
<1>3. CASE Dequeue(t)
  BY Zenon, <1>1, <1>3, DequeueReceives DEF Moves
<1>4. ASSUME NEW here, NEW there, At(t, here, there),
             <<here, there>> \in PutHops \cup GetHops,
             buffer' = buffer, arg' = arg, val' = val
      PROVE  Moves /\ Control'
  <2>1. <<pc[t], pc'[t]>> \in PutHops \cup GetHops
    BY <1>4 DEF At, StreamsOK
  <2>2. UNCHANGED <<buffer, arg, val, netVars>>
    BY <1>1, <1>4
  <2>3. Quiet /\ Control'
    BY Zenon, <1>1, <2>1, <2>2, PutHop, GetHop
  <2> QED BY Zenon, <2>3 DEF Moves
<1>5. CASE DownMutex(t)
  <2>1. /\ buffer' = buffer /\ arg' = arg /\ val' = val
        /\ At(t, "put_down_mutex", "put_enqueue") \/ At(t, "get_down_mutex", "get_dequeue")
    BY <1>5 DEF DownMutex
  <2>2. /\ <<"put_down_mutex", "put_enqueue">> \in PutHops \cup GetHops
        /\ <<"get_down_mutex", "get_dequeue">> \in PutHops \cup GetHops
    BY DEF PutHops, GetHops
  <2> QED BY Zenon, <1>4, <2>1, <2>2
<1>6. CASE UpMutex(t)
  <2>1. /\ buffer' = buffer /\ arg' = arg /\ val' = val
        /\ At(t, "put_up_mutex", "put_up_full") \/ At(t, "get_up_mutex", "get_up_empty")
    BY <1>6 DEF UpMutex
  <2>2. /\ <<"put_up_mutex", "put_up_full">> \in PutHops \cup GetHops
        /\ <<"get_up_mutex", "get_up_empty">> \in PutHops \cup GetHops
    BY DEF PutHops, GetHops
  <2> QED BY Zenon, <1>4, <2>1, <2>2
<1>7. CASE PutUpFull(t)
  <2>1. buffer' = buffer /\ arg' = arg /\ val' = val /\ At(t, "put_up_full", "idle")
    BY <1>7 DEF PutUpFull
  <2>2. <<"put_up_full", "idle">> \in PutHops \cup GetHops
    BY DEF PutHops, GetHops
  <2> QED BY Zenon, <1>4, <2>1, <2>2
<1>8. CASE GetUpEmpty(t)
  <2>1. buffer' = buffer /\ arg' = arg /\ val' = val /\ At(t, "get_up_empty", "idle")
    BY <1>8 DEF GetUpEmpty
  <2>2. <<"get_up_empty", "idle">> \in PutHops \cup GetHops
    BY DEF PutHops, GetHops
  <2> QED BY Zenon, <1>4, <2>1, <2>2
<1>9. ~PutInterrupted(t) /\ ~GetInterrupted(t)
  BY ProdConsAssumption DEF PutInterrupted, GetInterrupted
<1> QED BY Zenon, <1>2, <1>3, <1>5, <1>6, <1>7, <1>8, <1>9 DEF InCallStep, Inside

(* A step in which no thread of prod-cons.c moves: connect(). *)
LEMMA NoThreadMoves ==
  ASSUME Control, UNCHANGED <<vars, loc, i, a, b, heap, consumed>>
  PROVE  Quiet /\ Control'
<1>1. pc' = pc /\ arg' = arg /\ val' = val /\ buffer' = buffer
  BY DEF vars
<1>2. \A u : Still(u)
  BY Zenon, <1>1 DEF Still
<1>3. Only("cons") /\ "cons" \in Threads
  BY <1>2, NetNames DEF Only
<1>4. ControlOf("cons")' /\ (Unsent("cons")' <=> Unsent("cons"))
  BY Zenon, <1>2, <1>3, StillControl DEF Control
<1>5. \A x \in LocalVariables : Owner(x) = "cons" => Local(x)' = Local(x)
  BY Zenon, <1>2, <1>3, StillLocal DEF Control
<1>6. "cons" \notin Successors /\ "cons" # "mrg"
  BY NetNames
<1> QED BY Zenon, <1>1, <1>3, <1>4, <1>5, <1>6, QuietStep

(* Every step of the network. *)
LEMMA StepMoves ==
  ASSUME StreamsOK, NetInv, [NetNext]_allVars
  PROVE  Moves /\ Control'
<1>1. CASE Connect \/ UNCHANGED allVars
  <2>1. UNCHANGED <<vars, loc, i, a, b, heap, consumed>>
    BY <1>1 DEF Connect, allVars, netVars
  <2> QED BY Zenon, <2>1, NoThreadMoves DEF NetInv, Moves
<1>2. ASSUME NEW t \in Threads, SuccessorPut(t) PROVE Moves /\ Control'
  BY Zenon, <1>2, SuccessorPutAllocates DEF Moves, Allocates
<1>3. ASSUME NEW t \in Threads, TimesGet(t) PROVE Moves /\ Control'
  BY Zenon, <1>3, TimesGetQuiet DEF Moves
<1>4. ASSUME NEW t \in Threads, TimesPut(t) PROVE Moves /\ Control'
  BY Zenon, <1>4, TimesPutMultiplies DEF Moves, Multiplies
<1>5. CASE MergeGetA
  BY Zenon, <1>5, MergeGetAQuiet DEF Moves
<1>6. CASE MergeGetB
  BY Zenon, <1>6, MergeGetBQuiet DEF Moves
<1>7. ASSUME NEW here \in {"got_a", "got_b"}, MergePut(here) PROVE Moves /\ Control'
  BY Zenon, <1>7, MergePutDecides DEF Moves
<1>8. CASE ConsumerGet
  BY Zenon, <1>8, ConsumerGetQuiet DEF Moves
<1>9. CASE ConsumerFree
  BY Zenon, <1>9, ConsumerFreeFrees DEF Moves
<1>10. ASSUME NEW t \in Threads, InCallStep(t) PROVE Moves /\ Control'
  BY Zenon, <1>10, InsideMoves
<1> QED BY Zenon, <1>1, <1>2, <1>3, <1>4, <1>5, <1>6, <1>7, <1>8, <1>9, <1>10 DEF NetNext, ThreadStep

(* A step of put() or get(), on a stream and with a token of the network. *)
StreamNext ==
  \E t \in Threads :
    \/ \E s \in Streams : GetDownFull(t, s) \/ \E v \in Pointers : PutDownEmpty(t, s, v)
    \/ Inside(t)

(* The threads of prod-cons.c pass streams to get(), and streams and       *)
(* pointers to put().                                                      *)
LEMMA StreamStep ==
  ASSUME NetInv, [NetNext]_allVars
  PROVE  [StreamNext]_vars
<1>1. /\ Successors \subseteq Streams /\ TimesThreads \subseteq Streams /\ "mrg" \in Streams
      /\ "mrg" \in Threads /\ "cons" \in Threads /\ Successors \subseteq Threads
      /\ \A t \in TimesThreads : Supplier(t) \in Streams
      /\ "tms1" \in Streams /\ "tms2" \in Streams
  BY NetNames DEF Supplier
<1>2. ASSUME NEW t \in Threads, NEW s \in Streams, GetDownFull(t, s) PROVE StreamNext
  BY Zenon, <1>2 DEF StreamNext
<1>3. ASSUME NEW t \in Threads, NEW s \in Streams, NEW v \in Pointers, PutDownEmpty(t, s, v)
      PROVE  StreamNext
  BY Zenon, <1>3 DEF StreamNext
<1>4. \A p \in DOMAIN heap : p \in Pointers
  BY Zenon DEF NetInv, NetTypeOK
<1>5. CASE Connect \/ UNCHANGED allVars
  BY <1>5 DEF Connect, allVars
<1>6. ASSUME NEW t \in Threads, SuccessorPut(t) PROVE StreamNext
  <2>1. t \in Successors /\ PutDownEmpty(t, t, <<t, i[t]>>)
    BY Zenon, <1>6 DEF SuccessorPut
  <2>2. i[t] \in Nat
    BY DEF NetInv, NetTypeOK
  <2>3. <<t, i[t]>> \in Pointers
    BY Zenon, <2>1, <2>2 DEF Pointers
  <2> QED BY Zenon, <1>1, <1>3, <2>1, <2>3
<1>7. ASSUME NEW t \in Threads, TimesGet(t) PROVE StreamNext
  <2>1. t \in TimesThreads /\ GetDownFull(t, inputs[t][1]) /\ wires = << >>
    BY Zenon, <1>7 DEF TimesGet, Goto, Loaded
  <2>2. inputs[t][1] = Supplier(t)
    BY Zenon, <2>1, WiredInputs DEF NetInv
  <2> QED BY Zenon, <1>1, <1>2, <2>1, <2>2
<1>8. ASSUME NEW t \in Threads, TimesPut(t) PROVE StreamNext
  <2>1. t \in TimesThreads /\ PutDownEmpty(t, t, val[t]) /\ val[t] \in DOMAIN heap
    BY Zenon, <1>8 DEF TimesPut
  <2> QED BY Zenon, <1>1, <1>3, <1>4, <2>1
<1>9. CASE MergeGetA
  <2>1. GetDownFull("mrg", inputs["mrg"][1]) /\ wires = << >>
    BY Zenon, <1>9 DEF MergeGetA, Goto, Loaded
  <2>2. inputs["mrg"][1] = "tms2"
    BY Zenon, <2>1, WiredInputs DEF NetInv
  <2> QED BY Zenon, <1>1, <1>2, <2>1, <2>2
<1>10. CASE MergeGetB
  <2>1. GetDownFull("mrg", inputs["mrg"][2]) /\ wires = << >>
    BY Zenon, <1>10 DEF MergeGetB, Goto, Loaded
  <2>2. inputs["mrg"][2] = "tms1"
    BY Zenon, <2>1, WiredInputs DEF NetInv
  <2> QED BY Zenon, <1>1, <1>2, <2>1, <2>2
<1>11. ASSUME NEW here \in {"got_a", "got_b"}, MergePut(here) PROVE StreamNext
  <2>1. /\ PutDownEmpty("mrg", "mrg", a') \/ PutDownEmpty("mrg", "mrg", b')
        /\ a' \in DOMAIN heap /\ b' \in DOMAIN heap
    BY <1>11 DEF MergePut
  <2> QED BY Zenon, <1>1, <1>3, <1>4, <2>1
<1>12. CASE ConsumerGet
  <2>1. GetDownFull("cons", inputs["cons"][1]) /\ wires = << >>
    BY Zenon, <1>12 DEF ConsumerGet, Goto, Loaded
  <2>2. inputs["cons"][1] = "mrg"
    BY Zenon, <2>1, WiredInputs DEF NetInv
  <2> QED BY Zenon, <1>1, <1>2, <2>1, <2>2
<1>13. CASE ConsumerFree
  BY Zenon, <1>13 DEF ConsumerFree
<1>14. ASSUME NEW t \in Threads, InCallStep(t) PROVE StreamNext
  BY Zenon, <1>14 DEF InCallStep, StreamNext
<1> QED BY Zenon, <1>5, <1>6, <1>7, <1>8, <1>9, <1>10, <1>11, <1>12, <1>13, <1>14 DEF NetNext, ThreadStep

-----------------------------------------------------------------------------
(* Local variables of prod-cons.c hold pointers. *)
LEMMA LocalsType ==
  ASSUME StreamsOK, NetTypeOK, Control
  PROVE  Locals \in [LocalVariables -> Pointers \cup {NULL}]
<1>1. \A t \in Threads : val[t] \in Pointers \cup {NULL}
  BY DEF StreamsOK
<1>2. a \in Pointers \cup {NULL} /\ b \in Pointers \cup {NULL} /\ NULL \in Pointers \cup {NULL}
  BY DEF NetTypeOK
<1>3. \A x \in Successors \cup TimesThreads \cup {"cons"} : Local(x) \in Pointers \cup {NULL}
  BY <1>1, <1>2, NetNames, LocalsFacts DEF LocalsAre
<1>4. MergeControl /\ "mrg" \in Threads
  BY NetNames DEF Control, ControlOf
<1>5. Local("a") \in Pointers \cup {NULL} /\ Local("b") \in Pointers \cup {NULL}
  BY <1>1, <1>2, <1>4, LocalsFacts DEF MergeLocalsAre, MergeControl
<1>6. ASSUME NEW x \in LocalVariables PROVE Local(x) \in Pointers \cup {NULL}
  BY <1>3, <1>5 DEF LocalVariables
<1> QED BY Zenon, <1>6 DEF Locals

(* When merge() is about to put one of its tokens, it has both. *)
LEMMA MergingHolds ==
  ASSUME StreamsOK, Control, Merging \in {"get_a", "get_b"}
  PROVE  Local("a") # NULL /\ Local("b") # NULL
<1>1. Unsent("mrg") /\ loc["mrg"] = Merging
  BY DEF Merging
<1>2. "mrg" \in Threads /\ pc["mrg"] \in PutLocations /\ pc["mrg"] # "idle"
  BY <1>1, NetNames DEF Unsent, PutLocations
<1>3. val["mrg"] # NULL
  BY <1>2, ProdConsAssumption DEF StreamsOK, Pointers, Successors
<1>4. MergeControl
  BY <1>2 DEF Control, ControlOf
<1> QED BY <1>1, <1>2, <1>3, <1>4, LocalsFacts DEF MergeLocalsAre, MergeControl

(* NULL is no token. *)
LEMMA NullNotAllocated ==
  ASSUME NetTypeOK
  PROVE  NULL \notin Pointers /\ NULL \notin DOMAIN heap
BY ProdConsAssumption DEF NetTypeOK, Pointers, Successors

(* What vmalloc() returns is not allocated already. *)
LEMMA FreshToken ==
  ASSUME NetTypeOK, NEW t \in Successors
  PROVE  /\ <<t, i[t]>> \notin DOMAIN heap /\ <<t, i[t]>> # NULL /\ <<t, i[t]>> \in Pointers
         /\ i[t] \in Nat
<1>1. i[t] \in Nat
  BY NetNames DEF NetTypeOK
<1>2. <<t, i[t]>> \in Pointers
  BY <1>1 DEF Pointers
<1>3. <<t, i[t]>> \notin DOMAIN heap
  <2> SUFFICES ASSUME <<t, i[t]>> \in DOMAIN heap PROVE FALSE
    OBVIOUS
  <2>1. <<t, i[t]>>[2] < i[<<t, i[t]>>[1]]
    BY Zenon DEF NetTypeOK
  <2> QED BY <1>1, <2>1
<1> QED BY Zenon, <1>1, <1>2, <1>3, NullNotAllocated

(* Every token keeps exactly one owner. *)
LEMMA OwnerStep ==
  ASSUME StreamsOK, NetInv, Moves
  PROVE  OwnerInv'
<1> DEFINE L == Locals
           D == DOMAIN heap
<1>1. L \in [LocalVariables -> Pointers \cup {NULL}]
  BY Zenon, LocalsType DEF NetInv
<1>2. buffer \in [Streams -> Seq(Pointers)] /\ NULL \notin D /\ Owned(L, buffer, D)
  BY Zenon, NullNotAllocated DEF StreamsOK, NetInv, OwnerInv
<1>3. \A x \in LocalVariables : L[x] = Local(x)
  BY Zenon DEF Locals
<1> SUFFICES Owned(Locals', buffer', DOMAIN heap')
  BY Zenon DEF OwnerInv
<1>4. CASE Quiet \/ Decides
  BY Zenon, <1>2, <1>4 DEF Quiet, Decides
<1>5. ASSUME NEW x \in LocalVariables, Sends(x) PROVE Owned(Locals', buffer', DOMAIN heap')
  <2>1. /\ L[x] # NULL /\ Outlet(x) \in Streams /\ Locals' = [L EXCEPT ![x] = NULL]
        /\ buffer' = [buffer EXCEPT ![Outlet(x)] = Append(buffer[Outlet(x)], L[x])] /\ heap' = heap
    BY Zenon, <1>3, <1>5 DEF Sends
  <2> HIDE DEF L, D
  <2>2. Owned([L EXCEPT ![x] = NULL], [buffer EXCEPT ![Outlet(x)] = Append(buffer[Outlet(x)], L[x])], D)
    BY Zenon, <1>1, <1>2, <2>1, OwnedEnqueue
  <2> QED BY Zenon, <2>1, <2>2 DEF D
<1>6. ASSUME NEW x \in LocalVariables, Receives(x) PROVE Owned(Locals', buffer', DOMAIN heap')
  <2>1. /\ L[x] = NULL /\ Inlet(x) \in Streams /\ buffer[Inlet(x)] # << >>
        /\ Locals' = [L EXCEPT ![x] = Head(buffer[Inlet(x)])]
        /\ buffer' = [buffer EXCEPT ![Inlet(x)] = Tail(buffer[Inlet(x)])] /\ heap' = heap
    BY Zenon, <1>3, <1>6 DEF Receives
  <2> HIDE DEF L, D
  <2>2. Owned([L EXCEPT ![x] = Head(buffer[Inlet(x)])], [buffer EXCEPT ![Inlet(x)] = Tail(buffer[Inlet(x)])], D)
    BY Zenon, <1>1, <1>2, <2>1, OwnedDequeue
  <2> QED BY Zenon, <2>1, <2>2 DEF D
<1>7. ASSUME NEW t \in Successors, Allocates(t) PROVE Owned(Locals', buffer', DOMAIN heap')
  <2> DEFINE p == <<t, i[t]>>
  <2>1. t \in LocalVariables
    BY NetNames
  <2>2. p \notin D /\ p # NULL
    BY Zenon, FreshToken DEF NetInv
  <2>3. /\ L[t] = NULL /\ Locals' = [L EXCEPT ![t] = p] /\ buffer' = buffer
        /\ DOMAIN heap' = D \cup {p}
    BY Zenon, <1>3, <1>7, <2>1 DEF Allocates
  <2> HIDE DEF L, D, p
  <2>4. Owned([L EXCEPT ![t] = p], buffer, D \cup {p})
    BY Zenon, <1>1, <1>2, <2>1, <2>2, <2>3, OwnedAlloc
  <2> QED BY Zenon, <2>3, <2>4
<1>8. ASSUME NEW t \in TimesThreads, Multiplies(t) PROVE Owned(Locals', buffer', DOMAIN heap')
  <2>1. Locals' = L /\ buffer' = buffer /\ DOMAIN heap' = D
    BY Zenon, <1>8 DEF Multiplies
  <2> QED BY Zenon, <1>2, <2>1
<1>9. CASE Frees
  <2>1. "cons" \in LocalVariables
    BY NetNames
  <2>2. /\ L["cons"] # NULL /\ Locals' = [L EXCEPT !["cons"] = NULL] /\ buffer' = buffer
        /\ DOMAIN heap' = D \ {L["cons"]}
    BY Zenon, <1>3, <1>9, <2>1 DEF Frees
  <2> HIDE DEF L, D
  <2>3. Owned([L EXCEPT !["cons"] = NULL], buffer, D \ {L["cons"]})
    BY Zenon, <1>1, <1>2, <2>1, <2>2, OwnedFree
  <2> QED BY Zenon, <2>2, <2>3
<1> QED BY Zenon, <1>4, <1>5, <1>6, <1>7, <1>8, <1>9 DEF Moves

(* The pointers that the threads of prod-cons.c dereference next are in    *)
(* their variables.                                                        *)
LEMMA DereferencedAllocated ==
  ASSUME NetInv, NEW t \in Threads
  PROVE  Dereferenced(t) \subseteq DOMAIN heap
<1> SUFFICES ASSUME pc[t] = "idle" PROVE Dereferenced(t) \subseteq DOMAIN heap
  BY DEF Dereferenced
<1>1. \A x \in LocalVariables : Local(x) # NULL => Local(x) \in DOMAIN heap
  BY Zenon DEF NetInv, OwnerInv, Owned, Locals
<1>2. ControlOf(t)
  BY Zenon DEF NetInv, Control
<1>3. Received(t) /\ ~Unsent(t)
  BY DEF Received, Unsent
<1>4. \A s : InGet(t, s) => val[t] # NULL
  BY Zenon, <1>3 DEF InGet
<1>5. "a" \in LocalVariables /\ "b" \in LocalVariables /\ "cons" \in LocalVariables
      /\ TimesThreads \subseteq LocalVariables
  BY NetNames
<1>6. CASE t \in Successors
  <2>1. loc[t] = "put" /\ t \notin TimesThreads
    BY <1>2, <1>6, NetNames DEF ControlOf
  <2> QED BY <2>1 DEF Dereferenced
<1>7. CASE t \in TimesThreads
  <2>1. loc[t] = "get" \/ (loc[t] = "put" /\ val[t] # NULL)
    BY Zenon, <1>2, <1>4, <1>7 DEF ControlOf
  <2>2. CASE loc[t] = "get"
    BY <2>2 DEF Dereferenced
  <2>3. CASE loc[t] = "put" /\ val[t] # NULL
    <3>1. Local(t) = val[t]
      BY Zenon, <1>3, <1>7, <2>3, LocalsFacts DEF LocalsAre
    <3>2. val[t] \in DOMAIN heap
      BY Zenon, <1>1, <1>5, <1>7, <2>3, <3>1
    <3> QED BY <1>7, <2>3, <3>2 DEF Dereferenced
  <2> QED BY Zenon, <2>1, <2>2, <2>3
<1>8. CASE t = "mrg"
  <2>1. MergeControl
    BY Zenon, <1>2, <1>8 DEF ControlOf
  <2>2. CASE loc[t] = "got_a"
    <3>1. val[t] # NULL /\ b # NULL
      BY <1>4, <1>8, <2>1, <2>2 DEF MergeControl
    <3>2. Local("a") = val[t] /\ Local("b") = b
      BY <1>3, <1>8, <2>2, LocalsFacts DEF MergeLocalsAre
    <3>3. {val[t], b} \subseteq DOMAIN heap
      BY Zenon, <1>1, <1>5, <3>1, <3>2
    <3> QED BY <2>2, <3>3 DEF Dereferenced
  <2>3. CASE loc[t] = "got_b"
    <3>1. val[t] # NULL /\ a # NULL
      BY <1>4, <1>8, <2>1, <2>3 DEF MergeControl
    <3>2. Local("b") = val[t] /\ Local("a") = a
      BY Zenon, <1>3, <1>8, <2>3, LocalsFacts DEF MergeLocalsAre
    <3>3. {a, val[t]} \subseteq DOMAIN heap
      BY Zenon, <1>1, <1>5, <3>1, <3>2
    <3> QED BY <2>3, <3>3 DEF Dereferenced
  <2>4. CASE loc[t] \in {"get_a_first", "get_b_first", "get_a", "get_b"}
    BY <2>4 DEF Dereferenced
  <2> QED BY <1>8, <2>1, <2>2, <2>3, <2>4 DEF MergeControl
<1>9. CASE t = "cons"
  <2>1. loc[t] = "get" \/ (loc[t] = "free" /\ val[t] # NULL)
    BY Zenon, <1>2, <1>4, <1>9 DEF ControlOf
  <2>2. CASE loc[t] = "get"
    BY <2>2 DEF Dereferenced
  <2>3. CASE loc[t] = "free" /\ val[t] # NULL
    <3>1. Local(t) = val[t]
      BY Zenon, <1>3, <1>9, <2>3, LocalsFacts DEF LocalsAre
    <3>2. val[t] \in DOMAIN heap
      BY Zenon, <1>1, <1>5, <1>9, <2>3, <3>1
    <3> QED BY <2>3, <3>2 DEF Dereferenced
  <2> QED BY Zenon, <2>1, <2>2, <2>3
<1> QED BY <1>6, <1>7, <1>8, <1>9, NetNames

(* Every token of prod-cons.c has one owner. *)
LEMMA InvOwner == ASSUME StreamsOK, NetInv PROVE SoleOwner
<1> DEFINE T == [x \in Places |-> IF x[2] = 0 THEN Local(x[1]) ELSE buffer[x[1]][x[2]]]
<1>1. \A s \in Streams : DOMAIN buffer[s] = 1 .. Len(buffer[s]) /\ 0 \notin DOMAIN buffer[s]
  BY DEF StreamsOK
<1>2. \A y \in LocalVariables : Locals[y] = Local(y)
  BY Zenon DEF Locals
<1>3. \A p : p \in Places <=> \/ \E y \in LocalVariables : p = <<y, 0>> /\ Locals[y] # NULL
                             \/ \E s \in Streams : \E k \in DOMAIN buffer[s] : p = <<s, k>>
  <2>1. \A p : p \in {<<x, 0>> : x \in {y \in LocalVariables : Local(y) # NULL}} <=>
               \E y \in LocalVariables : p = <<y, 0>> /\ Locals[y] # NULL
    BY Zenon, <1>2
  <2>2. \A p : p \in UNION {{<<s, k>> : k \in 1 .. Len(buffer[s])} : s \in Streams} <=>
               \E s \in Streams : \E k \in DOMAIN buffer[s] : p = <<s, k>>
    BY <1>1
  <2> QED BY Zenon, <2>1, <2>2 DEF Places
<1>4. ASSUME NEW y \in LocalVariables, Locals[y] # NULL PROVE T[<<y, 0>>] = Locals[y]
  <2>1. <<y, 0>> \in Places
    BY Zenon, <1>3, <1>4
  <2>2. <<y, 0>>[1] = y /\ <<y, 0>>[2] = 0
    OBVIOUS
  <2> QED BY Zenon, <1>2, <2>1, <2>2
<1>5. ASSUME NEW s \in Streams, NEW k \in DOMAIN buffer[s] PROVE T[<<s, k>>] = buffer[s][k]
  <2>1. <<s, k>> \in Places /\ k # 0
    BY Zenon, <1>1, <1>3
  <2>2. <<s, k>>[1] = s /\ <<s, k>>[2] = k
    OBVIOUS
  <2> QED BY Zenon, <2>1, <2>2
<1>6. DOMAIN T = Places
  BY Zenon
<1>7. Owned(Locals, buffer, DOMAIN heap) /\ NULL \notin DOMAIN heap
  BY Zenon, NullNotAllocated DEF NetInv, OwnerInv
<1> HIDE DEF T
<1>8. Placed(Locals, buffer, T)
  BY Zenon, <1>3, <1>4, <1>5, <1>6 DEF Placed
<1>9. IsInjective(T) /\ Range(T) = DOMAIN heap
  BY Zenon, <1>7, <1>8, OwnedPlaces
<1> QED BY Zenon, <1>9, DereferencedAllocated DEF SoleOwner, T

-----------------------------------------------------------------------------
(* Local variable y keeps its token, and the token its int. *)
Kept(y) == Local(y)' = Local(y) /\ (Local(y) # NULL => heap'[Local(y)] = heap[Local(y)])

(* What the ownership of tokens gives in terms of Local. *)
LEMMA OwnerFacts ==
  ASSUME OwnerInv
  PROVE  /\ \A x \in LocalVariables : Local(x) # NULL => Local(x) \in DOMAIN heap
         /\ \A x, y \in LocalVariables : Local(x) # NULL /\ Local(x) = Local(y) => x = y
         /\ \A s \in Streams : \A k \in DOMAIN buffer[s] : buffer[s][k] \in DOMAIN heap
         /\ \A x \in LocalVariables, s \in Streams : \A k \in DOMAIN buffer[s] : Local(x) # buffer[s][k]
<1>1. \A x \in LocalVariables : Locals[x] = Local(x)
  BY Zenon DEF Locals
<1>2. \A x \in LocalVariables : Local(x) # NULL => Local(x) \in DOMAIN heap
  <2>1. \A x \in LocalVariables : Locals[x] # NULL => Locals[x] \in DOMAIN heap
    BY DEF OwnerInv, Owned
  <2> QED BY Zenon, <1>1, <2>1
<1>3. \A x, y \in LocalVariables : Local(x) # NULL /\ Local(x) = Local(y) => x = y
  <2>1. \A x, y \in LocalVariables : Locals[x] # NULL /\ Locals[x] = Locals[y] => x = y
    BY DEF OwnerInv, Owned
  <2>2. ASSUME NEW x \in LocalVariables, NEW y \in LocalVariables, Local(x) # NULL, Local(x) = Local(y)
        PROVE  x = y
    BY <1>1, <2>1, <2>2
  <2> QED BY Zenon, <2>2
<1>4. \A s \in Streams : \A k \in DOMAIN buffer[s] : buffer[s][k] \in DOMAIN heap
  BY DEF OwnerInv, Owned
<1>5. \A x \in LocalVariables, s \in Streams : \A k \in DOMAIN buffer[s] : Local(x) # buffer[s][k]
  <2>1. \A x \in LocalVariables, s \in Streams : \A k \in DOMAIN buffer[s] : Locals[x] # buffer[s][k]
    BY DEF OwnerInv, Owned
  <2> QED BY Zenon, <1>1, <2>1
<1> QED BY Zenon, <1>2, <1>3, <1>4, <1>5

(* A local variable that changes, and those that do not. *)
LEMMA LocalsChange ==
  /\ \A v : \A x \in LocalVariables :
       Locals' = [Locals EXCEPT ![x] = v] =>
         Local(x)' = v /\ \A y \in LocalVariables \ {x} : Local(y)' = Local(y)
  /\ Locals' = Locals => \A y \in LocalVariables : Local(y)' = Local(y)
<1>1. \A y \in LocalVariables : Locals[y] = Local(y) /\ Locals'[y] = Local(y)'
  BY Zenon DEF Locals
<1>2. ASSUME NEW x \in LocalVariables, NEW v, Locals' = [Locals EXCEPT ![x] = v]
      PROVE  Local(x)' = v /\ \A y \in LocalVariables \ {x} : Local(y)' = Local(y)
  <2>1. Locals'[x] = v /\ \A y \in LocalVariables \ {x} : Locals'[y] = Locals[y]
    BY Zenon, <1>2 DEF Locals
  <2> QED BY Zenon, <1>1, <2>1
<1> QED BY Zenon, <1>1, <1>2

(* A step of the network changes one local variable, and no int but that   *)
(* of its token.                                                           *)
LEMMA KeptStep ==
  ASSUME StreamsOK, NetInv
  PROVE  /\ Quiet \/ Decides => \A y \in LocalVariables : Kept(y)
         /\ \A x \in LocalVariables :
              Sends(x) => Local(x)' = NULL /\ \A y \in LocalVariables \ {x} : Kept(y)
         /\ \A x \in LocalVariables :
              Receives(x) => /\ Local(x)' = Head(buffer[Inlet(x)])
                             /\ \A y \in LocalVariables \ {x} : Kept(y)
         /\ \A t \in Successors :
              Allocates(t) => /\ Local(t)' = <<t, i[t]>> /\ heap'[<<t, i[t]>>] = i[t]
                              /\ \A y \in LocalVariables \ {t} : Kept(y)
         /\ \A t \in TimesThreads :
              Multiplies(t) => /\ Local(t)' = Local(t)
                               /\ heap'[Local(t)] = heap[Local(t)] * Factor(t)
                               /\ \A y \in LocalVariables \ {t} : Kept(y)
         /\ Frees => /\ Local("cons")' = NULL
                     /\ \A y \in LocalVariables \ {"cons"} : Kept(y)
<1>1. ASSUME Quiet \/ Decides PROVE \A y \in LocalVariables : Kept(y)
  BY Zenon, <1>1, LocalsChange DEF Quiet, Decides, Kept
<1>2. ASSUME NEW x \in LocalVariables, Sends(x)
      PROVE  Local(x)' = NULL /\ \A y \in LocalVariables \ {x} : Kept(y)
  <2>1. Locals' = [Locals EXCEPT ![x] = NULL] /\ heap' = heap
    BY Zenon, <1>2 DEF Sends
  <2> QED BY Zenon, <2>1, LocalsChange DEF Kept
<1>3. ASSUME NEW x \in LocalVariables, Receives(x)
      PROVE  Local(x)' = Head(buffer[Inlet(x)]) /\ \A y \in LocalVariables \ {x} : Kept(y)
  <2>1. Locals' = [Locals EXCEPT ![x] = Head(buffer[Inlet(x)])] /\ heap' = heap
    BY Zenon, <1>3 DEF Receives
  <2> QED BY Zenon, <2>1, LocalsChange DEF Kept
<1>4. ASSUME NEW t \in Successors, Allocates(t)
      PROVE  /\ Local(t)' = <<t, i[t]>> /\ heap'[<<t, i[t]>>] = i[t]
             /\ \A y \in LocalVariables \ {t} : Kept(y)
  <2> DEFINE p == <<t, i[t]>>
  <2>1. /\ Locals' = [Locals EXCEPT ![t] = p] /\ t \in LocalVariables
        /\ heap' = [q \in DOMAIN heap \cup {p} |-> IF q = p THEN i[t] ELSE heap[q]]
    BY <1>4, NetNames DEF Allocates
  <2>2. p \notin DOMAIN heap
    BY Zenon, FreshToken DEF NetInv
  <2> HIDE DEF p
  <2>3. heap'[p] = i[t] /\ \A q \in DOMAIN heap : heap'[q] = heap[q]
    BY <2>1, <2>2
  <2>4. Local(t)' = p /\ \A y \in LocalVariables \ {t} : Local(y)' = Local(y)
    BY Zenon, <2>1, LocalsChange
  <2>5. \A y \in LocalVariables \ {t} : Kept(y)
    BY Zenon, <2>3, <2>4, OwnerFacts DEF Kept, NetInv
  <2> QED BY Zenon, <2>3, <2>4, <2>5 DEF p
<1>5. ASSUME NEW t \in TimesThreads, Multiplies(t)
      PROVE  /\ Local(t)' = Local(t) /\ heap'[Local(t)] = heap[Local(t)] * Factor(t)
             /\ \A y \in LocalVariables \ {t} : Kept(y)
  <2> DEFINE w == heap[Local(t)] * Factor(t)
  <2>1. t \in LocalVariables
    BY NetNames
  <2>2. Locals' = Locals /\ Local(t) # NULL /\ heap' = [heap EXCEPT ![Local(t)] = w]
    BY Zenon, <1>5 DEF Multiplies
  <2>3. Local(t) \in DOMAIN heap /\ \A y \in LocalVariables \ {t} : Local(y) # Local(t)
    BY Zenon, <2>1, <2>2, OwnerFacts DEF NetInv
  <2>4. \A y \in LocalVariables : Local(y)' = Local(y)
    BY Zenon, <2>2, LocalsChange
  <2> HIDE DEF w
  <2>5. heap'[Local(t)] = w /\ \A p \in DOMAIN heap \ {Local(t)} : heap'[p] = heap[p]
    BY <2>2, <2>3
  <2>6. \A y \in LocalVariables \ {t} : Local(y) # NULL => Local(y) \in DOMAIN heap \ {Local(t)}
    BY Zenon, <2>3, OwnerFacts DEF NetInv
  <2>7. \A y \in LocalVariables \ {t} : Kept(y)
    BY Zenon, <2>4, <2>5, <2>6 DEF Kept
  <2> QED BY Zenon, <2>1, <2>4, <2>5, <2>7 DEF w
<1>6. ASSUME Frees PROVE Local("cons")' = NULL /\ \A y \in LocalVariables \ {"cons"} : Kept(y)
  <2> DEFINE c == "cons"
  <2>1. c \in LocalVariables
    BY NetNames
  <2>2. /\ Locals' = [Locals EXCEPT ![c] = NULL] /\ Local(c) # NULL
        /\ heap' = [q \in DOMAIN heap \ {Local(c)} |-> heap[q]]
    BY Zenon, <1>6 DEF Frees
  <2>3. \A y \in LocalVariables \ {c} : Local(y) # Local(c)
    BY Zenon, <2>1, <2>2, OwnerFacts DEF NetInv
  <2>4. Local(c)' = NULL /\ \A y \in LocalVariables \ {c} : Local(y)' = Local(y)
    BY Zenon, <2>1, <2>2, LocalsChange
  <2>5. \A p \in DOMAIN heap \ {Local(c)} : heap'[p] = heap[p]
    BY <2>2
  <2>6. \A y \in LocalVariables \ {c} : Local(y) # NULL => Local(y) \in DOMAIN heap \ {Local(c)}
    BY Zenon, <2>3, OwnerFacts DEF NetInv
  <2>7. \A y \in LocalVariables \ {c} : Kept(y)
    BY Zenon, <2>4, <2>5, <2>6 DEF Kept
  <2> QED BY Zenon, <2>4, <2>7
<1> QED BY Zenon, <1>1, <1>2, <1>3, <1>4, <1>5, <1>6

(* The ints of the successors' and of merge's tokens are still the ones    *)
(* that they stand for.                                                    *)
LEMMA DataStep ==
  ASSUME StreamsOK, NetInv, Moves
  PROVE  DataInv'
<1>1. /\ \A s \in Successors : Local(s) # NULL => heap[Local(s)] = NextInt(s)
      /\ Merging = "get_a" => heap[Local("a")] < heap[Local("b")]
      /\ Merging = "get_b" => heap[Local("a")] >= heap[Local("b")]
  BY Zenon DEF NetInv, DataInv
<1>2. Merging \in {"get_a", "get_b"} => Local("a") # NULL /\ Local("b") # NULL
  BY Zenon, MergingHolds DEF NetInv
<1>3. /\ Successors \subseteq LocalVariables /\ "a" \in LocalVariables /\ "b" \in LocalVariables
      /\ "a" \notin Successors /\ "b" \notin Successors
      /\ TimesThreads \cap (Successors \cup {"a", "b"}) = {}
      /\ "cons" \notin Successors \cup {"a", "b"}
  BY NetNames
<1>4. ASSUME NEW s \in Successors, Kept(s), NextInt(s)' = NextInt(s)
      PROVE  (Local(s) # NULL => heap[Local(s)] = NextInt(s))'
  BY Zenon, <1>1, <1>4 DEF Kept
<1>5. ASSUME Kept("a"), Kept("b"), Merging' = Merging
      PROVE  (/\ Merging = "get_a" => heap[Local("a")] < heap[Local("b")]
              /\ Merging = "get_b" => heap[Local("a")] >= heap[Local("b")])'
  BY Zenon, <1>1, <1>2, <1>5 DEF Kept
<1>6. ASSUME Merging' = "none"
      PROVE  (/\ Merging = "get_a" => heap[Local("a")] < heap[Local("b")]
              /\ Merging = "get_b" => heap[Local("a")] >= heap[Local("b")])'
  BY <1>6
<1>7. ASSUME \A s \in Successors : Kept(s) /\ NextInt(s)' = NextInt(s),
             Kept("a"), Kept("b"), Merging' = Merging
      PROVE  DataInv'
  BY Zenon, <1>4, <1>5, <1>7 DEF DataInv
<1>8. CASE Quiet
  BY Zenon, <1>3, <1>7, <1>8, KeptStep DEF Quiet, Uncounted
<1>9. CASE Decides
  <2>1. \A y \in LocalVariables : Kept(y)
    BY Zenon, <1>9, KeptStep
  <2>2. \A s \in Successors : NextInt(s)' = NextInt(s)
    BY <1>9, NetNames DEF Decides, Uncounted
  <2>3. \/ Merging' = "get_a" /\ heap[Local("a")] < heap[Local("b")]
        \/ Merging' = "get_b" /\ heap[Local("a")] >= heap[Local("b")]
    BY Zenon, <1>9 DEF Decides
  <2>4. heap'[Local("a")'] = heap[Local("a")] /\ heap'[Local("b")'] = heap[Local("b")]
    BY Zenon, <1>3, <1>9, <2>1 DEF Decides, Kept
  <2>5. (/\ Merging = "get_a" => heap[Local("a")] < heap[Local("b")]
         /\ Merging = "get_b" => heap[Local("a")] >= heap[Local("b")])'
    BY <2>3, <2>4
  <2> QED BY Zenon, <1>3, <1>4, <2>1, <2>2, <2>5 DEF DataInv
<1>10. ASSUME NEW x \in LocalVariables, Sends(x), x # "cons" PROVE DataInv'
  <2>1. Local(x)' = NULL /\ \A y \in LocalVariables \ {x} : Kept(y)
    BY Zenon, <1>10, KeptStep
  <2>2. \A s \in Successors \ {Owner(x)} : NextInt(s)' = NextInt(s)
    BY Zenon, <1>10 DEF Sends, Uncounted
  <2>3. \A s \in Successors : s # x => s # Owner(x)
    BY <1>10, NetNames DEF Owner
  <2>4. ASSUME NEW s \in Successors PROVE (Local(s) # NULL => heap[Local(s)] = NextInt(s))'
    <3>1. CASE s = x
      BY Zenon, <2>1, <3>1
    <3>2. CASE s # x
      BY Zenon, <1>3, <1>4, <2>1, <2>2, <2>3, <3>2
    <3> QED BY Zenon, <3>1, <3>2
  <2>5. CASE x \in {"a", "b"}
    <3>1. Merging' = "none"
      BY Zenon, <1>10, <2>5 DEF Sends
    <3> QED BY Zenon, <1>6, <2>4, <3>1 DEF DataInv
  <2>6. CASE x \notin {"a", "b"}
    <3>1. Merging' = Merging
      BY <1>10, <2>6, NetNames DEF Sends, Uncounted, Owner
    <3>2. Kept("a") /\ Kept("b")
      BY Zenon, <1>3, <2>1, <2>6
    <3> QED BY Zenon, <1>5, <2>4, <3>1, <3>2 DEF DataInv
  <2> QED BY Zenon, <2>5, <2>6
<1>11. ASSUME NEW x \in LocalVariables, Receives(x) PROVE DataInv'
  <2>1. \A y \in LocalVariables \ {x} : Kept(y)
    BY Zenon, <1>11, KeptStep
  <2>2. x \notin Successors /\ Merging' = Merging /\ \A s \in Successors : NextInt(s)' = NextInt(s)
    BY Zenon, <1>11 DEF Receives, Uncounted
  <2>3. \A s \in Successors : Kept(s)
    BY Zenon, <1>3, <2>1, <2>2
  <2>4. CASE x \in {"a", "b"}
    <3>1. Merging' = "none"
      BY Zenon, <1>11, <2>2, <2>4 DEF Receives
    <3> QED BY Zenon, <1>4, <1>6, <2>2, <2>3, <3>1 DEF DataInv
  <2>5. CASE x \notin {"a", "b"}
    BY Zenon, <1>3, <1>7, <2>1, <2>2, <2>3, <2>5
  <2> QED BY Zenon, <2>4, <2>5
<1>12. ASSUME NEW t \in Successors, Allocates(t) PROVE DataInv'
  <2>1. /\ Local(t)' = <<t, i[t]>> /\ heap'[<<t, i[t]>>] = i[t]
        /\ \A y \in LocalVariables \ {t} : Kept(y)
    BY Zenon, <1>12, KeptStep
  <2>2. NextInt(t) = i[t] /\ Merging' = Merging /\ \A s \in Successors : NextInt(s)' = NextInt(s)
    BY Zenon, <1>12 DEF Allocates, Uncounted
  <2>3. ASSUME NEW s \in Successors PROVE (Local(s) # NULL => heap[Local(s)] = NextInt(s))'
    <3>1. CASE s = t
      BY Zenon, <2>1, <2>2, <3>1
    <3>2. CASE s # t
      BY Zenon, <1>3, <1>4, <2>1, <2>2, <3>2
    <3> QED BY Zenon, <3>1, <3>2
  <2>4. Kept("a") /\ Kept("b")
    BY Zenon, <1>3, <2>1
  <2> QED BY Zenon, <1>5, <2>2, <2>3, <2>4 DEF DataInv
<1>13. ASSUME NEW t \in TimesThreads, Multiplies(t) PROVE DataInv'
  <2>1. \A y \in LocalVariables \ {t} : Kept(y)
    BY Zenon, <1>13, KeptStep
  <2>2. t \notin Successors /\ t \notin {"a", "b", "mrg"}
    BY NetNames
  <2>3. Merging' = Merging /\ \A s \in Successors : NextInt(s)' = NextInt(s)
    BY Zenon, <1>13, <2>2 DEF Multiplies, Uncounted
  <2>4. Kept("a") /\ Kept("b") /\ \A s \in Successors : Kept(s)
    BY Zenon, <1>3, <2>1, <2>2
  <2> QED BY Zenon, <1>7, <2>3, <2>4
<1>14. CASE Frees
  <2>1. \A y \in LocalVariables \ {"cons"} : Kept(y)
    BY Zenon, <1>14, KeptStep
  <2>2. Merging' = Merging /\ \A s \in Successors : NextInt(s)' = NextInt(s)
    BY Zenon, <1>14 DEF Frees, Uncounted
  <2>3. Kept("a") /\ Kept("b") /\ \A s \in Successors : Kept(s)
    BY Zenon, <1>3, <2>1
  <2> QED BY Zenon, <1>7, <2>2, <2>3
<1> QED BY Zenon, <1>8, <1>9, <1>10, <1>11, <1>12, <1>13, <1>14 DEF Moves

-----------------------------------------------------------------------------
(* connect() prepends to the inputs. *)
LEMMA Concatenations ==
  ASSUME NEW x, NEW y
  PROVE  <<x>> \o << >> = <<x>> /\ <<x>> \o <<y>> = <<x, y>>
<1>1. <<x>> \in Seq({x, y}) /\ <<y>> \in Seq({x, y}) /\ <<x, y>> \in Seq({x, y})
  OBVIOUS
<1>2. <<x>> \o <<y>> \in Seq({x, y}) /\ Len(<<x>> \o <<y>>) = 2
  BY <1>1
<1>3. (<<x>> \o <<y>>)[1] = x /\ (<<x>> \o <<y>>)[2] = y
  BY <1>1
<1>4. <<x>> \o <<y>> = <<x, y>>
  <2> DEFINE c == <<x>> \o <<y>>
  <2>1. c \in Seq({x, y}) /\ Len(c) = 2 /\ c[1] = x /\ c[2] = y
    BY <1>2, <1>3
  <2> HIDE DEF c
  <2>2. c = <<x, y>>
    BY <2>1
  <2> QED BY <2>2 DEF c
<1>5. <<x>> \o << >> = <<x>>
  OBVIOUS
<1> QED BY Zenon, <1>4, <1>5

(* One call of connect(). *)
LEMMA ConnectOne ==
  ASSUME Connect, DOMAIN inputs = Threads, NEW t \in Threads, NEW s, Head(wires) = <<t, s>>
  PROVE  /\ DOMAIN inputs' = Threads
         /\ inputs'[t] = <<s>> \o inputs[t]
         /\ \A u \in Threads \ {t} : inputs'[u] = inputs[u]
<1>1. Head(wires)[1] = t /\ Head(wires)[2] = s
  OBVIOUS
<1>2. inputs' = [inputs EXCEPT ![t] = <<s>> \o inputs[t]]
  BY Zenon, <1>1 DEF Connect
<1> QED BY Zenon, <1>2

(* connect() goes through the list of wires. *)
LEMMA WiredStep ==
  ASSUME NetInv, [NetNext]_allVars
  PROVE  Wired'
<1> DEFINE w1 == <<"tms1", "suc1">>
           w2 == <<"tms2", "suc2">>
           w3 == <<"mrg", "tms1">>
           w4 == <<"mrg", "tms2">>
           w5 == <<"cons", "mrg">>
<1>1. CASE Connect
  <2>1. /\ wires # << >> /\ wires' = Tail(wires) /\ Connect
        /\ "tms1" \in Threads /\ "tms2" \in Threads /\ "mrg" \in Threads /\ "cons" \in Threads
    BY <1>1, NetNames DEF Connect
  <2>2. CASE wires = <<w1, w2, w3, w4, w5>> /\ Inputs(<< >>, << >>, << >>, << >>)
    <3>1. Head(wires) = w1
      <4> HIDE DEF w1, w2, w3, w4, w5
      <4> QED BY <2>2
    <3>2. Tail(wires) = <<w2, w3, w4, w5>>
      <4> HIDE DEF w1, w2, w3, w4, w5
      <4> QED BY <2>2
    <3>3. <<"suc1">> \o inputs["tms1"] = <<"suc1">>
      BY Zenon, <2>2, Concatenations DEF Inputs
    <3>4. Inputs(<<"suc1">>, << >>, << >>, << >>)'
      BY Zenon, <2>1, <2>2, <3>1, <3>3, ConnectOne DEF Inputs
    <3> QED BY Zenon, <2>1, <3>2, <3>4 DEF Wired
  <2>3. CASE wires = <<w2, w3, w4, w5>> /\ Inputs(<<"suc1">>, << >>, << >>, << >>)
    <3>1. Head(wires) = w2
      <4> HIDE DEF w1, w2, w3, w4, w5
      <4> QED BY <2>3
    <3>2. Tail(wires) = <<w3, w4, w5>>
      <4> HIDE DEF w1, w2, w3, w4, w5
      <4> QED BY <2>3
    <3>3. <<"suc2">> \o inputs["tms2"] = <<"suc2">>
      BY Zenon, <2>3, Concatenations DEF Inputs
    <3>4. Inputs(<<"suc1">>, <<"suc2">>, << >>, << >>)'
      BY Zenon, <2>1, <2>3, <3>1, <3>3, ConnectOne DEF Inputs
    <3> QED BY Zenon, <2>1, <3>2, <3>4 DEF Wired
  <2>4. CASE wires = <<w3, w4, w5>> /\ Inputs(<<"suc1">>, <<"suc2">>, << >>, << >>)
    <3>1. Head(wires) = w3
      <4> HIDE DEF w1, w2, w3, w4, w5
      <4> QED BY <2>4
    <3>2. Tail(wires) = <<w4, w5>>
      <4> HIDE DEF w1, w2, w3, w4, w5
      <4> QED BY <2>4
    <3>3. <<"tms1">> \o inputs["mrg"] = <<"tms1">>
      BY Zenon, <2>4, Concatenations DEF Inputs
    <3>4. Inputs(<<"suc1">>, <<"suc2">>, <<"tms1">>, << >>)'
      BY Zenon, <2>1, <2>4, <3>1, <3>3, ConnectOne DEF Inputs
    <3> QED BY Zenon, <2>1, <3>2, <3>4 DEF Wired
  <2>5. CASE wires = <<w4, w5>> /\ Inputs(<<"suc1">>, <<"suc2">>, <<"tms1">>, << >>)
    <3>1. Head(wires) = w4
      <4> HIDE DEF w1, w2, w3, w4, w5
      <4> QED BY <2>5
    <3>2. Tail(wires) = <<w5>>
      <4> HIDE DEF w1, w2, w3, w4, w5
      <4> QED BY <2>5
    <3>3. <<"tms2">> \o inputs["mrg"] = <<"tms2", "tms1">>
      BY Zenon, <2>5, Concatenations DEF Inputs
    <3>4. Inputs(<<"suc1">>, <<"suc2">>, <<"tms2", "tms1">>, << >>)'
      BY Zenon, <2>1, <2>5, <3>1, <3>3, ConnectOne DEF Inputs
    <3> QED BY Zenon, <2>1, <3>2, <3>4 DEF Wired
  <2>6. CASE wires = <<w5>> /\ Inputs(<<"suc1">>, <<"suc2">>, <<"tms2", "tms1">>, << >>)
    <3>1. Head(wires) = w5
      <4> HIDE DEF w1, w2, w3, w4, w5
      <4> QED BY <2>6
    <3>2. Tail(wires) = << >>
      <4> HIDE DEF w1, w2, w3, w4, w5
      <4> QED BY <2>6
    <3>3. <<"mrg">> \o inputs["cons"] = <<"mrg">>
      BY Zenon, <2>6, Concatenations DEF Inputs
    <3>4. Inputs(<<"suc1">>, <<"suc2">>, <<"tms2", "tms1">>, <<"mrg">>)'
      BY Zenon, <2>1, <2>6, <3>1, <3>3, ConnectOne DEF Inputs
    <3> QED BY Zenon, <2>1, <3>2, <3>4 DEF Wired
  <2> QED BY Zenon, <2>1, <2>2, <2>3, <2>4, <2>5, <2>6 DEF NetInv, Wired, Wiring
<1>2. CASE UNCHANGED <<inputs, wires>>
  BY Zenon, <1>2 DEF NetInv, Wired, Inputs
<1>3. ASSUME NEW t \in Threads, ThreadStep(t) PROVE UNCHANGED <<inputs, wires>>
  BY Zenon, <1>3 DEF ThreadStep, SuccessorPut, TimesGet, TimesPut, MergeGetA, MergeGetB, MergePut,
              ConsumerGet, ConsumerFree, InCallStep, netVars
<1>4. UNCHANGED allVars => UNCHANGED <<inputs, wires>>
  BY DEF allVars, netVars
<1> QED BY Zenon, <1>1, <1>2, <1>3, <1>4 DEF NetNext

-----------------------------------------------------------------------------
(* init_module() *)
LEMMA NetInitInv == NetInit => NetInv
<1> SUFFICES ASSUME NetInit PROVE NetInv
  OBVIOUS
<1>1. /\ pc = [t \in Threads |-> "idle"] /\ val = [t \in Threads |-> NULL]
      /\ buffer = [s \in Streams |-> << >>]
  BY DEF NetInit, Init
<1>2. Wired
  BY NetNames DEF NetInit, Wired, Inputs
<1>3. NetTypeOK
  <2>1. loc \in [Threads -> {"put", "get", "get_a_first", "get_b_first", "get_a", "get_b",
                             "got_a", "got_b", "free"}]
    BY DEF NetInit
  <2>2. i \in [Threads -> Nat] /\ i["cons"] = 0
    BY NetNames DEF NetInit
  <2>3. DOMAIN heap = {} /\ heap \in [DOMAIN heap -> Nat]
    BY DEF NetInit
  <2>4. consumed \in Seq(Nat) /\ Len(consumed) = 0
    BY DEF NetInit
  <2> QED BY <2>1, <2>2, <2>3, <2>4 DEF NetInit, NetTypeOK
<1>4. \A t \in Threads : pc[t] = "idle" /\ val[t] = NULL /\ ~Unsent(t)
  BY <1>1 DEF Unsent
<1>5. \A s \in Successors : loc[s] = "put"
  BY NetNames DEF NetInit
<1>6. \A t \in TimesThreads \cup {"cons"} : loc[t] = "get"
  BY NetNames DEF NetInit
<1>7. loc["mrg"] = "get_a_first"
  BY NetNames DEF NetInit
<1>8. Control
  BY <1>4, <1>5, <1>6, <1>7, NetNames DEF Control, ControlOf, MergeControl, InPut
<1>9. \A x \in LocalVariables : Local(x) = NULL
  <2>1. Local("a") = NULL /\ Local("b") = NULL
    BY Zenon, <1>7, LocalsFacts DEF MergeLocalsAre
  <2>2. \A x \in Successors \cup TimesThreads \cup {"cons"} : Local(x) = NULL
    BY Zenon, <1>4, <1>6, NetNames, LocalsFacts DEF LocalsAre
  <2> QED BY <2>1, <2>2 DEF LocalVariables
<1>10. OwnerInv
  <2>1. \A x \in LocalVariables : Locals[x] = NULL
    BY Zenon, <1>9 DEF Locals
  <2>2. \A s \in Streams : DOMAIN buffer[s] = {}
    BY <1>1
  <2>3. DOMAIN heap = {}
    BY DEF NetInit
  <2> QED BY <2>1, <2>2, <2>3 DEF OwnerInv, Owned
<1>11. DataInv
  <2>1. "mrg" \in Threads /\ Successors \subseteq LocalVariables
    BY NetNames
  <2>2. Merging = "none"
    BY <1>4, <2>1 DEF Merging
  <2> QED BY <1>9, <2>1, <2>2 DEF DataInv
<1> QED BY Zenon, <1>2, <1>3, <1>8, <1>10, <1>11 DEF NetInv

(* The variables of prod-cons.c keep their types. *)
LEMMA NetTypeStep ==
  ASSUME StreamsOK, NetInv, [NetNext]_allVars
  PROVE  NetTypeOK'
<1> DEFINE Labels == {"put", "get", "get_a_first", "get_b_first", "get_a", "get_b", "got_a", "got_b", "free"}
<1>1. /\ kills = << >> /\ loc \in [Threads -> Labels] /\ i \in [Threads -> Nat]
      /\ a \in Pointers \cup {NULL} /\ b \in Pointers \cup {NULL} /\ heap \in [DOMAIN heap -> Nat]
      /\ \A p \in DOMAIN heap : p \in Pointers /\ p[2] < i[p[1]]
      /\ consumed \in Seq(Nat) /\ Len(consumed) = i["cons"]
  BY Zenon DEF NetInv, NetTypeOK
<1>2. ASSUME kills' = kills, loc' \in [Threads -> Labels], i' = i, a' \in Pointers \cup {NULL},
             b' \in Pointers \cup {NULL}, heap' = heap, consumed' = consumed
      PROVE  NetTypeOK'
  BY Zenon, <1>1, <1>2 DEF NetTypeOK
<1>3. ASSUME NEW t, NEW here, NEW there \in Labels, Goto(t, here, there)
      PROVE  loc' \in [Threads -> Labels]
  <2> HIDE DEF Labels
  <2> QED BY Zenon, <1>1, <1>3 DEF Goto
<1>4. val["mrg"] \in Pointers \cup {NULL}
  BY NetNames DEF StreamsOK
<1>5. CASE Connect \/ UNCHANGED allVars
  BY Zenon, <1>1, <1>2, <1>5 DEF Connect, allVars, netVars
<1>6. ASSUME NEW t \in Threads, SuccessorPut(t) PROVE NetTypeOK'
  <2> DEFINE p == <<t, i[t]>>
  <2>1. /\ t \in Successors /\ Goto(t, "put", "put")
        /\ heap' = [q \in DOMAIN heap \cup {p} |-> IF q = p THEN i[t] ELSE heap[q]]
        /\ i' = [i EXCEPT ![t] = @ + 1] /\ a' = a /\ b' = b /\ consumed' = consumed /\ kills' = kills
    BY Zenon, <1>6 DEF SuccessorPut
  <2>2. loc' \in [Threads -> Labels]
    BY <1>3, <2>1
  <2>3. /\ i' \in [Threads -> Nat] /\ i'[t] = i[t] + 1 /\ \A u \in Threads \ {t} : i'[u] = i[u]
        /\ \A u \in Threads : i[u] \in Nat
    BY <1>1, <2>1
  <2>4. p \in Pointers /\ p[1] = t /\ p[2] = i[t]
    BY <2>1, <2>3 DEF Pointers
  <2>5. \A q \in Pointers : q[1] \in Threads /\ q[2] \in Nat
    BY NetNames DEF Pointers
  <2> HIDE DEF p
  <2>6. DOMAIN heap' = DOMAIN heap \cup {p} /\ heap' \in [DOMAIN heap \cup {p} -> Nat]
    BY <1>1, <2>1, <2>3
  <2>7. ASSUME NEW q \in DOMAIN heap' PROVE q \in Pointers /\ q[2] < i'[q[1]]
    <3>1. CASE q = p
      BY <2>3, <2>4, <3>1
    <3>2. CASE q \in DOMAIN heap
      <4>1. q \in Pointers /\ q[2] < i[q[1]] /\ q[1] \in Threads /\ q[2] \in Nat
        BY <1>1, <2>5, <3>2
      <4> QED BY <2>3, <4>1
    <3> QED BY <2>6, <3>1, <3>2
  <2>8. i'["cons"] = i["cons"]
    BY <2>1, <2>3, NetNames
  <2>9. heap' \in [DOMAIN heap' -> Nat]
    BY Zenon, <2>6
  <2> QED BY Zenon, <1>1, <2>1, <2>2, <2>3, <2>7, <2>8, <2>9 DEF NetTypeOK
<1>7. ASSUME NEW t \in Threads, TimesGet(t) PROVE NetTypeOK'
  <2>1. Goto(t, "get", "put") /\ UNCHANGED <<i, a, b, heap, consumed, kills>>
    BY <1>7 DEF TimesGet
  <2>2. loc' \in [Threads -> Labels]
    BY <1>3, <2>1
  <2> QED BY Zenon, <1>1, <1>2, <2>1, <2>2
<1>8. ASSUME NEW t \in Threads, TimesPut(t) PROVE NetTypeOK'
  <2>1. Goto(t, "put", "get") /\ UNCHANGED <<i, a, b, consumed, kills>>
    BY <1>8 DEF TimesPut
  <2>2. loc' \in [Threads -> Labels]
    BY <1>3, <2>1
  <2>3. Factor(t) \in Nat
    BY ProdConsAssumption DEF Factor
  <2>4. DOMAIN heap' = DOMAIN heap /\ heap' \in [DOMAIN heap -> Nat]
    <3> DEFINE v == val[t]
               w == heap[v] * Factor(t)
    <3>1. v \in DOMAIN heap /\ heap' = [heap EXCEPT ![v] = w]
      BY Zenon, <1>8 DEF TimesPut
    <3> HIDE DEF v
    <3>2. heap[v] \in Nat
      BY Zenon, <1>1, <3>1
    <3>3. w \in Nat
      BY Zenon, <2>3, <3>2, NatTimes
    <3> HIDE DEF w
    <3> QED BY Zenon, <1>1, <3>1, <3>3
  <2>5. heap' \in [DOMAIN heap' -> Nat]
    BY Zenon, <2>4
  <2> QED BY Zenon, <1>1, <2>1, <2>2, <2>4, <2>5 DEF NetTypeOK
<1>9. CASE MergeGetA
  <2>1. /\ Goto("mrg", "get_a_first", "get_b_first") \/ Goto("mrg", "get_a", "got_a")
        /\ UNCHANGED <<i, a, b, heap, consumed, kills>>
    BY <1>9 DEF MergeGetA
  <2>2. loc' \in [Threads -> Labels]
    BY <1>3, <2>1
  <2> QED BY Zenon, <1>1, <1>2, <2>1, <2>2
<1>10. CASE MergeGetB
  <2>1. /\ Goto("mrg", "get_b_first", "got_b") \/ Goto("mrg", "get_b", "got_b")
        /\ UNCHANGED <<i, b, heap, consumed, kills>>
    BY <1>10 DEF MergeGetB
  <2>2. loc' \in [Threads -> Labels]
    BY <1>3, <2>1
  <2>3. a' \in Pointers \cup {NULL}
    BY <1>1, <1>4, <1>10 DEF MergeGetB
  <2> QED BY Zenon, <1>1, <1>2, <2>1, <2>2, <2>3
<1>11. ASSUME NEW here \in {"got_a", "got_b"}, MergePut(here) PROVE NetTypeOK'
  <2>1. /\ Goto("mrg", here, "get_a") \/ Goto("mrg", here, "get_b")
        /\ UNCHANGED <<i, heap, consumed, kills>>
    BY Zenon, <1>11 DEF MergePut
  <2>2. loc' \in [Threads -> Labels]
    BY <1>3, <2>1
  <2>3. a' \in Pointers \cup {NULL} /\ b' \in Pointers \cup {NULL}
    BY Zenon, <1>1, <1>4, <1>11 DEF MergePut
  <2> QED BY Zenon, <1>1, <1>2, <2>1, <2>2, <2>3
<1>12. CASE ConsumerGet
  <2>1. Goto("cons", "get", "free") /\ UNCHANGED <<i, a, b, heap, consumed, kills>>
    BY <1>12 DEF ConsumerGet
  <2>2. loc' \in [Threads -> Labels]
    BY <1>3, <2>1
  <2> QED BY Zenon, <1>1, <1>2, <2>1, <2>2
<1>13. CASE ConsumerFree
  <2> DEFINE p == val["cons"]
  <2>1. /\ Goto("cons", "free", "get") /\ UNCHANGED <<a, b, kills>> /\ p \in DOMAIN heap
        /\ consumed' = Append(consumed, heap[p])
        /\ heap' = [q \in DOMAIN heap \ {p} |-> heap[q]]
        /\ i' = [i EXCEPT !["cons"] = @ + 1]
    BY Zenon, <1>13 DEF ConsumerFree
  <2>2. loc' \in [Threads -> Labels]
    BY <1>3, <2>1
  <2>3. /\ i' \in [Threads -> Nat] /\ i'["cons"] = i["cons"] + 1 /\ \A u \in Threads \ {"cons"} : i'[u] = i[u]
    BY <1>1, <2>1, NetNames
  <2> HIDE DEF p
  <2>4. DOMAIN heap' = DOMAIN heap \ {p} /\ heap' \in [DOMAIN heap \ {p} -> Nat] /\ heap[p] \in Nat
    BY <1>1, <2>1
  <2>5. consumed' \in Seq(Nat) /\ Len(consumed') = Len(consumed) + 1
    BY <1>1, <2>1, <2>4
  <2>6. \A q \in Pointers : q[1] \in Threads \ {"cons"}
    BY NetNames DEF Pointers
  <2>7. \A q \in DOMAIN heap' : q \in Pointers /\ q[2] < i'[q[1]]
    BY Zenon, <1>1, <2>3, <2>4, <2>6
  <2>8. heap' \in [DOMAIN heap' -> Nat]
    BY Zenon, <2>4
  <2>9. Len(consumed') = i'["cons"]
    BY Zenon, <1>1, <2>3, <2>5
  <2> QED BY Zenon, <1>1, <2>1, <2>2, <2>3, <2>5, <2>7, <2>8, <2>9 DEF NetTypeOK
<1>14. ASSUME NEW t \in Threads, InCallStep(t) PROVE NetTypeOK'
  BY Zenon, <1>1, <1>2, <1>14 DEF InCallStep, netVars
<1> QED BY Zenon, <1>5, <1>6, <1>7, <1>8, <1>9, <1>10, <1>11, <1>12, <1>13, <1>14 DEF NetNext, ThreadStep

(* The invariant of the network, given what put() and get() guarantee. *)
LEMMA NetInvStep ==
  ASSUME StreamsOK, NetInv, [NetNext]_allVars
  PROVE  NetInv'
<1>1. Moves /\ Control'
  BY Zenon, StepMoves
<1> QED BY Zenon, <1>1, WiredStep, NetTypeStep, OwnerStep, DataStep DEF NetInv

(* Without an rmmod, get() in prod-cons.c returns a token. *)
LEMMA InvReturns == NetInv => GetReturnsPutValue
<1> SUFFICES ASSUME NetInv, NEW t \in Threads, pc[t] = "get_up_empty" PROVE val[t] # NULL
  BY DEF GetReturnsPutValue
<1>1. ControlOf(t)
  BY Zenon DEF NetInv, Control
<1>2. pc[t] # "idle" /\ pc[t] \notin PutLocations /\ Received(t)
  BY DEF PutLocations, Received
<1>3. \A s : ~InPut(t, s) /\ (InGet(t, s) => val[t] # NULL)
  BY Zenon, <1>2 DEF InPut, InGet
<1>4. t = "mrg" => MergeControl
  BY Zenon, <1>1 DEF ControlOf
<1>5. CASE t = "mrg"
  BY Zenon, <1>2, <1>3, <1>4, <1>5 DEF MergeControl
<1>6. CASE t \in Successors
  BY Zenon, <1>1, <1>3, <1>6 DEF ControlOf
<1>7. CASE t \in TimesThreads
  BY Zenon, <1>1, <1>3, <1>7 DEF ControlOf
<1>8. CASE t = "cons"
  BY Zenon, <1>1, <1>2, <1>3, <1>8 DEF ControlOf
<1> QED BY <1>5, <1>6, <1>7, <1>8, NetNames

-----------------------------------------------------------------------------
(* The variables of Pipeline that ProdCons substitutes. *)
AbsQ == [s \in Streams |-> Ints(buffer[s], heap)]
AbsN == [s \in Successors |-> NextInt(s)]
AbsHand == [t \in TimesThreads |-> Product(t)]
AbsHead == [t \in TimesThreads |-> IntOf(Local(IF t = "tms2" THEN "a" ELSE "b"))]
AbsOut == IF Local("cons") = NULL THEN consumed ELSE Append(consumed, IntOf(Local("cons")))

(* What a thread of prod-cons.c holds is an int or NULL, never both. *)
LEMMA HeldInts ==
  ASSUME NetInv, NEW x \in LocalVariables
  PROVE  /\ Local(x) = NULL => IntOf(Local(x)) = NULL
         /\ Local(x) # NULL => /\ IntOf(Local(x)) = heap[Local(x)] /\ heap[Local(x)] \in Nat
                               /\ heap[Local(x)] # NULL
<1>1. Local(x) # NULL => Local(x) \in DOMAIN heap
  BY Zenon, OwnerFacts DEF NetInv
<1>2. heap \in [DOMAIN heap -> Nat]
  BY Zenon DEF NetInv, NetTypeOK
<1>3. Local(x) # NULL => heap[Local(x)] \in Nat
  BY Zenon, <1>1, <1>2
<1>4. NULL \notin Nat
  BY ProdConsAssumption
<1> QED BY Zenon, <1>3, <1>4 DEF IntOf

(* The queues of prod-cons.c hold allocated tokens. *)
LEMMA QueuesAllocated ==
  ASSUME StreamsOK, NetInv, NEW s \in Streams
  PROVE  Allocated(buffer[s], heap) /\ AbsQ[s] = Ints(buffer[s], heap) /\ Len(AbsQ[s]) = Len(buffer[s])
<1>1. buffer[s] \in Seq(Pointers)
  BY DEF StreamsOK
<1>2. \A k \in DOMAIN buffer[s] : buffer[s][k] \in DOMAIN heap
  BY Zenon, OwnerFacts DEF NetInv
<1>3. Allocated(buffer[s], heap)
  BY Zenon, <1>1, <1>2 DEF Allocated, NetInv, NetTypeOK
<1>4. AbsQ[s] = Ints(buffer[s], heap)
  BY Zenon DEF AbsQ
<1> QED BY Zenon, <1>3, <1>4, IntsType

(* A step that touches neither the queues nor the ints in them. *)
LEMMA QueuesKept ==
  ASSUME StreamsOK, buffer' = buffer,
         \A s \in Streams : \A k \in DOMAIN buffer[s] : heap'[buffer[s][k]] = heap[buffer[s][k]]
  PROVE  AbsQ' = AbsQ
<1>1. ASSUME NEW s \in Streams PROVE Ints(buffer[s], heap)' = Ints(buffer[s], heap)
  <2>1. buffer[s] \in Seq(Pointers)
    BY DEF StreamsOK
  <2>2. \A k \in 1 .. Len(buffer[s]) : heap'[buffer[s][k]] = heap[buffer[s][k]]
    <3>1. DOMAIN buffer[s] = 1 .. Len(buffer[s])
      BY Zenon, <2>1, SequenceDomain
    <3> QED BY Zenon, <3>1
  <2> QED BY Zenon, <2>2 DEF Ints
<1> QED BY Zenon, <1>1 DEF AbsQ

(* The queues of prod-cons.c and the ints in them when a token is sent. *)
LEMMA QueuesSend ==
  ASSUME StreamsOK, NetInv, NEW x \in LocalVariables, Sends(x)
  PROVE  LET s == Outlet(x) IN
         /\ s \in Streams /\ Len(AbsQ[s]) < BUFFER_SIZE
         /\ AbsQ' = [AbsQ EXCEPT ![s] = Append(AbsQ[s], IntOf(Local(x)))]
<1> DEFINE s == Outlet(x)
           p == Local(x)
<1>1. /\ p # NULL /\ s \in Streams /\ Len(buffer[s]) < BUFFER_SIZE /\ heap' = heap
      /\ buffer' = [buffer EXCEPT ![s] = Append(buffer[s], p)]
  BY Zenon DEF Sends
<1>2. p \in DOMAIN heap /\ IntOf(p) = heap[p]
  BY Zenon, <1>1, OwnerFacts, HeldInts DEF NetInv
<1>3. p \in Pointers
  BY Zenon, <1>2 DEF NetInv, NetTypeOK
<1>4. /\ Allocated(buffer[s], heap) /\ AbsQ[s] = Ints(buffer[s], heap)
      /\ Len(AbsQ[s]) = Len(buffer[s])
  BY Zenon, <1>1, QueuesAllocated
<1> HIDE DEF s, p
<1>5. Ints(Append(buffer[s], p), heap) = Append(AbsQ[s], IntOf(p))
  BY Zenon, <1>2, <1>3, <1>4, IntsAppend
<1>6. buffer \in [Streams -> Seq(Pointers)]
  BY Zenon DEF StreamsOK
<1>7. buffer'[s] = Append(buffer[s], p) /\ \A r \in Streams \ {s} : buffer'[r] = buffer[r]
  BY Zenon, <1>1, <1>6
<1>8. AbsQ'[s] = Append(AbsQ[s], IntOf(p)) /\ \A r \in Streams \ {s} : AbsQ'[r] = AbsQ[r]
  <2>1. \A r \in Streams : AbsQ[r] = Ints(buffer[r], heap) /\ AbsQ'[r] = Ints(buffer'[r], heap')
    BY Zenon DEF AbsQ
  <2>2. heap' = heap /\ s \in Streams
    BY Zenon, <1>1
  <2>3. AbsQ'[s] = Append(AbsQ[s], IntOf(p))
    BY Zenon, <1>5, <1>7, <2>1, <2>2
  <2>4. ASSUME NEW r \in Streams \ {s} PROVE AbsQ'[r] = AbsQ[r]
    BY Zenon, <1>7, <2>1, <2>2
  <2> QED BY Zenon, <2>3, <2>4
<1>9. AbsQ' = [AbsQ EXCEPT ![s] = Append(AbsQ[s], IntOf(p))]
  <2>1. AbsQ = [r \in Streams |-> AbsQ[r]] /\ AbsQ' = [r \in Streams |-> AbsQ'[r]]
    BY Zenon DEF AbsQ
  <2> DEFINE v == Append(AbsQ[s], IntOf(p))
  <2>2. AbsQ'[s] = v
    BY Zenon, <1>8
  <2> HIDE DEF v
  <2>3. AbsQ' = [AbsQ EXCEPT ![s] = v]
    BY Zenon, <1>1, <1>8, <2>1, <2>2, Assigned
  <2> QED BY Zenon, <2>3 DEF v
<1>10. Len(AbsQ[s]) < BUFFER_SIZE
  BY Zenon, <1>1, <1>4
<1> QED BY Zenon, <1>1, <1>9, <1>10 DEF s, p

(* The queues of prod-cons.c and the ints in them when a token is          *)
(* received.                                                               *)
LEMMA QueuesReceive ==
  ASSUME StreamsOK, NetInv, NEW x \in LocalVariables, Receives(x)
  PROVE  LET s == Inlet(x) IN
         /\ s \in Streams /\ AbsQ[s] # << >> /\ AbsQ' = [AbsQ EXCEPT ![s] = Tail(AbsQ[s])]
         /\ Local(x)' # NULL /\ IntOf(Local(x))' = Head(AbsQ[s])
<1> DEFINE s == Inlet(x)
<1>1. /\ s \in Streams /\ buffer[s] # << >> /\ heap' = heap
      /\ buffer' = [buffer EXCEPT ![s] = Tail(buffer[s])]
  BY Zenon DEF Receives
<1>2. Local(x)' = Head(buffer[s])
  BY Zenon, KeptStep
<1>3. /\ Allocated(buffer[s], heap) /\ AbsQ[s] = Ints(buffer[s], heap)
      /\ Len(AbsQ[s]) = Len(buffer[s])
  BY Zenon, <1>1, QueuesAllocated
<1> HIDE DEF s
<1>4. /\ Ints(Tail(buffer[s]), heap) = Tail(AbsQ[s]) /\ AbsQ[s] # << >>
      /\ Head(AbsQ[s]) = heap[Head(buffer[s])]
  BY Zenon, <1>1, <1>3, IntsTail
<1>5. buffer \in [Streams -> Seq(Pointers)]
  BY Zenon DEF StreamsOK
<1>6. buffer'[s] = Tail(buffer[s]) /\ \A r \in Streams \ {s} : buffer'[r] = buffer[r]
  BY Zenon, <1>1, <1>5
<1>7. AbsQ'[s] = Tail(AbsQ[s]) /\ \A r \in Streams \ {s} : AbsQ'[r] = AbsQ[r]
  <2>1. \A r \in Streams : AbsQ[r] = Ints(buffer[r], heap) /\ AbsQ'[r] = Ints(buffer'[r], heap')
    BY Zenon DEF AbsQ
  <2>2. heap' = heap /\ s \in Streams
    BY Zenon, <1>1
  <2>3. AbsQ'[s] = Tail(AbsQ[s])
    BY Zenon, <1>4, <1>6, <2>1, <2>2
  <2>4. ASSUME NEW r \in Streams \ {s} PROVE AbsQ'[r] = AbsQ[r]
    BY Zenon, <1>6, <2>1, <2>2
  <2> QED BY Zenon, <2>3, <2>4
<1>8. AbsQ' = [AbsQ EXCEPT ![s] = Tail(AbsQ[s])]
  <2>1. AbsQ = [r \in Streams |-> AbsQ[r]] /\ AbsQ' = [r \in Streams |-> AbsQ'[r]]
    BY Zenon DEF AbsQ
  <2> DEFINE v == Tail(AbsQ[s])
  <2>2. AbsQ'[s] = v
    BY Zenon, <1>7
  <2> HIDE DEF v
  <2>3. AbsQ' = [AbsQ EXCEPT ![s] = v]
    BY Zenon, <1>1, <1>7, <2>1, <2>2, Assigned
  <2> QED BY Zenon, <2>3 DEF v
<1>9. buffer[s] \in Seq(Pointers)
  BY Zenon, <1>1, <1>5
<1>10. Head(buffer[s]) \in Pointers
  BY <1>1, <1>9
<1>11. Head(buffer[s]) # NULL
  BY Zenon, <1>10, NullNotAllocated DEF NetInv
<1> QED BY Zenon, <1>1, <1>2, <1>4, <1>8, <1>11 DEF s, IntOf

(* The variables of Pipeline that a step of the network leaves alone. *)
LEMMA AbsKept ==
  /\ Kept("a") /\ Kept("b") => AbsHead' = AbsHead
  /\ (\A t \in TimesThreads : Kept(t) /\ (Unsent(t)' <=> Unsent(t))) => AbsHand' = AbsHand
  /\ Kept("cons") /\ consumed' = consumed => AbsOut' = AbsOut
  /\ (\A s \in Successors : NextInt(s)' = NextInt(s)) => AbsN' = AbsN
<1>1. \A y : Kept(y) => IntOf(Local(y))' = IntOf(Local(y))
  BY Zenon DEF Kept, IntOf
<1>2. ASSUME Kept("a"), Kept("b") PROVE AbsHead' = AbsHead
  <2> DEFINE f(t) == IntOf(Local(IF t = "tms2" THEN "a" ELSE "b"))
  <2>1. ASSUME NEW t \in TimesThreads PROVE f(t)' = f(t)
    <3>1. CASE t = "tms2"
      BY Zenon, <1>1, <1>2, <3>1
    <3>2. CASE t # "tms2"
      BY Zenon, <1>1, <1>2, <3>2
    <3> QED BY Zenon, <3>1, <3>2
  <2> QED BY Zenon, <2>1 DEF AbsHead
<1>3. ASSUME \A t \in TimesThreads : Kept(t) /\ (Unsent(t)' <=> Unsent(t)) PROVE AbsHand' = AbsHand
  <2>1. ASSUME NEW t \in TimesThreads PROVE Product(t)' = Product(t)
    BY Zenon, <1>1, <1>3 DEF Product, Kept, Factor
  <2> QED BY Zenon, <2>1 DEF AbsHand
<1>4. ASSUME Kept("cons"), consumed' = consumed PROVE AbsOut' = AbsOut
  BY Zenon, <1>1, <1>4 DEF AbsOut, Kept
<1>5. ASSUME \A s \in Successors : NextInt(s)' = NextInt(s) PROVE AbsN' = AbsN
  BY Zenon, <1>5 DEF AbsN
<1> QED BY Zenon, <1>2, <1>3, <1>4, <1>5

-----------------------------------------------------------------------------
(* The two ints that merge() holds, as Pipeline numbers them. *)
LEMMA AbsHeads ==
  /\ AbsHead["tms2"] = IntOf(Local("a")) /\ AbsHead["tms1"] = IntOf(Local("b"))
  /\ AbsHead'["tms2"] = IntOf(Local("a"))' /\ AbsHead'["tms1"] = IntOf(Local("b"))'
  /\ AbsHead = [t \in TimesThreads |-> AbsHead[t]] /\ AbsHead' = [t \in TimesThreads |-> AbsHead'[t]]
<1>1. "tms1" \in TimesThreads /\ "tms2" \in TimesThreads /\ "tms1" # "tms2"
  BY NetNames
<1> QED BY Zenon, <1>1 DEF AbsHead

(* vmalloc(), the multiplication and vfree() in prod-cons.c change no int  *)
(* in a queue.                                                             *)
LEMMA QueuesUntouched ==
  ASSUME StreamsOK, NetInv,
         \/ Quiet \/ Decides \/ Frees
         \/ \E t \in Successors : Allocates(t)
         \/ \E t \in TimesThreads : Multiplies(t)
  PROVE  AbsQ' = AbsQ
<1>1. \A s \in Streams : \A k \in DOMAIN buffer[s] :
        buffer[s][k] \in DOMAIN heap /\ \A x \in LocalVariables : Local(x) # buffer[s][k]
  BY Zenon, OwnerFacts DEF NetInv
<1>2. CASE Quiet \/ Decides
  BY Zenon, <1>2, QueuesKept DEF Quiet, Decides
<1>3. CASE Frees
  <2> DEFINE c == Local("cons")
  <2>1. "cons" \in LocalVariables
    BY NetNames
  <2>2. buffer' = buffer /\ heap' = [q \in DOMAIN heap \ {c} |-> heap[q]]
    BY Zenon, <1>3 DEF Frees
  <2>3. \A p \in DOMAIN heap \ {c} : heap'[p] = heap[p]
    BY Zenon, <2>2
  <2>4. \A s \in Streams : \A k \in DOMAIN buffer[s] : buffer[s][k] \in DOMAIN heap \ {c}
    BY Zenon, <1>1, <2>1
  <2> QED BY Zenon, <2>2, <2>3, <2>4, QueuesKept
<1>4. ASSUME NEW t \in Successors, Allocates(t) PROVE AbsQ' = AbsQ
  <2> DEFINE p == <<t, i[t]>>
  <2>1. buffer' = buffer /\ heap' = [q \in DOMAIN heap \cup {p} |-> IF q = p THEN i[t] ELSE heap[q]]
    BY Zenon, <1>4 DEF Allocates
  <2>2. p \notin DOMAIN heap
    BY Zenon, FreshToken DEF NetInv
  <2> HIDE DEF p
  <2>3. \A q \in DOMAIN heap : heap'[q] = heap[q]
    BY <2>1, <2>2
  <2> QED BY Zenon, <1>1, <2>1, <2>3, QueuesKept
<1>5. ASSUME NEW t \in TimesThreads, Multiplies(t) PROVE AbsQ' = AbsQ
  <2> DEFINE c == Local(t)
             w == heap[Local(t)] * Factor(t)
  <2>1. t \in LocalVariables
    BY NetNames
  <2>2. buffer' = buffer /\ heap' = [heap EXCEPT ![c] = w]
    BY Zenon, <1>5 DEF Multiplies
  <2>3. \A s \in Streams : \A k \in DOMAIN buffer[s] : buffer[s][k] \in DOMAIN heap \ {c}
    BY Zenon, <1>1, <2>1
  <2> HIDE DEF c, w
  <2>4. \A p \in DOMAIN heap \ {c} : heap'[p] = heap[p]
    BY Zenon, <2>2
  <2> QED BY Zenon, <2>2, <2>3, <2>4, QueuesKept
<1> QED BY Zenon, <1>2, <1>3, <1>4, <1>5
=============================================================================
