--------------------------- MODULE ProdConsProofs --------------------------
(***************************************************************************)
(* Proofs about the thread network of prod-cons.c (module ProdCons), for   *)
(* any factors, buffer size and number of tokens: every token has one      *)
(* owner, and the network implements Pipeline. They rest on the invariant  *)
(* of module ProdConsInvariant.                                            *)
(***************************************************************************)
EXTENDS ProdConsInvariant, ProdConsPipeline, TLAPS

(* The steps of Pipeline in terms of the mapping of the queues (AbsQ) and  *)
(* of what the threads hold: successor() of prod-cons.c puts.              *)
LEMMA AbsSuccessorStep ==
  ASSUME NEW s \in Successors, Len(AbsQ[s]) < BUFFER_SIZE,
         AbsQ' = [AbsQ EXCEPT ![s] = Append(AbsQ[s], AbsN[s])],
         AbsN' = [AbsN EXCEPT ![s] = AbsN[s] + 1],
         AbsHand' = AbsHand, AbsHead' = AbsHead, AbsOut' = AbsOut
  PROVE  Pipe!SuccessorStep(s)
BY Zenon DEF AbsQ, AbsN, AbsHand, AbsHead, AbsOut, Ints, NextInt, Pipe!SuccessorStep, Pipe!Insert

(* A times thread gets. *)
LEMMA AbsTimesTake ==
  ASSUME NEW t \in TimesThreads, AbsHand[t] = NULL, AbsQ[Supplier(t)] # << >>,
         AbsQ' = [AbsQ EXCEPT ![Supplier(t)] = Tail(AbsQ[Supplier(t)])],
         AbsHand' = [AbsHand EXCEPT ![t] = Head(AbsQ[Supplier(t)]) * Factor(t)],
         AbsN' = AbsN, AbsHead' = AbsHead, AbsOut' = AbsOut
  PROVE  Pipe!TimesTake(t)
BY Zenon DEF AbsQ, AbsN, AbsHand, AbsHead, AbsOut, Ints, NextInt, Supplier, Factor,
             Pipe!TimesTake, Pipe!Extract, Pipe!Source, Pipe!Factor

(* A times thread puts. *)
LEMMA AbsTimesPass ==
  ASSUME NEW t \in TimesThreads, AbsHand[t] # NULL, Len(AbsQ[t]) < BUFFER_SIZE,
         AbsQ' = [AbsQ EXCEPT ![t] = Append(AbsQ[t], AbsHand[t])],
         AbsHand' = [AbsHand EXCEPT ![t] = NULL],
         AbsN' = AbsN, AbsHead' = AbsHead, AbsOut' = AbsOut
  PROVE  Pipe!TimesPass(t)
BY Zenon DEF AbsQ, AbsN, AbsHand, AbsHead, AbsOut, Ints, NextInt, Pipe!TimesPass, Pipe!Insert

(* merge() gets. *)
LEMMA AbsMergeTake ==
  ASSUME NEW t \in TimesThreads, AbsHead[t] = NULL, t = "tms1" => AbsHead["tms2"] # NULL,
         AbsQ[t] # << >>, AbsQ' = [AbsQ EXCEPT ![t] = Tail(AbsQ[t])],
         AbsHead' = [AbsHead EXCEPT ![t] = Head(AbsQ[t])],
         AbsN' = AbsN, AbsHand' = AbsHand, AbsOut' = AbsOut
  PROVE  Pipe!MergeTake(t)
BY Zenon DEF AbsQ, AbsN, AbsHand, AbsHead, AbsOut, Ints, NextInt, Pipe!MergeTake, Pipe!Extract

(* merge() puts. *)
LEMMA AbsMergePass ==
  ASSUME NEW t \in TimesThreads, NULL \notin {AbsHead["tms1"], AbsHead["tms2"]},
         t = (IF AbsHead["tms2"] < AbsHead["tms1"] THEN "tms2" ELSE "tms1"),
         Len(AbsQ["mrg"]) < BUFFER_SIZE,
         AbsQ' = [AbsQ EXCEPT !["mrg"] = Append(AbsQ["mrg"], AbsHead[t])],
         AbsHead' = [AbsHead EXCEPT ![t] = NULL],
         AbsN' = AbsN, AbsHand' = AbsHand, AbsOut' = AbsOut
  PROVE  Pipe!MergePass(t)
BY Zenon DEF AbsQ, AbsN, AbsHand, AbsHead, AbsOut, Ints, NextInt, Pipe!MergePass, Pipe!Insert

(* consumer() gets. *)
LEMMA AbsConsumerTake ==
  ASSUME Len(AbsOut) < ConsumerLimit, AbsQ["mrg"] # << >>,
         AbsQ' = [AbsQ EXCEPT !["mrg"] = Tail(AbsQ["mrg"])],
         AbsOut' = Append(AbsOut, Head(AbsQ["mrg"])),
         AbsN' = AbsN, AbsHand' = AbsHand, AbsHead' = AbsHead
  PROVE  Pipe!ConsumerTake
BY Zenon DEF AbsQ, AbsN, AbsHand, AbsHead, AbsOut, Ints, NextInt, Pipe!ConsumerTake, Pipe!Extract

(* Nothing that Pipeline sees. *)
LEMMA AbsStutter ==
  ASSUME AbsQ' = AbsQ, AbsN' = AbsN, AbsHand' = AbsHand, AbsHead' = AbsHead, AbsOut' = AbsOut
  PROVE  UNCHANGED Pipe!pipeVars
BY Zenon DEF AbsQ, AbsN, AbsHand, AbsHead, AbsOut, Ints, NextInt, Pipe!pipeVars

-----------------------------------------------------------------------------
(* A step of prod-cons.c inside a thread is none of Pipeline. *)
LEMMA StepStutters ==
  ASSUME StreamsOK, NetInv,
         \/ Quiet \/ Decides \/ Frees
         \/ \E t \in Successors : Allocates(t)
         \/ \E t \in TimesThreads : Multiplies(t)
  PROVE  UNCHANGED Pipe!pipeVars
<1>1. AbsQ' = AbsQ
  BY Zenon, QueuesUntouched
<1>2. /\ "a" \in LocalVariables /\ "b" \in LocalVariables /\ "cons" \in LocalVariables
      /\ TimesThreads \subseteq LocalVariables /\ Successors \subseteq LocalVariables
      /\ "mrg" \notin Successors /\ "mrg" \notin TimesThreads
      /\ TimesThreads \cap (Successors \cup {"a", "b", "cons"}) = {}
      /\ Successors \cap {"a", "b", "cons"} = {}
  BY NetNames
<1>3. CASE Quiet \/ Decides
  <2>1. \A y \in LocalVariables : Kept(y)
    BY Zenon, <1>3, KeptStep
  <2>2. /\ consumed' = consumed /\ \A s \in Successors : NextInt(s)' = NextInt(s)
        /\ \A t \in TimesThreads : Unsent(t)' <=> Unsent(t)
    BY Zenon, <1>2, <1>3 DEF Quiet, Decides, Uncounted
  <2> QED BY Zenon, <1>1, <1>2, <2>1, <2>2, AbsKept, AbsStutter
<1>4. ASSUME NEW t \in Successors, Allocates(t) PROVE UNCHANGED Pipe!pipeVars
  <2>1. \A y \in LocalVariables \ {t} : Kept(y)
    BY Zenon, <1>4, KeptStep
  <2>2. /\ consumed' = consumed /\ \A s \in Successors : NextInt(s)' = NextInt(s)
        /\ \A u \in TimesThreads : Unsent(u)' <=> Unsent(u)
    BY Zenon, <1>4 DEF Allocates, Uncounted
  <2>3. Kept("a") /\ Kept("b") /\ Kept("cons") /\ \A u \in TimesThreads : Kept(u)
    BY Zenon, <1>2, <2>1
  <2> QED BY Zenon, <1>1, <2>2, <2>3, AbsKept, AbsStutter
<1>5. ASSUME NEW t \in TimesThreads, Multiplies(t) PROVE UNCHANGED Pipe!pipeVars
  <2>1. /\ Local(t)' = Local(t) /\ heap'[Local(t)] = heap[Local(t)] * Factor(t)
        /\ \A y \in LocalVariables \ {t} : Kept(y)
    BY Zenon, <1>5, KeptStep
  <2>2. /\ consumed' = consumed /\ \A s \in Successors : NextInt(s)' = NextInt(s)
        /\ \A u \in TimesThreads \ {t} : Unsent(u)' <=> Unsent(u)
        /\ Local(t) # NULL /\ ~Unsent(t) /\ Unsent(t)'
    BY Zenon, <1>2, <1>5 DEF Multiplies, Uncounted
  <2>3. Kept("a") /\ Kept("b") /\ Kept("cons") /\ \A u \in TimesThreads \ {t} : Kept(u)
    BY Zenon, <1>2, <2>1
  <2>4. Product(t)' = Product(t)
    BY Zenon, <2>1, <2>2 DEF Product, IntOf
  <2>5. ASSUME NEW u \in TimesThreads \ {t} PROVE Product(u)' = Product(u)
    <3>1. Kept(u) /\ (Unsent(u)' <=> Unsent(u))
      BY Zenon, <2>2, <2>3
    <3> QED BY Zenon, <3>1 DEF Kept, Product, IntOf, Factor
  <2>6. AbsHand' = AbsHand
    BY Zenon, <2>4, <2>5 DEF AbsHand
  <2> QED BY Zenon, <1>1, <2>2, <2>3, <2>6, AbsKept, AbsStutter
<1>6. CASE Frees
  <2>1. Local("cons")' = NULL /\ \A y \in LocalVariables \ {"cons"} : Kept(y)
    BY Zenon, <1>6, KeptStep
  <2>2. /\ Local("cons") # NULL /\ consumed' = Append(consumed, heap[Local("cons")])
        /\ \A s \in Successors : NextInt(s)' = NextInt(s)
        /\ \A u \in TimesThreads : Unsent(u)' <=> Unsent(u)
    BY Zenon, <1>6 DEF Frees, Uncounted
  <2>3. Kept("a") /\ Kept("b") /\ \A u \in TimesThreads : Kept(u)
    BY Zenon, <1>2, <2>1
  <2>4. AbsOut' = AbsOut
    BY Zenon, <2>1, <2>2 DEF AbsOut, IntOf
  <2> QED BY Zenon, <1>1, <2>2, <2>3, <2>4, AbsKept, AbsStutter
<1> QED BY Zenon, <1>3, <1>4, <1>5, <1>6

-----------------------------------------------------------------------------
(* enqueue() in prod-cons.c is a step of Pipeline. *)
LEMMA SendRefines ==
  ASSUME StreamsOK, NetInv, NEW x \in LocalVariables, x # "cons", Sends(x)
  PROVE  Pipe!PipeNext
<1>1. /\ Len(AbsQ[Outlet(x)]) < BUFFER_SIZE
      /\ AbsQ' = [AbsQ EXCEPT ![Outlet(x)] = Append(AbsQ[Outlet(x)], IntOf(Local(x)))]
  BY Zenon, QueuesSend
<1>2. Local(x)' = NULL /\ \A y \in LocalVariables \ {x} : Kept(y)
  BY Zenon, KeptStep
<1>3. /\ Local(x) # NULL /\ consumed' = consumed /\ Uncounted({Owner(x)})
      /\ x \in Successors => NextInt(x)' = NextInt(x) + 1
      /\ x \in TimesThreads => Unsent(x)
      /\ x \in {"a", "b"} => /\ Merging = IF x = "a" THEN "get_a" ELSE "get_b"
                             /\ Local("a") # NULL /\ Local("b") # NULL
  BY Zenon DEF Sends
<1>4. IntOf(Local(x)) = heap[Local(x)] /\ heap[Local(x)] \in Nat /\ heap[Local(x)] # NULL
  BY Zenon, <1>3, HeldInts
<1>5. /\ "a" \in LocalVariables /\ "b" \in LocalVariables /\ "cons" \in LocalVariables
      /\ TimesThreads \subseteq LocalVariables /\ Successors \subseteq LocalVariables
      /\ "mrg" \notin Successors /\ "mrg" \notin TimesThreads
      /\ TimesThreads \cap (Successors \cup {"a", "b", "cons"}) = {}
      /\ Successors \cap {"a", "b", "cons"} = {}
  BY NetNames
<1>6. AbsOut' = AbsOut
  BY Zenon, <1>2, <1>3, <1>5, AbsKept
<1>7. CASE x \in Successors
  <2>1. Owner(x) = x /\ Outlet(x) = x
    BY Zenon, <1>5, <1>7 DEF Owner, Outlet
  <2>2. AbsHead' = AbsHead
    BY Zenon, <1>2, <1>5, <1>7, AbsKept
  <2>3. \A t \in TimesThreads : Unsent(t)' <=> Unsent(t)
    BY Zenon, <1>3, <1>5, <1>7, <2>1 DEF Uncounted
  <2>4. \A t \in TimesThreads : Kept(t)
    BY Zenon, <1>2, <1>5, <1>7
  <2>5. AbsHand' = AbsHand
    BY Zenon, <2>3, <2>4, AbsKept
  <2>6. AbsN[x] = NextInt(x)
    BY Zenon, <1>7 DEF AbsN
  <2>7. IntOf(Local(x)) = AbsN[x]
    BY Zenon, <1>3, <1>4, <1>7, <2>6 DEF NetInv, DataInv
  <2> DEFINE v == AbsN[x] + 1
  <2>8. AbsN'[x] = v
    BY Zenon, <1>3, <1>7, <2>6 DEF AbsN
  <2> HIDE DEF v
  <2>9. \A s \in Successors \ {x} : AbsN'[s] = AbsN[s]
    BY Zenon, <1>3, <2>1 DEF Uncounted, AbsN
  <2>10. AbsN = [s \in Successors |-> AbsN[s]] /\ AbsN' = [s \in Successors |-> AbsN'[s]]
    BY Zenon DEF AbsN
  <2>11. AbsN' = [AbsN EXCEPT ![x] = v]
    BY Zenon, <1>7, <2>8, <2>9, <2>10, Assigned
  <2>12. AbsN' = [AbsN EXCEPT ![x] = AbsN[x] + 1]
    BY Zenon, <2>11 DEF v
  <2>13. Pipe!SuccessorStep(x)
    BY Zenon, <1>1, <1>6, <1>7, <2>1, <2>2, <2>5, <2>7, <2>12, AbsSuccessorStep
  <2> QED BY Zenon, <1>7, <2>13 DEF Pipe!PipeNext, Pipe!Successors, Successors
<1>8. CASE x \in TimesThreads
  <2>1. Owner(x) = x /\ Outlet(x) = x
    BY Zenon, <1>5, <1>8 DEF Owner, Outlet
  <2>2. AbsHead' = AbsHead
    BY Zenon, <1>2, <1>5, <1>8, AbsKept
  <2>3. \A s \in Successors : NextInt(s)' = NextInt(s)
    BY Zenon, <1>3, <1>5, <1>8, <2>1 DEF Uncounted
  <2>4. AbsN' = AbsN
    BY Zenon, <2>3, AbsKept
  <2>5. AbsHand[x] = IntOf(Local(x))
    BY Zenon, <1>3, <1>8 DEF AbsHand, Product
  <2>6. AbsHand'[x] = NULL
    BY Zenon, <1>2, <1>8 DEF AbsHand, Product, IntOf
  <2>7. ASSUME NEW t \in TimesThreads \ {x} PROVE AbsHand'[t] = AbsHand[t]
    <3>1. Kept(t) /\ (Unsent(t)' <=> Unsent(t))
      BY Zenon, <1>2, <1>3, <1>5, <2>1 DEF Uncounted
    <3>2. Product(t)' = Product(t)
      BY Zenon, <3>1 DEF Kept, Product, IntOf, Factor
    <3> QED BY Zenon, <3>2 DEF AbsHand
  <2>8. AbsHand = [t \in TimesThreads |-> AbsHand[t]] /\ AbsHand' = [t \in TimesThreads |-> AbsHand'[t]]
    BY Zenon DEF AbsHand
  <2>9. AbsHand' = [AbsHand EXCEPT ![x] = NULL]
    BY Zenon, <1>8, <2>6, <2>7, <2>8, Assigned
  <2>10. Pipe!TimesPass(x)
    BY Zenon, <1>1, <1>4, <1>6, <1>8, <2>1, <2>2, <2>4, <2>5, <2>9, AbsTimesPass
  <2> QED BY Zenon, <1>8, <2>10 DEF Pipe!PipeNext, Pipe!TimesThreads, TimesThreads
<1>9. CASE x \in {"a", "b"}
  <2>1. Owner(x) = "mrg" /\ Outlet(x) = "mrg"
    BY Zenon, <1>9 DEF Owner, Outlet
  <2>2. /\ \A s \in Successors : NextInt(s)' = NextInt(s)
        /\ \A t \in TimesThreads : Unsent(t)' <=> Unsent(t)
    BY Zenon, <1>3, <1>5, <2>1 DEF Uncounted
  <2>3. \A t \in TimesThreads : Kept(t)
    BY Zenon, <1>2, <1>5, <1>9
  <2>4. AbsN' = AbsN /\ AbsHand' = AbsHand
    BY Zenon, <2>2, <2>3, AbsKept
  <2> DEFINE la == heap[Local("a")]
             lb == heap[Local("b")]
             t == IF x = "a" THEN "tms2" ELSE "tms1"
  <2>5. IntOf(Local("a")) = la /\ la \in Nat /\ la # NULL /\ IntOf(Local("b")) = lb /\ lb \in Nat /\ lb # NULL
    BY Zenon, <1>3, <1>5, <1>9, HeldInts
  <2>6. IF x = "a" THEN la < lb ELSE la >= lb
    BY <1>3, <1>9 DEF NetInv, DataInv
  <2>7. AbsHead["tms2"] = la /\ AbsHead["tms1"] = lb
    BY Zenon, <2>5, AbsHeads
  <2>8. NULL \notin {AbsHead["tms1"], AbsHead["tms2"]}
    BY Zenon, <2>5, <2>7
  <2>9. AbsHead[t] = IntOf(Local(x)) /\ AbsHead'[t] = NULL
    <3>1. IntOf(Local(x))' = NULL
      BY Zenon, <1>2 DEF IntOf
    <3>2. CASE x = "a"
      BY Zenon, <3>1, <3>2, AbsHeads
    <3>3. CASE x = "b"
      BY Zenon, <3>1, <3>3, AbsHeads
    <3> QED BY Zenon, <1>9, <3>2, <3>3
  <2> HIDE DEF la, lb
  <2>10. t = (IF lb > la THEN "tms2" ELSE "tms1")
    BY <1>9, <2>5, <2>6
  <2>11. t = (IF AbsHead["tms2"] < AbsHead["tms1"] THEN "tms2" ELSE "tms1")
    BY <2>5, <2>7, <2>10
  <2>12. t \in TimesThreads
    BY NetNames
  <2>13. ASSUME NEW u \in TimesThreads \ {t} PROVE AbsHead'[u] = AbsHead[u]
    <3>1. CASE x = "a"
      <4>1. u = "tms1"
        BY Zenon, <3>1 DEF TimesThreads
      <4>2. Kept("b")
        BY Zenon, <1>2, <1>5, <3>1
      <4> QED BY Zenon, <4>1, <4>2, AbsHeads DEF Kept, IntOf
    <3>2. CASE x = "b"
      <4>1. u = "tms2"
        BY Zenon, <3>2 DEF TimesThreads
      <4>2. Kept("a")
        BY Zenon, <1>2, <1>5, <3>2
      <4> QED BY Zenon, <4>1, <4>2, AbsHeads DEF Kept, IntOf
    <3> QED BY Zenon, <1>9, <3>1, <3>2
  <2> HIDE DEF t
  <2>14. AbsHead' = [AbsHead EXCEPT ![t] = NULL]
    BY Zenon, <2>9, <2>12, <2>13, Assigned, AbsHeads
  <2>15. Pipe!MergePass(t)
    BY Zenon, <1>1, <1>6, <2>1, <2>4, <2>8, <2>9, <2>11, <2>12, <2>14, AbsMergePass
  <2> QED BY Zenon, <2>12, <2>15 DEF Pipe!PipeNext, Pipe!TimesThreads, TimesThreads
<1> QED BY Zenon, <1>7, <1>8, <1>9 DEF LocalVariables

-----------------------------------------------------------------------------
(* dequeue() in prod-cons.c is a step of Pipeline. *)
LEMMA ReceiveRefines ==
  ASSUME StreamsOK, NetInv, NEW x \in LocalVariables, Receives(x)
  PROVE  Pipe!PipeNext
<1>1. /\ AbsQ[Inlet(x)] # << >> /\ AbsQ' = [AbsQ EXCEPT ![Inlet(x)] = Tail(AbsQ[Inlet(x)])]
      /\ Local(x)' # NULL /\ IntOf(Local(x))' = Head(AbsQ[Inlet(x)])
  BY Zenon, QueuesReceive
<1>2. \A y \in LocalVariables \ {x} : Kept(y)
  BY Zenon, KeptStep
<1>3. /\ Local(x) = NULL /\ consumed' = consumed /\ Uncounted({}) /\ x \notin Successors
      /\ x \in TimesThreads => ~Unsent(x)
      /\ x = "b" => Local("a") # NULL
      /\ x = "cons" => Len(consumed) < ConsumerLimit
  BY Zenon DEF Receives
<1>4. /\ \A s \in Successors : NextInt(s)' = NextInt(s)
      /\ \A t \in TimesThreads : Unsent(t)' <=> Unsent(t)
  BY Zenon, <1>3 DEF Uncounted
<1>5. /\ "a" \in LocalVariables /\ "b" \in LocalVariables /\ "cons" \in LocalVariables
      /\ TimesThreads \subseteq LocalVariables
      /\ TimesThreads \cap {"a", "b", "cons"} = {}
      /\ "a" # "b" /\ "a" # "cons" /\ "b" # "cons"
  BY NetNames
<1>6. AbsN' = AbsN
  BY Zenon, <1>4, AbsKept
<1>7. CASE x \in TimesThreads
  <2>1. Inlet(x) = Supplier(x)
    BY <1>7 DEF Inlet, TimesThreads
  <2>2. AbsHead' = AbsHead /\ AbsOut' = AbsOut
    BY Zenon, <1>2, <1>3, <1>5, <1>7, AbsKept
  <2>3. AbsHand[x] = NULL
    BY Zenon, <1>3, <1>7 DEF AbsHand, Product, IntOf
  <2> DEFINE v == Head(AbsQ[Supplier(x)]) * Factor(x)
  <2>4. AbsHand'[x] = v
    BY Zenon, <1>1, <1>3, <1>4, <1>7, <2>1 DEF AbsHand, Product, Factor
  <2> HIDE DEF v
  <2>5. ASSUME NEW t \in TimesThreads \ {x} PROVE AbsHand'[t] = AbsHand[t]
    <3>1. Kept(t) /\ (Unsent(t)' <=> Unsent(t))
      BY Zenon, <1>2, <1>4, <1>5
    <3>2. Product(t)' = Product(t)
      BY Zenon, <3>1 DEF Kept, Product, IntOf, Factor
    <3> QED BY Zenon, <3>2 DEF AbsHand
  <2>6. AbsHand = [t \in TimesThreads |-> AbsHand[t]] /\ AbsHand' = [t \in TimesThreads |-> AbsHand'[t]]
    BY Zenon DEF AbsHand
  <2>7. AbsHand' = [AbsHand EXCEPT ![x] = v]
    BY Zenon, <1>7, <2>4, <2>5, <2>6, Assigned
  <2>8. AbsHand' = [AbsHand EXCEPT ![x] = Head(AbsQ[Supplier(x)]) * Factor(x)]
    BY Zenon, <2>7 DEF v
  <2>9. Pipe!TimesTake(x)
    BY Zenon, <1>1, <1>6, <1>7, <2>1, <2>2, <2>3, <2>8, AbsTimesTake
  <2> QED BY Zenon, <1>7, <2>9 DEF Pipe!PipeNext, Pipe!TimesThreads, TimesThreads
<1>8. CASE x \in {"a", "b"}
  <2>1. AbsHand' = AbsHand /\ AbsOut' = AbsOut
    <3>1. Kept("cons") /\ \A t \in TimesThreads : Kept(t)
      BY Zenon, <1>2, <1>5, <1>8
    <3> QED BY Zenon, <1>3, <1>4, <3>1, AbsKept
  <2> DEFINE t == IF x = "a" THEN "tms2" ELSE "tms1"
             v == Head(AbsQ[t])
  <2>2. t \in TimesThreads /\ (t = "tms1" => x = "b") /\ "tms1" # "tms2"
    BY Zenon, <1>8 DEF TimesThreads
  <2>3. Inlet(x) = t
    BY <1>8 DEF Inlet, TimesThreads
  <2>4. AbsHead[t] = NULL /\ AbsHead'[t] = v
    <3>1. IntOf(Local(x)) = NULL /\ IntOf(Local(x))' = v
      BY Zenon, <1>1, <1>3, <2>3 DEF IntOf
    <3> HIDE DEF v
    <3>2. CASE x = "a"
      BY Zenon, <3>1, <3>2, AbsHeads
    <3>3. CASE x = "b"
      BY Zenon, <1>5, <3>1, <3>3, AbsHeads
    <3> QED BY Zenon, <1>8, <3>2, <3>3
  <2>5. t = "tms1" => AbsHead["tms2"] # NULL
    BY Zenon, <1>3, <1>5, <2>2, AbsHeads, HeldInts
  <2>6. ASSUME NEW u \in TimesThreads \ {t} PROVE AbsHead'[u] = AbsHead[u]
    <3>1. CASE x = "a"
      <4>1. u = "tms1"
        BY Zenon, <3>1 DEF TimesThreads
      <4>2. Kept("b")
        BY Zenon, <1>2, <1>5, <3>1
      <4> QED BY Zenon, <4>1, <4>2, AbsHeads DEF Kept, IntOf
    <3>2. CASE x = "b"
      <4>1. u = "tms2"
        BY Zenon, <1>5, <3>2 DEF TimesThreads
      <4>2. Kept("a")
        BY Zenon, <1>2, <1>5, <3>2
      <4> QED BY Zenon, <4>1, <4>2, AbsHeads DEF Kept, IntOf
    <3> QED BY Zenon, <1>8, <3>1, <3>2
  <2> HIDE DEF v, t
  <2>7. AbsHead' = [AbsHead EXCEPT ![t] = v]
    BY Zenon, <2>2, <2>4, <2>6, Assigned, AbsHeads
  <2>8. AbsHead' = [AbsHead EXCEPT ![t] = Head(AbsQ[t])]
    BY Zenon, <2>7 DEF v
  <2>9. Pipe!MergeTake(t)
    BY Zenon, <1>1, <1>6, <2>1, <2>2, <2>3, <2>4, <2>5, <2>8, AbsMergeTake
  <2> QED BY Zenon, <2>2, <2>9 DEF Pipe!PipeNext, Pipe!TimesThreads, TimesThreads
<1>9. CASE x = "cons"
  <2>1. \A t \in TimesThreads : Kept(t)
    BY Zenon, <1>2, <1>5, <1>9
  <2>2. AbsHand' = AbsHand /\ AbsHead' = AbsHead
    BY Zenon, <1>2, <1>4, <1>5, <1>9, <2>1, AbsKept
  <2>3. Inlet(x) = "mrg"
    BY <1>9 DEF Inlet, TimesThreads
  <2>4. AbsOut = consumed /\ AbsOut' = Append(consumed, Head(AbsQ["mrg"]))
    BY Zenon, <1>1, <1>3, <1>9, <2>3 DEF AbsOut
  <2>5. Len(AbsOut) < ConsumerLimit /\ AbsOut' = Append(AbsOut, Head(AbsQ["mrg"]))
    BY Zenon, <1>3, <1>9, <2>4
  <2>6. Pipe!ConsumerTake
    BY Zenon, <1>1, <1>6, <2>2, <2>3, <2>5, AbsConsumerTake
  <2> QED BY Zenon, <2>6 DEF Pipe!PipeNext
<1> QED BY Zenon, <1>3, <1>7, <1>8, <1>9 DEF LocalVariables

(* Every step of the network of prod-cons.c is one of Pipeline, or none. *)
LEMMA StepRefines ==
  ASSUME StreamsOK, NetInv, [NetNext]_allVars
  PROVE  [Pipe!PipeNext]_Pipe!pipeVars
<1>1. Moves
  BY Zenon, StepMoves
<1>2. ASSUME NEW x \in LocalVariables, x # "cons", Sends(x) PROVE Pipe!PipeNext
  BY Zenon, <1>2, SendRefines
<1>3. ASSUME NEW x \in LocalVariables, Receives(x) PROVE Pipe!PipeNext
  BY Zenon, <1>3, ReceiveRefines
<1>4. \/ Quiet \/ Decides \/ Frees
      \/ \E t \in Successors : Allocates(t)
      \/ \E t \in TimesThreads : Multiplies(t)
      \/ \E x \in LocalVariables : x # "cons" /\ Sends(x)
      \/ \E x \in LocalVariables : Receives(x)
  BY Zenon, <1>1 DEF Moves
<1>5. Pipe!PipeNext \/ UNCHANGED Pipe!pipeVars
  BY Zenon, <1>2, <1>3, <1>4, StepStutters
<1> QED BY Zenon, <1>5

(* Before the first step the queues of prod-cons.c are empty and the       *)
(* threads hold nothing.                                                   *)
LEMMA InitRefines == NetInit => Pipe!PipeInit
<1> SUFFICES ASSUME NetInit PROVE Pipe!PipeInit
  OBVIOUS
<1>1. NetInv
  BY Zenon, NetInitInv
<1>2. pc = [t \in Threads |-> "idle"] /\ buffer = [s \in Streams |-> << >>]
  BY Zenon DEF NetInit, Init
<1>3. \A t \in Threads : ~Unsent(t)
  BY <1>2 DEF Unsent
<1>4. \A x \in LocalVariables : Local(x) = NULL
  <2>1. loc["mrg"] = "get_a_first"
    BY NetNames DEF NetInit
  <2>2. \A t \in TimesThreads \cup {"cons"} : loc[t] = "get"
    BY NetNames DEF NetInit
  <2>3. Local("a") = NULL /\ Local("b") = NULL
    BY <2>1, LocalsFacts DEF MergeLocalsAre
  <2>4. \A x \in Successors \cup TimesThreads \cup {"cons"} : Local(x) = NULL
    BY <1>3, <2>2, NetNames, LocalsFacts DEF LocalsAre
  <2> QED BY <2>3, <2>4 DEF LocalVariables
<1>5. \A x \in LocalVariables : IntOf(Local(x)) = NULL
  BY Zenon, <1>4 DEF IntOf
<1>6. /\ "a" \in LocalVariables /\ "b" \in LocalVariables /\ "cons" \in LocalVariables
      /\ TimesThreads \subseteq LocalVariables /\ Successors \subseteq Threads
      /\ Streams = Successors \cup TimesThreads \cup {"mrg"}
  BY NetNames
<1>7. AbsQ = [s \in Successors \cup TimesThreads \cup {"mrg"} |-> << >>]
  <2>1. ASSUME NEW s \in Streams PROVE Ints(buffer[s], heap) = << >>
    <3>1. buffer[s] = << >>
      BY <1>2
    <3>2. 1 .. Len(buffer[s]) = {}
      BY <3>1
    <3> QED BY <3>2 DEF Ints
  <2> QED BY Zenon, <1>6, <2>1 DEF AbsQ
<1>8. AbsN = [s \in Successors |-> 1]
  <2>1. ASSUME NEW s \in Successors PROVE NextInt(s) = 1
    BY <1>3, <1>6 DEF NextInt, NetInit
  <2> QED BY Zenon, <2>1 DEF AbsN
<1>9. AbsHand = [t \in TimesThreads |-> NULL]
  <2>1. ASSUME NEW t \in TimesThreads PROVE Product(t) = NULL
    BY Zenon, <1>4, <1>5, <1>6 DEF Product
  <2> QED BY Zenon, <2>1 DEF AbsHand
<1>10. AbsHead = [t \in TimesThreads |-> NULL]
  BY Zenon, <1>5, <1>6 DEF AbsHead
<1>11. AbsOut = << >>
  BY Zenon, <1>4, <1>6 DEF AbsOut, NetInit
<1> QED BY Zenon, <1>7, <1>8, <1>9, <1>10, <1>11
        DEF AbsQ, AbsN, AbsHand, AbsHead, AbsOut, Ints, NextInt,
            Pipe!PipeInit, Pipe!Successors, Pipe!TimesThreads, Successors, TimesThreads

-----------------------------------------------------------------------------
(* What is known of put(), get() and Pipeline, for the pointers that the   *)
(* network passes around and the mapping of Pipe.                          *)
SP ==
  INSTANCE StreamsProofs
    WITH Tokens <- Successors \X Nat,
         Capacity <- BUFFER_SIZE,
         NONE <- NULL,
         q <- [s \in Streams |-> [k \in 1 .. Len(buffer[s]) |-> heap[buffer[s][k]]]],
         n <- [s \in Successors |-> IF Unsent(s) THEN i[s] - 1 ELSE i[s]],
         hand <- [t \in TimesThreads |-> Product(t)],
         head <- [t \in TimesThreads |-> IntOf(Local(IF t = "tms2" THEN "a" ELSE "b"))],
         out <- IF Local("cons") = NULL THEN consumed
                ELSE Append(consumed, IntOf(Local("cons")))

(* The constants of prod-cons.c are as the proofs about put(), get() and   *)
(* Pipeline want them.                                                     *)
LEMMA Constants ==
  /\ SP!IsFiniteSet(Threads) /\ BUFFER_SIZE \in Nat
  /\ NULL \notin Successors \X Nat /\ Signals \in BOOLEAN
  /\ mult1 \in Nat \ {0} /\ mult2 \in Nat \ {0} /\ ConsumerLimit \in Nat /\ NULL \notin Int
<1>1. SP!IsFiniteSet(Threads)
  BY StreamsAssumption DEF IsFiniteSet, SP!IsFiniteSet
<1>2. NULL \notin Successors \X Nat
  BY ProdConsAssumption DEF Successors
<1>3. mult1 \in Nat \ {0} /\ mult2 \in Nat \ {0} /\ ConsumerLimit \in Nat /\ NULL \notin Int
  BY ProdConsAssumption
<1> QED BY Zenon, <1>1, <1>2, <1>3, StreamsAssumption

(* The accounting of put() and get() covers the calls of prod-cons.c. *)
LEMMA StreamsInit == NetInit => SP!Inv
<1>1. NetInit => SP!Init
  BY Zenon DEF NetInit, Init, SP!Init
<1> QED BY Zenon, <1>1, SP!InitInv, Constants

(* The accounting of put() and get() is kept by every step of prod-cons.c. *)
LEMMA StreamsNext == ASSUME SP!Inv, NetInv, [NetNext]_allVars PROVE SP!Inv'
<1>1. [StreamNext]_vars
  BY Zenon, StreamStep
<1>2. UNCHANGED vars => UNCHANGED SP!vars
  BY Zenon DEF vars, SP!vars
<1>3. ASSUME NEW t, Inside(t) PROVE SP!Inside(t)
  BY Zenon, <1>3
     DEF Inside, DownMutex, Enqueue, Dequeue, UpMutex, PutUpFull, GetUpEmpty,
         PutInterrupted, GetInterrupted, At,
         SP!Inside, SP!DownMutex, SP!Enqueue, SP!Dequeue, SP!UpMutex, SP!PutUpFull,
         SP!GetUpEmpty, SP!PutInterrupted, SP!GetInterrupted, SP!At
<1>4. ASSUME NEW t, NEW s, GetDownFull(t, s) PROVE SP!GetDownFull(t, s)
  BY Zenon, <1>4 DEF GetDownFull, At, SP!GetDownFull, SP!At
<1>5. ASSUME NEW t, NEW s, NEW v, PutDownEmpty(t, s, v) PROVE SP!PutDownEmpty(t, s, v)
  BY Zenon, <1>5 DEF PutDownEmpty, At, SP!PutDownEmpty, SP!At
<1>6. StreamNext => SP!Next
  BY Zenon, <1>3, <1>4, <1>5 DEF StreamNext, SP!Next, Pointers
<1>7. [SP!Next]_SP!vars
  BY Zenon, <1>1, <1>2, <1>6
<1> QED BY Zenon, <1>7, SP!InvNext, Constants

(* The accounting gives what the threads of prod-cons.c rely on. *)
LEMMA StreamsGuarantee == SP!Inv => StreamsOK /\ NothingStranded
<1> SUFFICES ASSUME SP!Inv PROVE StreamsOK /\ NothingStranded
  OBVIOUS
<1>1. /\ \A t \in Threads : pc[t] = "put_enqueue" => Len(buffer[arg[t]]) < BUFFER_SIZE
      /\ \A t \in Threads : pc[t] = "get_dequeue" => buffer[arg[t]] # << >>
  BY Zenon, SP!InvQueues, Constants
<1>2. SP!TypeOK /\ SP!NothingStranded
  BY Zenon DEF SP!Inv
<1>3. StreamsOK
  BY Zenon, <1>1, <1>2
     DEF StreamsOK, SP!TypeOK, Pointers, PutLocations, GetLocations, SP!PutLocations, SP!GetLocations
<1>4. NothingStranded
  BY Zenon, <1>2 DEF NothingStranded, SP!NothingStranded, PutReserved, SP!PutReserved,
       GetReserved, SP!GetReserved, PutPending, SP!PutPending, GetPending, SP!GetPending,
       InCall, SP!InCall, Cardinality, SP!Cardinality
<1> QED BY Zenon, <1>3, <1>4

(* The threads of prod-cons.c always satisfy the invariant of the network  *)
(* and that of put() and get().                                            *)
LEMMA NetInvariance == NetSpec => [](SP!Inv /\ NetInv)
<1>1. NetInit => SP!Inv /\ NetInv
  BY Zenon, StreamsInit, NetInitInv
<1>2. SP!Inv /\ NetInv /\ [NetNext]_allVars => (SP!Inv /\ NetInv)'
  BY Zenon, StreamsNext, StreamsGuarantee, NetInvStep
<1> QED BY PTL, <1>1, <1>2 DEF NetSpec

-----------------------------------------------------------------------------
(* Nothing that successor() allocates is leaked, freed while in use or     *)
(* handed to two threads, and no thread uses a NULL that get() returned,   *)
(* for any buffer size, factors and number of rounds of consumer().        *)
THEOREM NetOwner == NetSpec => []SoleOwner
<1>1. SP!Inv /\ NetInv => SoleOwner
  BY Zenon, StreamsGuarantee, InvOwner
<1> QED BY PTL, <1>1, NetInvariance

(* In the network of prod-cons.c no slot and no token of a stream is lost. *)
THEOREM NetExact == NetSpec => []NothingStranded
<1>1. SP!Inv /\ NetInv => NothingStranded
  BY Zenon, StreamsGuarantee
<1> QED BY PTL, <1>1, NetInvariance

(* While the module stays loaded the comment above get() is right: get()   *)
(* returns what some put() was given, never NULL.                          *)
THEOREM NetReturns == NetSpec => []GetReturnsPutValue
<1>1. SP!Inv /\ NetInv => GetReturnsPutValue
  BY Zenon, InvReturns
<1> QED BY PTL, <1>1, NetInvariance

(* Whatever the interleaving of their semaphore and queue operations, the  *)
(* threads of prod-cons.c compute what Pipeline computes.                  *)
THEOREM NetRefinement == NetSpec => ImplementsPipeline
<1>1. SP!Inv /\ NetInv /\ [NetNext]_allVars => [Pipe!PipeNext]_Pipe!pipeVars
  BY Zenon, StreamsGuarantee, StepRefines
<1> QED BY PTL, <1>1, InitRefines, NetInvariance DEF NetSpec, ImplementsPipeline, Pipe!PipeSpec

(* The consumer of prod-cons.c prints the multiples in order: the k-th int *)
(* is the k-th smallest multiple of the two factors, as the comment above  *)
(* merge() shows for 3 and 5.                                              *)
THEOREM NetSorted == NetSpec => []Pipe!SortedOutput
<1>1. Pipe!PipeInit => SP!PipeInit
  BY Zenon DEF Pipe!PipeInit, SP!PipeInit, Pipe!Successors, SP!Successors,
     Pipe!TimesThreads, SP!TimesThreads
<1>2. [Pipe!PipeNext]_Pipe!pipeVars => [SP!PipeNext]_SP!pipeVars
  BY Zenon DEF Pipe!PipeNext, SP!PipeNext, Pipe!pipeVars, SP!pipeVars,
     Pipe!Successors, SP!Successors, Pipe!TimesThreads, SP!TimesThreads,
     Pipe!SuccessorStep, SP!SuccessorStep, Pipe!TimesTake, SP!TimesTake,
     Pipe!TimesPass, SP!TimesPass, Pipe!MergeTake, SP!MergeTake, Pipe!MergePass, SP!MergePass,
     Pipe!ConsumerTake, SP!ConsumerTake, Pipe!Insert, SP!Insert, Pipe!Extract, SP!Extract,
     Pipe!Source, SP!Source, Pipe!Factor, SP!Factor
<1>3. SP!SortedOutput => Pipe!SortedOutput
  BY Zenon DEF SP!SortedOutput, Pipe!SortedOutput, SP!KthMultiple, Pipe!KthMultiple,
     SP!Min, Pipe!Min
<1>4. SP!PipeSpec => []SP!SortedOutput
  BY SP!OutputSorted, Constants
<1> QED BY PTL, <1>1, <1>2, <1>3, <1>4, NetRefinement
        DEF ImplementsPipeline, Pipe!PipeSpec, SP!PipeSpec
=============================================================================
