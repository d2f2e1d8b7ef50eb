-------------------------- MODULE DnsHelper_proofs --------------------------
(***************************************************************************)
(* Proofs about the DNS helper, for any number of askers, any cache and    *)
(* any answers of the resolver.                                            *)
(*                                                                         *)
(* RightAnswers says what a lookup may return.  It is not inductive: it    *)
(* depends on where a request can be, that is in the pipe, with the        *)
(* resolver, in default_cb() or, answered, in a queue.  The strengthening  *)
(* says that whatever is on its way belongs to a lookup that was given up  *)
(* or whose asker is waiting on that very queue, and that it is there only *)
(* once.                                                                   *)
(***************************************************************************)
EXTENDS DnsHelper, FiniteSetTheorems, SequenceTheorems, TLAPS

(* What the lookup number c of b asks for. *)
KeyOf(b, c) == IF c = call[b] THEN key[b] ELSE FirstKey(b)

Live(b, c, q) == pc[b] = "wait" /\ call[b] = c /\ response_q[b] = q

RequestOK(r) ==
    /\ r.query = KeyOf(r.asker, r.call)
    /\ <<r.asker, r.call>> \in abandoned \/ Live(r.asker, r.call, r.q)

AnswerOK(q, m) ==
    /\ m.host \in {NULL, KeyOf(m.lookup[1], m.lookup[2])}
    /\ m.lookup \in abandoned \/ Live(m.lookup[1], m.lookup[2], q)

ItemInv ==
    /\ \A i \in 1..Len(pipe) : RequestOK(pipe[i])
    /\ \A r \in pending : RequestOK(r)
    /\ cb # NULL => RequestOK(cb.request) /\ cb.host \in {NULL, cb.request.query}
    /\ \A q \in QueueIds : \A i \in 1..Len(msgs[q]) : AnswerOK(q, msgs[q][i])

(* The lookup of a that is going on, in its four places. *)
Of(r, a)     == r.asker = a /\ r.call = call[a]
InPipe(a, i) == i \in 1..Len(pipe) /\ Of(pipe[i], a)
InPending(a) == \E r \in pending : Of(r, a)
InCb(a)      == cb # NULL /\ Of(cb.request, a)
InQueue(a, i) == /\ i \in 1..Len(msgs[response_q[a]])
                 /\ msgs[response_q[a]][i].lookup = <<a, call[a]>>

(* A lookup that is waited for is in one place, once. *)
OnceInv ==
    \A a \in Askers : pc[a] = "wait" =>
        /\ \A i, j \in Nat : InPipe(a, i) /\ InPipe(a, j) => i = j
        /\ \A i \in Nat : InPipe(a, i) => ~InPending(a) /\ ~InCb(a)
        /\ \A i, j \in Nat : InQueue(a, i) /\ InQueue(a, j) => i = j
        /\ \A i \in Nat : InQueue(a, i) =>
              ~InPending(a) /\ ~InCb(a) /\ \A j \in Nat : ~InPipe(a, j)
        /\ ~(InPending(a) /\ InCb(a))

(* A lookup is given up after it has waited. *)
AbandonInv ==
    /\ \A a \in Askers : \A c \in Calls : <<a, c>> \in abandoned =>
          /\ c <= call[a]
          /\ c = call[a] => pc[a] \notin {"lookup", "ask", "wait"}
    /\ \A a \in Askers : call[a] = 1 => key[a] = FirstKey(a)

(* Queues are numbered in the order of their creation; a lookup creates at *)
(* most one.                                                               *)
Asked == {l \in Askers \X Calls : \/ l[2] < call[l[1]]
                                  \/ l[2] = call[l[1]] /\ pc[l[1]] \notin {"lookup", "ask"}}

QueueInv ==
    /\ numqueues <= Cardinality(Asked)
    /\ \A a \in Askers : Waiting(a) => response_q[a] < numqueues
    /\ \A i \in 1..Len(metaqueue) : metaqueue[i] < numqueues

IInv ==
    /\ TypeOK
    /\ QueueInv
    /\ OneOwner
    /\ AbandonInv
    /\ ItemInv
    /\ OnceInv
    /\ RightAnswers

-----------------------------------------------------------------------------
(* What is looked up is a key of the cache. *)
LEMMA KeyTypes ==
  /\ \A a \in Askers : FirstKey(a) \in Keys /\ Address[a] \in Keys
  /\ \A host \in Keys : h_name(host) \in Keys
  /\ \A k \in Keys : Hash[k] \in Slots
  /\ NULL \notin Keys
  BY DnsHelperAssumption DEF DnsHelperAssumption, FirstKey, Addresses, Keys, h_name, Slots

LEMMA QueueCount ==
  /\ Cardinality(Askers) \in Nat
  /\ IsFiniteSet(Askers \X Calls)
  /\ Cardinality(Askers \X Calls) = Cardinality(Askers) * 2
  /\ Cardinality(QueueIds) = Cardinality(Askers) * 2
  /\ \A n \in Nat : n < Cardinality(QueueIds) <=> n \in QueueIds
  <1>1. IsFiniteSet(Askers) /\ Cardinality(Askers) \in Nat
    BY DnsHelperAssumption, FS_CardinalityType DEF DnsHelperAssumption
  <1>2. IsFiniteSet(Calls) /\ Cardinality(Calls) = 2
    <2>1. IsFiniteSet({1}) /\ Cardinality({1}) = 1
      BY FS_Singleton, Zenon
    <2>2. IsFiniteSet({1} \cup {2}) /\ Cardinality({1} \cup {2}) = 2
      BY <2>1, FS_AddElement
    <2>3. Calls = {1} \cup {2}
      BY DEF Calls
    <2> QED
      BY <2>2, <2>3, Zenon
  <1>3. IsFiniteSet(Askers \X Calls) /\ Cardinality(Askers \X Calls) = Cardinality(Askers) * 2
    <2>1. /\ IsFiniteSet(Askers \X Calls)
          /\ Cardinality(Askers \X Calls) = Cardinality(Askers) * Cardinality(Calls)
      BY <1>1, <1>2, FS_Product, Zenon
    <2> QED
      BY <1>2, <2>1, Zenon
  <1>4. Cardinality(QueueIds) = Cardinality(Askers) * 2
    <2> DEFINE n == Cardinality(Askers) * 2 - 1
    <2>1. n \in Int /\ (0 > n <=> Cardinality(Askers) = 0)
      BY <1>1
    <2>2. Cardinality(0..n) = IF 0 > n THEN 0 ELSE n - 0 + 1
      BY <2>1, FS_Interval
    <2>3. QueueIds = 0..n
      BY DEF QueueIds
    <2> QED
      BY <1>1, <2>1, <2>2, <2>3
  <1>5. \A n \in Nat : n < Cardinality(QueueIds) <=> n \in QueueIds
    BY <1>1, <1>4 DEF QueueIds
  <1> QED
    BY <1>1, <1>3, <1>4, <1>5

LEMMA InitInv == Init => IInv
  <1> SUFFICES ASSUME Init PROVE IInv
    OBVIOUS
  <1> USE DEF Init
  <1>1. \A a \in Askers : 0 \in QueueIds
    <2> SUFFICES ASSUME NEW a \in Askers PROVE 0 \in QueueIds
      OBVIOUS
    <2>1. Cardinality(Askers) # 0
      BY DnsHelperAssumption, FS_EmptySet DEF DnsHelperAssumption
    <2> QED
      BY <2>1, QueueCount
  <1>2. TypeOK
    <2>1. call \in [Askers -> Calls]
      BY DEF Calls
    <2>2. key \in [Askers -> Keys] /\ reply \in [Askers -> Hosts]
      BY KeyTypes DEF Hosts
    <2>3. response_q \in [Askers -> QueueIds]
      BY <1>1
    <2>4. numqueues \in 0..Cardinality(QueueIds)
      BY QueueCount
    <2>5. active \in [QueueIds -> BOOLEAN]
      BY Zenon
    <2>6. msgs \in [QueueIds -> Seq(Answers)] /\ metaqueue \in Seq(QueueIds) /\ pipe \in Seq(Requests)
      OBVIOUS
    <2>7. pc \in [Askers -> {"lookup", "ask", "wait", "release", "retire", "cache", "next", "done"}]
      OBVIOUS
    <2>8. hashtab \in [Slots -> [key : Keys, value : Keys, stale : BOOLEAN] \cup {NULL}]
      OBVIOUS
    <2> QED
      BY <2>1, <2>2, <2>3, <2>4, <2>5, <2>6, <2>7, <2>8 DEF TypeOK
  <1>3. QueueInv
    <2>1. Asked \in SUBSET (Askers \X Calls)
      BY DEF Asked
    <2>2. Cardinality(Asked) \in Nat
      BY <2>1, QueueCount, FS_Subset, FS_CardinalityType
    <2>3. \A a \in Askers : ~Waiting(a)
      BY DEF Waiting
    <2> QED
      BY <2>2, <2>3 DEF QueueInv
  <1>4. OneOwner
    BY DEF OneOwner, Waiting
  <1>5. AbandonInv
    BY DEF AbandonInv
  <1>6. ItemInv
    BY DEF ItemInv
  <1>7. OnceInv
    BY DEF OnceInv
  <1>8. RightAnswers
    BY DEF RightAnswers
  <1> QED
    BY <1>2, <1>3, <1>4, <1>5, <1>6, <1>7, <1>8 DEF IInv

-----------------------------------------------------------------------------
PlacesOf == {"lookup", "ask", "wait", "release", "retire", "cache", "next", "done"}

(* A step that moves a to another place. *)
LEMMA GotoType ==
  ASSUME TypeOK, NEW a \in Askers, NEW place \in PlacesOf, Goto(a, place)
  PROVE  /\ pc' \in [Askers -> PlacesOf]
         /\ \A b \in Askers : pc'[b] = IF b = a THEN place ELSE pc[b]
  BY DEF TypeOK, Goto, PlacesOf

LEMMA NewQueueExists ==
  ASSUME IInv, NEW a \in Askers, AskNew(a)
  PROVE  numqueues \in QueueIds /\ numqueues' \in 0..Cardinality(QueueIds)
  <1>1. <<a, call[a]>> \in (Askers \X Calls) /\ <<a, call[a]>> \notin Asked
    BY DEF IInv, TypeOK, Asked, AskNew, Calls
  <1>2. Asked \in SUBSET (Askers \X Calls) /\ Asked # Askers \X Calls
    BY <1>1 DEF Asked
  <1>3. Cardinality(Asked) \in Nat /\ Cardinality(Asked) < Cardinality(Askers \X Calls)
    BY <1>2, QueueCount, FS_Subset, FS_CardinalityType
  <1>4. numqueues \in Nat /\ numqueues < Cardinality(QueueIds) /\ Cardinality(QueueIds) \in Nat
    BY <1>3, QueueCount DEF IInv, TypeOK, QueueInv
  <1> QED
    BY <1>4, QueueCount DEF AskNew

LEMMA AskType ==
  ASSUME IInv, NEW a \in Askers, Ask(a)
  PROVE  TypeOK'
  <1> USE DEF IInv, PlacesOf
  <1>1. ASSUME lookup_str(a) PROVE TypeOK'
    <2>1. pc' \in [Askers -> PlacesOf]
      BY <1>1, GotoType DEF lookup_str
    <2>2. Hash[key[a]] \in Slots
      BY KeyTypes DEF TypeOK
    <2>3. reply' \in [Askers -> Hosts]
      <3>1. hashtab[Hash[key[a]]] # NULL => hashtab[Hash[key[a]]].value \in Hosts
        BY <2>2 DEF TypeOK, Hosts
      <3> QED
        BY <1>1, <3>1 DEF lookup_str, TypeOK
    <2>4. hashtab' \in [Slots -> [key : Keys, value : Keys, stale : BOOLEAN] \cup {NULL}]
      BY <1>1 DEF lookup_str, TypeOK
    <2> QED
      BY <1>1, <2>1, <2>3, <2>4 DEF lookup_str, TypeOK, queues, helper
  <1>2. ASSUME NEW q \in QueueIds,
               active' = [active EXCEPT ![q] = TRUE],
               response_q' = [response_q EXCEPT ![a] = q],
               pipe' = Append(pipe, Request(a, q)),
               Goto(a, "wait"),
               numqueues' \in 0..Cardinality(QueueIds),
               metaqueue' \in Seq(QueueIds),
               UNCHANGED <<call, key, reply, msgs, pending, cb, hashtab, abandoned>>
        PROVE  TypeOK'
    <2>1. pc' \in [Askers -> PlacesOf]
      BY <1>2, GotoType
    <2>2. response_q' \in [Askers -> QueueIds]
      BY <1>2 DEF TypeOK
    <2>3. active' \in [QueueIds -> BOOLEAN]
      <3>1. active \in [QueueIds -> BOOLEAN]
        BY DEF TypeOK
      <3> QED
        BY <1>2, <3>1, Zenon
    <2>4. pipe' \in Seq(Requests)
      <3>1. Request(a, q) \in Requests
        BY DEF TypeOK, Request, Requests
      <3>2. pipe \in Seq(Requests)
        BY DEF TypeOK
      <3> QED
        BY <1>2, <3>1, <3>2, AppendProperties
    <2> QED
      BY <1>2, <2>1, <2>2, <2>3, <2>4 DEF TypeOK
  <1>3. ASSUME AskRecycled(a) PROVE TypeOK'
    <2>1. Head(metaqueue) \in QueueIds /\ metaqueue' \in Seq(QueueIds)
      BY <1>3, HeadTailProperties DEF TypeOK, AskRecycled
    <2>2. numqueues' \in 0..Cardinality(QueueIds)
      BY <1>3 DEF TypeOK, AskRecycled
    <2> QED
      BY <1>2, <1>3, <2>1, <2>2 DEF AskRecycled
  <1>4. ASSUME AskNew(a) PROVE TypeOK'
    <2>1. metaqueue' \in Seq(QueueIds)
      BY <1>4 DEF TypeOK, AskNew
    <2> QED
      BY <1>2, <1>4, <2>1, NewQueueExists DEF AskNew
  <1>5. ASSUME Receive(a) PROVE TypeOK'
    <2> DEFINE q == response_q[a]
    <2>1. q \in QueueIds /\ msgs[q] \in Seq(Answers)
      BY DEF TypeOK
    <2>2. Head(msgs[q]) \in Answers /\ Tail(msgs[q]) \in Seq(Answers)
      BY <1>5, <2>1, HeadTailProperties DEF Receive
    <2>3. reply' \in [Askers -> Hosts]
      BY <1>5, <2>2 DEF Receive, TypeOK, Answers
    <2>4. msgs' \in [QueueIds -> Seq(Answers)]
      BY <1>5, <2>1, <2>2 DEF Receive, TypeOK
    <2>5. abandoned' \in SUBSET (Askers \X Calls)
      BY <1>5 DEF Receive, TypeOK, Abandon
    <2>6. pc' \in [Askers -> PlacesOf]
      BY <1>5, GotoType DEF Receive
    <2> QED
      BY <1>5, <2>3, <2>4, <2>5, <2>6 DEF Receive, TypeOK, helper
  <1>6. ASSUME TimeOut(a) PROVE TypeOK'
    <2>1. reply' \in [Askers -> Hosts]
      BY <1>6 DEF TimeOut, TypeOK, Hosts
    <2>2. abandoned' \in SUBSET (Askers \X Calls)
      BY <1>6 DEF TimeOut, TypeOK, Abandon
    <2>3. pc' \in [Askers -> PlacesOf]
      BY <1>6, GotoType DEF TimeOut
    <2> QED
      BY <1>6, <2>1, <2>2, <2>3 DEF TimeOut, TypeOK, queues, helper
  <1>7. ASSUME Release(a) \/ Finish(a) PROVE TypeOK'
    <2>1. pc' \in [Askers -> PlacesOf]
      BY <1>7, GotoType DEF Release, Finish
    <2> QED
      BY <1>7, <2>1 DEF Release, Finish, TypeOK, queues, helper
  <1>8. ASSUME Retire(a) PROVE TypeOK'
    <2>1. pc' \in [Askers -> PlacesOf]
      BY <1>8, GotoType DEF Retire
    <2>2. active' \in [QueueIds -> BOOLEAN]
      <3>1. active \in [QueueIds -> BOOLEAN]
        BY DEF TypeOK
      <3> QED
        BY <1>8, <3>1, Zenon DEF Retire
    <2>3. metaqueue' \in Seq(QueueIds)
      BY <1>8, AppendProperties DEF TypeOK, Retire
    <2> QED
      BY <1>8, <2>1, <2>2, <2>3 DEF Retire, TypeOK, helper
  <1>9. ASSUME cache_str(a) PROVE TypeOK'
    <2>1. pc' \in [Askers -> PlacesOf]
      BY <1>9, GotoType DEF cache_str
    <2>2. reply[a] # NULL =>
            [key |-> key[a], value |-> reply[a], stale |-> FALSE]
               \in [key : Keys, value : Keys, stale : BOOLEAN]
      BY DEF TypeOK, Hosts
    <2>3. hashtab' \in [Slots -> [key : Keys, value : Keys, stale : BOOLEAN] \cup {NULL}]
      BY <1>9, <2>2 DEF cache_str, TypeOK
    <2> QED
      BY <1>9, <2>1, <2>3 DEF cache_str, TypeOK, queues, helper
  <1>10. ASSUME SecondLookup(a) PROVE TypeOK'
    <2>1. pc' \in [Askers -> PlacesOf]
      BY <1>10, GotoType DEF SecondLookup
    <2>2. call' \in [Askers -> Calls]
      BY <1>10 DEF SecondLookup, TypeOK, Calls
    <2>3. key' \in [Askers -> Keys]
      <3>1. Check[a] \in {"helo", "reverse"}
        BY DnsHelperAssumption DEF DnsHelperAssumption
      <3>2. (IF Check[a] = "helo" THEN Address[a] ELSE h_name(reply[a])) \in Keys
        BY <1>10, <3>1, KeyTypes DEF SecondLookup, TypeOK, Hosts
      <3> QED
        BY <1>10, <3>2 DEF SecondLookup, TypeOK
    <2>4. reply' \in [Askers -> Hosts]
      BY <1>10 DEF SecondLookup, TypeOK, Hosts
    <2> QED
      BY <1>10, <2>1, <2>2, <2>3, <2>4 DEF SecondLookup, TypeOK, queues, helper
  <1> QED
    BY <1>1, <1>3, <1>4, <1>5, <1>6, <1>7, <1>8, <1>9, <1>10 DEF Ask

LEMMA HelperType ==
  ASSUME IInv,
         \/ ReadRequest
         \/ \E r \in pending : Answer(r)
         \/ Callback
         \/ \E h \in Slots : Age(h)
  PROVE  TypeOK'
  <1> USE DEF IInv
  <1>1. ASSUME ReadRequest PROVE TypeOK'
    <2>1. Head(pipe) \in Requests /\ pipe' \in Seq(Requests)
      BY <1>1, HeadTailProperties DEF ReadRequest, TypeOK
    <2> QED
      BY <1>1, <2>1 DEF ReadRequest, TypeOK, asker, queues
  <1>2. ASSUME NEW r \in pending, Answer(r) PROVE TypeOK'
    <2>1. PICK host \in {r.query, NULL} : cb' = [request |-> r, host |-> host, checked |-> FALSE]
      BY <1>2 DEF Answer
    <2>2. r \in Requests /\ host \in Hosts
      BY DEF TypeOK, Requests, Hosts
    <2>3. cb' \in [request : Requests, host : Hosts, checked : BOOLEAN] \cup {NULL}
      BY <2>1, <2>2
    <2> QED
      BY <1>2, <2>3 DEF Answer, TypeOK, asker, queues
  <1>3. ASSUME CheckActive PROVE TypeOK'
    <2>1. cb' \in [request : Requests, host : Hosts, checked : BOOLEAN] \cup {NULL}
      BY <1>3 DEF CheckActive, TypeOK
    <2> QED
      BY <1>3, <2>1 DEF CheckActive, TypeOK, asker, queues
  <1>4. ASSUME PutAnswer PROVE TypeOK'
    <2> DEFINE m == [lookup |-> <<cb.request.asker, cb.request.call>>, host |-> cb.host]
               q == cb.request.q
    <2>1. q \in QueueIds /\ m \in Answers
      BY <1>4 DEF PutAnswer, TypeOK, Requests, Answers
    <2>2. Append(msgs[q], m) \in Seq(Answers)
      BY <2>1, AppendProperties DEF TypeOK
    <2>3. msgs' = [msgs EXCEPT ![q] = Append(msgs[q], m)]
      BY <1>4 DEF PutAnswer
    <2>4. msgs' \in [QueueIds -> Seq(Answers)]
      BY <2>1, <2>2, <2>3 DEF TypeOK
    <2> QED
      BY <1>4, <2>4 DEF PutAnswer, TypeOK, asker
  <1>5. ASSUME NEW h \in Slots, Age(h) PROVE TypeOK'
    <2>1. hashtab' \in [Slots -> [key : Keys, value : Keys, stale : BOOLEAN] \cup {NULL}]
      BY <1>5 DEF Age, TypeOK
    <2> QED
      BY <1>5, <2>1 DEF Age, TypeOK, asker, queues, helper
  <1> QED
    BY <1>1, <1>2, <1>3, <1>4, <1>5 DEF Callback

-----------------------------------------------------------------------------
(* Queues.  More lookups have asked after a step than before it. *)
LEMMA AskedGrows ==
  ASSUME IInv, [Next]_vars
  PROVE  Asked \subseteq Asked' /\ Asked' \in SUBSET (Askers \X Calls)
  <1> USE DEF IInv, Calls
  <1>1. Asked' \in SUBSET (Askers \X Calls)
    BY DEF Asked
  <1>2. ASSUME NEW a \in Askers, Ask(a)
        PROVE  \A b \in Askers :
                 \/ call'[b] = call[b] /\ (pc[b] \notin {"lookup", "ask"} => pc'[b] \notin {"lookup", "ask"})
                 \/ call[b] = 1 /\ call'[b] = 2 /\ pc[b] = "next"
    BY <1>2 DEF Ask, lookup_str, AskRecycled, AskNew, Receive, TimeOut, Release, Retire, cache_str,
                SecondLookup, Finish, TypeOK, Goto
  <1>3. Asked \subseteq Asked'
    <2>1. CASE \E a \in Askers : Ask(a)
      BY <2>1, <1>2 DEF Asked, TypeOK
    <2>2. CASE UNCHANGED <<pc, call>>
      BY <2>2 DEF Asked
    <2> QED
      BY <2>1, <2>2
      DEF Next, vars, asker, Age, ReadRequest, Answer, Callback, CheckActive, PutAnswer, AllDone
  <1> QED
    BY <1>1, <1>3

LEMMA CountKept ==
  ASSUME IInv, [Next]_vars, numqueues' = numqueues
  PROVE  numqueues' <= Cardinality(Asked')
  <1>1. Cardinality(Asked) <= Cardinality(Asked')
    BY AskedGrows, QueueCount, FS_Subset
  <1>2. Cardinality(Asked) \in Nat /\ Cardinality(Asked') \in Nat
    BY AskedGrows, QueueCount, FS_Subset, FS_CardinalityType
  <1> QED
    BY <1>1, <1>2 DEF IInv, TypeOK, QueueInv

(* Steps that give no queue away and take none back. *)
LEMMA QueuesKept ==
  ASSUME IInv, [Next]_vars,
         UNCHANGED <<numqueues, active, metaqueue, response_q>>,
         \A a \in Askers : Waiting(a)' => Waiting(a)
  PROVE  QueueInv' /\ OneOwner'
  <1>1. QueueInv'
    BY CountKept DEF IInv, QueueInv
  <1>2. OneOwner'
    BY DEF IInv, OneOwner
  <1> QED
    BY <1>1, <1>2

LEMMA AskQueues ==
  ASSUME IInv, NEW a \in Askers, Ask(a)
  PROVE  QueueInv' /\ OneOwner'
  <1> USE DEF IInv
  <1>0. Next
    BY DEF Next
  <1>1. ASSUME UNCHANGED <<numqueues, active, metaqueue, response_q>>,
               NEW place \in PlacesOf, Goto(a, place),
               place \in {"wait", "release", "retire"} => Waiting(a)
        PROVE  QueueInv' /\ OneOwner'
    <2>1. \A b \in Askers : pc'[b] = IF b = a THEN place ELSE pc[b]
      BY <1>1, GotoType
    <2> QED
      BY <1>0, <1>1, <2>1, QueuesKept DEF Waiting
  <1>2. ASSUME AskRecycled(a) PROVE QueueInv' /\ OneOwner'
    <2> DEFINE h == Head(metaqueue)
    <2>1. /\ h = metaqueue[1]
          /\ Len(metaqueue) \in Nat \ {0}
          /\ metaqueue[1] \in QueueIds
      BY <1>2, EmptySeq, ElementOfSeq DEF AskRecycled, TypeOK
    <2>2. /\ Len(metaqueue') = Len(metaqueue) - 1
          /\ \A i \in 1..Len(metaqueue') :
                i + 1 \in 1..Len(metaqueue) /\ i + 1 # 1 /\ metaqueue'[i] = metaqueue[i + 1]
      BY <1>2, <2>1, HeadTailProperties DEF AskRecycled, TypeOK
    <2>3. \A b \in Askers : pc'[b] = IF b = a THEN "wait" ELSE pc[b]
      BY <1>2, GotoType DEF AskRecycled, PlacesOf
    <2>4. \A b \in Askers : response_q'[b] = IF b = a THEN h ELSE response_q[b]
      BY <1>2 DEF AskRecycled, TypeOK
    <2>5. \A q \in QueueIds : q # h => active'[q] = active[q]
      BY <1>2 DEF AskRecycled, TypeOK
    <2>6. \A i \in 1..Len(metaqueue') : metaqueue'[i] # h /\ metaqueue'[i] \in QueueIds
      <3>1. \A i \in 1..Len(metaqueue) : metaqueue[i] \in QueueIds
        BY ElementOfSeq DEF TypeOK
      <3>2. \A i, j \in 1..Len(metaqueue) : metaqueue[i] = metaqueue[j] => i = j
        BY DEF OneOwner
      <3>3. 1 \in 1..Len(metaqueue)
        BY <2>1
      <3> HIDE DEF h
      <3> QED
        BY <2>1, <2>2, <3>1, <3>2, <3>3
    <2> HIDE DEF h
    <2>7. QueueInv'
      <3>1. numqueues' = numqueues
        BY <1>2 DEF AskRecycled
      <3>2. numqueues' <= Cardinality(Asked')
        BY <1>0, <3>1, CountKept
      <3> QED
        BY <2>1, <2>2, <2>3, <2>4, <3>1, <3>2 DEF QueueInv, Waiting
    <2>8. OneOwner'
      <3>1. \A b, c \in Askers :
              b # c /\ Waiting(b)' /\ Waiting(c)' => response_q'[b] # response_q'[c]
        BY <2>1, <2>3, <2>4 DEF OneOwner, Waiting
      <3>2. \A i \in 1..Len(metaqueue') : ~active'[metaqueue'[i]]
        BY <2>2, <2>5, <2>6 DEF OneOwner
      <3>3. \A i \in 1..Len(metaqueue') : \A b \in Askers : Waiting(b)' => response_q'[b] # metaqueue'[i]
        BY <2>2, <2>3, <2>4, <2>6 DEF OneOwner, Waiting
      <3>4. \A i, j \in 1..Len(metaqueue') : metaqueue'[i] = metaqueue'[j] => i = j
        BY <2>1, <2>2 DEF OneOwner
      <3> QED
        BY <3>1, <3>2, <3>3, <3>4 DEF OneOwner
    <2> QED
      BY <2>7, <2>8
  <1>3. ASSUME AskNew(a) PROVE QueueInv' /\ OneOwner'
    <2>1. numqueues \in QueueIds /\ numqueues \in Nat
      BY <1>3, NewQueueExists DEF TypeOK
    <2>2. \A b \in Askers : pc'[b] = IF b = a THEN "wait" ELSE pc[b]
      BY <1>3, GotoType DEF AskNew, PlacesOf
    <2>3. \A b \in Askers : response_q'[b] = IF b = a THEN numqueues ELSE response_q[b]
      BY <1>3 DEF AskNew, TypeOK
    <2>4. numqueues' = numqueues + 1 /\ metaqueue = <<>> /\ metaqueue' = metaqueue
      BY <1>3 DEF AskNew
    <2>5. numqueues' <= Cardinality(Asked')
      <3>1. call[a] \in Calls /\ pc[a] = "ask" /\ call' = call
        BY <1>3 DEF AskNew, TypeOK
      <3>2. <<a, call[a]>> \notin Asked /\ <<a, call[a]>> \in Asked'
        BY <2>2, <3>1 DEF Asked, Calls
      <3>3. Asked' \in SUBSET (Askers \X Calls) /\ Asked \cup {<<a, call[a]>>} \in SUBSET Asked'
        BY <1>0, <3>2, AskedGrows
      <3>4. IsFiniteSet(Asked') /\ IsFiniteSet(Asked)
        BY <3>3, QueueCount, FS_Subset DEF Asked
      <3>5. Cardinality(Asked \cup {<<a, call[a]>>}) = Cardinality(Asked) + 1
        BY <3>2, <3>4, FS_AddElement
      <3>6. Cardinality(Asked \cup {<<a, call[a]>>}) <= Cardinality(Asked')
        BY <3>3, <3>4, FS_Subset
      <3>7. Cardinality(Asked) \in Nat /\ Cardinality(Asked') \in Nat
        BY <3>4, FS_CardinalityType
      <3> QED
        BY <2>1, <2>4, <3>5, <3>6, <3>7 DEF QueueInv
    <2>6. \A b \in Askers : response_q[b] \in Nat
      BY QueueCount DEF TypeOK, QueueIds
    <2>7. QueueInv'
      BY <2>1, <2>2, <2>3, <2>4, <2>5, <2>6 DEF QueueInv, Waiting
    <2>8. OneOwner'
      BY <2>1, <2>2, <2>3, <2>4, <2>6 DEF OneOwner, QueueInv, Waiting
    <2> QED
      BY <2>7, <2>8
  <1>4. ASSUME Retire(a) PROVE QueueInv' /\ OneOwner'
    <2> DEFINE q == response_q[a]
    <2>1. q \in QueueIds /\ Waiting(a) /\ Len(metaqueue) \in Nat
      BY <1>4, LenProperties DEF Retire, TypeOK, Waiting
    <2>2. \A b \in Askers : pc'[b] = IF b = a THEN "cache" ELSE pc[b]
      BY <1>4, GotoType DEF Retire, PlacesOf
    <2>3. /\ Len(metaqueue') = Len(metaqueue) + 1
          /\ \A i \in 1..Len(metaqueue) : metaqueue'[i] = metaqueue[i]
          /\ metaqueue'[Len(metaqueue) + 1] = q
      BY <1>4, <2>1, AppendProperties DEF Retire, TypeOK
    <2>4. \A i \in 1..Len(metaqueue') :
             \/ i \in 1..Len(metaqueue) /\ metaqueue'[i] = metaqueue[i]
             \/ i = Len(metaqueue) + 1 /\ metaqueue'[i] = q
      BY <2>1, <2>3
    <2>5. \A p \in QueueIds : active'[p] = IF p = q THEN FALSE ELSE active[p]
      BY <1>4 DEF Retire, TypeOK
    <2>6. \A i \in 1..Len(metaqueue) : metaqueue[i] # q /\ metaqueue[i] \in QueueIds
      BY <2>1, ElementOfSeq DEF OneOwner, TypeOK
    <2>7. response_q' = response_q /\ numqueues' = numqueues
      BY <1>4 DEF Retire
    <2>8. \A b \in Askers : Waiting(b)' => b # a /\ Waiting(b)
      BY <2>2 DEF Waiting
    <2> HIDE DEF q
    <2>9. QueueInv'
      <3>1. numqueues' <= Cardinality(Asked')
        BY <1>0, <2>7, CountKept
      <3>2. q < numqueues
        BY <2>1 DEF QueueInv, q
      <3> QED
        BY <2>4, <2>7, <2>8, <3>1, <3>2 DEF QueueInv
    <2>10. OneOwner'
      <3>1. \A b, c \in Askers :
              b # c /\ Waiting(b)' /\ Waiting(c)' => response_q'[b] # response_q'[c]
        BY <2>7, <2>8 DEF OneOwner
      <3>2. \A i \in 1..Len(metaqueue') : ~active'[metaqueue'[i]]
        BY <2>1, <2>4, <2>5, <2>6 DEF OneOwner
      <3>3. \A b \in Askers : Waiting(b)' => response_q'[b] # q
        BY <2>1, <2>7, <2>8 DEF OneOwner, q
      <3>4. \A i \in 1..Len(metaqueue') : \A b \in Askers : Waiting(b)' => response_q'[b] # metaqueue'[i]
        BY <2>4, <2>7, <2>8, <3>3 DEF OneOwner
      <3>5. \A i, j \in 1..Len(metaqueue') : metaqueue'[i] = metaqueue'[j] => i = j
        BY <2>1, <2>4, <2>6 DEF OneOwner
      <3> QED
        BY <3>1, <3>2, <3>4, <3>5 DEF OneOwner
    <2> QED
      BY <2>9, <2>10
  <1>5. ASSUME lookup_str(a) PROVE QueueInv' /\ OneOwner'
    BY <1>1, <1>5 DEF lookup_str, PlacesOf, queues
  <1>6. ASSUME Receive(a) \/ TimeOut(a) PROVE QueueInv' /\ OneOwner'
    BY <1>1, <1>6 DEF Receive, TimeOut, PlacesOf, queues, Waiting
  <1>7. ASSUME Release(a) PROVE QueueInv' /\ OneOwner'
    BY <1>1, <1>7 DEF Release, PlacesOf, queues, Waiting
  <1>8. ASSUME cache_str(a) \/ SecondLookup(a) \/ Finish(a) PROVE QueueInv' /\ OneOwner'
    BY <1>1, <1>8 DEF cache_str, SecondLookup, Finish, PlacesOf, queues
  <1> QED
    BY <1>2, <1>3, <1>4, <1>5, <1>6, <1>7, <1>8 DEF Ask

-----------------------------------------------------------------------------
(* What is on its way. *)
LEMMA ItemTypes ==
  ASSUME TypeOK
  PROVE  /\ \A i \in 1..Len(pipe) : pipe[i] \in Requests
         /\ \A r \in pending : r \in Requests
         /\ cb # NULL => cb.request \in Requests /\ cb.host \in Hosts
         /\ \A q \in QueueIds : \A i \in 1..Len(msgs[q]) : msgs[q][i] \in Answers
         /\ Len(pipe) \in Nat
         /\ \A q \in QueueIds : Len(msgs[q]) \in Nat
  BY ElementOfSeq, LenProperties DEF TypeOK

(* An item stays as it should be when its lookup keeps its key and stays   *)
(* live or given up.                                                       *)
LEMMA ItemKept ==
  ASSUME NEW b \in Askers, NEW c \in Calls,
         KeyOf(b, c)' = KeyOf(b, c),
         \A q \in QueueIds :
            <<b, c>> \in abandoned \/ Live(b, c, q) => <<b, c>> \in abandoned' \/ Live(b, c, q)'
  PROVE  /\ \A r \in Requests : r.asker = b /\ r.call = c /\ RequestOK(r) => RequestOK(r)'
         /\ \A q \in QueueIds : \A m \in Answers : m.lookup = <<b, c>> /\ AnswerOK(q, m) => AnswerOK(q, m)'
  BY DEF RequestOK, AnswerOK, Requests, Answers

LEMMA AskersOfItems ==
  /\ \A r \in Requests : r.asker \in Askers /\ r.call \in Calls /\ r.q \in QueueIds
  /\ \A m \in Answers : \E b \in Askers : \E c \in Calls : m.lookup = <<b, c>>
  BY DEF Requests, Answers

(* Nothing is on its way for a lookup that has not asked yet. *)
LEMMA NothingYet ==
  ASSUME IInv, NEW a \in Askers, pc[a] # "wait", <<a, call[a]>> \notin abandoned
  PROVE  /\ \A i \in Nat : ~InPipe(a, i)
         /\ ~InPending(a)
         /\ ~InCb(a)
         /\ \A q \in QueueIds : \A i \in 1..Len(msgs[q]) : msgs[q][i].lookup # <<a, call[a]>>
  <1> USE DEF IInv
  <1>1. \A i \in Nat : ~InPipe(a, i)
    BY DEF InPipe, Of, ItemInv, RequestOK, Live
  <1>2. ~InPending(a) /\ ~InCb(a)
    BY DEF InPending, InCb, Of, ItemInv, RequestOK, Live
  <1>3. \A q \in QueueIds : \A i \in 1..Len(msgs[q]) : msgs[q][i].lookup # <<a, call[a]>>
    BY DEF ItemInv, AnswerOK, Live
  <1> QED
    BY <1>1, <1>2, <1>3

(* Taking something away makes nothing appear twice. *)
LEMMA OnceKept ==
  ASSUME OnceInv,
         \A b \in Askers : pc'[b] = "wait" =>
            /\ pc[b] = "wait"
            /\ \A i \in Nat : InPipe(b, i)' => InPipe(b, i)
            /\ InPending(b)' => InPending(b)
            /\ InCb(b)' => InCb(b)
            /\ \A i \in Nat : InQueue(b, i)' => InQueue(b, i)
  PROVE  OnceInv'
  BY DEF OnceInv

(* Steps that leave everything where it is. *)
LEMMA ItemsKept ==
  ASSUME IInv, NEW a \in Askers,
         pc[a] = "wait" => <<a, call[a]>> \in abandoned',
         pc'[a] # "wait",
         \A b \in Askers : b # a => pc'[b] = pc[b],
         abandoned \subseteq abandoned',
         UNCHANGED <<call, key, response_q, pipe, pending, cb, msgs>>
  PROVE  ItemInv' /\ OnceInv'
  <1> USE DEF IInv
  <1>1. \A b \in Askers : \A c \in Calls :
           /\ KeyOf(b, c)' = KeyOf(b, c)
           /\ \A q \in QueueIds :
                <<b, c>> \in abandoned \/ Live(b, c, q) => <<b, c>> \in abandoned' \/ Live(b, c, q)'
    BY DEF Live, KeyOf, FirstKey
  <1>2. /\ \A r \in Requests : RequestOK(r) => RequestOK(r)'
        /\ \A q \in QueueIds : \A m \in Answers : AnswerOK(q, m) => AnswerOK(q, m)'
    BY <1>1, ItemKept, AskersOfItems
  <1>3. ItemInv'
    BY <1>2, ItemTypes DEF ItemInv
  <1>4. OnceInv'
    BY DEF OnceInv, InPipe, InPending, InCb, InQueue, Of
  <1> QED
    BY <1>3, <1>4

(* The request of a goes into the pipe, with a queue nobody else uses. *)
LEMMA AskItems ==
  ASSUME IInv, NEW a \in Askers, NEW q \in QueueIds,
         pc[a] = "ask",
         response_q' = [response_q EXCEPT ![a] = q],
         pipe' = Append(pipe, Request(a, q)),
         Goto(a, "wait"),
         UNCHANGED <<call, key, msgs, pending, cb, abandoned>>
  PROVE  ItemInv' /\ OnceInv'
  <1> USE DEF IInv
  <1>1. \A b \in Askers : /\ pc'[b] = IF b = a THEN "wait" ELSE pc[b]
                          /\ response_q'[b] = IF b = a THEN q ELSE response_q[b]
    BY GotoType DEF PlacesOf, TypeOK
  <1>2. \A b \in Askers : \A c \in Calls :
           /\ KeyOf(b, c)' = KeyOf(b, c)
           /\ \A p \in QueueIds :
                <<b, c>> \in abandoned \/ Live(b, c, p) => <<b, c>> \in abandoned' \/ Live(b, c, p)'
    BY <1>1 DEF Live, KeyOf, FirstKey
  <1>3. /\ \A r \in Requests : RequestOK(r) => RequestOK(r)'
        /\ \A p \in QueueIds : \A m \in Answers : AnswerOK(p, m) => AnswerOK(p, m)'
    BY <1>2, ItemKept, AskersOfItems
  <1>4. PICK new \in Requests :
           new = Request(a, q) /\ Of(new, a) /\ new.q = q /\ new.query = key[a]
    <2>1. Request(a, q) \in Requests
      BY DEF Request, Requests, TypeOK
    <2>2. Of(Request(a, q), a) /\ Request(a, q).q = q /\ Request(a, q).query = key[a]
      BY DEF Request, Of
    <2> QED
      BY <2>1, <2>2, Zenon
  <1>5. RequestOK(new)'
    BY <1>1, <1>4 DEF RequestOK, Of, KeyOf, Live
  <1>6. /\ Len(pipe) \in Nat
        /\ Len(pipe') = Len(pipe) + 1
        /\ \A i \in 1..Len(pipe) : pipe'[i] = pipe[i]
        /\ pipe'[Len(pipe) + 1] = new
    <2>1. pipe \in Seq(Requests) /\ new \in Requests /\ pipe' = Append(pipe, new)
      BY <1>4 DEF TypeOK
    <2> QED
      BY <2>1, AppendProperties, LenProperties
  <1>7. \A i \in 1..Len(pipe') : \/ i \in 1..Len(pipe) /\ pipe'[i] = pipe[i]
                                 \/ i = Len(pipe) + 1 /\ pipe'[i] = new
    BY <1>6
  <1>8. ItemInv'
    <2>1. \A i \in 1..Len(pipe') : RequestOK(pipe[i])'
      <3>1. \A i \in 1..Len(pipe) : RequestOK(pipe[i]) /\ pipe[i] \in Requests
        BY ItemTypes DEF ItemInv
      <3> QED
        BY <1>3, <1>5, <1>7, <3>1
    <2>2. \A r \in pending' : RequestOK(r)'
      BY <1>3, ItemTypes DEF ItemInv
    <2>3. cb' # NULL => RequestOK(cb.request)' /\ cb'.host \in {NULL, cb'.request.query}
      BY <1>3, ItemTypes DEF ItemInv
    <2>4. \A p \in QueueIds : \A i \in 1..Len(msgs'[p]) : AnswerOK(p, msgs[p][i])'
      BY <1>3, ItemTypes DEF ItemInv
    <2> QED
      BY <2>1, <2>2, <2>3, <2>4 DEF ItemInv
  <1>9. <<a, call[a]>> \notin abandoned
    BY DEF AbandonInv, TypeOK
  <1>10. \A b \in Askers : b # a =>
            /\ \A i \in Nat : InPipe(b, i)' <=> InPipe(b, i)
            /\ InPending(b)' <=> InPending(b)
            /\ InCb(b)' <=> InCb(b)
            /\ \A i \in Nat : InQueue(b, i)' <=> InQueue(b, i)
    <2> SUFFICES ASSUME NEW b \in Askers, b # a
                 PROVE  /\ \A i \in Nat : InPipe(b, i)' <=> InPipe(b, i)
                        /\ InPending(b)' <=> InPending(b)
                        /\ InCb(b)' <=> InCb(b)
                        /\ \A i \in Nat : InQueue(b, i)' <=> InQueue(b, i)
      OBVIOUS
    <2>1. \A i \in Nat : InPipe(b, i)' <=> InPipe(b, i)
      BY <1>4, <1>6, <1>7 DEF InPipe, Of
    <2>2. InPending(b)' <=> InPending(b)
      BY DEF InPending, Of
    <2>3. InCb(b)' <=> InCb(b)
      BY DEF InCb, Of
    <2>4. \A i \in Nat : InQueue(b, i)' <=> InQueue(b, i)
      BY <1>1 DEF InQueue
    <2> QED
      BY <2>1, <2>2, <2>3, <2>4
  <1>11. /\ \A i \in Nat : InPipe(a, i)' => i = Len(pipe) + 1
         /\ ~InPending(a)' /\ ~InCb(a)'
         /\ \A i \in Nat : ~InQueue(a, i)'
    <2>1. /\ \A i \in Nat : ~InPipe(a, i)
          /\ ~InPending(a) /\ ~InCb(a)
          /\ \A i \in 1..Len(msgs[q]) : msgs[q][i].lookup # <<a, call[a]>>
      BY <1>9, NothingYet
    <2>2. \A i \in Nat : InPipe(a, i)' => i = Len(pipe) + 1
      BY <1>6, <1>7, <2>1 DEF InPipe, Of
    <2>3. ~InPending(a)' /\ ~InCb(a)'
      BY <2>1 DEF InPending, InCb, Of
    <2>4. \A i \in Nat : ~InQueue(a, i)'
      BY <1>1, <2>1 DEF InQueue
    <2> QED
      BY <2>2, <2>3, <2>4
  <1>12. OnceInv'
    <2> SUFFICES ASSUME NEW b \in Askers, pc'[b] = "wait"
                 PROVE  /\ \A i, j \in Nat : InPipe(b, i)' /\ InPipe(b, j)' => i = j
                        /\ \A i \in Nat : InPipe(b, i)' => ~InPending(b)' /\ ~InCb(b)'
                        /\ \A i, j \in Nat : InQueue(b, i)' /\ InQueue(b, j)' => i = j
                        /\ \A i \in Nat : InQueue(b, i)' =>
                              ~InPending(b)' /\ ~InCb(b)' /\ \A j \in Nat : ~InPipe(b, j)'
                        /\ ~(InPending(b)' /\ InCb(b)')
      BY DEF OnceInv
    <2>1. CASE b = a
      BY <2>1, <1>11, <1>6
    <2>2. CASE b # a
      BY <2>2, <1>1, <1>10 DEF OnceInv
    <2> QED
      BY <2>1, <2>2
  <1> QED
    BY <1>8, <1>12

(* An answer is taken from the queue.  If it is the answer to this lookup, *)
(* nothing of it is left; if not, this lookup is given up.                 *)
LEMMA ReceiveItems ==
  ASSUME IInv, NEW a \in Askers, Receive(a)
  PROVE  ItemInv' /\ OnceInv'
  <1> USE DEF IInv
  <1>1. PICK q \in QueueIds : q = response_q[a]
    BY DEF TypeOK
  <1>2. /\ pc[a] = "wait"
        /\ msgs[q] # <<>>
        /\ msgs' = [msgs EXCEPT ![q] = Tail(msgs[q])]
        /\ abandoned \subseteq abandoned'
        /\ Head(msgs[q]).lookup # <<a, call[a]>> => <<a, call[a]>> \in abandoned'
        /\ UNCHANGED <<call, key, response_q, pipe, pending, cb>>
    BY <1>1 DEF Receive, Abandon, helper
  <1>3. \A b \in Askers : pc'[b] = IF b = a THEN "release" ELSE pc[b]
    BY GotoType DEF Receive, PlacesOf
  <1>4. /\ \A p \in QueueIds : p # q => msgs'[p] = msgs[p]
        /\ msgs'[q] = Tail(msgs[q])
    BY <1>2 DEF TypeOK
  <1>5. /\ Len(msgs[q]) \in Nat \ {0}
        /\ Head(msgs[q]) = msgs[q][1]
        /\ Len(msgs'[q]) = Len(msgs[q]) - 1
        /\ \A i \in 1..Len(msgs'[q]) :
              i + 1 \in 1..Len(msgs[q]) /\ i + 1 # 1 /\ msgs'[q][i] = msgs[q][i + 1]
    <2>1. PICK s \in Seq(Answers) : s = msgs[q]
      BY DEF TypeOK
    <2>2. /\ Len(s) \in Nat \ {0}
          /\ Head(s) = s[1]
          /\ Len(Tail(s)) = Len(s) - 1
          /\ \A i \in 1..Len(Tail(s)) : Tail(s)[i] = s[i + 1]
      BY <1>2, <2>1, HeadTailProperties, EmptySeq
    <2>3. msgs'[q] = Tail(s)
      BY <1>4, <2>1
    <2>4. \A i \in 1..Len(Tail(s)) : i + 1 \in 1..Len(s) /\ i + 1 # 1
      BY <2>2
    <2> QED
      BY <2>1, <2>2, <2>3, <2>4
  <1>6. \A p \in QueueIds : \A i \in 1..Len(msgs'[p]) :
           \E j \in 1..Len(msgs[p]) : msgs'[p][i] = msgs[p][j] /\ (p = q => j # 1)
    <2> SUFFICES ASSUME NEW p \in QueueIds, NEW i \in 1..Len(msgs'[p])
                 PROVE  \E j \in 1..Len(msgs[p]) : msgs'[p][i] = msgs[p][j] /\ (p = q => j # 1)
      OBVIOUS
    <2>1. CASE p = q
      BY <1>5, <2>1
    <2>2. CASE p # q
      BY <1>4, <2>2
    <2> QED
      BY <2>1, <2>2
  <1>7. \A b \in Askers : \A c \in Calls : <<b, c>> # <<a, call[a]>> \/ <<a, call[a]>> \in abandoned' =>
           /\ KeyOf(b, c)' = KeyOf(b, c)
           /\ \A p \in QueueIds :
                <<b, c>> \in abandoned \/ Live(b, c, p) => <<b, c>> \in abandoned' \/ Live(b, c, p)'
    BY <1>2, <1>3 DEF Live, KeyOf, FirstKey
  <1>8. /\ \A r \in Requests : (~Of(r, a) \/ <<a, call[a]>> \in abandoned') /\ RequestOK(r) => RequestOK(r)'
        /\ \A p \in QueueIds : \A m \in Answers :
              (m.lookup # <<a, call[a]>> \/ <<a, call[a]>> \in abandoned') /\ AnswerOK(p, m) => AnswerOK(p, m)'
    BY <1>7, ItemKept, AskersOfItems DEF Of
  <1>9. ASSUME Head(msgs[q]).lookup = <<a, call[a]>> PROVE ItemInv'
    <2>1. InQueue(a, 1)
      BY <1>1, <1>5, <1>9 DEF InQueue
    <2>2. /\ ~InPending(a) /\ ~InCb(a)
          /\ \A i \in Nat : ~InPipe(a, i)
          /\ \A i \in Nat : InQueue(a, i) => i = 1
      BY <1>2, <2>1 DEF OnceInv
    <2>3. <<a, call[a]>> \notin abandoned
      BY <1>2 DEF AbandonInv, TypeOK
    <2>4. \A p \in QueueIds : \A i \in 1..Len(msgs'[p]) : msgs'[p][i].lookup # <<a, call[a]>>
      <3> SUFFICES ASSUME NEW p \in QueueIds, NEW i \in 1..Len(msgs'[p])
                   PROVE  msgs'[p][i].lookup # <<a, call[a]>>
        OBVIOUS
      <3>1. PICK j \in 1..Len(msgs[p]) : msgs'[p][i] = msgs[p][j] /\ (p = q => j # 1)
        BY <1>6
      <3>2. CASE p = q
        BY <1>1, <2>2, <3>1, <3>2 DEF InQueue
      <3>3. CASE p # q
        <4>1. AnswerOK(p, msgs[p][j])
          BY DEF ItemInv
        <4> QED
          BY <1>1, <2>3, <3>1, <3>3, <4>1 DEF AnswerOK, Live
      <3> QED
        BY <3>2, <3>3
    <2>5. \A i \in 1..Len(pipe) : RequestOK(pipe[i])'
      <3>1. \A i \in 1..Len(pipe) : ~Of(pipe[i], a)
        BY <2>2 DEF InPipe
      <3>2. \A i \in 1..Len(pipe) : RequestOK(pipe[i]) /\ pipe[i] \in Requests
        BY ItemTypes DEF ItemInv
      <3> QED
        BY <1>2, <1>8, <3>1, <3>2
    <2>6. \A r \in pending : RequestOK(r)'
      BY <1>8, <2>2, ItemTypes DEF ItemInv, InPending
    <2>7. cb # NULL => RequestOK(cb.request)'
      <3>1. cb # NULL => ~Of(cb.request, a) /\ RequestOK(cb.request) /\ cb.request \in Requests
        BY <2>2, ItemTypes DEF ItemInv, InCb
      <3> QED
        BY <1>2, <1>8, <3>1
    <2>8. \A p \in QueueIds : \A i \in 1..Len(msgs'[p]) : AnswerOK(p, msgs[p][i])'
      <3>1. \A p \in QueueIds : \A i \in 1..Len(msgs'[p]) :
               AnswerOK(p, msgs'[p][i]) /\ msgs'[p][i] \in Answers
        BY <1>6, ItemTypes DEF ItemInv
      <3> QED
        BY <1>8, <2>4, <3>1
    <2> QED
      BY <1>2, <2>5, <2>6, <2>7, <2>8 DEF ItemInv
  <1>10. ASSUME Head(msgs[q]).lookup # <<a, call[a]>> PROVE ItemInv'
    <2>1. /\ \A r \in Requests : RequestOK(r) => RequestOK(r)'
          /\ \A p \in QueueIds : \A m \in Answers : AnswerOK(p, m) => AnswerOK(p, m)'
      BY <1>2, <1>8, <1>10
    <2>2. \A i \in 1..Len(pipe) : RequestOK(pipe[i])'
      BY <1>2, <2>1, ItemTypes DEF ItemInv
    <2>3. \A r \in pending : RequestOK(r)'
      BY <2>1, ItemTypes DEF ItemInv
    <2>4. cb # NULL => RequestOK(cb.request)'
      BY <1>2, <2>1, ItemTypes DEF ItemInv
    <2>5. \A p \in QueueIds : \A i \in 1..Len(msgs'[p]) : AnswerOK(p, msgs[p][i])'
      <3>1. \A p \in QueueIds : \A i \in 1..Len(msgs'[p]) :
               AnswerOK(p, msgs'[p][i]) /\ msgs'[p][i] \in Answers
        BY <1>6, ItemTypes DEF ItemInv
      <3> QED
        BY <2>1, <3>1
    <2> QED
      BY <1>2, <2>2, <2>3, <2>4, <2>5 DEF ItemInv
  <1>11. OnceInv'
    <2>1. \A b \in Askers : pc'[b] = "wait" => b # a /\ pc[b] = "wait" /\ msgs'[response_q[b]] = msgs[response_q[b]]
      <3>1. \A b \in Askers : b # a /\ pc[b] = "wait" => response_q[b] # q /\ response_q[b] \in QueueIds
        BY <1>1, <1>2 DEF OneOwner, Waiting, TypeOK
      <3> QED
        BY <1>3, <1>4, <3>1
    <2>2. \A b \in Askers : pc'[b] = "wait" =>
             /\ pc[b] = "wait"
             /\ \A i \in Nat : InPipe(b, i)' => InPipe(b, i)
             /\ InPending(b)' => InPending(b)
             /\ InCb(b)' => InCb(b)
             /\ \A i \in Nat : InQueue(b, i)' => InQueue(b, i)
      BY <1>2, <2>1 DEF InPipe, InPending, InCb, InQueue, Of
    <2> QED
      BY <2>2, OnceKept
  <1> QED
    BY <1>9, <1>10, <1>11

(* The second lookup: what is left of the first one was given up. *)
LEMMA SecondItems ==
  ASSUME IInv, NEW a \in Askers, SecondLookup(a)
  PROVE  ItemInv' /\ OnceInv'
  <1> USE DEF IInv
  <1>1. /\ pc[a] = "next"
        /\ call[a] = 1
        /\ key[a] = FirstKey(a)
        /\ UNCHANGED <<response_q, pipe, pending, cb, msgs, abandoned>>
    BY DEF SecondLookup, AbandonInv, queues, helper
  <1>2. \A b \in Askers : /\ pc'[b] = IF b = a THEN "lookup" ELSE pc[b]
                          /\ call'[b] = IF b = a THEN 2 ELSE call[b]
                          /\ b # a => key'[b] = key[b]
    BY GotoType DEF SecondLookup, PlacesOf, TypeOK
  <1>3. ASSUME NEW b \in Askers, NEW c \in Calls, NEW q \in QueueIds,
               <<b, c>> \in abandoned \/ Live(b, c, q)
        PROVE  /\ KeyOf(b, c)' = KeyOf(b, c)
               /\ <<b, c>> \in abandoned' \/ Live(b, c, q)'
    <2>1. CASE b # a
      BY <1>1, <1>2, <1>3, <2>1 DEF Live, KeyOf, FirstKey
    <2>2. CASE b = a
      <3>1. <<a, c>> \in abandoned /\ c = 1
        <4>1. <<a, c>> \in abandoned
          BY <1>1, <1>3, <2>2 DEF Live
        <4>2. c <= call[a]
          BY <4>1 DEF AbandonInv
        <4> QED
          BY <1>1, <4>1, <4>2 DEF Calls
      <3> QED
        BY <1>1, <1>2, <2>2, <3>1 DEF KeyOf, FirstKey
    <2> QED
      BY <2>1, <2>2
  <1>4. ASSUME NEW r \in Requests, RequestOK(r) PROVE RequestOK(r)'
    BY <1>3, <1>4, AskersOfItems DEF RequestOK
  <1>5. ASSUME NEW q \in QueueIds, NEW m \in Answers, AnswerOK(q, m) PROVE AnswerOK(q, m)'
    <2>1. PICK b \in Askers, c \in Calls : m.lookup = <<b, c>>
      BY AskersOfItems
    <2> QED
      BY <1>3, <1>5, <2>1 DEF AnswerOK
  <1>6. ItemInv'
    BY <1>1, <1>4, <1>5, ItemTypes DEF ItemInv
  <1>7. \A b \in Askers : pc'[b] = "wait" => b # a /\ pc[b] = "wait"
    BY <1>2
  <1>8. \A b \in Askers : pc'[b] = "wait" =>
           /\ pc[b] = "wait"
           /\ \A i \in Nat : InPipe(b, i)' => InPipe(b, i)
           /\ InPending(b)' => InPending(b)
           /\ InCb(b)' => InCb(b)
           /\ \A i \in Nat : InQueue(b, i)' => InQueue(b, i)
    BY <1>1, <1>2, <1>7 DEF InPipe, InPending, InCb, InQueue, Of
  <1> QED
    BY <1>6, <1>8, OnceKept

(* The helper thread moves a request on.  Who waits for what stays. *)
LEMMA HelperKeeps ==
  ASSUME IInv, UNCHANGED <<pc, call, key, response_q, abandoned>>
  PROVE  /\ \A r \in Requests : RequestOK(r) => RequestOK(r)'
         /\ \A q \in QueueIds : \A m \in Answers : AnswerOK(q, m) => AnswerOK(q, m)'
  <1>1. \A b \in Askers : \A c \in Calls :
           /\ KeyOf(b, c)' = KeyOf(b, c)
           /\ \A q \in QueueIds :
                <<b, c>> \in abandoned \/ Live(b, c, q) => <<b, c>> \in abandoned' \/ Live(b, c, q)'
    BY DEF Live, KeyOf, FirstKey
  <1> QED
    BY <1>1, ItemKept, AskersOfItems

LEMMA ReadItems ==
  ASSUME IInv, ReadRequest
  PROVE  ItemInv' /\ OnceInv'
  <1> USE DEF IInv
  <1>1. PICK r \in Requests : r = Head(pipe)
    BY HeadTailProperties DEF ReadRequest, TypeOK
  <1>2. /\ cb = NULL
        /\ pending' = pending \cup {r}
        /\ UNCHANGED <<pc, call, key, response_q, abandoned, cb, msgs>>
    BY <1>1 DEF ReadRequest, asker, queues
  <1>3. /\ Len(pipe) \in Nat \ {0}
        /\ r = pipe[1]
        /\ Len(pipe') = Len(pipe) - 1
        /\ \A i \in 1..Len(pipe') : pipe'[i] = pipe[i + 1]
    BY <1>1, HeadTailProperties, EmptySeq DEF ReadRequest, TypeOK
  <1>4. \A i \in 1..Len(pipe') : i + 1 \in 1..Len(pipe) /\ i + 1 # 1
    BY <1>3
  <1>5. /\ \A s \in Requests : RequestOK(s) => RequestOK(s)'
        /\ \A q \in QueueIds : \A m \in Answers : AnswerOK(q, m) => AnswerOK(q, m)'
    BY <1>2, HelperKeeps
  <1>6. ItemInv'
    <2>1. \A i \in 1..Len(pipe) : RequestOK(pipe[i]) /\ pipe[i] \in Requests
      BY ItemTypes DEF ItemInv
    <2>2. \A i \in 1..Len(pipe') : RequestOK(pipe[i])'
      BY <1>3, <1>4, <1>5, <2>1
    <2>3. RequestOK(r)
      BY <1>3, <2>1
    <2>4. \A s \in pending' : RequestOK(s)'
      BY <1>2, <1>5, <2>3, ItemTypes DEF ItemInv
    <2>5. \A q \in QueueIds : \A i \in 1..Len(msgs'[q]) : AnswerOK(q, msgs[q][i])'
      BY <1>2, <1>5, ItemTypes DEF ItemInv
    <2> QED
      BY <1>2, <2>2, <2>4, <2>5 DEF ItemInv
  <1>7. ASSUME NEW b \in Askers
        PROVE  /\ \A i \in Nat : InPipe(b, i)' => i + 1 \in Nat /\ InPipe(b, i + 1) /\ i + 1 # 1
               /\ InPending(b)' => InPending(b) \/ InPipe(b, 1)
               /\ ~InCb(b)'
               /\ \A i \in Nat : InQueue(b, i)' => InQueue(b, i)
    BY <1>2, <1>3, <1>4 DEF InPipe, InPending, InCb, InQueue, Of
  <1>8. OnceInv'
    <2> SUFFICES ASSUME NEW b \in Askers, pc'[b] = "wait"
                 PROVE  /\ \A i, j \in Nat : InPipe(b, i)' /\ InPipe(b, j)' => i = j
                        /\ \A i \in Nat : InPipe(b, i)' => ~InPending(b)' /\ ~InCb(b)'
                        /\ \A i, j \in Nat : InQueue(b, i)' /\ InQueue(b, j)' => i = j
                        /\ \A i \in Nat : InQueue(b, i)' =>
                              ~InPending(b)' /\ ~InCb(b)' /\ \A j \in Nat : ~InPipe(b, j)'
                        /\ ~(InPending(b)' /\ InCb(b)')
      BY DEF OnceInv
    <2>1. pc[b] = "wait"
      BY <1>2
    <2> QED
      BY <1>7, <2>1 DEF OnceInv
  <1> QED
    BY <1>6, <1>8

LEMMA AnswerItems ==
  ASSUME IInv, NEW r \in pending, Answer(r)
  PROVE  ItemInv' /\ OnceInv'
  <1> USE DEF IInv
  <1>1. PICK host \in {r.query, NULL} : cb' = [request |-> r, host |-> host, checked |-> FALSE]
    BY DEF Answer
  <1>2. /\ cb = NULL
        /\ pending' = pending \ {r}
        /\ UNCHANGED <<pc, call, key, response_q, abandoned, pipe, msgs>>
    BY DEF Answer, asker, queues
  <1>3. cb'.request = r /\ cb'.host = host /\ r \in Requests
    BY <1>1 DEF TypeOK
  <1>4. /\ \A s \in Requests : RequestOK(s) => RequestOK(s)'
        /\ \A q \in QueueIds : \A m \in Answers : AnswerOK(q, m) => AnswerOK(q, m)'
    BY <1>2, HelperKeeps
  <1>5. ItemInv'
    <2>1. \A i \in 1..Len(pipe') : RequestOK(pipe[i])'
      BY <1>2, <1>4, ItemTypes DEF ItemInv
    <2>2. \A s \in pending' : RequestOK(s)'
      BY <1>2, <1>4, ItemTypes DEF ItemInv
    <2>3. RequestOK(cb.request)' /\ cb'.host \in {NULL, cb'.request.query}
      BY <1>3, <1>4 DEF ItemInv
    <2>4. \A q \in QueueIds : \A i \in 1..Len(msgs'[q]) : AnswerOK(q, msgs[q][i])'
      BY <1>2, <1>4, ItemTypes DEF ItemInv
    <2> QED
      BY <2>1, <2>2, <2>3, <2>4 DEF ItemInv
  <1>6. ASSUME NEW b \in Askers, pc[b] = "wait"
        PROVE  ~(InPending(b)' /\ InCb(b)')
    <2> SUFFICES ASSUME NEW s \in pending', Of(s, b), Of(r, b)
                 PROVE  FALSE
      BY <1>2, <1>3 DEF InPending, InCb, Of
    <2>1. <<b, call[b]>> \notin abandoned
      BY <1>6 DEF AbandonInv, TypeOK
    <2>2. RequestOK(s) /\ RequestOK(r) /\ s \in Requests /\ r \in Requests /\ s # r
      BY <1>2, ItemTypes DEF ItemInv
    <2>3. s.asker = r.asker /\ s.call = r.call /\ s.query = r.query /\ s.q = r.q
      BY <2>1, <2>2 DEF Of, RequestOK, Live
    <2> QED
      BY <2>2, <2>3 DEF Requests
  <1>7. ASSUME NEW b \in Askers
        PROVE  /\ \A i \in Nat : InPipe(b, i)' => InPipe(b, i)
               /\ InPending(b)' => InPending(b)
               /\ InCb(b)' => InPending(b)
               /\ \A i \in Nat : InQueue(b, i)' => InQueue(b, i)
    BY <1>2, <1>3 DEF InPipe, InPending, InCb, InQueue, Of
  <1>8. OnceInv'
    <2> SUFFICES ASSUME NEW b \in Askers, pc'[b] = "wait"
                 PROVE  /\ \A i, j \in Nat : InPipe(b, i)' /\ InPipe(b, j)' => i = j
                        /\ \A i \in Nat : InPipe(b, i)' => ~InPending(b)' /\ ~InCb(b)'
                        /\ \A i, j \in Nat : InQueue(b, i)' /\ InQueue(b, j)' => i = j
                        /\ \A i \in Nat : InQueue(b, i)' =>
                              ~InPending(b)' /\ ~InCb(b)' /\ \A j \in Nat : ~InPipe(b, j)'
                        /\ ~(InPending(b)' /\ InCb(b)')
      BY DEF OnceInv
    <2>1. pc[b] = "wait"
      BY <1>2
    <2> QED
      BY <1>6, <1>7, <2>1 DEF OnceInv
  <1> QED
    BY <1>5, <1>8

LEMMA CheckItems ==
  ASSUME IInv, CheckActive
  PROVE  ItemInv' /\ OnceInv'
  <1> USE DEF IInv
  <1>1. UNCHANGED <<pc, call, key, response_q, abandoned, pipe, pending, msgs>>
    BY DEF CheckActive, asker, queues
  <1>2. cb' # NULL => cb # NULL /\ cb'.request = cb.request /\ cb'.host = cb.host
    BY DEF CheckActive, TypeOK
  <1>3. /\ \A s \in Requests : RequestOK(s) => RequestOK(s)'
        /\ \A q \in QueueIds : \A m \in Answers : AnswerOK(q, m) => AnswerOK(q, m)'
    BY <1>1, HelperKeeps
  <1>4. ItemInv'
    <2>1. \A i \in 1..Len(pipe') : RequestOK(pipe[i])'
      BY <1>1, <1>3, ItemTypes DEF ItemInv
    <2>2. \A s \in pending' : RequestOK(s)'
      BY <1>1, <1>3, ItemTypes DEF ItemInv
    <2>3. cb' # NULL => RequestOK(cb.request)' /\ cb'.host \in {NULL, cb'.request.query}
      <3>1. cb' # NULL => RequestOK(cb'.request) /\ cb'.request \in Requests /\ cb'.host \in {NULL, cb'.request.query}
        BY <1>2, ItemTypes DEF ItemInv
      <3> QED
        BY <1>3, <3>1
    <2>4. \A q \in QueueIds : \A i \in 1..Len(msgs'[q]) : AnswerOK(q, msgs[q][i])'
      BY <1>1, <1>3, ItemTypes DEF ItemInv
    <2> QED
      BY <2>1, <2>2, <2>3, <2>4 DEF ItemInv
  <1>5. \A b \in Askers : pc'[b] = "wait" =>
           /\ pc[b] = "wait"
           /\ \A i \in Nat : InPipe(b, i)' => InPipe(b, i)
           /\ InPending(b)' => InPending(b)
           /\ InCb(b)' => InCb(b)
           /\ \A i \in Nat : InQueue(b, i)' => InQueue(b, i)
    BY <1>1, <1>2 DEF InPipe, InPending, InCb, InQueue, Of
  <1> QED
    BY <1>4, <1>5, OnceKept

LEMMA PutItems ==
  ASSUME IInv, PutAnswer
  PROVE  ItemInv' /\ OnceInv'
  <1> USE DEF IInv
  <1>1. PICK r \in Requests, host \in Hosts : r = cb.request /\ host = cb.host
    BY ItemTypes DEF PutAnswer
  <1>2. PICK q \in QueueIds : q = r.q
    BY AskersOfItems
  <1>3. PICK m \in Answers : m = [lookup |-> <<r.asker, r.call>>, host |-> host]
    BY AskersOfItems DEF Answers
  <1>4. /\ cb # NULL /\ cb' = NULL
        /\ msgs' = [msgs EXCEPT ![q] = Append(msgs[q], m)]
        /\ UNCHANGED <<pc, call, key, response_q, abandoned, pipe, pending>>
    BY <1>1, <1>2, <1>3 DEF PutAnswer, asker
  <1>5. /\ \A p \in QueueIds : p # q => msgs'[p] = msgs[p]
        /\ msgs'[q] = Append(msgs[q], m)
    BY <1>4 DEF TypeOK
  <1>6. /\ Len(msgs[q]) \in Nat
        /\ Len(msgs'[q]) = Len(msgs[q]) + 1
        /\ \A i \in 1..Len(msgs[q]) : msgs'[q][i] = msgs[q][i]
        /\ msgs'[q][Len(msgs[q]) + 1] = m
    <2>1. PICK s \in Seq(Answers) : s = msgs[q]
      BY DEF TypeOK
    <2> QED
      BY <1>5, <2>1, AppendProperties, LenProperties
  <1>7. \A i \in 1..Len(msgs'[q]) : \/ i \in 1..Len(msgs[q]) /\ msgs'[q][i] = msgs[q][i]
                                    \/ i = Len(msgs[q]) + 1 /\ msgs'[q][i] = m
    BY <1>6
  <1>8. /\ \A s \in Requests : RequestOK(s) => RequestOK(s)'
        /\ \A p \in QueueIds : \A n \in Answers : AnswerOK(p, n) => AnswerOK(p, n)'
    BY <1>4, HelperKeeps
  <1>9. RequestOK(r) /\ host \in {NULL, r.query}
    BY <1>1, <1>4 DEF ItemInv
  <1>10. AnswerOK(q, m)
    BY <1>2, <1>3, <1>9 DEF RequestOK, AnswerOK
  <1>11. ItemInv'
    <2>1. \A i \in 1..Len(pipe') : RequestOK(pipe[i])'
      BY <1>4, <1>8, ItemTypes DEF ItemInv
    <2>2. \A s \in pending' : RequestOK(s)'
      BY <1>4, <1>8, ItemTypes DEF ItemInv
    <2>3. \A p \in QueueIds : \A i \in 1..Len(msgs'[p]) : AnswerOK(p, msgs[p][i])'
      <3>1. ASSUME NEW p \in QueueIds, NEW i \in 1..Len(msgs'[p])
            PROVE  msgs'[p][i] \in Answers /\ AnswerOK(p, msgs'[p][i])
        <4>1. CASE p = q
          BY <1>7, <1>10, <3>1, <4>1, ItemTypes DEF ItemInv
        <4>2. CASE p # q
          BY <1>5, <3>1, <4>2, ItemTypes DEF ItemInv
        <4> QED
          BY <4>1, <4>2
      <3> QED
        BY <1>8, <3>1
    <2> QED
      BY <1>4, <2>1, <2>2, <2>3 DEF ItemInv
  <1>12. ASSUME NEW b \in Askers, pc[b] = "wait"
         PROVE  /\ \A i \in Nat : InPipe(b, i)' => InPipe(b, i)
                /\ InPending(b)' => InPending(b)
                /\ ~InCb(b)'
                /\ \A i \in Nat : InQueue(b, i)' => InQueue(b, i) \/ (InCb(b) /\ i = Len(msgs[q]) + 1)
    <2>1. <<b, call[b]>> \notin abandoned
      BY <1>12 DEF AbandonInv, TypeOK
    <2>2. m.lookup = <<b, call[b]>> <=> InCb(b)
      BY <1>1, <1>3, <1>4 DEF InCb, Of
    <2>3. \A i \in Nat : InQueue(b, i)' => InQueue(b, i) \/ (InCb(b) /\ i = Len(msgs[q]) + 1)
      <3> SUFFICES ASSUME NEW i \in Nat, InQueue(b, i)'
                   PROVE  InQueue(b, i) \/ (InCb(b) /\ i = Len(msgs[q]) + 1)
        OBVIOUS
      <3>1. /\ i \in 1..Len(msgs'[response_q[b]])
            /\ msgs'[response_q[b]][i].lookup = <<b, call[b]>>
        BY <1>4 DEF InQueue
      <3>2. CASE response_q[b] = q
        BY <1>7, <2>2, <3>1, <3>2 DEF InQueue
      <3>3. CASE response_q[b] # q
        BY <1>5, <3>1, <3>3 DEF InQueue, TypeOK
      <3> QED
        BY <3>2, <3>3
    <2> QED
      BY <1>4, <2>3 DEF InPipe, InPending, InCb, Of
  <1>13. OnceInv'
    <2> SUFFICES ASSUME NEW b \in Askers, pc'[b] = "wait"
                 PROVE  /\ \A i, j \in Nat : InPipe(b, i)' /\ InPipe(b, j)' => i = j
                        /\ \A i \in Nat : InPipe(b, i)' => ~InPending(b)' /\ ~InCb(b)'
                        /\ \A i, j \in Nat : InQueue(b, i)' /\ InQueue(b, j)' => i = j
                        /\ \A i \in Nat : InQueue(b, i)' =>
                              ~InPending(b)' /\ ~InCb(b)' /\ \A j \in Nat : ~InPipe(b, j)'
                        /\ ~(InPending(b)' /\ InCb(b)')
      BY DEF OnceInv
    <2>1. pc[b] = "wait"
      BY <1>4
    <2> QED
      BY <1>12, <2>1 DEF OnceInv
  <1> QED
    BY <1>11, <1>13

-----------------------------------------------------------------------------
LEMMA AskItemsAll ==
  ASSUME IInv, NEW a \in Askers, Ask(a)
  PROVE  ItemInv' /\ OnceInv'
  <1> USE DEF IInv
  <1>1. ASSUME NEW place \in PlacesOf \ {"wait"}, Goto(a, place),
               pc[a] = "wait" => <<a, call[a]>> \in abandoned',
               abandoned \subseteq abandoned',
               UNCHANGED <<call, key, response_q, pipe, pending, cb, msgs>>
        PROVE  ItemInv' /\ OnceInv'
    <2>1. \A b \in Askers : pc'[b] = IF b = a THEN place ELSE pc[b]
      BY <1>1, GotoType
    <2> QED
      BY <1>1, <2>1, ItemsKept
  <1>2. ASSUME AskRecycled(a) PROVE ItemInv' /\ OnceInv'
    <2>1. Head(metaqueue) \in QueueIds
      BY <1>2, HeadTailProperties DEF AskRecycled, TypeOK
    <2> QED
      BY <1>2, <2>1, AskItems DEF AskRecycled
  <1>3. ASSUME AskNew(a) PROVE ItemInv' /\ OnceInv'
    BY <1>3, NewQueueExists, AskItems DEF AskNew
  <1>4. ASSUME TimeOut(a) PROVE ItemInv' /\ OnceInv'
    BY <1>1, <1>4 DEF TimeOut, Abandon, PlacesOf, queues, helper
  <1>5. ASSUME lookup_str(a) PROVE ItemInv' /\ OnceInv'
    BY <1>1, <1>5 DEF lookup_str, PlacesOf, queues, helper
  <1>6. ASSUME Release(a) PROVE ItemInv' /\ OnceInv'
    BY <1>1, <1>6 DEF Release, PlacesOf, queues, helper
  <1>7. ASSUME Retire(a) \/ cache_str(a) \/ Finish(a) PROVE ItemInv' /\ OnceInv'
    BY <1>1, <1>7 DEF Retire, cache_str, Finish, PlacesOf, queues, helper
  <1> QED
    BY <1>2, <1>3, <1>4, <1>5, <1>6, <1>7, ReceiveItems, SecondItems DEF Ask

(* A lookup is given up when it has waited, and never again taken up. *)
LEMMA AskAbandon ==
  ASSUME IInv, NEW a \in Askers, Ask(a)
  PROVE  AbandonInv'
  <1> USE DEF IInv
  <1>1. ASSUME NEW place \in PlacesOf, Goto(a, place),
               UNCHANGED <<call, key>>,
               \/ UNCHANGED abandoned /\ place \notin {"lookup", "ask", "wait"}
               \/ UNCHANGED abandoned /\ pc[a] \in {"lookup", "ask", "wait"}
               \/ abandoned' = abandoned \cup {<<a, call[a]>>} /\ place = "release"
        PROVE  AbandonInv'
    <2>1. \A b \in Askers : pc'[b] = IF b = a THEN place ELSE pc[b]
      BY <1>1, GotoType
    <2>2. ASSUME NEW b \in Askers, NEW c \in Calls, <<b, c>> \in abandoned'
          PROVE  c <= call[b] /\ (c = call[b] => pc'[b] \notin {"lookup", "ask", "wait"})
      <3>1. CASE <<b, c>> \in abandoned
        BY <1>1, <2>1, <3>1 DEF AbandonInv
      <3>2. CASE <<b, c>> \notin abandoned
        BY <1>1, <2>1, <2>2, <3>2 DEF TypeOK, Calls
      <3> QED
        BY <3>1, <3>2
    <2> QED
      BY <1>1, <2>2 DEF AbandonInv, FirstKey
  <1>2. ASSUME SecondLookup(a) PROVE AbandonInv'
    <2>1. \A b \in Askers : /\ pc'[b] = IF b = a THEN "lookup" ELSE pc[b]
                            /\ call'[b] = IF b = a THEN 2 ELSE call[b]
                            /\ b # a => key'[b] = key[b]
      BY <1>2, GotoType DEF SecondLookup, PlacesOf, TypeOK
    <2>2. abandoned' = abandoned /\ call[a] = 1
      BY <1>2 DEF SecondLookup
    <2>3. \A b \in Askers : \A c \in Calls : <<b, c>> \in abandoned =>
             c <= call'[b] /\ (c = call'[b] => pc'[b] \notin {"lookup", "ask", "wait"})
      <3> SUFFICES ASSUME NEW b \in Askers, NEW c \in Calls, <<b, c>> \in abandoned
                   PROVE  c <= call'[b] /\ (c = call'[b] => pc'[b] \notin {"lookup", "ask", "wait"})
        OBVIOUS
      <3>1. c <= call[b] /\ (c = call[b] => pc[b] \notin {"lookup", "ask", "wait"})
        BY DEF AbandonInv
      <3>2. CASE b = a
        BY <2>1, <2>2, <3>1, <3>2 DEF Calls
      <3>3. CASE b # a
        BY <2>1, <3>1, <3>3, Zenon
      <3> QED
        BY <3>2, <3>3
    <2>4. \A b \in Askers : call'[b] = 1 => key'[b] = FirstKey(b)
      BY <2>1 DEF AbandonInv
    <2> QED
      BY <2>2, <2>3, <2>4 DEF AbandonInv, FirstKey
  <1>3. ASSUME Receive(a) \/ TimeOut(a) PROVE AbandonInv'
    BY <1>1, <1>3 DEF Receive, TimeOut, Abandon, PlacesOf
  <1>4. ASSUME lookup_str(a) \/ AskRecycled(a) \/ AskNew(a) PROVE AbandonInv'
    BY <1>1, <1>4 DEF lookup_str, AskRecycled, AskNew, PlacesOf
  <1>5. ASSUME Release(a) \/ Retire(a) \/ cache_str(a) \/ Finish(a) PROVE AbandonInv'
    BY <1>1, <1>5 DEF Release, Retire, cache_str, Finish, PlacesOf
  <1> QED
    BY <1>2, <1>3, <1>4, <1>5 DEF Ask

(* A host that is the late answer to a lookup stays one. *)
LEMMA LateStays ==
  ASSUME IInv,
         abandoned \subseteq abandoned',
         \A b \in Askers : key'[b] = key[b] \/ key[b] = FirstKey(b)
  PROVE  \A host \in Hosts : Late(host) => Late(host)'
  BY DEF Late, FirstKey

LEMMA AskAnswers ==
  ASSUME IInv, NEW a \in Askers, Ask(a)
  PROVE  RightAnswers'
  <1> USE DEF IInv
  <1> DEFINE Right(h, k) == h \in {k, NULL} \/ Late(h)
  <1>1. \A h \in Slots : hashtab[h] # NULL =>
           hashtab[h].value \in Keys /\ (hashtab[h].value = hashtab[h].key \/ Late(hashtab[h].value))
    BY DEF RightAnswers, TypeOK
  <1>2. \A b \in Askers : reply[b] \in Hosts /\ Right(reply[b], key[b])
    BY DEF RightAnswers, TypeOK
  <1>3. ASSUME abandoned \subseteq abandoned', UNCHANGED <<key, hashtab>>,
               NEW new \in Hosts, reply' = [reply EXCEPT ![a] = new],
               new \in {key[a], NULL} \/ Late(new)'
        PROVE  RightAnswers'
    <2>1. \A host \in Hosts : Late(host) => Late(host)'
      BY <1>3, LateStays
    <2>2. \A b \in Askers : reply'[b] = IF b = a THEN new ELSE reply[b]
      BY <1>3 DEF TypeOK
    <2>3. \A b \in Askers : reply'[b] \in {key'[b], NULL} \/ Late(reply[b])'
      BY <1>2, <1>3, <2>1, <2>2
    <2>4. \A h \in Slots : hashtab'[h] # NULL => hashtab'[h].value = hashtab'[h].key \/ Late(hashtab[h].value)'
      BY <1>1, <1>3, <2>1 DEF Hosts
    <2> QED
      BY <2>3, <2>4 DEF RightAnswers
  <1>4. ASSUME abandoned' = abandoned, UNCHANGED <<key, reply, hashtab>>
        PROVE  RightAnswers'
    BY <1>4 DEF RightAnswers, Late, FirstKey
  <1>5. ASSUME lookup_str(a) PROVE RightAnswers'
    <2> DEFINE s == Hash[key[a]]
    <2>1. s \in Slots /\ key[a] \in Keys
      BY KeyTypes DEF TypeOK
    <2>2. abandoned' = abandoned /\ key' = key
      BY <1>5 DEF lookup_str
    <2>3. \A host \in Hosts : Late(host)' <=> Late(host)
      BY <2>2 DEF Late, FirstKey
    <2>4. ASSUME reply' = reply, hashtab' = hashtab \/ hashtab' = [hashtab EXCEPT ![s] = NULL]
          PROVE  RightAnswers'
      <3>1. \A h \in Slots : hashtab'[h] # NULL => hashtab'[h] = hashtab[h]
        BY <2>4 DEF TypeOK
      <3> QED
        BY <1>1, <1>2, <2>2, <2>3, <2>4, <3>1 DEF RightAnswers, Hosts
    <2>5. ASSUME hashtab[s] # NULL, hashtab[s].key = key[a],
                 reply' = [reply EXCEPT ![a] = hashtab[s].value], hashtab' = hashtab
          PROVE  RightAnswers'
      <3>1. PICK new \in Hosts : new = hashtab[s].value
        BY <1>1, <2>1, <2>5 DEF Hosts
      <3>2. new = key[a] \/ Late(new)
        BY <1>1, <2>1, <2>5, <3>1
      <3> QED
        BY <1>3, <2>2, <2>3, <2>5, <3>1, <3>2
    <2> QED
      BY <1>5, <2>4, <2>5 DEF lookup_str
  <1>6. ASSUME Receive(a) PROVE RightAnswers'
    <2>1. PICK q \in QueueIds : q = response_q[a]
      BY DEF TypeOK
    <2>2. msgs[q] \in Seq(Answers) /\ msgs[q] # <<>>
      BY <1>6, <2>1 DEF Receive, TypeOK
    <2>3. Head(msgs[q]) = msgs[q][1] /\ 1 \in 1..Len(msgs[q])
      BY <2>2, EmptySeq
    <2>4. PICK m \in Answers : m = Head(msgs[q]) /\ AnswerOK(q, m)
      BY <2>3, ItemTypes DEF ItemInv
    <2>5. PICK b \in Askers, c \in Calls : m.lookup = <<b, c>>
      BY AskersOfItems
    <2>6. m.host \in Hosts /\ m.host \in {NULL, KeyOf(b, c)}
      BY <2>4, <2>5 DEF Answers, AnswerOK
    <2>7. /\ reply' = [reply EXCEPT ![a] = m.host]
          /\ abandoned \subseteq abandoned'
          /\ UNCHANGED <<call, key, hashtab>>
          /\ pc[a] = "wait"
      BY <1>6, <2>1, <2>4 DEF Receive, Abandon
    <2>8. CASE b = a /\ c = call[a]
      BY <1>3, <2>6, <2>7, <2>8 DEF KeyOf
    <2>9. CASE ~(b = a /\ c = call[a])
      <3>1. ~Live(b, c, q)
        BY <2>1, <2>7, <2>9 DEF Live, OneOwner, Waiting
      <3>2. <<b, c>> \in abandoned'
        BY <2>4, <2>5, <2>7, <3>1 DEF AnswerOK
      <3>3. m.host # NULL => Late(m.host)'
        BY <2>6, <2>7, <3>2 DEF Late, KeyOf, FirstKey
      <3> QED
        BY <1>3, <2>6, <2>7, <3>3
    <2> QED
      BY <2>8, <2>9
  <1>7. ASSUME TimeOut(a) PROVE RightAnswers'
    BY <1>3, <1>7 DEF TimeOut, Abandon, Hosts
  <1>8. ASSUME cache_str(a) PROVE RightAnswers'
    <2> DEFINE s == Hash[key[a]]
    <2>1. s \in Slots
      BY KeyTypes DEF TypeOK
    <2>2. abandoned' = abandoned /\ key' = key /\ reply' = reply
      BY <1>8 DEF cache_str
    <2>3. \A host \in Hosts : Late(host)' <=> Late(host)
      BY <2>2 DEF Late, FirstKey
    <2>4. \A h \in Slots :
             \/ hashtab'[h] = hashtab[h]
             \/ reply[a] # NULL /\ hashtab'[h].key = key[a] /\ hashtab'[h].value = reply[a]
      BY <1>8, <2>1 DEF cache_str, TypeOK
    <2>5. \A h \in Slots : hashtab'[h] # NULL =>
             hashtab'[h].value = hashtab'[h].key \/ Late(hashtab[h].value)'
      BY <1>1, <1>2, <2>3, <2>4 DEF Hosts
    <2> QED
      BY <1>2, <2>2, <2>3, <2>5 DEF RightAnswers
  <1>9. ASSUME SecondLookup(a) PROVE RightAnswers'
    <2>1. /\ \A b \in Askers : b # a => key'[b] = key[b] /\ reply'[b] = reply[b]
          /\ reply'[a] = NULL
          /\ UNCHANGED <<abandoned, hashtab>>
          /\ key[a] = FirstKey(a)
      BY <1>9 DEF SecondLookup, TypeOK, AbandonInv
    <2>2. \A host \in Hosts : Late(host) => Late(host)'
      BY <2>1, LateStays
    <2>3. \A b \in Askers : reply'[b] \in {key'[b], NULL} \/ Late(reply[b])'
      BY <1>2, <2>1, <2>2
    <2>4. \A h \in Slots : hashtab'[h] # NULL => hashtab'[h].value = hashtab'[h].key \/ Late(hashtab[h].value)'
      BY <1>1, <2>1, <2>2 DEF Hosts
    <2> QED
      BY <2>3, <2>4 DEF RightAnswers
  <1>10. ASSUME AskRecycled(a) \/ AskNew(a) \/ Release(a) \/ Retire(a) \/ Finish(a) PROVE RightAnswers'
    BY <1>4, <1>10 DEF AskRecycled, AskNew, Release, Retire, Finish
  <1> QED
    BY <1>5, <1>6, <1>7, <1>8, <1>9, <1>10 DEF Ask

LEMMA AskStep ==
  ASSUME IInv, NEW a \in Askers, Ask(a)
  PROVE  IInv'
  BY AskType, AskQueues, AskAbandon, AskItemsAll, AskAnswers DEF IInv

LEMMA HelperStep ==
  ASSUME IInv, ReadRequest \/ (\E r \in pending : Answer(r)) \/ Callback
  PROVE  IInv'
  <1>1. UNCHANGED <<asker, numqueues, active, metaqueue, hashtab, abandoned>>
    BY DEF ReadRequest, Answer, Callback, CheckActive, PutAnswer, queues
  <1>2. Next
    BY DEF Next
  <1>3. QueueInv' /\ OneOwner'
    <2>1. \A a \in Askers : Waiting(a)' => Waiting(a)
      BY <1>1 DEF Waiting, asker
    <2> QED
      BY <1>1, <1>2, <2>1, QueuesKept DEF asker
  <1>4. AbandonInv'
    BY <1>1 DEF IInv, AbandonInv, FirstKey, asker
  <1>5. RightAnswers'
    BY <1>1 DEF IInv, RightAnswers, Late, FirstKey, asker
  <1>6. ItemInv' /\ OnceInv'
    BY ReadItems, AnswerItems, CheckItems, PutItems DEF Callback
  <1> QED
    BY <1>3, <1>4, <1>5, <1>6, HelperType DEF IInv

LEMMA AgeStep ==
  ASSUME IInv, NEW h \in Slots, Age(h)
  PROVE  IInv'
  <1> USE DEF IInv
  <1>1. UNCHANGED <<asker, queues, helper, abandoned>>
    BY DEF Age
  <1>2. Next
    BY DEF Next
  <1>3. QueueInv' /\ OneOwner'
    <2>1. \A a \in Askers : Waiting(a)' => Waiting(a)
      BY <1>1 DEF Waiting, asker
    <2> QED
      BY <1>1, <1>2, <2>1, QueuesKept DEF asker, queues
  <1>4. AbandonInv'
    BY <1>1 DEF AbandonInv, FirstKey, asker
  <1>5. ItemInv'
    BY <1>1 DEF ItemInv, RequestOK, AnswerOK, Live, KeyOf, FirstKey, asker, queues, helper
  <1>6. OnceInv'
    <2>1. \A a \in Askers : /\ \A i \in Nat : InPipe(a, i)' <=> InPipe(a, i)
                            /\ InPending(a)' <=> InPending(a)
                            /\ InCb(a)' <=> InCb(a)
                            /\ \A i \in Nat : InQueue(a, i)' <=> InQueue(a, i)
                            /\ pc'[a] = pc[a]
      BY <1>1 DEF InPipe, InPending, InCb, InQueue, Of, asker, queues, helper
    <2> QED
      BY <2>1, Zenon DEF OnceInv
  <1>7. RightAnswers'
    <2>1. \A s \in Slots : hashtab'[s] # NULL =>
             hashtab[s] # NULL /\ hashtab'[s].key = hashtab[s].key /\ hashtab'[s].value = hashtab[s].value
      BY DEF Age, TypeOK
    <2>2. \A host \in Hosts : Late(host)' <=> Late(host)
      BY <1>1 DEF Late, FirstKey, asker
    <2>3. \A s \in Slots : hashtab[s] # NULL => hashtab[s].value \in Hosts
      BY DEF TypeOK, Hosts
    <2>4. \A s \in Slots : hashtab'[s] # NULL => hashtab'[s].value = hashtab'[s].key \/ Late(hashtab[s].value)'
      BY <2>1, <2>2, <2>3 DEF RightAnswers
    <2>5. \A b \in Askers : reply'[b] \in {key'[b], NULL} \/ Late(reply[b])'
      BY <1>1, <2>2 DEF RightAnswers, TypeOK, asker
    <2> QED
      BY <2>4, <2>5 DEF RightAnswers
  <1> QED
    BY <1>3, <1>4, <1>5, <1>6, <1>7, HelperType

LEMMA StutterStep ==
  ASSUME IInv, UNCHANGED vars
  PROVE  IInv'
  <1> USE DEF IInv, vars, asker, queues, helper
  <1>1. TypeOK' /\ QueueInv' /\ OneOwner'
    BY DEF TypeOK, QueueInv, OneOwner, Asked, Waiting
  <1>2. AbandonInv' /\ RightAnswers'
    BY DEF AbandonInv, RightAnswers, Late, FirstKey
  <1>3. ItemInv' /\ OnceInv'
    BY DEF ItemInv, RequestOK, AnswerOK, Live, KeyOf, FirstKey, OnceInv, InPipe, InPending, InCb,
           InQueue, Of
  <1> QED
    BY <1>1, <1>2, <1>3

-----------------------------------------------------------------------------
(* Gethostbyname_str(), Gethostbyaddr_str() and the helper thread: every   *)
(* request, answer and queue is where it should be, in every interleaving, *)
(* with any number of askers and any answers of the resolver.              *)
THEOREM InvariantHolds == Spec => []IInv
  <1>1. ASSUME IInv, [Next]_vars
        PROVE  IInv'
    BY <1>1, AskStep, HelperStep, AgeStep, StutterStep DEF Next, AllDone
  <1> QED
    BY <1>1, InitInv, PTL DEF Spec

(* Every variable of the helper and the askers keeps its type; no more     *)
(* queues are made than lookups.                                           *)
THEOREM TypeCorrect == Spec => []TypeOK
  <1>1. IInv => TypeOK
    BY DEF IInv
  <1> QED
    BY <1>1, InvariantHolds, PTL

(* get_queue() and release_queue(): a queue has one owner. *)
THEOREM QueuesOwned == Spec => []OneOwner
  <1>1. IInv => OneOwner
    BY DEF IInv
  <1> QED
    BY <1>1, InvariantHolds, PTL

(* Gethostbyname_str(), Gethostbyaddr_str() and the cache: a lookup        *)
(* returns, and the cache keeps, the host that was asked for, unless a     *)
(* lookup was given up and its answer came late.                           *)
THEOREM AnswersRight == Spec => []RightAnswers
  <1>1. IInv => RightAnswers
    BY DEF IInv
  <1> QED
    BY <1>1, InvariantHolds, PTL
=============================================================================
