------------------------- MODULE ThreadPool_proofs -------------------------
(***************************************************************************)
(* Proofs about the thread pool, for every set of jobs, every maximum and  *)
(* every number of threads that never shut down.                           *)
(*                                                                         *)
(* CountsRight, WatchdogListsTheLiving and SomeoneListens are not          *)
(* inductive: the counters say who is where, but not that a thread that    *)
(* has a job to run holds one, that no two threads hold the same, nor that *)
(* an identity is left for the thread that Spawn creates.  The             *)
(* strengthening adds where each job is, and that unused identities        *)
(* outnumber the jobs that may still start a thread.                       *)
(***************************************************************************)
EXTENDS ThreadPool, FiniteSetTheorems, SequenceTheorems, TLAPS

Unused == {t \in Threads : pc[t] = "none"}

(* Every thread that runs or rejects holds a job of its own. *)
EdictInv ==
    /\ \A t \in Threads :
          /\ pc[t] \in {"got", "run", "reject"} => edict[t] # NoJob
          /\ pc[t] \notin {"woken", "got", "run", "reject"} => edict[t] = NoJob
          /\ edict[t] # NoJob => job[edict[t]] = "taken"
    /\ \A t, u \in Threads : edict[t] # NoJob /\ edict[t] = edict[u] => t = u

(* The work queue holds each queued job once. *)
QueueInv ==
    \A i \in 1..Len(work_queue) :
        /\ job[work_queue[i]] = "queued"
        /\ \A k \in 1..Len(work_queue) : work_queue[i] = work_queue[k] => i = k

(* Jobs for which a thread may still be created. *)
Pending ==
    {j \in Jobs : \/ job[j] \in {"new", "queued"}
                  \/ \E t \in Threads : pc[t] \in {"woken", "got"} /\ edict[t] = j}

UnusedInv == Cardinality(Unused) >= Cardinality(Pending)

WatchdogInv ==
    /\ Len(wdlist) = count_thread
    /\ Range(wdlist) = Started
    /\ \A i, k \in 1..Len(wdlist) : wdlist[i] = wdlist[k] => i = k

IInv ==
    /\ TypeOK
    /\ EdictInv
    /\ QueueInv
    /\ UnusedInv
    /\ CountsRight
    /\ WatchdogInv
    /\ SomeoneListens
-----------------------------------------------------------------------------
(* Sets of threads and of jobs are finite, so that their sizes can be      *)
(* compared; adding and removing one element changes the size by one.      *)
LEMMA ThreadSets ==
  ASSUME NEW S \in SUBSET Threads
  PROVE  IsFiniteSet(S) /\ Cardinality(S) \in Nat
  BY ThreadPoolAssumption, FS_Subset, FS_CardinalityType DEF ThreadPoolAssumption

LEMMA JobSets ==
  ASSUME NEW S \in SUBSET Jobs
  PROVE  IsFiniteSet(S) /\ Cardinality(S) \in Nat
  BY ThreadPoolAssumption, FS_Subset, FS_CardinalityType DEF ThreadPoolAssumption

LEMMA OneMore ==
  ASSUME NEW S \in SUBSET Threads, NEW x, x \notin S
  PROVE  Cardinality(S \cup {x}) = Cardinality(S) + 1
  BY ThreadSets, FS_AddElement

LEMMA OneLess ==
  ASSUME NEW S \in SUBSET Threads, NEW x \in S
  PROVE  Cardinality(S \ {x}) = Cardinality(S) - 1
  BY ThreadSets, FS_RemoveElement

LEMMA OneJobLess ==
  ASSUME NEW S \in SUBSET Jobs, NEW x \in S
  PROVE  Cardinality(S \ {x}) = Cardinality(S) - 1
  BY JobSets, FS_RemoveElement

LEMMA FewerJobs ==
  ASSUME NEW S \in SUBSET Jobs, NEW R \in SUBSET S
  PROVE  Cardinality(R) <= Cardinality(S)
  BY JobSets, FS_Subset

LEMMA FreshIsUnused ==
  ASSUME NEW S, S # {}
  PROVE  FreshThread(S) \in S
  BY DEF FreshThread

(* RemoveFirst() on a list without duplicates takes out one node and       *)
(* nothing else, as the loop over dogp->next does.                         *)
LEMMA RemoveFirstProperties ==
  ASSUME NEW s \in Seq(Threads), NEW n \in 1..Len(s),
         \A i, j \in 1..Len(s) : s[i] = s[j] => i = j
  PROVE  LET r == RemoveFirst(s, s[n]) IN
           /\ r \in Seq(Threads)
           /\ Len(r) = Len(s) - 1
           /\ \A i \in 1..Len(r) : r[i] = IF i < n THEN s[i] ELSE s[i + 1]
  <1> DEFINE I == {i \in 1..Len(s) : s[i] = s[n]}
             a == SubSeq(s, 1, n - 1)
             b == SubSeq(s, n + 1, Len(s))
             c == a \o b
  <1>1. Len(s) \in Nat /\ \A i \in 1..Len(s) : s[i] \in Threads
    BY LenProperties, ElementOfSeq
  <1>2. I = {n}
    OBVIOUS
  <1>3. Min(I) = n
    BY <1>1, <1>2 DEF Min
  <1>4. RemoveFirst(s, s[n]) = a \o b
    BY <1>2, <1>3 DEF RemoveFirst, RemoveAt, SelectInSeq
  <1>5. /\ a \in Seq(Threads)
        /\ Len(a) = n - 1
        /\ \A i \in 1..(n - 1) : a[i] = s[i]
    BY <1>1, SubSeqProperties
  <1>6. /\ b \in Seq(Threads)
        /\ Len(b) = Len(s) - n
        /\ \A i \in 1..(Len(s) - n) : b[i] = s[n + i]
    <2>1. \A i \in (n + 1)..Len(s) : s[i] \in Threads
      BY <1>1
    <2>2. /\ b \in Seq(Threads)
          /\ Len(b) = IF n + 1 <= Len(s) THEN Len(s) - (n + 1) + 1 ELSE 0
          /\ \A i \in 1..(Len(s) - (n + 1) + 1) : b[i] = s[n + 1 + i - 1]
      BY <1>1, <2>1, SubSeqProperties
    <2> QED
      BY <1>1, <2>2
  <1> HIDE DEF a, b
  <1>7. /\ c \in Seq(Threads)
        /\ Len(c) = Len(a) + Len(b)
        /\ \A i \in 1..(Len(a) + Len(b)) : c[i] = IF i <= Len(a) THEN a[i] ELSE b[i - Len(a)]
    <2>1. a \in Seq(Threads) /\ b \in Seq(Threads)
      BY <1>5, <1>6
    <2> QED
      BY <2>1, ConcatProperties DEF c
  <1> HIDE DEF c
  <1>8. Len(c) = Len(s) - 1
    BY <1>1, <1>5, <1>6, <1>7
  <1>9. \A i \in 1..(Len(s) - 1) : c[i] = IF i < n THEN s[i] ELSE s[i + 1]
    <2> SUFFICES ASSUME NEW i \in 1..(Len(s) - 1)
                 PROVE  c[i] = IF i < n THEN s[i] ELSE s[i + 1]
      OBVIOUS
    <2>1. i \in 1..(Len(a) + Len(b))
      BY <1>1, <1>5, <1>6
    <2>2. CASE i < n
      <3>1. i <= Len(a) /\ i \in 1..(n - 1)
        BY <2>2, <1>1, <1>5
      <3>2. c[i] = a[i]
        BY <2>1, <3>1, <1>7
      <3> QED
        BY <2>2, <3>1, <3>2, <1>5
    <2>3. CASE ~(i < n)
      <3>1. i - Len(a) \in 1..(Len(s) - n) /\ n + (i - Len(a)) = i + 1 /\ ~(i <= Len(a))
        BY <2>3, <1>1, <1>5
      <3>2. c[i] = b[i - Len(a)]
        BY <2>1, <3>1, <1>7
      <3> QED
        BY <2>3, <3>1, <3>2, <1>6
    <2> QED
      BY <2>2, <2>3
  <1> QED
    BY <1>4, <1>7, <1>8, <1>9 DEF c

LEMMA WatchdogRemove ==
  ASSUME NEW s \in Seq(Threads), NEW t \in Range(s),
         \A i, j \in 1..Len(s) : s[i] = s[j] => i = j
  PROVE  LET r == RemoveFirst(s, t) IN
           /\ r \in Seq(Threads)
           /\ Len(r) = Len(s) - 1
           /\ Range(r) = Range(s) \ {t}
           /\ \A i, j \in 1..Len(r) : r[i] = r[j] => i = j
  <1> DEFINE r == RemoveFirst(s, t)
  <1>1. Len(s) \in Nat /\ DOMAIN s = 1..Len(s)
    BY LenProperties
  <1>2. PICK n \in 1..Len(s) : s[n] = t
    BY <1>1 DEF Range
  <1>3. /\ r \in Seq(Threads)
        /\ Len(r) = Len(s) - 1
        /\ \A i \in 1..Len(r) : r[i] = IF i < n THEN s[i] ELSE s[i + 1]
    BY <1>2, RemoveFirstProperties
  <1> HIDE DEF r
  <1>4. DOMAIN r = 1..Len(r)
    BY <1>3, LenProperties
  <1>5. ASSUME NEW i \in 1..Len(r)
        PROVE  \E k \in 1..Len(s) : k # n /\ r[i] = s[k] /\ k = IF i < n THEN i ELSE i + 1
    BY <1>1, <1>3
  <1>6. \A i, j \in 1..Len(r) : r[i] = r[j] => i = j
    <2> SUFFICES ASSUME NEW i \in 1..Len(r), NEW j \in 1..Len(r), r[i] = r[j]
                 PROVE  i = j
      OBVIOUS
    <2>1. PICK k \in 1..Len(s) : r[i] = s[k] /\ k = IF i < n THEN i ELSE i + 1
      BY <1>5
    <2>2. PICK l \in 1..Len(s) : r[j] = s[l] /\ l = IF j < n THEN j ELSE j + 1
      BY <1>5
    <2>3. k = l
      BY <2>1, <2>2
    <2> QED
      BY <2>1, <2>2, <2>3, <1>1, <1>3
  <1>7. Range(r) \subseteq Range(s) \ {t}
    BY <1>1, <1>2, <1>4, <1>5 DEF Range
  <1>8. Range(s) \ {t} \subseteq Range(r)
    <2> SUFFICES ASSUME NEW k \in 1..Len(s), s[k] # t
                 PROVE  \E i \in 1..Len(r) : r[i] = s[k]
      BY <1>1, <1>4 DEF Range
    <2>1. CASE k < n
      BY <2>1, <1>1, <1>3
    <2>2. CASE ~(k < n)
      <3>1. k - 1 \in 1..Len(r) /\ ~(k - 1 < n) /\ (k - 1) + 1 = k
        BY <2>2, <1>1, <1>2, <1>3
      <3> QED
        BY <3>1, <1>3
    <2> QED
      BY <2>1, <2>2
  <1> QED
    BY <1>3, <1>6, <1>7, <1>8 DEF r

LEMMA WatchdogAdd ==
  ASSUME NEW s \in Seq(Threads), NEW t \in Threads, t \notin Range(s),
         \A i, j \in 1..Len(s) : s[i] = s[j] => i = j
  PROVE  LET r == <<t>> \o s IN
           /\ r \in Seq(Threads)
           /\ Len(r) = Len(s) + 1
           /\ Range(r) = Range(s) \cup {t}
           /\ \A i, j \in 1..Len(r) : r[i] = r[j] => i = j
  <1> DEFINE h == <<t>>
             r == h \o s
  <1>1. Len(s) \in Nat /\ DOMAIN s = 1..Len(s)
    BY LenProperties
  <1>2. h \in Seq(Threads) /\ Len(h) = 1 /\ h[1] = t /\ Range(h) = {t}
    BY DEF Range
  <1> HIDE DEF h
  <1>3. /\ r \in Seq(Threads)
        /\ Len(r) = Len(h) + Len(s)
        /\ \A i \in 1..(Len(h) + Len(s)) : r[i] = IF i <= Len(h) THEN h[i] ELSE s[i - Len(h)]
    BY <1>2, ConcatProperties
  <1>4. Range(r) = Range(h) \cup Range(s)
    BY <1>2, RangeConcatenation
  <1> HIDE DEF r
  <1>5. ASSUME NEW i \in 1..Len(r)
        PROVE  \/ i = 1 /\ r[i] = t
               \/ i # 1 /\ i - 1 \in 1..Len(s) /\ r[i] = s[i - 1]
    <2>1. i \in 1..(Len(h) + Len(s))
      BY <1>3
    <2>2. CASE i = 1
      BY <2>1, <2>2, <1>2, <1>3
    <2>3. CASE i # 1
      BY <2>1, <2>3, <1>1, <1>2, <1>3
    <2> QED
      BY <2>2, <2>3
  <1>6. \A i \in 1..Len(s) : s[i] # t
    BY <1>1 DEF Range
  <1>7. \A i, j \in 1..Len(r) : r[i] = r[j] => i = j
    BY <1>1, <1>3, <1>5, <1>6
  <1>8. Len(r) = Len(s) + 1
    BY <1>1, <1>2, <1>3
  <1> QED
    BY <1>2, <1>3, <1>4, <1>7, <1>8 DEF r, h

-----------------------------------------------------------------------------
LEMMA InitInv == Init => IInv
  <1> SUFFICES ASSUME Init PROVE IInv
    OBVIOUS
  <1> USE ThreadPoolAssumption DEF ThreadPoolAssumption, Init, create_thread_pool
  <1> DEFINE first == FreshThread(Threads)
  <1>1. Threads # {}
    BY JobSets, FS_EmptySet
  <1>2. first \in Threads
    BY <1>1, FreshIsUnused
  <1> HIDE DEF first
  <1>3. pc = [t \in Threads |-> IF t = first THEN "created" ELSE "none"]
    BY DEF first
  <1>4. TypeOK
    <2>1. pc \in [Threads -> Places]
      BY <1>3 DEF Places
    <2>2. due \in BOOLEAN
      BY Zenon
    <2>3. count_thread \in Nat /\ wdlist \in Seq(Threads) /\ work_queue \in Seq(Jobs)
      OBVIOUS
    <2> QED
      BY <2>1, <2>2, <2>3 DEF TypeOK
  <1>5. EdictInv
    BY <1>3 DEF EdictInv
  <1>6. QueueInv
    BY DEF QueueInv
  <1>7. UnusedInv
    <2>1. Unused = Threads \ {first}
      BY <1>3 DEF Unused
    <2>2. Cardinality(Unused) = Cardinality(Threads) - 1
      BY <2>1, <1>2, OneLess
    <2>3. Pending \in SUBSET Jobs
      BY DEF Pending
    <2>4. Cardinality(Pending) <= Cardinality(Jobs)
      BY <2>3, FewerJobs
    <2> QED
      BY <2>2, <2>3, <2>4, ThreadSets, JobSets DEF UnusedInv
  <1>8. Started = {} /\ Idling = {}
    BY <1>3 DEF Started, Idling
  <1>9. CountsRight
    BY <1>8, FS_EmptySet DEF CountsRight
  <1>10. WatchdogInv
    BY <1>8 DEF WatchdogInv, Range
  <1>11. SomeoneListens
    BY <1>2, <1>3 DEF SomeoneListens, Listening, Places
  <1> QED
    BY <1>4, <1>5, <1>6, <1>7, <1>9, <1>10, <1>11 DEF IInv

(* A step that moves no thread into or out of the counted places. *)
LEMMA SubmitStep ==
  ASSUME IInv, NEW j \in Jobs, submit_job(j)
  PROVE  IInv'
  <1> USE DEF IInv, submit_job
  <1>1. /\ work_queue' \in Seq(Jobs)
        /\ Len(work_queue') = Len(work_queue) + 1
        /\ \A i \in 1..Len(work_queue) : work_queue'[i] = work_queue[i]
        /\ work_queue'[Len(work_queue) + 1] = j
    BY AppendProperties DEF TypeOK
  <1>2. TypeOK'
    BY <1>1 DEF TypeOK
  <1>3. EdictInv'
    BY DEF EdictInv, TypeOK
  <1>4. QueueInv'
    <2>1. Len(work_queue) \in Nat /\ \A i \in 1..Len(work_queue) : work_queue[i] \in Jobs
      BY LenProperties, ElementOfSeq DEF TypeOK
    <2>2. \A i \in 1..Len(work_queue) : work_queue[i] # j
      BY <2>1 DEF QueueInv
    <2>3. \A i \in 1..Len(work_queue') :
             \/ i \in 1..Len(work_queue) /\ work_queue'[i] = work_queue[i]
             \/ i = Len(work_queue) + 1 /\ work_queue'[i] = j
      BY <1>1, <2>1
    <2>4. \A i \in 1..Len(work_queue') : job'[work_queue'[i]] = "queued"
      BY <2>1, <2>2, <2>3 DEF QueueInv, TypeOK
    <2>5. \A i, k \in 1..Len(work_queue') : work_queue'[i] = work_queue'[k] => i = k
      BY <2>1, <2>2, <2>3 DEF QueueInv
    <2> QED
      BY <2>4, <2>5 DEF QueueInv
  <1>5. UnusedInv'
    <2>1. Pending' = Pending /\ Unused' = Unused
      BY DEF Pending, Unused, TypeOK
    <2> QED
      BY <2>1 DEF UnusedInv
  <1>6. CountsRight' /\ WatchdogInv' /\ SomeoneListens'
    BY DEF CountsRight, WatchdogInv, SomeoneListens, Started, Idling, Listening
  <1> QED
    BY <1>2, <1>3, <1>4, <1>5, <1>6

LEMMA ElapseStep ==
  ASSUME IInv, Elapse
  PROVE  IInv'
  <1> USE DEF IInv, Elapse
  <1>1. TypeOK'
    BY Zenon DEF TypeOK
  <1>2. EdictInv' /\ QueueInv' /\ UnusedInv'
    BY DEF EdictInv, QueueInv, UnusedInv, Pending, Unused
  <1>3. CountsRight' /\ WatchdogInv' /\ SomeoneListens'
    BY DEF CountsRight, WatchdogInv, SomeoneListens, Started, Idling, Listening
  <1> QED
    BY <1>1, <1>2, <1>3

LEMMA StartStep ==
  ASSUME IInv, NEW t \in Threads, Start(t)
  PROVE  IInv'
  <1> USE DEF IInv, Start
  <1>1. t \notin Started /\ Started' = Started \cup {t} /\ Idling' = Idling
    BY DEF Started, Idling, TypeOK
  <1>2. count_thread' = Cardinality(Started') /\ Cardinality(Started) \in Nat
    BY <1>1, OneMore, ThreadSets DEF CountsRight, Started
  <1>3. WatchdogInv' /\ wdlist' \in Seq(Threads)
    <2>1. t \notin Range(wdlist)
      BY <1>1 DEF WatchdogInv
    <2> QED
      BY <1>1, <2>1, WatchdogAdd DEF WatchdogInv, TypeOK
  <1>4. TypeOK'
    <2>1. due' \in BOOLEAN
      BY Zenon
    <2>2. pc' \in [Threads -> Places] /\ count_thread' \in Nat
      BY DEF TypeOK, Places
    <2> QED
      BY <1>3, <2>1, <2>2 DEF TypeOK
  <1>5. EdictInv'
    BY DEF EdictInv, TypeOK
  <1>6. QueueInv'
    BY DEF QueueInv
  <1>7. UnusedInv'
    <2>1. Pending' = Pending /\ Unused' = Unused
      BY DEF Pending, Unused, TypeOK
    <2> QED
      BY <2>1 DEF UnusedInv
  <1>8. CountsRight'
    BY <1>1, <1>2 DEF CountsRight
  <1>9. SomeoneListens'
    BY DEF SomeoneListens, Listening, Places, TypeOK
  <1> QED
    BY <1>3, <1>4, <1>5, <1>6, <1>7, <1>8, <1>9

LEMMA ShutDownStep ==
  ASSUME IInv, NEW t \in Threads, pc[t] = "top", ShutDown(t),
         UNCHANGED <<max_thread, work_queue, edict, job>>
  PROVE  IInv'
  <1> USE DEF IInv, ShutDown
  <1>1. t \in Started /\ Started' = Started \ {t} /\ Idling' = Idling
    BY DEF Started, Idling, TypeOK
  <1>2. count_thread' = Cardinality(Started')
    BY <1>1, OneLess DEF CountsRight, Started
  <1>3. WatchdogInv' /\ wdlist' \in Seq(Threads)
    <2>1. t \in Range(wdlist)
      BY <1>1 DEF WatchdogInv
    <2> QED
      BY <1>1, <2>1, WatchdogRemove DEF WatchdogInv, TypeOK
  <1>4. count_thread' \in Nat /\ ewma_idle' \in Nat
    BY ThreadPoolAssumption DEF TypeOK, ThreadPoolAssumption
  <1>5. TypeOK'
    BY <1>3, <1>4 DEF TypeOK, Places
  <1>6. EdictInv'
    BY DEF EdictInv, TypeOK
  <1>7. QueueInv'
    BY DEF QueueInv
  <1>8. UnusedInv'
    <2>1. Pending' = Pending /\ Unused' = Unused
      BY DEF Pending, Unused, TypeOK
    <2> QED
      BY <2>1 DEF UnusedInv
  <1>9. CountsRight'
    BY <1>1, <1>2 DEF CountsRight
  <1>10. SomeoneListens'
    BY DEF SomeoneListens, TypeOK
  <1> QED
    BY <1>3, <1>5, <1>6, <1>7, <1>8, <1>9, <1>10

LEMMA IdleStep ==
  ASSUME IInv, NEW t \in Threads, pc[t] = "top", Idle(t),
         UNCHANGED <<max_thread, work_queue, edict, job>>
  PROVE  IInv'
  <1> USE DEF IInv, Idle
  <1>1. t \notin Idling /\ Idling' = Idling \cup {t} /\ Started' = Started
    BY DEF Started, Idling, TypeOK
  <1>2. count_idle' = Cardinality(Idling')
    BY <1>1, OneMore DEF CountsRight, Idling
  <1>3. TypeOK'
    <2>1. due' \in BOOLEAN
      BY Zenon
    <2>2. Cardinality(Threads) \in Nat
      BY ThreadSets
    <2>3. pc' \in [Threads -> Places] /\ ewma_idle' \in Nat /\ count_idle' \in Nat
      BY <2>2 DEF TypeOK, Places
    <2> QED
      BY <2>1, <2>3 DEF TypeOK
  <1>4. EdictInv'
    BY DEF EdictInv, TypeOK
  <1>5. QueueInv' /\ WatchdogInv'
    BY <1>1 DEF QueueInv, WatchdogInv
  <1>6. UnusedInv'
    <2>1. Pending' = Pending /\ Unused' = Unused
      BY DEF Pending, Unused, TypeOK
    <2> QED
      BY <2>1 DEF UnusedInv
  <1>7. CountsRight'
    BY <1>1, <1>2 DEF CountsRight
  <1>8. SomeoneListens'
    BY DEF SomeoneListens, Listening, Places, TypeOK
  <1> QED
    BY <1>3, <1>4, <1>5, <1>6, <1>7, <1>8

LEMMA GetMsgStep ==
  ASSUME IInv, NEW t \in Threads, get_msg(t)
  PROVE  IInv'
  <1> USE DEF IInv, get_msg
  <1> DEFINE j == Head(work_queue)
  <1>1. /\ j \in Jobs
        /\ work_queue' \in Seq(Jobs)
        /\ Len(work_queue') = Len(work_queue) - 1
        /\ \A i \in 1..Len(work_queue') : work_queue'[i] = work_queue[i + 1]
    BY HeadTailProperties DEF TypeOK
  <1>2. Len(work_queue) \in Nat \ {0} /\ j = work_queue[1]
    BY EmptySeq DEF TypeOK
  <1>3. job[j] = "queued" /\ edict[t] = NoJob
    BY <1>2 DEF QueueInv, EdictInv
  <1>4. edict' = [edict EXCEPT ![t] = j] /\ job' = [job EXCEPT ![j] = "taken"]
    OBVIOUS
  <1>5. QueueInv'
    <2>1. \A i \in 1..Len(work_queue') : i + 1 \in 1..Len(work_queue) /\ i + 1 # 1
      BY <1>1, <1>2
    <2>2. \A i \in 1..Len(work_queue') : work_queue'[i] # j /\ work_queue'[i] \in Jobs
      BY <1>1, <1>2, <2>1, ElementOfSeq DEF QueueInv
    <2>3. \A i \in 1..Len(work_queue') : job'[work_queue'[i]] = "queued"
      BY <1>1, <1>4, <2>1, <2>2 DEF QueueInv, TypeOK
    <2>4. \A i, k \in 1..Len(work_queue') : work_queue'[i] = work_queue'[k] => i = k
      BY <1>1, <1>2, <2>1 DEF QueueInv
    <2> QED
      BY <2>3, <2>4 DEF QueueInv
  <1> HIDE DEF j
  <1>6. TypeOK'
    BY <1>1, <1>4 DEF TypeOK, Places
  <1>7. EdictInv'
    <2> USE ThreadPoolAssumption DEF ThreadPoolAssumption
    <2>1. \A u \in Threads : edict[u] # j
      BY <1>1, <1>3 DEF EdictInv
    <2>2. \A u \in Threads : edict'[u] = IF u = t THEN j ELSE edict[u]
      BY <1>4 DEF TypeOK
    <2>3. \A u \in Threads : pc'[u] = IF u = t THEN "woken" ELSE pc[u]
      BY DEF TypeOK
    <2>4. \A u \in Threads : edict[u] # NoJob => edict[u] \in Jobs
      BY DEF TypeOK
    <2>5. \A i \in Jobs : job'[i] = IF i = j THEN "taken" ELSE job[i]
      BY <1>4 DEF TypeOK
    <2> QED
      BY <1>1, <2>1, <2>2, <2>3, <2>4, <2>5 DEF EdictInv
  <1>8. Started' = Started /\ Idling' = Idling /\ Unused' = Unused
    BY DEF Started, Idling, Unused, TypeOK
  <1>9. Pending' = Pending
    <2>1. \A u \in Threads : edict'[u] = IF u = t THEN j ELSE edict[u]
      BY <1>4 DEF TypeOK
    <2>2. \A u \in Threads : pc'[u] = IF u = t THEN "woken" ELSE pc[u]
      BY DEF TypeOK
    <2>3. \A i \in Jobs : job'[i] = IF i = j THEN "taken" ELSE job[i]
      BY <1>4 DEF TypeOK
    <2> QED
      BY <1>1, <1>3, <2>1, <2>2, <2>3, ThreadPoolAssumption DEF Pending, ThreadPoolAssumption
  <1>10. UnusedInv' /\ CountsRight' /\ WatchdogInv'
    BY <1>8, <1>9 DEF UnusedInv, CountsRight, WatchdogInv
  <1>11. SomeoneListens'
    BY DEF SomeoneListens, Listening, Places, TypeOK
  <1> QED
    BY <1>5, <1>6, <1>7, <1>10, <1>11

(* A thread that waits or times out stays idle and takes nothing. *)
LEMMA WaitStep ==
  ASSUME IInv, NEW t \in Threads, Block(t) \/ TimeOut(t)
  PROVE  IInv'
  <1> USE DEF IInv, Block, TimeOut
  <1>1. TypeOK'
    BY DEF TypeOK, Places
  <1>2. EdictInv' /\ QueueInv'
    BY DEF EdictInv, QueueInv, TypeOK
  <1>3. Started' = Started /\ Idling' = Idling /\ Unused' = Unused
    BY DEF Started, Idling, Unused, TypeOK
  <1>4. edict[t] \notin Jobs
    BY ThreadPoolAssumption DEF EdictInv, ThreadPoolAssumption
  <1>5. Pending' = Pending
    BY <1>4 DEF Pending, TypeOK
  <1>6. UnusedInv' /\ CountsRight' /\ WatchdogInv'
    BY <1>3, <1>5 DEF UnusedInv, CountsRight, WatchdogInv
  <1>7. SomeoneListens'
    BY DEF SomeoneListens, Listening, Places, TypeOK
  <1> QED
    BY <1>1, <1>2, <1>6, <1>7

LEMMA WokenStep ==
  ASSUME IInv, NEW t \in Threads, Woken(t)
  PROVE  IInv'
  <1> USE DEF IInv, Woken
  <1>1. t \in Idling /\ Idling' = Idling \ {t} /\ Started' = Started /\ Unused' = Unused
    BY DEF Started, Idling, Unused, TypeOK
  <1>2. count_idle' = Cardinality(Idling') /\ count_idle' \in Nat
    BY <1>1, OneLess, ThreadSets DEF CountsRight, Idling
  <1>3. TypeOK'
    BY <1>2 DEF TypeOK, Places
  <1>4. EdictInv' /\ QueueInv'
    BY DEF EdictInv, QueueInv, TypeOK
  <1>5. Pending' = Pending
    BY ThreadPoolAssumption DEF Pending, TypeOK, ThreadPoolAssumption
  <1>6. UnusedInv' /\ CountsRight' /\ WatchdogInv'
    BY <1>1, <1>2, <1>5 DEF UnusedInv, CountsRight, WatchdogInv
  <1>7. SomeoneListens'
    BY DEF SomeoneListens, Listening, Places, TypeOK
  <1> QED
    BY <1>3, <1>4, <1>6, <1>7

(* The job of a thread in Spawn may start a thread no more, which pays for *)
(* the identity that the new thread takes.                                 *)
LEMMA SpawnStep ==
  ASSUME IInv, NEW t \in Threads, Spawn(t)
  PROVE  IInv'
  <1> USE DEF IInv
  <1> DEFINE new == FreshThread({u \in Threads : pc[u] = "none"})
  <1>1. pc[t] = "got" /\ UNCHANGED <<max_thread, count_thread, count_idle, ewma_idle, wdlist,
                                     due, work_queue, edict, job>>
    BY DEF Spawn
  <1>2. edict[t] \in Jobs /\ edict[t] \in Pending
    BY <1>1 DEF EdictInv, Pending, TypeOK
  <1>3. Pending \in SUBSET Jobs /\ Unused \in SUBSET Threads
    BY DEF Pending, Unused
  <1>4. Unused # {}
    <2>1. Cardinality(Pending) # 0 /\ Cardinality(Pending) \in Nat
      BY <1>2, <1>3, JobSets, FS_EmptySet
    <2> QED
      BY <2>1, <1>3, ThreadSets, FS_EmptySet DEF UnusedInv
  <1>5. new \in Threads /\ pc[new] = "none" /\ new # t
    BY <1>1, <1>4, FreshIsUnused DEF Unused
  <1>6. \/ count_idle >= 1 /\ pc' = [pc EXCEPT ![t] = "run"]
        \/ pc' = [pc EXCEPT ![t] = "run", ![new] = "created"]
        \/ max_thread # 0 /\ pc' = [pc EXCEPT ![t] = "reject"]
    BY DEF Spawn
  <1> HIDE DEF new
  <1>7. Unused' = Unused \/ Unused' = Unused \ {new}
    BY <1>1, <1>5, <1>6 DEF Unused, TypeOK
  <1>8. Pending' = Pending \ {edict[t]}
    <2>1. \A u \in Threads : edict[u] = edict[t] => u = t
      BY <1>1 DEF EdictInv
    <2>2. job[edict[t]] = "taken"
      BY <1>1 DEF EdictInv
    <2>3. \A u \in Threads : u # t => pc'[u] \in {"woken", "got"} <=> pc[u] \in {"woken", "got"}
      BY <1>1, <1>5, <1>6 DEF TypeOK
    <2>4. pc'[t] \notin {"woken", "got"}
      BY <1>5, <1>6 DEF TypeOK
    <2> QED
      BY <1>1, <1>2, <2>1, <2>2, <2>3, <2>4 DEF Pending
  <1>9. UnusedInv'
    <2>1. Cardinality(Pending') = Cardinality(Pending) - 1
      BY <1>2, <1>3, <1>8, OneJobLess
    <2>2. Cardinality(Unused') >= Cardinality(Unused) - 1
      <3>1. new \in Unused
        BY <1>5 DEF Unused
      <3>2. Cardinality(Unused \ {new}) = Cardinality(Unused) - 1 /\ Cardinality(Unused) \in Nat
        BY <1>3, <3>1, OneLess, ThreadSets
      <3> QED
        BY <1>7, <3>2
    <2> QED
      BY <2>1, <2>2, <1>3, <1>7, ThreadSets, JobSets DEF UnusedInv
  <1>10. TypeOK'
    BY <1>1, <1>5, <1>6 DEF TypeOK, Places
  <1>11. EdictInv' /\ QueueInv'
    BY <1>1, <1>5, <1>6 DEF EdictInv, QueueInv, TypeOK
  <1>12. Started' = Started /\ Idling' = Idling
    BY <1>1, <1>5, <1>6 DEF Started, Idling, TypeOK
  <1>13. CountsRight' /\ WatchdogInv'
    BY <1>1, <1>12 DEF CountsRight, WatchdogInv
  <1>14. SomeoneListens'
    <2>1. CASE count_idle >= 1
      <3>1. Idling' # {}
        BY <2>1, <1>12, FS_EmptySet DEF CountsRight
      <3> QED
        BY <3>1 DEF SomeoneListens, Idling, Listening, Places
    <2>2. CASE pc' = [pc EXCEPT ![t] = "run", ![new] = "created"]
      BY <2>2, <1>5 DEF SomeoneListens, Listening, Places, TypeOK
    <2>3. CASE max_thread # 0
      BY <2>3, <1>1 DEF SomeoneListens
    <2> QED
      BY <1>6, <2>1, <2>2, <2>3
  <1> QED
    BY <1>9, <1>10, <1>11, <1>13, <1>14

LEMMA EndStep ==
  ASSUME IInv, NEW t \in Threads, Finish(t) \/ Reject(t)
  PROVE  IInv'
  <1> USE DEF IInv
  <1>1. PICK how \in {"done", "rejected"} :
           /\ pc[t] \in {"run", "reject"}
           /\ job' = [job EXCEPT ![edict[t]] = how]
           /\ edict' = [edict EXCEPT ![t] = NoJob]
           /\ pc' = [pc EXCEPT ![t] = "top"]
           /\ UNCHANGED <<max_thread, count_thread, count_idle, ewma_idle, wdlist, due, work_queue>>
    BY DEF Finish, Reject, End
  <1>2. edict[t] \in Jobs /\ job[edict[t]] = "taken"
    BY <1>1 DEF EdictInv, TypeOK
  <1>3. \A u \in Threads : u # t => edict[u] # edict[t]
    BY <1>1 DEF EdictInv
  <1>4. TypeOK'
    BY <1>1 DEF TypeOK, Places
  <1>5. \A u \in Threads : /\ edict'[u] = IF u = t THEN NoJob ELSE edict[u]
                           /\ pc'[u] = IF u = t THEN "top" ELSE pc[u]
    BY <1>1 DEF TypeOK
  <1>6. \A j \in Jobs : job'[j] = IF j = edict[t] THEN how ELSE job[j]
    BY <1>1, <1>2 DEF TypeOK
  <1>7. EdictInv'
    <2>1. \A u \in Threads : edict[u] # NoJob => edict[u] \in Jobs
      BY DEF TypeOK
    <2> QED
      BY <1>3, <1>5, <1>6, <2>1 DEF EdictInv
  <1>8. QueueInv'
    <2>1. \A i \in 1..Len(work_queue) : work_queue[i] \in Jobs
      BY ElementOfSeq DEF TypeOK
    <2> QED
      BY <1>1, <1>2, <1>6, <2>1 DEF QueueInv
  <1>9. Pending' = Pending
    BY <1>1, <1>2, <1>3, <1>5, <1>6 DEF Pending
  <1>10. Started' = Started /\ Idling' = Idling /\ Unused' = Unused
    BY <1>1, <1>5 DEF Started, Idling, Unused
  <1>11. UnusedInv' /\ CountsRight' /\ WatchdogInv'
    BY <1>1, <1>9, <1>10 DEF UnusedInv, CountsRight, WatchdogInv
  <1>12. SomeoneListens'
    BY <1>1, <1>5 DEF SomeoneListens, Listening, Places
  <1> QED
    BY <1>4, <1>7, <1>8, <1>11, <1>12

-----------------------------------------------------------------------------
(* thread_pool(): the counters, the watchdog list, the queue and what each *)
(* thread holds stay consistent in every interleaving of the threads.      *)
THEOREM InvariantHolds == Spec => []IInv
  <1>1. ASSUME IInv, [Next]_vars
        PROVE  IInv'
    <2>1. ASSUME NEW t \in Threads, thread_pool(t)
          PROVE  IInv'
      <3>1. CASE Top(t)
        BY <3>1, <1>1, ShutDownStep, IdleStep DEF Top
      <3> QED
        BY <2>1, <3>1, <1>1, StartStep, GetMsgStep, WaitStep, WokenStep, SpawnStep, EndStep
        DEF thread_pool
    <2>2. CASE UNCHANGED vars
      BY <2>2, <1>1
      DEF vars, IInv, TypeOK, EdictInv, QueueInv, UnusedInv, Pending, Unused, CountsRight,
          WatchdogInv, SomeoneListens, Started, Idling, Listening
    <2> QED
      BY <1>1, <2>1, <2>2, ElapseStep, SubmitStep, EndStep DEF Next
  <1> QED
    BY <1>1, InitInv, PTL DEF Spec, Init

(* Every variable of the pool keeps its type. *)
THEOREM TypeCorrect == Spec => []TypeOK
  <1>1. IInv => TypeOK
    BY DEF IInv
  <1> QED
    BY <1>1, InvariantHolds, PTL

(* thread_pool(): count_thread and count_idle are the numbers of threads   *)
(* that have counted themselves and that are idle, with any number of      *)
(* threads and jobs.                                                       *)
THEOREM CountersCorrect == Spec => []CountsRight
  <1>1. IInv => CountsRight
    BY DEF IInv
  <1> QED
    BY <1>1, InvariantHolds, PTL

(* thread_pool(): no node of the watchdog list is left behind on the stack *)
(* of a thread that has exited, and no running thread is missing from it.  *)
THEOREM WatchdogCorrect == Spec => []WatchdogListsTheLiving
  <1>1. IInv => WatchdogListsTheLiving
    BY DEF IInv, WatchdogInv, CountsRight, WatchdogListsTheLiving
  <1> QED
    BY <1>1, InvariantHolds, PTL

(* thread_pool(): starting a thread when the last idle one takes a job     *)
(* keeps a pool without limit listening.                                   *)
THEOREM PoolListens == Spec => []SomeoneListens
  <1>1. IInv => SomeoneListens
    BY DEF IInv
  <1> QED
    BY <1>1, InvariantHolds, PTL
=============================================================================
