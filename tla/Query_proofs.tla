---------------------------- MODULE Query_proofs ----------------------------
(***************************************************************************)
(* Proofs about the evaluation of queries, for any number of queries, any  *)
(* set of checks, helo and reverse with their lookups included, and any    *)
(* thresholds and time limits.                                             *)
(*                                                                         *)
(* Types, jobs and the count of an edict's references are right whatever   *)
(* the DNS helper does (Base).  The rest is for as long as no lookup has   *)
(* been given up (Sound).  The count of a request's references is exact    *)
(* (RequestOK): a NULL message in the queue holds the reference of the     *)
(* check that was not run.  A queue belongs to an edict, to a lookup or to *)
(* the metaqueue, holds what is for its owner, and is empty without one    *)
(* (QueueInv, Home); what the helper has still to answer is for a lookup   *)
(* that waits on its queue (LookupInv).  The messages in the queue and     *)
(* what the query has added up give the sum of all results (SumOK), a      *)
(* check's last message is not one to wait after (LastOK), and             *)
(* checks_running counts the final messages that have still to be taken    *)
(* (RunningOK).  From these follows that an early decision is the final    *)
(* one (DecisionOK).                                                       *)
(***************************************************************************)
EXTENDS Query, FiniteSetTheorems, SequenceTheorems, TLAPS

(* The checks of q whose job is in one of some states. *)
Jobs(q, states) == {c \in Checks : job[q][c] \in states}
Past(q) == Jobs(q, {"unlink", "done"})
Sent(q) == Jobs(q, {"sent", "unlink", "done"})

(* The places of the messages of a kind in a queue. *)
Nulls(s)  == {i \in 1..Len(s) : s[i].null}
Finals(s) == {i \in 1..Len(s) : ~s[i].wait}

(* Messages of q that have not been taken. *)
Results(q) == mq[resultmq[q]]

(* The checks of q have jobs only after its edict is written, and all of   *)
(* them have when q has submitted them.                                    *)
JobInv ==
    \A q \in Queries :
        /\ \A c \in Checks : job[q][c] # "none" => c \in checklist /\ resultmq[q] # 0
        /\ resultmq[q] = 0 => pc[q] \notin {"submit", "wait", "unlink"}
        /\ resultmq[q] # 0 => pc[q] # "idle"
        /\ resultmq[q] # 0 /\ pc[q] # "submit" => \A c \in checklist : job[q][c] # "none"

Own(q)   == IF pc[q] \in {"submit", "wait", "unlink"} THEN 1 ELSE 0
Alive(q) == IF pc[q] = "done" THEN 0 ELSE 1

EdictInv == \A q \in Queries : edict[q] = Cardinality(HoldsEdict(q)) + Own(q)

(* References to the request that nobody but a NULL message holds. *)
Loose(q) == request[q] - Cardinality(HoldsRequest(q)) - Alive(q)

RequestOK(q) ==
    /\ Loose(q) \in 0..Cardinality(Past(q))
    /\ edict[q] > 0 => Loose(q) = Cardinality(Nulls(Results(q)))
    /\ edict[q] = 0 /\ ~aborted => Loose(q) = 0

(* What has the number of a queue has that of one that was created. *)
RangeInv ==
    /\ \A q \in Queries : resultmq[q] <= numqueues
    /\ \A q \in Queries : edict[q] > 0 => resultmq[q] > 0
    /\ \A q \in Queries : \A c \in Checks : response_q[q][c] <= numqueues

Base == TypeOK /\ JobInv /\ EdictInv /\ RangeInv

Owned(i) ==
    \/ \E q \in Queries : edict[q] > 0 /\ resultmq[q] = i
    \/ \E q \in Queries : \E c \in Checks : response_q[q][c] = i

QueueInv ==
    /\ \A i, j \in 1..Len(metaqueue) : metaqueue[i] = metaqueue[j] => i = j
    /\ \A i \in 1..numqueues : Owned(i) \/ i \in Range(metaqueue)
    /\ \A i \in 1..MaxQueues : Owned(i) \/ mq[i] = <<>>

(* An edict's queue is its own, and so is a lookup's.  What the helper has *)
(* still to pass on is for the lookup that waits, on a queue that is empty *)
(* until then.                                                             *)
Mine(q, m) == m.for = q /\ ~m.dns

Home ==
    \A q \in Queries : edict[q] > 0 =>
        /\ \A m \in Range(mq[resultmq[q]]) : Mine(q, m)
        /\ resultmq[q] \notin Range(metaqueue)
        /\ \A p \in Queries \ {q} : edict[p] > 0 => resultmq[p] # resultmq[q]
        /\ \A p \in Queries : \A c \in Checks : response_q[p][c] # resultmq[q]

Waits(q, c) ==
    response_q[q][c] # 0 =>
        /\ response_q[q][c] \notin Range(metaqueue)
        /\ Len(mq[response_q[q][c]]) <= 1
        /\ \A p \in Queries : \A d \in Checks :
              response_q[p][d] = response_q[q][c] => p = q /\ d = c

Underway(r) ==
    /\ response_q[r.q][r.c] = r.mq
    /\ mq[r.mq] = <<>>
    /\ \A s \in requests \cup cb : s.mq = r.mq => s = r

LookupInv ==
    /\ \A q \in Queries : \A c \in Checks : Waits(q, c)
    /\ \A r \in requests \cup cb : Underway(r)
    /\ requests \cap cb = {}

(* A result added to what was summed up before. *)
Plus(r, m) == [judgment |-> Max2(r.judgment, m.judgment), weight |-> r.weight + m.weight]

Below(r, t) == r.judgment <= t.judgment /\ r.weight <= t.weight

(* f are the partial sums of the messages s, from a to b. *)
IsSum(f, a, s, b) ==
    /\ f \in [0..Len(s) -> Result]
    /\ f[0] = a
    /\ \A i \in 1..Len(s) : f[i] = Plus(f[i - 1], s[i])
    /\ f[Len(s)] = b
    /\ \A i \in 0..Len(s) : Below(f[i], b)

SoFar(q) == [judgment |-> judgment[q], weight |-> susp_weight[q]]

SumOK(q) ==
    /\ edict[q] > 0 => \E f : IsSum(f, SoFar(q), Results(q), total[q])
    /\ resultmq[q] = 0 => total[q] = SoFar(q)
    /\ Below(SoFar(q), total[q])
    /\ total[q].judgment > J_SUSPICIOUS => checklist \cap Definitive # {}

(* A result that does not end its check is not the last message, unless    *)
(* the check is still running.                                             *)
LastOK(q) ==
    edict[q] > 0 /\ Results(q) # <<>> /\ Results(q)[Len(Results(q))].wait =>
        Jobs(q, {"running"}) # {}

(* checks_running is the number of checks that have not sent their last    *)
(* message and of last messages that have not been taken.                  *)
RunningOK(q) ==
    pc[q] \in {"submit", "wait"} =>
        (IF pc[q] = "wait" THEN checks_running[q] ELSE Cardinality(checklist))
            + Cardinality(Sent(q)) = Cardinality(checklist) + Cardinality(Finals(Results(q)))

(* A query that is through without running out of time has decided, or has *)
(* all results.                                                            *)
DecisionOK(q) ==
    /\ definitive[q] => Decided(judgment[q], susp_weight[q])
    /\ pc[q] \in {"unlink", "update", "respond", "done"} /\ resultmq[q] # 0 /\ ta[q] > 0 =>
          /\ definitive[q] \/ (Sent(q) = checklist /\ total[q] = SoFar(q))
          /\ pc[q] \in {"unlink", "update"} \/ ~Dryrun =>
                \E match \in BOOLEAN : status[q] = Verdict(judgment[q], susp_weight[q], match)

QueryOK(q) == RequestOK(q) /\ SumOK(q) /\ LastOK(q) /\ RunningOK(q) /\ DecisionOK(q)

Sound ==
    /\ QueueInv
    /\ Home
    /\ LookupInv
    /\ \A q \in Queries : QueryOK(q)

IInv == Base /\ (givenup = 0 => Sound)
-----------------------------------------------------------------------------
(* Sets of checks are finite. *)
LEMMA CheckSets ==
  /\ Checks \subseteq AllChecks
  /\ IsFiniteSet(Checks) /\ Cardinality(Checks) \in Nat
  /\ \A S \in SUBSET Checks :
        IsFiniteSet(S) /\ Cardinality(S) \in Nat /\ Cardinality(S) <= Cardinality(Checks)
  <1>1. IsFiniteSet({"dnsbl"})
    BY FS_Singleton, Zenon
  <1>2. IsFiniteSet({"dnsbl"} \cup {"dnswl"})
    BY <1>1, FS_AddElement, Zenon
  <1>3. IsFiniteSet({"dnsbl"} \cup {"dnswl"} \cup {"rhsbl"})
    BY <1>2, FS_AddElement, Zenon
  <1>4. IsFiniteSet({"reverse"})
    BY FS_Singleton, Zenon
  <1>5. IsFiniteSet({"reverse"} \cup {"helo"})
    BY <1>4, FS_AddElement, Zenon
  <1>6. IsFiniteSet({"reverse"} \cup {"helo"} \cup {"blocker"})
    BY <1>5, FS_AddElement, Zenon
  <1>7. IsFiniteSet({"reverse"} \cup {"helo"} \cup {"blocker"} \cup {"random"})
    BY <1>6, FS_AddElement, Zenon
  <1>8. IsFiniteSet({"reverse"} \cup {"helo"} \cup {"blocker"} \cup {"random"} \cup {"spf"})
    BY <1>7, FS_AddElement, Zenon
  <1>9. IsFiniteSet(({"dnsbl"} \cup {"dnswl"} \cup {"rhsbl"})
            \cup ({"reverse"} \cup {"helo"} \cup {"blocker"} \cup {"random"} \cup {"spf"}))
    BY <1>3, <1>8, FS_Union, Zenon
  <1>10. IsFiniteSet(AllChecks)
    <2>1. AllChecks = ({"dnsbl"} \cup {"dnswl"} \cup {"rhsbl"})
            \cup ({"reverse"} \cup {"helo"} \cup {"blocker"} \cup {"random"} \cup {"spf"})
      BY DEF AllChecks
    <2> QED
      BY <1>9, <2>1, Zenon
  <1>11. Checks \subseteq AllChecks
    BY QueryAssumption DEF QueryAssumption, Checks
  <1>12. IsFiniteSet(Checks) /\ Cardinality(Checks) \in Nat
    BY <1>10, <1>11, FS_Subset, FS_CardinalityType
  <1> QED
    BY <1>11, <1>12, FS_Subset, FS_CardinalityType

(* What a check may answer.  Only a definitive one has the last word. *)
LEMMA Answers ==
  ASSUME NEW c \in Checks, NEW r \in Early(c) \cup Final(c)
  PROVE  r \in Result /\ (r.judgment > J_SUSPICIOUS => c \in Definitive)
  <1> USE DEF Result, Answer, J_UNDEFINED, J_SUSPICIOUS, J_BLOCK, J_PASS
  <1>1. c \in AllChecks
    BY CheckSets
  <1>2. Undefined \in Result /\ Undefined.judgment = 0
    BY DEF Undefined
  <1>3. \A w \in Nat : Suspicious(w) \in Result /\ Suspicious(w).judgment <= 1
    BY DEF Suspicious, Undefined
  <1>4. CASE r \in Early(c)
    BY <1>4, ChecksAssumption DEF ChecksAssumption, Early, addrinfo_callback
  <1>5. CASE r \in Final(c)
    <2>1. CASE c \in {"dnsbl", "rhsbl"}
      BY <1>2, <1>5, <2>1 DEF Final, dnsblc
    <2>2. CASE c = "dnswl"
      BY <1>2, <1>5, <2>2 DEF Final, dnsblc, Definitive
    <2>3. CASE c = "reverse"
      BY <1>2, <1>3, <1>5, <2>3 DEF Final, reverse
    <2>4. CASE c = "helo"
      BY <1>3, <1>5, <2>4 DEF Final, helo
    <2>5. CASE c = "blocker"
      BY <1>2, <1>5, <2>5, ChecksAssumption DEF ChecksAssumption, Final, blocker
    <2>6. CASE c = "random"
      <3>1. PICK n \in 0..104 : r = randomc(n)
        BY <1>5, <2>6 DEF Final
      <3>2. r \in Result
        BY <1>2, <1>3, <3>1 DEF randomc
      <3> QED
        BY <2>6, <3>2 DEF Definitive
    <2>7. CASE c = "spf"
      <3>1. PICK s \in {"fail", "softfail", "pass", "error"} : r = spfc(s)
        BY <1>5, <2>7 DEF Final
      <3>2. r \in Result
        BY <1>2, <1>3, <3>1 DEF spfc
      <3> QED
        BY <2>7, <3>2 DEF Definitive
    <2> QED
      BY <1>1, <2>1, <2>2, <2>3, <2>4, <2>5, <2>6, <2>7 DEF AllChecks
  <1> QED
    BY <1>4, <1>5

-----------------------------------------------------------------------------
(* A check that goes to state s joins or leaves the sets of checks, and    *)
(* the sizes of these follow.                                              *)
LEMMA OneMoreOrLess ==
  ASSUME NEW S, IsFiniteSet(S), NEW c
  PROVE  /\ Cardinality(S) \in Nat
         /\ Cardinality(S \cup {c}) = Cardinality(S) + (IF c \in S THEN 0 ELSE 1)
         /\ Cardinality(S \ {c}) = Cardinality(S) - (IF c \in S THEN 1 ELSE 0)
  <1>1. Cardinality(S \cup {c}) = IF c \in S THEN Cardinality(S) ELSE Cardinality(S) + 1
    BY FS_AddElement
  <1>2. Cardinality(S \ {c}) = IF c \in S THEN Cardinality(S) - 1 ELSE Cardinality(S)
    BY FS_RemoveElement
  <1>3. Cardinality(S) \in Nat
    BY FS_CardinalityType
  <1> QED
    BY <1>1, <1>2, <1>3

JobStates == {"none", "queued", "running", "sent", "unlink", "done"}

LEMMA JobChange ==
  ASSUME NEW states, NEW q \in Queries, NEW c \in Checks, NEW s \in JobStates,
         job \in [Queries -> [Checks -> JobStates]],
         job' = [job EXCEPT ![q][c] = s]
  PROVE  /\ \A p \in Queries : p # q => Jobs(p, states)' = Jobs(p, states)
         /\ s \in states => Jobs(q, states)' = Jobs(q, states) \cup {c}
         /\ s \notin states => Jobs(q, states)' = Jobs(q, states) \ {c}
         /\ c \in Jobs(q, states) <=> job[q][c] \in states
         /\ \A p \in Queries : Jobs(p, states) \subseteq Checks
         /\ Cardinality(Jobs(q, states)') =
               Cardinality(Jobs(q, states)) + (IF s \in states THEN 1 ELSE 0)
                                            - (IF job[q][c] \in states THEN 1 ELSE 0)
  <1>1. \A p \in Queries : p # q => Jobs(p, states)' = Jobs(p, states)
    BY DEF Jobs
  <1>2. s \in states => Jobs(q, states)' = Jobs(q, states) \cup {c}
    BY DEF Jobs
  <1>3. s \notin states => Jobs(q, states)' = Jobs(q, states) \ {c}
    BY DEF Jobs
  <1>4. c \in Jobs(q, states) <=> job[q][c] \in states
    BY DEF Jobs
  <1>5. \A p \in Queries : Jobs(p, states) \subseteq Checks
    BY DEF Jobs
  <1>6. IsFiniteSet(Jobs(q, states)) /\ Cardinality(Jobs(q, states)) \in Nat
    BY <1>5, CheckSets
  <1>7. Cardinality(Jobs(q, states)') =
               Cardinality(Jobs(q, states)) + (IF s \in states THEN 1 ELSE 0)
                                            - (IF job[q][c] \in states THEN 1 ELSE 0)
    <2>1. PICK S : S = Jobs(q, states)
      OBVIOUS
    <2>2. PICK T : T = Jobs(q, states)'
      OBVIOUS
    <2>3. PICK old : old = job[q][c]
      OBVIOUS
    <2>4. /\ s \in states => Cardinality(T) = Cardinality(S \cup {c})
          /\ s \notin states => Cardinality(T) = Cardinality(S \ {c})
          /\ c \in S <=> old \in states
      BY <1>2, <1>3, <1>4, <2>1, <2>2, <2>3, Zenon
    <2>5. /\ Cardinality(S) \in Nat
          /\ Cardinality(S \cup {c}) = Cardinality(S) + (IF c \in S THEN 0 ELSE 1)
          /\ Cardinality(S \ {c}) = Cardinality(S) - (IF c \in S THEN 1 ELSE 0)
      BY <1>6, <2>1, OneMoreOrLess, Zenon
    <2>6. Cardinality(T) = Cardinality(S) + (IF s \in states THEN 1 ELSE 0)
                                          - (IF old \in states THEN 1 ELSE 0)
      BY <2>4, <2>5
    <2> QED
      BY <2>1, <2>2, <2>3, <2>6, Zenon
  <1> QED
    BY <1>1, <1>2, <1>3, <1>4, <1>5, <1>7

LEMMA HolderSets ==
  ASSUME NEW q
  PROVE  /\ HoldsEdict(q) = Jobs(q, {"queued", "running", "sent", "unlink"})
         /\ HoldsRequest(q) = Jobs(q, {"queued", "running", "sent"})
         /\ HoldsEdict(q)' = Jobs(q, {"queued", "running", "sent", "unlink"})'
         /\ HoldsRequest(q)' = Jobs(q, {"queued", "running", "sent"})'
  BY DEF HoldsEdict, HoldsRequest, Jobs

-----------------------------------------------------------------------------
(* Messages of a kind in a queue to whose end one is added, and in one     *)
(* from whose front one is taken.                                          *)
LEMMA Shift ==
  ASSUME NEW n \in Nat, NEW S \in SUBSET (1..(n + 1))
  PROVE  Cardinality({i \in 1..n : i + 1 \in S}) = Cardinality(S) - (IF 1 \in S THEN 1 ELSE 0)
  <1> DEFINE T == {i \in 1..n : i + 1 \in S}
             f == [i \in T |-> i + 1]
  <1>1. IsFiniteSet(1..(n + 1)) /\ IsFiniteSet(S)
    <2>1. IsFiniteSet(1..(n + 1))
      BY FS_Interval
    <2> QED
      BY <2>1, FS_Subset, Zenon
  <1>2. IsFiniteSet(1..n) /\ IsFiniteSet(T)
    <2>1. IsFiniteSet(1..n) /\ T \in SUBSET (1..n)
      BY FS_Interval
    <2> QED
      BY <2>1, FS_Subset, Zenon
  <1>3. f \in Bijection(T, S \ {1})
    <2>1. f \in [T -> S \ {1}]
      OBVIOUS
    <2>2. \A a, b \in T : f[a] = f[b] => a = b
      OBVIOUS
    <2>3. \A y \in S \ {1} : \E x \in T : f[x] = y
      <3>1. TAKE y \in S \ {1}
      <3>2. y - 1 \in T /\ f[y - 1] = y
        OBVIOUS
      <3> QED
        BY <3>2
    <2> QED
      BY <2>1, <2>2, <2>3, Zenon DEF Bijection, Injection, Surjection, IsInjective
  <1>4. Cardinality(S \ {1}) = Cardinality(T)
    <2>1. ExistsBijection(T, S \ {1})
      BY <1>3 DEF ExistsBijection
    <2> QED
      BY <1>2, <2>1, FS_Bijection
  <1>5. Cardinality(S \ {1}) = IF 1 \in S THEN Cardinality(S) - 1 ELSE Cardinality(S)
    BY <1>1, FS_RemoveElement
  <1>6. Cardinality(S) \in Nat
    BY <1>1, FS_CardinalityType
  <1> QED
    BY <1>4, <1>5, <1>6

LEMMA Arrives ==
  ASSUME NEW s \in Seq(Message), NEW m \in Message
  PROVE  /\ Cardinality(Nulls(s)) \in Nat /\ Cardinality(Finals(s)) \in Nat
         /\ Cardinality(Nulls(Append(s, m))) = Cardinality(Nulls(s)) + (IF m.null THEN 1 ELSE 0)
         /\ Cardinality(Finals(Append(s, m))) = Cardinality(Finals(s)) + (IF m.wait THEN 0 ELSE 1)
  <1> DEFINE n == Len(s) + 1
  <1>1. /\ Append(s, m) \in Seq(Message) /\ Len(Append(s, m)) = n /\ Append(s, m)[n] = m
        /\ \A i \in 1..Len(s) : Append(s, m)[i] = s[i]
        /\ n \in Nat /\ Len(s) \in Nat
    OBVIOUS
  <1>2. /\ Nulls(Append(s, m)) = IF m.null THEN Nulls(s) \cup {n} ELSE Nulls(s)
        /\ Finals(Append(s, m)) = IF m.wait THEN Finals(s) ELSE Finals(s) \cup {n}
        /\ n \notin Nulls(s) /\ n \notin Finals(s)
    BY <1>1 DEF Nulls, Finals
  <1>3. IsFiniteSet(Nulls(s)) /\ IsFiniteSet(Finals(s))
    <2>1. IsFiniteSet(1..Len(s))
      BY <1>1, FS_Interval
    <2>2. Nulls(s) \in SUBSET (1..Len(s)) /\ Finals(s) \in SUBSET (1..Len(s))
      BY DEF Nulls, Finals
    <2> QED
      BY <2>1, <2>2, FS_Subset, Zenon
  <1>4. /\ Cardinality(Nulls(s)) \in Nat
        /\ Cardinality(Nulls(s) \cup {n}) = Cardinality(Nulls(s)) + 1
        /\ Cardinality(Finals(s)) \in Nat
        /\ Cardinality(Finals(s) \cup {n}) = Cardinality(Finals(s)) + 1
    BY <1>2, <1>3, OneMoreOrLess
  <1> HIDE DEF n
  <1> QED
    BY <1>2, <1>4

LEMMA Taken ==
  ASSUME NEW s \in Seq(Message), s # <<>>
  PROVE  /\ Cardinality(Nulls(s)) \in Nat /\ Cardinality(Finals(s)) \in Nat
         /\ Cardinality(Nulls(Tail(s))) = Cardinality(Nulls(s)) - (IF Head(s).null THEN 1 ELSE 0)
         /\ Cardinality(Finals(Tail(s))) = Cardinality(Finals(s)) - (IF Head(s).wait THEN 0 ELSE 1)
         /\ Head(s).null => Cardinality(Nulls(s)) >= 1
  <1>1. PICK n \in Nat : Len(s) = n + 1
    <2>1. Len(s) \in Nat /\ Len(s) # 0
      OBVIOUS
    <2>2. Len(s) - 1 \in Nat /\ Len(s) = (Len(s) - 1) + 1
      BY <2>1
    <2> QED
      BY <2>2
  <1>2. /\ Tail(s) \in Seq(Message) /\ Len(Tail(s)) = n
        /\ \A i \in 1..n : Tail(s)[i] = s[i + 1]
        /\ Head(s) = s[1]
    BY <1>1
  <1>3. /\ Nulls(s) \in SUBSET (1..(n + 1)) /\ Finals(s) \in SUBSET (1..(n + 1))
        /\ 1 \in Nulls(s) <=> Head(s).null
        /\ 1 \in Finals(s) <=> ~Head(s).wait
    BY <1>1, <1>2 DEF Nulls, Finals
  <1>4. /\ Nulls(Tail(s)) = {i \in 1..n : i + 1 \in Nulls(s)}
        /\ Finals(Tail(s)) = {i \in 1..n : i + 1 \in Finals(s)}
    BY <1>1, <1>2 DEF Nulls, Finals
  <1>5. /\ Cardinality(Nulls(Tail(s))) = Cardinality(Nulls(s)) - (IF 1 \in Nulls(s) THEN 1 ELSE 0)
        /\ Cardinality(Finals(Tail(s))) =
               Cardinality(Finals(s)) - (IF 1 \in Finals(s) THEN 1 ELSE 0)
    BY <1>3, <1>4, Shift
  <1>6. PICK m \in Message : m = Head(s)
    OBVIOUS
  <1>7. /\ Cardinality(Nulls(s)) \in Nat /\ Cardinality(Finals(s)) \in Nat
        /\ Cardinality(Nulls(Tail(s))) \in Nat
    BY <1>2, <1>6, Arrives
  <1> QED
    BY <1>3, <1>5, <1>7

LEMMA NoNulls ==
  ASSUME NEW s \in Seq(Message)
  PROVE  /\ Cardinality(Nulls(s)) = 0 <=> ~\E m \in Range(s) : m.null
         /\ Cardinality(Finals(s)) = 0 => \A i \in 1..Len(s) : s[i].wait
  <1>1. Len(s) \in Nat /\ Range(s) = {s[i] : i \in 1..Len(s)}
    BY DEF Range
  <1>2. IsFiniteSet(1..Len(s)) /\ Nulls(s) \in SUBSET (1..Len(s)) /\ Finals(s) \in SUBSET (1..Len(s))
    BY <1>1, FS_Interval DEF Nulls, Finals
  <1>3. /\ Cardinality(Nulls(s)) = 0 <=> Nulls(s) = {}
        /\ Cardinality(Finals(s)) = 0 <=> Finals(s) = {}
    BY <1>2, FS_Subset, FS_EmptySet, Zenon
  <1> QED
    BY <1>1, <1>3 DEF Nulls, Finals

LEMMA EmptyQueue == Nulls(<<>>) = {} /\ Finals(<<>>) = {} /\ Cardinality({}) = 0
  BY FS_EmptySet DEF Nulls, Finals

(* The partial sums when a message is added, and when one is taken. *)
LEMMA PlusType ==
  ASSUME NEW r \in Result, NEW m \in Message
  PROVE  Plus(r, m) \in Result /\ Below(r, Plus(r, m))
  BY DEF Plus, Below, Result, Message, Max2, J_UNDEFINED, J_PASS

LEMMA SumArrives ==
  ASSUME NEW a, NEW b \in Result, NEW s \in Seq(Message), NEW m \in Message,
         NEW f, IsSum(f, a, s, b)
  PROVE  \E g : IsSum(g, a, Append(s, m), Plus(b, m))
  <1> DEFINE t == Append(s, m)
             n == Len(s)
             g == [i \in 0..(n + 1) |-> IF i <= n THEN f[i] ELSE Plus(b, m)]
  <1>1. n \in Nat /\ Len(t) = n + 1 /\ t[n + 1] = m /\ \A i \in 1..n : t[i] = s[i]
    OBVIOUS
  <1>2. /\ f \in [0..n -> Result] /\ f[0] = a /\ f[n] = b
        /\ \A i \in 1..n : f[i] = Plus(f[i - 1], s[i])
        /\ \A i \in 0..n : Below(f[i], b)
    BY DEF IsSum
  <1>3. Plus(b, m) \in Result /\ Below(b, Plus(b, m))
    BY PlusType
  <1>4. PICK c : c = Plus(b, m)
    OBVIOUS
  <1> HIDE DEF t, n
  <1>5. g \in [0..(n + 1) -> Result] /\ g[0] = a /\ g[n + 1] = c
    BY <1>1, <1>2, <1>3, <1>4
  <1>6. \A i \in 1..(n + 1) : g[i] = Plus(g[i - 1], t[i])
    <2>1. TAKE i \in 1..(n + 1)
    <2>2. CASE i = n + 1
      <3>1. i - 1 = n /\ n \in 0..(n + 1) /\ i \in 0..(n + 1) /\ ~(i <= n)
        BY <1>1, <2>2
      <3>2. g[i] = Plus(b, m) /\ g[i - 1] = b /\ t[i] = m
        BY <1>1, <1>2, <2>2, <3>1
      <3> QED
        BY <3>2
    <2>3. CASE i # n + 1
      <3>1. i \in 1..n /\ i - 1 \in 0..n /\ i \in 0..(n + 1) /\ i - 1 \in 0..(n + 1)
        BY <1>1, <2>3
      <3>2. g[i] = f[i] /\ g[i - 1] = f[i - 1] /\ t[i] = s[i]
        BY <1>1, <3>1
      <3> QED
        BY <1>2, <3>1, <3>2
    <2> QED
      BY <2>2, <2>3
  <1>7. \A i \in 0..(n + 1) : Below(g[i], c)
    <2>1. TAKE i \in 0..(n + 1)
    <2>2. CASE i = n + 1
      BY <1>1, <1>3, <1>4, <2>2 DEF Below, Result
    <2>3. CASE i # n + 1
      <3>1. i \in 0..n /\ g[i] = f[i] /\ f[i] \in Result
        BY <1>1, <1>2, <2>3
      <3> QED
        BY <1>2, <1>3, <1>4, <3>1 DEF Below, Result
    <2> QED
      BY <2>2, <2>3
  <1> HIDE DEF g
  <1>8. IsSum(g, a, t, c)
    BY <1>1, <1>5, <1>6, <1>7 DEF IsSum
  <1> QED
    BY <1>4, <1>8 DEF t

LEMMA SumTaken ==
  ASSUME NEW a, NEW b \in Result, NEW s \in Seq(Message), s # <<>>,
         NEW f, IsSum(f, a, s, b)
  PROVE  /\ \E g : IsSum(g, Plus(a, Head(s)), Tail(s), b)
         /\ Below(Plus(a, Head(s)), b)
  <1>1. PICK n \in Nat : Len(s) = n + 1
    <2>1. Len(s) \in Nat /\ Len(s) # 0
      OBVIOUS
    <2>2. Len(s) - 1 \in Nat /\ Len(s) = (Len(s) - 1) + 1
      BY <2>1
    <2> QED
      BY <2>2
  <1> DEFINE t == Tail(s)
             g == [i \in 0..n |-> f[i + 1]]
  <1>2. Len(t) = n /\ Head(s) = s[1] /\ \A i \in 1..n : t[i] = s[i + 1]
    BY <1>1
  <1>3. /\ f \in [0..(n + 1) -> Result] /\ f[0] = a /\ f[n + 1] = b
        /\ \A i \in 1..(n + 1) : f[i] = Plus(f[i - 1], s[i])
        /\ \A i \in 0..(n + 1) : Below(f[i], b)
    BY <1>1 DEF IsSum
  <1>4. f[1] = Plus(a, Head(s)) /\ Below(f[1], b)
    <2>1. 1 \in 1..(n + 1) /\ 1 \in 0..(n + 1) /\ 1 - 1 = 0
      OBVIOUS
    <2>2. f[1] = Plus(f[1 - 1], s[1])
      BY <1>3, <2>1
    <2> QED
      BY <1>2, <1>3, <2>1, <2>2
  <1> HIDE DEF t
  <1>5. g \in [0..n -> Result] /\ g[0] = f[1] /\ g[n] = b
    BY <1>3
  <1>6. \A i \in 1..n : g[i] = Plus(g[i - 1], t[i])
    <2>1. TAKE i \in 1..n
    <2>2. i + 1 \in 1..(n + 1) /\ (i + 1) - 1 = i /\ i \in 0..n /\ i - 1 \in 0..n /\ (i - 1) + 1 = i
      OBVIOUS
    <2>3. g[i] = f[i + 1] /\ g[i - 1] = f[i] /\ t[i] = s[i + 1]
      BY <1>2, <2>2
    <2>4. f[i + 1] = Plus(f[(i + 1) - 1], s[i + 1])
      BY <1>3, <2>2
    <2> QED
      BY <2>2, <2>3, <2>4
  <1>7. \A i \in 0..n : Below(g[i], b)
    BY <1>3
  <1> HIDE DEF g
  <1>8. IsSum(g, f[1], t, b)
    BY <1>2, <1>5, <1>6, <1>7 DEF IsSum
  <1> QED
    BY <1>4, <1>8 DEF t

-----------------------------------------------------------------------------
(* A step of q or of one of its checks. *)
Step(q) == test_tuple(q) \/ \E c \in Checks : Check(q, c)

EdictStates == {"queued", "running", "sent", "unlink"}

LEMMA Types ==
  ASSUME Base
  PROVE  /\ checklist \in SUBSET Checks
         /\ IsFiniteSet(checklist) /\ Cardinality(checklist) \in Nat
         /\ job \in [Queries -> [Checks -> JobStates]]
         /\ edict \in [Queries -> Nat] /\ request \in [Queries -> Nat]
         /\ resultmq \in [Queries -> 0..MaxQueues]
         /\ mq \in [1..MaxQueues -> Seq(Message)]
         /\ MaxQueues \in Nat /\ numqueues \in 0..MaxQueues
         /\ metaqueue \in Seq(1..numqueues)
         /\ \A p \in Queries : edict[p] > 0 =>
               resultmq[p] \in 1..MaxQueues /\ Results(p) \in Seq(Message)
         /\ \A p \in Queries : \A states : Cardinality(Jobs(p, states)) \in Nat
  <1>1. checklist \in SUBSET Checks
    BY DEF Base, TypeOK, Checks
  <1>2. job \in [Queries -> [Checks -> JobStates]]
    BY DEF Base, TypeOK, JobStates
  <1>3. edict \in [Queries -> Nat] /\ request \in [Queries -> Nat]
    <2>1. 0..Cardinality(Checks) + 1 \subseteq Nat
      BY CheckSets
    <2> QED
      BY <2>1 DEF Base, TypeOK
  <1>4. /\ resultmq \in [Queries -> 0..MaxQueues]
        /\ mq \in [1..MaxQueues -> Seq(Message)]
        /\ MaxQueues \in Nat /\ numqueues \in 0..MaxQueues /\ metaqueue \in Seq(1..numqueues)
    BY QueryAssumption DEF QueryAssumption, Base, TypeOK
  <1>5. \A p \in Queries : edict[p] > 0 =>
           resultmq[p] \in 1..MaxQueues /\ Results(p) \in Seq(Message)
    <2>1. TAKE p \in Queries
    <2>2. HAVE edict[p] > 0
    <2>3. resultmq[p] > 0
      BY <2>2 DEF Base, RangeInv
    <2> QED
      BY <1>4, <2>3 DEF Results
  <1>6. \A p \in Queries : \A states : Cardinality(Jobs(p, states)) \in Nat
    BY CheckSets DEF Jobs
  <1> QED
    BY <1>1, <1>2, <1>3, <1>4, <1>5, <1>6, CheckSets

(* A check joins a set of checks, leaves it or stays where it is. *)
Kept(q, states) == \A p \in Queries \ {q} : Jobs(p, states)' = Jobs(p, states)

LEMMA Joins ==
  ASSUME Base, NEW q \in Queries, NEW c \in Checks, NEW s \in JobStates, NEW states,
         job' = [job EXCEPT ![q][c] = s], s \in states, job[q][c] \notin states
  PROVE  /\ Kept(q, states)
         /\ Cardinality(Jobs(q, states)') = Cardinality(Jobs(q, states)) + 1
  <1>1. job \in [Queries -> [Checks -> JobStates]] /\ Cardinality(Jobs(q, states)) \in Nat
    BY Types
  <1>2. Kept(q, states)
    BY <1>1 DEF Kept, Jobs
  <1>3. Cardinality(Jobs(q, states)') =
               Cardinality(Jobs(q, states)) + (IF s \in states THEN 1 ELSE 0)
                                            - (IF job[q][c] \in states THEN 1 ELSE 0)
    BY <1>1, JobChange, Zenon
  <1> QED
    BY <1>1, <1>2, <1>3

LEMMA Leaves ==
  ASSUME Base, NEW q \in Queries, NEW c \in Checks, NEW s \in JobStates, NEW states,
         job' = [job EXCEPT ![q][c] = s], s \notin states, job[q][c] \in states
  PROVE  /\ Kept(q, states)
         /\ Cardinality(Jobs(q, states)') = Cardinality(Jobs(q, states)) - 1
  <1>1. job \in [Queries -> [Checks -> JobStates]] /\ Cardinality(Jobs(q, states)) \in Nat
    BY Types
  <1>2. Kept(q, states)
    BY <1>1 DEF Kept, Jobs
  <1>3. Cardinality(Jobs(q, states)') =
               Cardinality(Jobs(q, states)) + (IF s \in states THEN 1 ELSE 0)
                                            - (IF job[q][c] \in states THEN 1 ELSE 0)
    BY <1>1, JobChange, Zenon
  <1> QED
    BY <1>1, <1>2, <1>3

LEMMA Stays ==
  ASSUME Base, NEW q \in Queries, NEW c \in Checks, NEW s \in JobStates, NEW states,
         job' = [job EXCEPT ![q][c] = s], s \in states <=> job[q][c] \in states
  PROVE  /\ Kept(q, states)
         /\ Cardinality(Jobs(q, states)') = Cardinality(Jobs(q, states))
  <1>1. job \in [Queries -> [Checks -> JobStates]] /\ Cardinality(Jobs(q, states)) \in Nat
    BY Types
  <1>2. Kept(q, states)
    BY <1>1 DEF Kept, Jobs
  <1>3. Cardinality(Jobs(q, states)') =
               Cardinality(Jobs(q, states)) + (IF s \in states THEN 1 ELSE 0)
                                            - (IF job[q][c] \in states THEN 1 ELSE 0)
    BY <1>1, JobChange, Zenon
  <1>4. CASE s \in states /\ job[q][c] \in states
    BY <1>1, <1>2, <1>3, <1>4
  <1>5. CASE s \notin states /\ job[q][c] \notin states
    BY <1>1, <1>2, <1>3, <1>5
  <1> QED
    BY <1>4, <1>5

LEMMA Outside ==
  ASSUME Base, NEW q \in Queries, NEW c \in Checks, NEW s \in JobStates, NEW states,
         job' = [job EXCEPT ![q][c] = s], s \notin states, job[q][c] \notin states
  PROVE  /\ Kept(q, states)
         /\ Cardinality(Jobs(q, states)') = Cardinality(Jobs(q, states))
  BY Stays, Zenon

LEMMA Alone ==
  ASSUME NEW q, NEW states, job' = job
  PROVE  Kept(q, states) /\ Jobs(q, states)' = Jobs(q, states)
  BY DEF Kept, Jobs

(* The count of the references to an edict is exact. *)
LEMMA EdictStep ==
  ASSUME Base, NEW q \in Queries, Step(q)
  PROVE  EdictInv'
  <1>1. /\ TypeOK /\ JobInv
        /\ edict \in [Queries -> Nat]
        /\ pc \in [Queries -> {"idle", "submit", "wait", "unlink", "update", "respond", "done"}]
        /\ \A p \in Queries : edict[p] = Cardinality(Jobs(p, EdictStates)) + Own(p)
        /\ \A p \in Queries : Cardinality(Jobs(p, EdictStates)) \in Nat
    BY Types, HolderSets DEF Base, TypeOK, EdictInv, EdictStates
  <1>2. ASSUME NEW n, edict' = [edict EXCEPT ![q] = n],
               Kept(q, EdictStates), \A p \in Queries \ {q} : Own(p)' = Own(p),
               n = Cardinality(Jobs(q, EdictStates)') + Own(q)'
        PROVE  EdictInv'
    <2>1. \A p \in Queries : edict'[p] = Cardinality(Jobs(p, EdictStates)') + Own(p)'
      BY <1>1, <1>2 DEF Kept
    <2> QED
      BY <2>1, HolderSets DEF EdictInv, EdictStates
  <1>3. ASSUME UNCHANGED <<job, edict>>, Own(q)' = Own(q),
               \A p \in Queries \ {q} : pc'[p] = pc[p]
        PROVE  EdictInv'
    <2>1. Kept(q, EdictStates) /\ Jobs(q, EdictStates)' = Jobs(q, EdictStates)
      BY <1>3, Alone
    <2>2. \A p \in Queries \ {q} : Own(p)' = Own(p)
      BY <1>3 DEF Own
    <2>3. edict' = [edict EXCEPT ![q] = edict[q]]
      BY <1>1, <1>3
    <2>4. edict[q] = Cardinality(Jobs(q, EdictStates)') + Own(q)'
      BY <1>1, <1>3, <2>1
    <2> QED
      BY <1>2, <2>1, <2>2, <2>3, <2>4
  <1>4. ASSUME NEW c \in Checks, NEW s \in EdictStates, job[q][c] \in EdictStates,
               job' = [job EXCEPT ![q][c] = s], UNCHANGED <<edict, pc>>
        PROVE  EdictInv'
    <2>1. s \in JobStates
      BY DEF JobStates, EdictStates
    <2>2. /\ Kept(q, EdictStates)
          /\ Cardinality(Jobs(q, EdictStates)') = Cardinality(Jobs(q, EdictStates))
      BY <1>4, <2>1, Stays
    <2>3. \A p \in Queries : Own(p)' = Own(p)
      BY <1>4 DEF Own
    <2>4. edict' = [edict EXCEPT ![q] = edict[q]]
      BY <1>1, <1>4
    <2>5. edict[q] = Cardinality(Jobs(q, EdictStates)') + Own(q)'
      BY <1>1, <2>2, <2>3
    <2> QED
      BY <1>2, <2>2, <2>3, <2>4, <2>5
  <1>5. CASE MaskFails(q)
    BY <1>1, <1>3, <1>5 DEF MaskFails, checks, Own
  <1>6. CASE \E match \in BOOLEAN : NoChecks(q, match)
    BY <1>1, <1>3, <1>6 DEF NoChecks, checks, Own
  <1>7. CASE \E match \in BOOLEAN : WriteEdict(q, match)
    <2>1. /\ pc[q] = "idle" /\ job' = job
          /\ edict' = [edict EXCEPT ![q] = 1] /\ pc' = [pc EXCEPT ![q] = "submit"]
      BY <1>7 DEF WriteEdict, checks
    <2>2. Kept(q, EdictStates) /\ Jobs(q, EdictStates)' = Jobs(q, EdictStates)
      BY <2>1, Alone
    <2>3. Jobs(q, EdictStates) = {}
      BY <1>1, <2>1 DEF JobInv, Jobs, EdictStates
    <2>4. Own(q)' = 1 /\ \A p \in Queries \ {q} : Own(p)' = Own(p)
      BY <1>1, <2>1 DEF Own
    <2>5. 1 = Cardinality(Jobs(q, EdictStates)') + Own(q)'
      BY <2>2, <2>3, <2>4, FS_EmptySet
    <2> QED
      BY <1>2, <2>1, <2>2, <2>4, <2>5
  <1>8. CASE \E match \in BOOLEAN : SumUp(q, match)
    BY <1>1, <1>3, <1>8 DEF SumUp, checks, Own
  <1>9. ASSUME NEW c \in Checks, Submit(q, c)
        PROVE  EdictInv'
    <2>1. /\ job[q][c] = "none" /\ job' = [job EXCEPT ![q][c] = "queued"]
          /\ edict' = [edict EXCEPT ![q] = edict[q] + 1] /\ pc' = pc
      BY <1>1, <1>9 DEF Submit
    <2>2. /\ Kept(q, EdictStates)
          /\ Cardinality(Jobs(q, EdictStates)') = Cardinality(Jobs(q, EdictStates)) + 1
      BY <2>1, Joins DEF EdictStates, JobStates
    <2>3. \A p \in Queries : Own(p)' = Own(p)
      BY <2>1 DEF Own
    <2>4. edict[q] + 1 = Cardinality(Jobs(q, EdictStates)') + Own(q)'
      BY <1>1, <2>2, <2>3 DEF Own
    <2> QED
      BY <1>2, <2>1, <2>2, <2>3, <2>4
  <1>10. CASE StartWait(q)
    BY <1>1, <1>3, <1>10 DEF StartWait, checks, Own
  <1>11. CASE ReceiveResult(q)
    BY <1>1, <1>3, <1>11 DEF ReceiveResult, checks, Own
  <1>12. CASE Expire(q)
    BY <1>1, <1>3, <1>12 DEF Expire, checks, Own
  <1>13. CASE QueryUnlinks(q)
    <2>1. /\ pc[q] = "unlink" /\ job' = job
          /\ edict' = [edict EXCEPT ![q] = edict[q] - 1] /\ pc' = [pc EXCEPT ![q] = "update"]
      BY <1>1, <1>13 DEF QueryUnlinks, edict_unlink, checks
    <2>2. Kept(q, EdictStates) /\ Jobs(q, EdictStates)' = Jobs(q, EdictStates)
      BY <2>1, Alone
    <2>3. Own(q) = 1 /\ Own(q)' = 0 /\ \A p \in Queries \ {q} : Own(p)' = Own(p)
      BY <1>1, <2>1 DEF Own
    <2>4. edict[q] - 1 = Cardinality(Jobs(q, EdictStates)') + Own(q)'
      BY <1>1, <2>2, <2>3
    <2> QED
      BY <1>2, <2>1, <2>2, <2>3, <2>4
  <1>14. CASE Update(q)
    BY <1>1, <1>3, <1>14 DEF Update, checks, Own
  <1>15. CASE Respond(q)
    BY <1>1, <1>3, <1>15 DEF Respond, checks, Own
  <1>16. ASSUME NEW c \in Checks, Run(q, c)
         PROVE  EdictInv'
    BY <1>4, <1>16 DEF Run, EdictStates
  <1>17. ASSUME NEW c \in Checks, SendNull(q, c)
         PROVE  EdictInv'
    BY <1>4, <1>17 DEF SendNull, EdictStates
  <1>18. ASSUME NEW c \in Checks, NEW r, SendEarly(q, c, r)
         PROVE  EdictInv'
    BY <1>1, <1>3, <1>18 DEF SendEarly, Own
  <1>19. ASSUME NEW c \in Checks, NEW r, SendFinal(q, c, r)
         PROVE  EdictInv'
    BY <1>4, <1>19 DEF SendFinal, EdictStates
  <1>20. ASSUME NEW c \in Checks, CheckReturns(q, c)
         PROVE  EdictInv'
    BY <1>4, <1>20 DEF CheckReturns, EdictStates
  <1>21. ASSUME NEW c \in Checks, ThreadUnlinks(q, c)
         PROVE  EdictInv'
    <2>1. /\ job[q][c] = "unlink" /\ job' = [job EXCEPT ![q][c] = "done"]
          /\ edict' = [edict EXCEPT ![q] = edict[q] - 1] /\ pc' = pc
      BY <1>1, <1>21 DEF ThreadUnlinks, edict_unlink
    <2>2. /\ Kept(q, EdictStates)
          /\ Cardinality(Jobs(q, EdictStates)') = Cardinality(Jobs(q, EdictStates)) - 1
      BY <2>1, Leaves DEF EdictStates, JobStates
    <2>3. \A p \in Queries : Own(p)' = Own(p)
      BY <2>1 DEF Own
    <2>4. edict[q] - 1 = Cardinality(Jobs(q, EdictStates)') + Own(q)'
      BY <1>1, <2>2, <2>3 DEF Own
    <2> QED
      BY <1>2, <2>1, <2>2, <2>3, <2>4
  <1> QED
    BY <1>5, <1>6, <1>7, <1>8, <1>9, <1>10, <1>11, <1>12, <1>13, <1>14, <1>15, <1>16, <1>17,
       <1>18, <1>19, <1>20, <1>21 DEF Step, test_tuple, Check

(* Who may have a job. *)
LEMMA JobStep ==
  ASSUME Base, NEW q \in Queries, Step(q)
  PROVE  JobInv'
  <1>1. /\ JobInv
        /\ pc \in [Queries -> {"idle", "submit", "wait", "unlink", "update", "respond", "done"}]
        /\ resultmq \in [Queries -> 0..MaxQueues]
        /\ job \in [Queries -> [Checks -> JobStates]]
        /\ checklist \in SUBSET Checks
    BY Types DEF Base, TypeOK
  <1> USE DEF JobInv, JobStates
  <1>2. CASE MaskFails(q)
    BY <1>1, <1>2 DEF MaskFails, checks, config
  <1>3. CASE \E match \in BOOLEAN : NoChecks(q, match)
    BY <1>1, <1>3 DEF NoChecks, checks, config
  <1>4. CASE \E match \in BOOLEAN : WriteEdict(q, match)
    <2>1. PICK i \in 1..MaxQueues : resultmq' = [resultmq EXCEPT ![q] = i]
      BY <1>4 DEF WriteEdict
    <2>2. pc[q] = "idle" /\ pc' = [pc EXCEPT ![q] = "submit"] /\ UNCHANGED <<job, checklist>>
      BY <1>4 DEF WriteEdict, checks, config
    <2> QED
      BY <1>1, <2>1, <2>2
  <1>5. CASE \E match \in BOOLEAN : SumUp(q, match)
    BY <1>1, <1>5 DEF SumUp, checks, config
  <1>6. ASSUME NEW c \in Checks, Submit(q, c)
        PROVE  JobInv'
    BY <1>1, <1>6 DEF Submit, config
  <1>7. CASE StartWait(q)
    BY <1>1, <1>7 DEF StartWait, checks, config
  <1>8. CASE ReceiveResult(q)
    BY <1>1, <1>8 DEF ReceiveResult, checks, config
  <1>9. CASE Expire(q)
    BY <1>1, <1>9 DEF Expire, checks, config
  <1>10. CASE QueryUnlinks(q)
    BY <1>1, <1>10 DEF QueryUnlinks, checks, config
  <1>11. CASE Update(q)
    BY <1>1, <1>11 DEF Update, checks, config
  <1>12. CASE Respond(q)
    BY <1>1, <1>12 DEF Respond, checks, config
  <1>13. ASSUME NEW c \in Checks, Run(q, c)
         PROVE  JobInv'
    BY <1>1, <1>13 DEF Run, config
  <1>14. ASSUME NEW c \in Checks, SendNull(q, c)
         PROVE  JobInv'
    BY <1>1, <1>14 DEF SendNull, config
  <1>15. ASSUME NEW c \in Checks, NEW r, SendEarly(q, c, r)
         PROVE  JobInv'
    BY <1>1, <1>15 DEF SendEarly, config
  <1>16. ASSUME NEW c \in Checks, NEW r, SendFinal(q, c, r)
         PROVE  JobInv'
    BY <1>1, <1>16 DEF SendFinal, config
  <1>17. ASSUME NEW c \in Checks, CheckReturns(q, c)
         PROVE  JobInv'
    BY <1>1, <1>17 DEF CheckReturns, config
  <1>18. ASSUME NEW c \in Checks, ThreadUnlinks(q, c)
         PROVE  JobInv'
    BY <1>1, <1>18 DEF ThreadUnlinks, config
  <1> QED
    BY <1>2, <1>3, <1>4, <1>5, <1>6, <1>7, <1>8, <1>9, <1>10, <1>11, <1>12, <1>13, <1>14, <1>15,
       <1>16, <1>17, <1>18 DEF Step, test_tuple, Check

(* Who uses the edict has a reference to it. *)
LEMMA HasEdict ==
  ASSUME Base, NEW q \in Queries
  PROVE  /\ \A c \in Checks : job[q][c] \in EdictStates => edict[q] > 0
         /\ pc[q] \in {"submit", "wait", "unlink"} => edict[q] > 0
  <1>1. edict[q] = Cardinality(Jobs(q, EdictStates)) + Own(q)
    BY HolderSets DEF Base, EdictInv, EdictStates
  <1>2. Cardinality(Jobs(q, EdictStates)) \in Nat
    BY Types
  <1>3. ASSUME NEW c \in Checks, job[q][c] \in EdictStates
        PROVE  Cardinality(Jobs(q, EdictStates)) # 0
    <2>1. c \in Jobs(q, EdictStates) /\ Jobs(q, EdictStates) \in SUBSET Checks
      BY <1>3 DEF Jobs
    <2> QED
      BY <2>1, CheckSets, FS_EmptySet
  <1> QED
    BY <1>1, <1>2, <1>3 DEF Own

(* The number of a queue that get_queue() hands out. *)
LEMMA NewNumber ==
  ASSUME Base, NEW k \in 1..MaxQueues, get_queue(k)
  PROVE  /\ numqueues' \in 0..MaxQueues /\ numqueues <= numqueues' /\ k <= numqueues'
         /\ metaqueue' \in Seq(1..numqueues')
         /\ \A i \in 1..numqueues' : i # k => i \in 1..numqueues
  <1>1. MaxQueues \in Nat /\ numqueues \in 0..MaxQueues /\ metaqueue \in Seq(1..numqueues)
    BY Types
  <1>2. CASE metaqueue # <<>>
    <2>1. k = Head(metaqueue) /\ metaqueue' = Tail(metaqueue) /\ numqueues' = numqueues
      BY <1>2 DEF get_queue
    <2>2. Head(metaqueue) \in 1..numqueues /\ Tail(metaqueue) \in Seq(1..numqueues)
      BY <1>1, <1>2
    <2> QED
      BY <1>1, <2>1, <2>2
  <1>3. CASE metaqueue = <<>>
    BY <1>1, <1>3 DEF get_queue
  <1> QED
    BY <1>2, <1>3

(* Queries and checks leave the lookups alone. *)
LEMMA LookupsAside ==
  ASSUME NEW q, Step(q)
  PROVE  UNCHANGED lookups
  BY DEF Step, test_tuple, Check, MaskFails, NoChecks, WriteEdict, SumUp, Submit, StartWait,
         ReceiveResult, Expire, QueryUnlinks, Update, Respond, Run, SendNull, SendEarly,
         SendFinal, CheckReturns, ThreadUnlinks

LEMMA RangeStep ==
  ASSUME Base, NEW q \in Queries, Step(q)
  PROVE  RangeInv'
  <1>1. /\ RangeInv
        /\ edict \in [Queries -> Nat] /\ resultmq \in [Queries -> 0..MaxQueues]
        /\ MaxQueues \in Nat /\ numqueues \in 0..MaxQueues
        /\ response_q \in [Queries -> [Checks -> 0..MaxQueues]]
    BY Types DEF Base, TypeOK
  <1>2. response_q' = response_q
    BY LookupsAside DEF lookups
  <1>3. CASE \E match \in BOOLEAN : WriteEdict(q, match)
    <2>1. PICK k \in 1..MaxQueues : get_queue(k) /\ resultmq' = [resultmq EXCEPT ![q] = k]
      BY <1>3 DEF WriteEdict
    <2>2. edict' = [edict EXCEPT ![q] = 1]
      BY <1>3 DEF WriteEdict
    <2>3. numqueues' \in 0..MaxQueues /\ numqueues <= numqueues' /\ k <= numqueues'
      BY <2>1, NewNumber
    <2> QED
      BY <1>1, <1>2, <2>1, <2>2, <2>3 DEF RangeInv
  <1>4. ASSUME UNCHANGED <<resultmq, numqueues>>,
               \A p \in Queries : edict'[p] > 0 => edict[p] > 0
        PROVE  RangeInv'
    BY <1>1, <1>2, <1>4 DEF RangeInv
  <1>5. CASE edict_unlink(q) /\ UNCHANGED resultmq
    BY <1>1, <1>4, <1>5 DEF edict_unlink
  <1>6. CASE \E c \in Checks : Submit(q, c)
    <2>1. edict[q] > 0
      BY <1>6, HasEdict DEF Submit
    <2> QED
      BY <1>1, <1>4, <1>6, <2>1 DEF Submit, queues
  <1>7. CASE UNCHANGED <<resultmq, numqueues, edict>>
    BY <1>4, <1>7
  <1> QED
    BY <1>3, <1>5, <1>6, <1>7 DEF queues, Step, test_tuple, Check, MaskFails, NoChecks, WriteEdict,
       SumUp, Submit, StartWait, ReceiveResult, Expire, QueryUnlinks, Update, Respond, Run,
       SendNull, SendEarly, SendFinal, CheckReturns, ThreadUnlinks

LEMMA RangeAppend ==
  ASSUME NEW S, NEW s \in Seq(S), NEW e \in S
  PROVE  Range(Append(s, e)) = Range(s) \cup {e}
  <1>1. /\ Len(s) \in Nat /\ DOMAIN s = 1..Len(s)
        /\ DOMAIN Append(s, e) = 1..(Len(s) + 1)
        /\ Append(s, e)[Len(s) + 1] = e
        /\ \A i \in 1..Len(s) : Append(s, e)[i] = s[i]
    OBVIOUS
  <1>2. PICK n \in Nat : n = Len(s)
    BY <1>1
  <1>3. PICK t : t = Append(s, e)
    OBVIOUS
  <1>4. /\ DOMAIN s = 1..n /\ DOMAIN t = 1..(n + 1) /\ t[n + 1] = e
        /\ \A i \in 1..n : t[i] = s[i]
    BY <1>1, <1>2, <1>3
  <1>5. Range(t) = Range(s) \cup {e}
    BY <1>4 DEF Range
  <1> QED
    BY <1>3, <1>5

(* A queue that get_queue() hands out is nobody else's and empty. *)
LEMMA GetQueue ==
  ASSUME Base, QueueInv, Home, LookupInv, NEW k \in 1..MaxQueues, get_queue(k)
  PROVE  /\ ~Owned(k) /\ mq[k] = <<>>
         /\ k \notin Range(metaqueue')
         /\ \A i \in Range(metaqueue) : i = k \/ i \in Range(metaqueue')
         /\ Range(metaqueue') \subseteq Range(metaqueue)
         /\ \A i, j \in 1..Len(metaqueue') : metaqueue'[i] = metaqueue'[j] => i = j
  <1>1. /\ MaxQueues \in Nat /\ numqueues \in 0..MaxQueues /\ metaqueue \in Seq(1..numqueues)
        /\ resultmq \in [Queries -> 0..MaxQueues]
        /\ response_q \in [Queries -> [Checks -> 0..MaxQueues]]
    BY Types DEF Base, TypeOK
  <1>2. CASE metaqueue # <<>>
    <2>1. k = Head(metaqueue) /\ metaqueue' = Tail(metaqueue) /\ numqueues' = numqueues
      BY <1>2 DEF get_queue
    <2>2. PICK n \in Nat : Len(metaqueue) = n + 1
      <3>1. Len(metaqueue) \in Nat /\ Len(metaqueue) # 0
        BY <1>1, <1>2
      <3>2. Len(metaqueue) - 1 \in Nat /\ Len(metaqueue) = (Len(metaqueue) - 1) + 1
        BY <3>1
      <3> QED
        BY <3>2
    <2>3. /\ Len(metaqueue') = n
          /\ \A i \in 1..n : metaqueue'[i] = metaqueue[i + 1]
          /\ k = metaqueue[1]
      BY <1>1, <1>2, <2>1, <2>2
    <2>4. \A i, j \in 1..(n + 1) : metaqueue[i] = metaqueue[j] => i = j
      BY <1>1, <2>2 DEF QueueInv
    <2>5. /\ Range(metaqueue) = {metaqueue[i] : i \in 1..(n + 1)}
          /\ Range(metaqueue') = {metaqueue[i + 1] : i \in 1..n}
      <3>1. /\ DOMAIN metaqueue = 1..(n + 1) /\ DOMAIN metaqueue' = 1..n
            /\ metaqueue' \in Seq(1..numqueues)
        BY <1>1, <1>2, <2>1, <2>2, <2>3
      <3> QED
        BY <2>3, <3>1 DEF Range
    <2>6. k \in Range(metaqueue) /\ k \in 1..numqueues
      BY <1>1, <2>2, <2>3, <2>5
    <2>7. k \notin Range(metaqueue')
      BY <2>3, <2>4, <2>5
    <2>8. \A i \in Range(metaqueue) : i = k \/ i \in Range(metaqueue')
      <3>1. TAKE e \in Range(metaqueue)
      <3>2. PICK i \in 1..(n + 1) : e = metaqueue[i]
        BY <2>5
      <3>3. CASE i = 1
        BY <2>3, <3>2, <3>3
      <3>4. CASE i # 1
        <4>1. i - 1 \in 1..n /\ (i - 1) + 1 = i
          BY <3>4
        <4> QED
          BY <2>5, <3>2, <4>1
      <3> QED
        BY <3>3, <3>4
    <2>9. \A i, j \in 1..Len(metaqueue') : metaqueue'[i] = metaqueue'[j] => i = j
      BY <2>3, <2>4
    <2>10. Range(metaqueue') \subseteq Range(metaqueue)
      BY <2>5
    <2>11. ~Owned(k)
      <3>1. \A p \in Queries : edict[p] > 0 => resultmq[p] # k
        BY <2>6 DEF Home
      <3>2. \A p \in Queries : \A c \in Checks : response_q[p][c] # k
        BY <2>6 DEF LookupInv, Waits
      <3> QED
        BY <3>1, <3>2 DEF Owned
    <2>12. mq[k] = <<>>
      BY <2>11 DEF QueueInv
    <2> QED
      BY <2>7, <2>8, <2>9, <2>10, <2>11, <2>12
  <1>3. CASE metaqueue = <<>>
    <2>1. k = numqueues + 1 /\ numqueues' = k /\ metaqueue' = metaqueue
      BY <1>3 DEF get_queue
    <2>2. Range(metaqueue) = {} /\ Range(metaqueue') = {} /\ Len(metaqueue') = 0
      BY <1>3, <2>1 DEF Range
    <2>3. ~Owned(k)
      BY <1>1, <2>1 DEF Owned, Base, RangeInv
    <2>4. mq[k] = <<>>
      BY <2>3 DEF QueueInv
    <2> QED
      BY <2>1, <2>2, <2>3, <2>4
  <1> QED
    BY <1>2, <1>3

(* Every queue is in the metaqueue or has one edict, and holds what was    *)
(* sent for that.                                                          *)
LEMMA QueueStep ==
  ASSUME Base, Sound, NEW q \in Queries, Step(q)
  PROVE  QueueInv' /\ Home'
  <1>0. response_q' = response_q
    BY LookupsAside DEF lookups
  <1>1. /\ QueueInv /\ Home /\ LookupInv /\ RangeInv
        /\ edict \in [Queries -> Nat]
        /\ resultmq \in [Queries -> 0..MaxQueues]
        /\ mq \in [1..MaxQueues -> Seq(Message)]
        /\ MaxQueues \in Nat /\ numqueues \in 0..MaxQueues /\ metaqueue \in Seq(1..numqueues)
        /\ job \in [Queries -> [Checks -> JobStates]]
    BY Types DEF Base, Sound
  <1>2. /\ \A c \in Checks : job[q][c] \in EdictStates => edict[q] > 0
        /\ pc[q] \in {"submit", "wait", "unlink"} => edict[q] > 0
    BY HasEdict
  <1>3. edict[q] > 0 => /\ resultmq[q] \in 1..MaxQueues /\ resultmq[q] \in 1..numqueues
                        /\ Results(q) \in Seq(Message)
                        /\ \A m \in Range(Results(q)) : Mine(q, m)
    BY <1>1 DEF RangeInv, Home, Results
  <1>4. ASSUME UNCHANGED <<resultmq, mq, metaqueue, numqueues>>,
               \A p \in Queries : edict'[p] > 0 <=> edict[p] > 0
        PROVE  QueueInv' /\ Home'
    <2>1. \A i : Owned(i)' <=> Owned(i)
      BY <1>0, <1>4 DEF Owned
    <2>2. QueueInv'
      BY <1>1, <1>4, <2>1 DEF QueueInv
    <2>3. Home'
      BY <1>0, <1>1, <1>4 DEF Home
    <2> QED
      BY <2>2, <2>3
  <1>5. ASSUME edict[q] > 0, NEW s \in Seq(Message), \A m \in Range(s) : Mine(q, m),
               mq' = [mq EXCEPT ![resultmq[q]] = s],
               UNCHANGED <<edict, resultmq, metaqueue, numqueues>>
        PROVE  QueueInv' /\ Home'
    <2>1. \A i : Owned(i)' <=> Owned(i)
      BY <1>0, <1>5 DEF Owned
    <2>2. Owned(resultmq[q])
      BY <1>5 DEF Owned
    <2>3. QueueInv'
      <3>1. \A i \in 1..MaxQueues : Owned(i)' \/ mq'[i] = <<>>
        BY <1>1, <1>5, <2>1, <2>2 DEF QueueInv
      <3> QED
        BY <1>1, <1>5, <2>1, <3>1 DEF QueueInv
    <2>4. Home'
      <3>1. mq'[resultmq[q]] = s
        BY <1>1, <1>3, <1>5
      <3>2. \A p \in Queries \ {q} : edict[p] > 0 => mq'[resultmq[p]] = mq[resultmq[p]]
        BY <1>1, <1>5, Types DEF Home
      <3> QED
        BY <1>0, <1>1, <1>5, <3>1, <3>2 DEF Home
    <2> QED
      BY <2>3, <2>4
  <1>6. ASSUME edict[q] > 0, NEW m \in Message, Mine(q, m), send_result(q, m),
               UNCHANGED <<edict, resultmq, metaqueue, numqueues>>
        PROVE  QueueInv' /\ Home'
    <2>1. PICK s : s = Append(Results(q), m)
      OBVIOUS
    <2>2. s \in Seq(Message) /\ mq' = [mq EXCEPT ![resultmq[q]] = s]
      BY <1>3, <1>6, <2>1 DEF send_result, Results
    <2>3. \A e \in Range(s) : Mine(q, e)
      BY <1>3, <1>6, <2>1 DEF Range
    <2> QED
      BY <1>5, <1>6, <2>2, <2>3
  <1>7. ASSUME edict[q] > 0, edict_unlink(q), UNCHANGED resultmq
        PROVE  QueueInv' /\ Home'
    <2>1. edict' = [edict EXCEPT ![q] = edict[q] - 1] /\ numqueues' = numqueues
      BY <1>1, <1>7 DEF edict_unlink
    <2>2. CASE edict[q] > 1
      <3>1. UNCHANGED <<mq, metaqueue>>
        BY <1>7, <2>2 DEF edict_unlink, Flush
      <3>2. \A p \in Queries : edict'[p] > 0 <=> edict[p] > 0
        BY <1>1, <2>1, <2>2
      <3> QED
        BY <1>4, <1>7, <2>1, <3>1, <3>2
    <2>3. CASE ~(edict[q] > 1)
      <3>1. PICK k : k = resultmq[q]
        OBVIOUS
      <3>2. /\ mq' = [mq EXCEPT ![k] = <<>>]
            /\ metaqueue' = Append(metaqueue, k)
            /\ k \in 1..MaxQueues /\ k \in 1..numqueues
        BY <1>3, <1>7, <2>3, <3>1 DEF edict_unlink, Flush
      <3>3. /\ Len(metaqueue') = Len(metaqueue) + 1 /\ Len(metaqueue) \in Nat
            /\ metaqueue'[Len(metaqueue) + 1] = k
            /\ \A i \in 1..Len(metaqueue) : metaqueue'[i] = metaqueue[i]
            /\ Range(metaqueue') = Range(metaqueue) \cup {k}
        <4>1. metaqueue \in Seq(1..numqueues) /\ k \in 1..numqueues
          BY <1>1, <3>2
        <4>2. PICK S : S = 1..numqueues
          OBVIOUS
        <4>3. PICK s \in Seq(S) : s = metaqueue
          BY <4>1, <4>2
        <4>4. k \in S
          BY <4>1, <4>2
        <4>5. Range(Append(s, k)) = Range(s) \cup {k}
          BY <4>4, RangeAppend
        <4>6. Range(metaqueue') = Range(metaqueue) \cup {k}
          BY <3>2, <4>3, <4>5
        <4> QED
          BY <1>1, <3>2, <4>6
      <3>4. edict'[q] = 0 /\ \A p \in Queries \ {q} : edict'[p] = edict[p]
        BY <1>1, <1>7, <2>1, <2>3
      <3>5. k \notin Range(metaqueue) /\ \A p \in Queries \ {q} : edict[p] > 0 => resultmq[p] # k
        BY <1>1, <1>7, <3>1 DEF Home
      <3>6. \A i : i # k => (Owned(i)' <=> Owned(i))
        BY <1>0, <1>1, <1>7, <3>1, <3>4 DEF Owned
      <3>7. QueueInv'
        <4>2. \A i, j \in 1..Len(metaqueue') : metaqueue'[i] = metaqueue'[j] => i = j
          <5>1. \A i \in 1..Len(metaqueue) : metaqueue[i] # k
            BY <1>1, <3>5 DEF Range
          <5>2. \A i, j \in 1..Len(metaqueue) : metaqueue[i] = metaqueue[j] => i = j
            BY <1>1 DEF QueueInv
          <5> QED
            BY <3>3, <5>1, <5>2
        <4>3. \A i \in 1..numqueues' : Owned(i)' \/ i \in Range(metaqueue')
          BY <1>1, <2>1, <3>3, <3>6 DEF QueueInv
        <4>4. \A i \in 1..MaxQueues : Owned(i)' \/ mq'[i] = <<>>
          BY <1>1, <3>2, <3>6 DEF QueueInv
        <4> QED
          BY <4>2, <4>3, <4>4 DEF QueueInv
      <3>8. Home'
        <4>1. \A p \in Queries \ {q} : edict[p] > 0 => mq'[resultmq[p]] = mq[resultmq[p]]
          BY <1>1, <3>2, <3>5, Types
        <4>2. ASSUME NEW p \in Queries, edict'[p] > 0
              PROVE  /\ p # q /\ edict[p] > 0
                     /\ mq'[resultmq'[p]] = mq[resultmq[p]]
                     /\ resultmq'[p] \notin Range(metaqueue')
          BY <1>1, <1>7, <3>3, <3>4, <3>5, <4>1, <4>2 DEF Home
        <4>3. \A p \in Queries : edict'[p] > 0 =>
                 /\ \A m \in Range(mq'[resultmq'[p]]) : Mine(p, m)
                 /\ \A r \in Queries \ {p} : edict'[r] > 0 => resultmq'[r] # resultmq'[p]
          BY <1>1, <1>7, <4>2 DEF Home
        <4>4. \A p \in Queries : edict'[p] > 0 =>
                 \A r \in Queries : \A c \in Checks : response_q'[r][c] # resultmq'[p]
          BY <1>0, <1>1, <1>7, <4>2 DEF Home
        <4> QED
          BY <4>2, <4>3, <4>4 DEF Home
      <3> QED
        BY <3>7, <3>8
    <2> QED
      BY <2>2, <2>3
  <1>8. CASE \E match \in BOOLEAN : WriteEdict(q, match)
    <2>1. PICK k \in 1..MaxQueues : get_queue(k) /\ resultmq' = [resultmq EXCEPT ![q] = k]
      BY <1>8 DEF WriteEdict
    <2>2. edict' = [edict EXCEPT ![q] = 1] /\ mq' = mq /\ pc[q] = "idle"
      BY <1>8 DEF WriteEdict
    <2>3. edict[q] = 0
      <3>1. Jobs(q, EdictStates) = {}
        BY <1>1, <2>2 DEF Base, Sound, JobInv, Jobs, EdictStates
      <3>2. edict[q] = Cardinality(Jobs(q, EdictStates)) + Own(q)
        BY HolderSets DEF Base, Sound, EdictInv, EdictStates
      <3> QED
        BY <2>2, <3>1, <3>2, FS_EmptySet DEF Own
    <2>4. /\ numqueues' \in 0..MaxQueues /\ numqueues <= numqueues' /\ k <= numqueues'
          /\ ~Owned(k) /\ mq[k] = <<>>
          /\ k \notin Range(metaqueue')
          /\ \A i \in 1..numqueues' : i # k => i \in 1..numqueues
          /\ \A i \in Range(metaqueue) : i = k \/ i \in Range(metaqueue')
          /\ Range(metaqueue') \subseteq Range(metaqueue)
          /\ \A i, j \in 1..Len(metaqueue') : metaqueue'[i] = metaqueue'[j] => i = j
      BY <1>1, <2>1, NewNumber, GetQueue
    <2>5. /\ resultmq'[q] = k /\ edict'[q] = 1
          /\ \A p \in Queries \ {q} : resultmq'[p] = resultmq[p] /\ edict'[p] = edict[p]
      BY <1>1, <2>1, <2>2
    <2>6. \A i : Owned(i)' <=> i = k \/ Owned(i)
      <3>1. Owned(k)'
        BY <2>5 DEF Owned
      <3>2. ASSUME NEW i, Owned(i)', i # k
            PROVE  Owned(i)
        BY <1>0, <2>5, <3>2 DEF Owned
      <3>3. ASSUME NEW i, Owned(i)
            PROVE  Owned(i)'
        <4>1. ASSUME NEW p \in Queries, edict[p] > 0, resultmq[p] = i
              PROVE  Owned(i)'
          <5>1. p # q
            BY <2>3, <4>1
          <5> QED
            BY <2>5, <4>1, <5>1 DEF Owned
        <4>2. ASSUME NEW p \in Queries, NEW c \in Checks, response_q[p][c] = i
              PROVE  Owned(i)'
          BY <1>0, <4>2 DEF Owned
        <4> QED
          BY <3>3, <4>1, <4>2 DEF Owned
      <3> QED
        BY <3>1, <3>2, <3>3
    <2>7. ~Owned(k) /\ mq[k] = <<>>
      BY <2>4
    <2>8. QueueInv'
      <3>2. \A i \in 1..numqueues' : Owned(i)' \/ i \in Range(metaqueue')
        BY <1>1, <2>4, <2>6 DEF QueueInv
      <3>3. \A i \in 1..MaxQueues : Owned(i)' \/ mq'[i] = <<>>
        BY <1>1, <2>2, <2>6 DEF QueueInv
      <3> QED
        BY <2>4, <3>2, <3>3 DEF QueueInv
    <2>9. Home'
      <3>1. Range(mq'[k]) = {}
        BY <2>2, <2>7 DEF Range
      <3>2. /\ \A p \in Queries : edict[p] > 0 => resultmq[p] # k
            /\ \A p \in Queries : \A c \in Checks : response_q[p][c] # k
        BY <2>7 DEF Owned
      <3>3. \A p \in Queries : edict'[p] > 0 =>
               /\ \A m \in Range(mq'[resultmq'[p]]) : Mine(p, m)
               /\ resultmq'[p] \notin Range(metaqueue')
        BY <1>1, <2>2, <2>4, <2>5, <3>1 DEF Home
      <3>4. \A p \in Queries : edict'[p] > 0 =>
               \A r \in Queries \ {p} : edict'[r] > 0 => resultmq'[r] # resultmq'[p]
        <4>1. TAKE p \in Queries
        <4>2. HAVE edict'[p] > 0
        <4>3. TAKE r \in Queries \ {p}
        <4>4. HAVE edict'[r] > 0
        <4>5. CASE p = q \/ r = q
          BY <2>5, <3>2, <4>2, <4>4, <4>5
        <4>6. CASE p # q /\ r # q
          BY <1>1, <2>5, <4>2, <4>4, <4>6 DEF Home
        <4> QED
          BY <4>5, <4>6
      <3>5. \A p \in Queries : edict'[p] > 0 =>
               \A r \in Queries : \A c \in Checks : response_q'[r][c] # resultmq'[p]
        <4>1. TAKE p \in Queries
        <4>2. HAVE edict'[p] > 0
        <4>3. CASE p = q
          BY <1>0, <2>5, <3>2, <4>3
        <4>4. CASE p # q
          BY <1>0, <1>1, <2>5, <4>2, <4>4 DEF Home
        <4> QED
          BY <4>3, <4>4
      <3> QED
        BY <3>3, <3>4, <3>5 DEF Home
    <2> QED
      BY <2>8, <2>9
  <1>9. CASE ReceiveResult(q)
    <2>1. /\ pc[q] = "wait" /\ Results(q) # <<>>
          /\ mq' = [mq EXCEPT ![resultmq[q]] = Tail(Results(q))]
          /\ UNCHANGED <<edict, resultmq, metaqueue, numqueues>>
      BY <1>1, <1>9 DEF ReceiveResult, Waiting, Results
    <2>2. PICK s : s = Tail(Results(q))
      OBVIOUS
    <2>3. s \in Seq(Message) /\ \A m \in Range(s) : Mine(q, m)
      BY <1>2, <1>3, <2>1, <2>2 DEF Range
    <2> QED
      BY <1>2, <1>5, <2>1, <2>2, <2>3
  <1>10. ASSUME NEW c \in Checks, Submit(q, c)
         PROVE  QueueInv' /\ Home'
    BY <1>1, <1>2, <1>4, <1>10 DEF Submit, queues
  <1>11. CASE \E match \in BOOLEAN : MaskFails(q) \/ NoChecks(q, match) \/ SumUp(q, match)
    BY <1>4, <1>11 DEF MaskFails, NoChecks, SumUp, queues
  <1>12. CASE StartWait(q) \/ Expire(q) \/ Update(q) \/ Respond(q)
    BY <1>4, <1>12 DEF StartWait, Expire, Update, Respond, queues
  <1>13. CASE QueryUnlinks(q)
    BY <1>2, <1>7, <1>13 DEF QueryUnlinks
  <1>14. ASSUME NEW c \in Checks, Run(q, c) \/ CheckReturns(q, c)
         PROVE  QueueInv' /\ Home'
    BY <1>4, <1>14 DEF Run, CheckReturns, queues
  <1>15. ASSUME NEW c \in Checks, SendNull(q, c)
         PROVE  QueueInv' /\ Home'
    <2>1. NullMsg(q) \in Message /\ Mine(q, NullMsg(q))
      BY DEF NullMsg, Mine, Message, J_UNDEFINED, J_PASS
    <2> QED
      BY <1>2, <1>6, <1>15, <2>1 DEF SendNull, EdictStates
  <1>16. ASSUME NEW c \in Checks, NEW r \in Early(c), SendEarly(q, c, r)
         PROVE  QueueInv' /\ Home'
    <2>1. Msg(q, r, TRUE) \in Message /\ Mine(q, Msg(q, r, TRUE))
      BY Answers DEF Msg, Mine, Message, Result
    <2> QED
      BY <1>2, <1>6, <1>16, <2>1 DEF SendEarly, EdictStates
  <1>17. ASSUME NEW c \in Checks, NEW r \in Final(c), SendFinal(q, c, r)
         PROVE  QueueInv' /\ Home'
    <2>1. Msg(q, r, FALSE) \in Message /\ Mine(q, Msg(q, r, FALSE))
      BY Answers DEF Msg, Mine, Message, Result
    <2> QED
      BY <1>2, <1>6, <1>17, <2>1 DEF SendFinal, EdictStates
  <1>18. ASSUME NEW c \in Checks, ThreadUnlinks(q, c)
         PROVE  QueueInv' /\ Home'
    BY <1>2, <1>7, <1>18 DEF ThreadUnlinks, EdictStates
  <1> QED
    BY <1>8, <1>9, <1>10, <1>11, <1>12, <1>13, <1>14, <1>15, <1>16, <1>17, <1>18
       DEF Step, test_tuple, Check

(* The lookups' queues are out of reach of queries and checks. *)
LEMMA LookupKept ==
  ASSUME Base, Sound, NEW q \in Queries, Step(q)
  PROVE  LookupInv'
  <1>1. /\ Home /\ LookupInv
        /\ mq \in [1..MaxQueues -> Seq(Message)]
        /\ resultmq \in [Queries -> 0..MaxQueues]
        /\ response_q \in [Queries -> [Checks -> 0..MaxQueues]]
        /\ requests \in SUBSET Lookups /\ cb \in SUBSET Lookups
    BY Types DEF Base, TypeOK, Sound
  <1>2. UNCHANGED <<response_q, requests, cb>>
    BY LookupsAside DEF lookups
  <1>3. /\ \A c \in Checks : job[q][c] \in EdictStates => edict[q] > 0
        /\ pc[q] \in {"wait", "unlink"} => edict[q] > 0
    BY HasEdict
  <1>4. mq' = mq \/ (\E s : mq' = [mq EXCEPT ![resultmq[q]] = s] /\ edict[q] > 0)
    BY <1>1, <1>3 DEF Step, test_tuple, Check, MaskFails, NoChecks, WriteEdict, SumUp, Submit,
       StartWait, ReceiveResult, Expire, QueryUnlinks, Update, Respond, Run, SendNull,
       SendEarly, SendFinal, CheckReturns, ThreadUnlinks, edict_unlink, Flush, send_result,
       queues, Waiting, EdictStates
  <1>5. \A i \in Range(metaqueue') : i \in Range(metaqueue) \/ (edict[q] > 0 /\ i = resultmq[q])
    <2>1. CASE \E match \in BOOLEAN : WriteEdict(q, match)
      <3>1. PICK k \in 1..MaxQueues : get_queue(k)
        BY <2>1 DEF WriteEdict
      <3>2. Range(metaqueue') \subseteq Range(metaqueue)
        BY <3>1, GetQueue DEF Sound
      <3> QED
        BY <3>2
    <2>2. CASE edict_unlink(q) /\ edict[q] > 0
      <3>1. CASE metaqueue' = Append(metaqueue, resultmq[q])
        <4>1. PICK S : S = 1..numqueues
          OBVIOUS
        <4>2. metaqueue \in Seq(S) /\ resultmq[q] \in S
          BY <2>2, <4>1, Types DEF Base, RangeInv
        <4>3. Range(Append(metaqueue, resultmq[q])) = Range(metaqueue) \cup {resultmq[q]}
          BY <4>2, RangeAppend
        <4> QED
          BY <2>2, <3>1, <4>3
      <3>2. CASE metaqueue' = metaqueue
        BY <3>2
      <3> QED
        BY <2>2, <3>1, <3>2 DEF edict_unlink, Flush
    <2>3. CASE UNCHANGED metaqueue
      BY <2>3
    <2> QED
      BY <1>3, <2>1, <2>2, <2>3 DEF Step, test_tuple, Check, MaskFails, NoChecks, WriteEdict,
         SumUp, Submit, StartWait, ReceiveResult, Expire, QueryUnlinks, Update, Respond, Run,
         SendNull, SendEarly, SendFinal, CheckReturns, ThreadUnlinks, queues, EdictStates
  <1>6. ASSUME NEW p \in Queries, NEW c \in Checks, response_q[p][c] # 0
        PROVE  /\ response_q[p][c] \notin Range(metaqueue')
               /\ mq'[response_q[p][c]] = mq[response_q[p][c]]
    <2>1. edict[q] > 0 => response_q[p][c] # resultmq[q]
      BY <1>1 DEF Home
    <2>2. response_q[p][c] \notin Range(metaqueue) /\ response_q[p][c] \in 1..MaxQueues
      BY <1>1, <1>6, Types DEF LookupInv, Waits
    <2> QED
      BY <1>1, <1>4, <1>5, <2>1, <2>2
  <1>7. \A p \in Queries : \A c \in Checks : Waits(p, c)'
    BY <1>1, <1>2, <1>6 DEF LookupInv, Waits
  <1>8. ASSUME NEW r \in requests \cup cb
        PROVE  Underway(r)'
    <2>1. /\ r.q \in Queries /\ r.c \in Checks /\ r.mq \in 1..MaxQueues
          /\ Underway(r)
      BY <1>1 DEF LookupInv, Lookups, Askers
    <2>2. response_q[r.q][r.c] # 0
      BY <2>1 DEF Underway
    <2>3. mq'[r.mq] = mq[r.mq]
      BY <1>6, <2>1, <2>2 DEF Underway
    <2> QED
      BY <1>2, <2>1, <2>3 DEF Underway
  <1> QED
    BY <1>1, <1>2, <1>7, <1>8 DEF LookupInv

-----------------------------------------------------------------------------
(* A step of q leaves alone what another query p has. *)
Same(p) ==
    /\ UNCHANGED <<checklist, block_threshold, pc[p], ta[p], checks_running[p], judgment[p],
                   susp_weight[p], definitive[p], status[p], request[p], edict[p], resultmq[p],
                   job[p], total[p]>>
    /\ edict[p] > 0 => Results(p)' = Results(p)

LEMMA Others ==
  ASSUME Base, Sound, NEW q \in Queries, Step(q), NEW p \in Queries, p # q
  PROVE  Same(p)
  <1>1. /\ checklist \in Checklists
        /\ pc \in [Queries -> {"idle", "submit", "wait", "unlink", "update", "respond", "done"}]
        /\ ta \in [Queries -> 0..Timeouts]
        /\ checks_running \in [Queries -> 0..Cardinality(Checks)]
        /\ judgment \in [Queries -> J_UNDEFINED..J_PASS]
        /\ susp_weight \in [Queries -> Nat]
        /\ definitive \in [Queries -> BOOLEAN]
        /\ status \in [Queries -> {"UNKNOWN", "FAIL", "TRUST", "MATCH", "GREY", "BLOCK"}]
        /\ total \in [Queries -> Result]
    BY DEF Base, Sound, TypeOK
  <1>2. /\ edict \in [Queries -> Nat] /\ request \in [Queries -> Nat]
        /\ resultmq \in [Queries -> 0..MaxQueues]
        /\ mq \in [1..MaxQueues -> Seq(Message)]
        /\ job \in [Queries -> [Checks -> JobStates]]
    BY Types
  <1>3. UNCHANGED <<checklist, block_threshold>>
    BY DEF Step, test_tuple, Check, MaskFails, NoChecks, WriteEdict, SumUp, Submit, StartWait,
           ReceiveResult, Expire, QueryUnlinks, Update, Respond, Run, SendNull, SendEarly,
           SendFinal, CheckReturns, ThreadUnlinks, config
  <1>4. pc'[p] = pc[p] /\ ta'[p] = ta[p] /\ checks_running'[p] = checks_running[p]
    BY <1>1 DEF Step, test_tuple, Check, MaskFails, NoChecks, WriteEdict, SumUp, Submit,
           StartWait, ReceiveResult, Expire, QueryUnlinks, Update, Respond, Run, SendNull,
           SendEarly, SendFinal, CheckReturns, ThreadUnlinks, local
  <1>5. judgment'[p] = judgment[p] /\ susp_weight'[p] = susp_weight[p]
    BY <1>1 DEF Step, test_tuple, Check, MaskFails, NoChecks, WriteEdict, SumUp, Submit,
           StartWait, ReceiveResult, Expire, QueryUnlinks, Update, Respond, Run, SendNull,
           SendEarly, SendFinal, CheckReturns, ThreadUnlinks, local
  <1>6. definitive'[p] = definitive[p] /\ status'[p] = status[p]
    BY <1>1 DEF Step, test_tuple, Check, MaskFails, NoChecks, WriteEdict, SumUp, Submit,
           StartWait, ReceiveResult, Expire, QueryUnlinks, Update, Respond, Run, SendNull,
           SendEarly, SendFinal, CheckReturns, ThreadUnlinks, local
  <1>7. request'[p] = request[p] /\ edict'[p] = edict[p]
    BY <1>2 DEF Step, test_tuple, Check, MaskFails, NoChecks, WriteEdict, SumUp, Submit,
           StartWait, ReceiveResult, Expire, QueryUnlinks, Update, Respond, Run, SendNull,
           SendEarly, SendFinal, CheckReturns, ThreadUnlinks, edict_unlink, request_unlink
  <1>8. resultmq'[p] = resultmq[p]
    BY <1>2 DEF Step, test_tuple, Check, MaskFails, NoChecks, WriteEdict, SumUp, Submit,
           StartWait, ReceiveResult, Expire, QueryUnlinks, Update, Respond, Run, SendNull,
           SendEarly, SendFinal, CheckReturns, ThreadUnlinks
  <1>9. job'[p] = job[p] /\ total'[p] = total[p]
    BY <1>1, <1>2 DEF Step, test_tuple, Check, MaskFails, NoChecks, WriteEdict, SumUp, Submit,
           StartWait, ReceiveResult, Expire, QueryUnlinks, Update, Respond, Run, SendNull,
           SendEarly, SendFinal, CheckReturns, ThreadUnlinks, checks, Count
  <1>10. edict[p] > 0 => Results(p)' = Results(p)
    <2>1. mq' = mq \/ (\E s : mq' = [mq EXCEPT ![resultmq[q]] = s] /\ edict[q] > 0)
      <3>1. /\ \A c \in Checks : job[q][c] \in EdictStates => edict[q] > 0
            /\ pc[q] \in {"wait", "unlink"} => edict[q] > 0
        BY HasEdict
      <3> QED
        BY <1>2, <3>1 DEF Step, test_tuple, Check, MaskFails, NoChecks, WriteEdict, SumUp, Submit,
           StartWait, ReceiveResult, Expire, QueryUnlinks, Update, Respond, Run, SendNull,
           SendEarly, SendFinal, CheckReturns, ThreadUnlinks, edict_unlink, Flush, send_result,
           queues, Waiting, EdictStates
    <2>2. edict[p] > 0 /\ edict[q] > 0 => resultmq[p] # resultmq[q] /\ resultmq[p] \in 1..MaxQueues
      BY Types DEF Base, Sound, Home
    <2> QED
      BY <1>2, <1>8, <2>1, <2>2 DEF Results
  <1> QED
    BY <1>3, <1>4, <1>5, <1>6, <1>7, <1>8, <1>9, <1>10 DEF Same

LEMMA OthersKeep ==
  ASSUME Base, Sound, ~aborted, NEW p \in Queries, Same(p)
  PROVE  QueryOK(p)'
  <1>1. QueryOK(p)
    BY DEF Base, Sound
  <1>2. /\ \A states : Jobs(p, states)' = Jobs(p, states)
        /\ Past(p)' = Past(p) /\ Sent(p)' = Sent(p) /\ HoldsRequest(p)' = HoldsRequest(p)
    BY DEF Same, Jobs, Past, Sent, HoldsRequest
  <1>3. Alive(p)' = Alive(p) /\ SoFar(p)' = SoFar(p)
    BY DEF Same, Alive, SoFar
  <1>4. Loose(p)' = Loose(p)
    BY <1>2, <1>3 DEF Same, Loose
  <1>5. RequestOK(p)'
    BY <1>1, <1>2, <1>4 DEF QueryOK, RequestOK, Same
  <1>6. SumOK(p)'
    BY <1>1, <1>3 DEF QueryOK, SumOK, Same
  <1>7. LastOK(p)'
    BY <1>1, <1>2 DEF QueryOK, LastOK, Same
  <1>8. RunningOK(p)'
    <2>1. pc[p] \in {"submit", "wait"} => edict[p] > 0
      BY HasEdict
    <2> QED
      BY <1>1, <1>2, <2>1 DEF QueryOK, RunningOK, Same
  <1>9. DecisionOK(p)'
    <2>1. \A j, w : (Decided(j, w)' <=> Decided(j, w))
                 /\ \A match : Verdict(j, w, match)' = Verdict(j, w, match)
      BY DEF Same, Decided, Verdict, definitives_running
    <2> QED
      BY <1>1, <1>2, <1>3, <2>1 DEF QueryOK, DecisionOK, Same, Decided, Verdict,
         definitives_running
  <1> QED
    BY <1>5, <1>6, <1>7, <1>8, <1>9 DEF QueryOK

-----------------------------------------------------------------------------
RequestStates == {"queued", "running", "sent"}
PastStates    == {"unlink", "done"}

(* The message queue of q after one of its checks has sent something. *)
LEMMA AfterSend ==
  ASSUME Base, NEW q \in Queries, edict[q] > 0, NEW m \in Message, send_result(q, m),
         UNCHANGED <<edict, resultmq>>
  PROVE  /\ Results(q)' = Append(Results(q), m)
         /\ Results(q) \in Seq(Message)
         /\ Cardinality(Nulls(Results(q)')) =
               Cardinality(Nulls(Results(q))) + (IF m.null THEN 1 ELSE 0)
         /\ Cardinality(Finals(Results(q)')) =
               Cardinality(Finals(Results(q))) + (IF m.wait THEN 0 ELSE 1)
  <1>1. Results(q)' = Append(Results(q), m) /\ Results(q) \in Seq(Message)
    BY Types DEF send_result, Results
  <1>2. PICK s \in Seq(Message) : s = Results(q)
    BY <1>1
  <1>3. /\ Cardinality(Nulls(Append(s, m))) = Cardinality(Nulls(s)) + (IF m.null THEN 1 ELSE 0)
        /\ Cardinality(Finals(Append(s, m))) = Cardinality(Finals(s)) + (IF m.wait THEN 0 ELSE 1)
    BY Arrives
  <1> QED
    BY <1>1, <1>2, <1>3, Zenon

(* What the last one who drops an edict leaves, and what another one does. *)
LEMMA AfterUnlink ==
  ASSUME Base, Sound, ~aborted, NEW q \in Queries, edict[q] > 0, edict_unlink(q), UNCHANGED resultmq
  PROVE  /\ edict'[q] = edict[q] - 1
         /\ edict[q] > 1 => Results(q)' = Results(q) /\ aborted' = aborted
         /\ edict'[q] = 0 /\ ~aborted' => Cardinality(Nulls(Results(q))) = 0
  <1>1. edict'[q] = edict[q] - 1
    BY Types DEF edict_unlink
  <1>2. edict[q] > 1 => Results(q)' = Results(q) /\ aborted' = aborted
    BY DEF edict_unlink, Flush, Results
  <1>3. ASSUME edict'[q] = 0, ~aborted'
        PROVE  Cardinality(Nulls(Results(q))) = 0
    <2>1. ~(edict[q] > 1)
      BY <1>1, <1>3, Types
    <2>2. aborted' = (\E m \in Range(Results(q)) : m.null)
      BY <2>1, Zenon DEF edict_unlink, Flush, Results
    <2>3. PICK s \in Seq(Message) : s = Results(q)
      BY Types
    <2>4. ~\E m \in Range(s) : m.null
      BY <1>3, <2>2, <2>3, Zenon
    <2> QED
      BY <2>3, <2>4, NoNulls, Zenon
  <1> QED
    BY <1>1, <1>2, <1>3

(* A new edict gets an empty queue. *)
LEMMA NewQueue ==
  ASSUME Base, Sound, NEW q \in Queries, NEW match \in BOOLEAN, WriteEdict(q, match)
  PROVE  /\ edict[q] = 0 /\ resultmq[q] = 0 /\ resultmq'[q] # 0
         /\ Results(q)' = <<>>
         /\ \A c \in Checks : job[q][c] = "none"
  <1>1. PICK k \in 1..MaxQueues : get_queue(k) /\ resultmq' = [resultmq EXCEPT ![q] = k]
    BY DEF WriteEdict
  <1>2. pc[q] = "idle" /\ mq' = mq
    BY DEF WriteEdict
  <1>3. resultmq[q] = 0 /\ \A c \in Checks : job[q][c] = "none"
    BY <1>2, Types DEF Base, Sound, JobInv
  <1>4. edict[q] = 0
    <2>1. edict[q] \in Nat
      BY Types
    <2>2. ~(edict[q] > 0)
      BY <1>3 DEF Base, RangeInv
    <2> QED
      BY <2>1, <2>2
  <1>5. mq[k] = <<>>
    BY <1>1, GetQueue DEF Sound
  <1> QED
    BY <1>1, <1>2, <1>3, <1>4, <1>5, Types DEF Results

LEMMA RequestStep ==
  ASSUME Base, Sound, ~aborted, NEW q \in Queries, Step(q)
  PROVE  RequestOK(q)'
  <1>1. /\ request \in [Queries -> Nat] /\ edict \in [Queries -> Nat]
        /\ job \in [Queries -> [Checks -> JobStates]]
        /\ pc \in [Queries -> {"idle", "submit", "wait", "unlink", "update", "respond", "done"}]
        /\ \A states : Cardinality(Jobs(q, states)) \in Nat
        /\ edict[q] > 0 => Results(q) \in Seq(Message) /\ resultmq[q] \in 1..MaxQueues
    BY Types DEF Base, Sound, TypeOK
  <1>2. /\ Loose(q) = request[q] - Cardinality(Jobs(q, RequestStates)) - Alive(q)
        /\ Loose(q)' = request'[q] - Cardinality(Jobs(q, RequestStates)') - Alive(q)'
        /\ Past(q) = Jobs(q, PastStates) /\ Past(q)' = Jobs(q, PastStates)'
    BY HolderSets DEF Loose, RequestStates, Past, PastStates
  <1>3. /\ Loose(q) \in 0..Cardinality(Jobs(q, PastStates))
        /\ edict[q] > 0 => Loose(q) = Cardinality(Nulls(Results(q)))
        /\ edict[q] = 0 => Loose(q) = 0
    BY <1>2 DEF Base, Sound, QueryOK, RequestOK
  <1>4. ASSUME Loose(q)' \in 0..Cardinality(Jobs(q, PastStates)'),
               edict'[q] > 0 => Loose(q)' = Cardinality(Nulls(Results(q)')),
               edict'[q] = 0 /\ ~aborted' => Loose(q)' = 0
        PROVE  RequestOK(q)'
    BY <1>2, <1>4 DEF RequestOK
  <1>5. /\ \A c \in Checks : job[q][c] \in EdictStates => edict[q] > 0
        /\ pc[q] \in {"submit", "wait", "unlink"} => edict[q] > 0
    BY HasEdict
  <1>6. ASSUME UNCHANGED <<request, job, edict, mq, resultmq, aborted>>, Alive(q)' = Alive(q)
        PROVE  RequestOK(q)'
    <2>1. \A states : Jobs(q, states)' = Jobs(q, states)
      BY <1>6, Alone
    <2>2. Results(q)' = Results(q)
      BY <1>6 DEF Results
    <2> QED
      BY <1>2, <1>3, <1>4, <1>6, <2>1, <2>2
  <1>7. CASE \E match \in BOOLEAN : MaskFails(q) \/ NoChecks(q, match) \/ SumUp(q, match)
    BY <1>1, <1>6, <1>7 DEF MaskFails, NoChecks, SumUp, queues, checks, Alive
  <1>8. CASE StartWait(q) \/ Expire(q) \/ Update(q)
    BY <1>1, <1>6, <1>8 DEF StartWait, Expire, Update, queues, checks, Alive
  <1>9. CASE \E match \in BOOLEAN : WriteEdict(q, match)
    <2>1. /\ pc[q] = "idle" /\ pc' = [pc EXCEPT ![q] = "submit"]
          /\ UNCHANGED <<request, job, aborted>> /\ edict' = [edict EXCEPT ![q] = 1]
      BY <1>9 DEF WriteEdict, checks
    <2>2. edict[q] = 0 /\ Results(q)' = <<>>
      BY <1>9, NewQueue
    <2>3. Loose(q) = 0 /\ Loose(q)' = Loose(q) /\ edict'[q] = 1
          /\ Jobs(q, PastStates)' = Jobs(q, PastStates)
      BY <1>1, <1>2, <1>3, <2>1, <2>2, Alone DEF Alive
    <2>4. Cardinality(Nulls(Results(q)')) = 0
      BY <2>2, EmptyQueue
    <2>5. Cardinality(Jobs(q, PastStates)') \in Nat
      BY <1>1, <2>3
    <2> QED
      BY <1>4, <2>3, <2>4, <2>5
  <1>10. ASSUME NEW c \in Checks, Submit(q, c)
         PROVE  RequestOK(q)'
    <2>1. /\ pc[q] = "submit" /\ pc' = pc /\ job[q][c] = "none"
          /\ job' = [job EXCEPT ![q][c] = "queued"]
          /\ request'[q] = request[q] + 1 /\ edict'[q] = edict[q] + 1
          /\ UNCHANGED <<mq, resultmq, aborted>>
      BY <1>1, <1>10 DEF Submit, queues
    <2>2. Cardinality(Jobs(q, RequestStates)') = Cardinality(Jobs(q, RequestStates)) + 1
      BY <2>1, Joins DEF RequestStates, JobStates
    <2>3. Cardinality(Jobs(q, PastStates)') = Cardinality(Jobs(q, PastStates))
      <3>1. "queued" \in JobStates /\ "queued" \notin PastStates /\ job[q][c] \notin PastStates
        BY <2>1 DEF PastStates, JobStates
      <3> QED
        BY <2>1, <3>1, Outside, Zenon
    <2>4. Alive(q)' = Alive(q) /\ Alive(q) \in 0..1 /\ Results(q)' = Results(q)
      BY <2>1 DEF Alive, Results
    <2>5. Loose(q)' = Loose(q)
      BY <1>1, <1>2, <2>1, <2>2, <2>4
    <2> QED
      BY <1>1, <1>3, <1>4, <1>5, <2>1, <2>3, <2>4, <2>5
  <1>11. CASE ReceiveResult(q)
    <2>1. /\ pc[q] = "wait" /\ pc' = pc /\ Results(q) # <<>>
          /\ Head(Results(q)).null => request'[q] = IF request[q] > 0 THEN request[q] - 1 ELSE 0
          /\ ~Head(Results(q)).null => request'[q] = request[q]
          /\ mq' = [mq EXCEPT ![resultmq[q]] = Tail(Results(q))]
          /\ UNCHANGED <<edict, resultmq, job>>
      BY <1>1, <1>11, Types DEF ReceiveResult, Waiting, Results, checks, request_unlink
    <2>2. edict[q] > 0
      BY <1>5, <2>1
    <2>3. Results(q)' = Tail(Results(q))
      BY <1>1, <2>1, <2>2, Types DEF Results
    <2>4. PICK s \in Seq(Message) : s = Results(q)
      BY <1>1, <2>2
    <2>5. /\ Cardinality(Nulls(s)) \in Nat
          /\ Cardinality(Nulls(Tail(s))) = Cardinality(Nulls(s)) - (IF Head(s).null THEN 1 ELSE 0)
          /\ Head(s).null => Cardinality(Nulls(s)) >= 1
      BY <2>1, <2>4, Taken
    <2>6. /\ Alive(q)' = Alive(q) /\ Alive(q) \in 0..1
          /\ \A states : Jobs(q, states)' = Jobs(q, states)
      BY <2>1, Alone DEF Alive
    <2>7. Loose(q)' = Cardinality(Nulls(Tail(s)))
      <3>1. Loose(q) = Cardinality(Nulls(s))
        BY <1>3, <2>2, <2>4
      <3>2. Head(s).null => request[q] > 0
        BY <1>1, <1>2, <2>5, <2>6, <3>1
      <3> QED
        BY <1>1, <1>2, <2>1, <2>4, <2>5, <2>6, <3>1, <3>2
    <2>8. Loose(q)' \in 0..Cardinality(Jobs(q, PastStates))
      BY <1>1, <1>3, <2>2, <2>4, <2>5, <2>7
    <2> QED
      BY <1>4, <2>1, <2>2, <2>3, <2>4, <2>6, <2>7, <2>8
  <1>12. CASE Respond(q)
    <2>1. /\ pc[q] = "respond" /\ pc' = [pc EXCEPT ![q] = "done"]
          /\ request'[q] = IF request[q] > 0 THEN request[q] - 1 ELSE 0
          /\ UNCHANGED <<edict, resultmq, job, mq>>
      BY <1>1, <1>12 DEF Respond, checks, queues, request_unlink
    <2>2. Alive(q) = 1 /\ Alive(q)' = 0 /\ Results(q)' = Results(q)
      BY <1>1, <2>1 DEF Alive, Results
    <2>3. \A states : Jobs(q, states)' = Jobs(q, states)
      BY <2>1, Alone
    <2>4. Loose(q)' = Loose(q)
      <3>1. request[q] > 0
        BY <1>1, <1>2, <1>3, <2>2
      <3> QED
        BY <1>1, <1>2, <2>1, <2>2, <2>3, <3>1
    <2> QED
      BY <1>3, <1>4, <2>1, <2>2, <2>3, <2>4
  <1>13. ASSUME NEW c \in Checks, Run(q, c)
         PROVE  RequestOK(q)'
    <2>1. /\ job[q][c] = "queued" /\ job' = [job EXCEPT ![q][c] = "running"]
          /\ UNCHANGED <<pc, request, edict, resultmq, mq, aborted>>
      BY <1>13 DEF Run, queues
    <2>2. Cardinality(Jobs(q, RequestStates)') = Cardinality(Jobs(q, RequestStates))
      BY <2>1, Stays DEF RequestStates, JobStates
    <2>3. Cardinality(Jobs(q, PastStates)') = Cardinality(Jobs(q, PastStates))
      <3>1. "running" \in JobStates /\ "running" \notin PastStates /\ job[q][c] \notin PastStates
        BY <2>1 DEF PastStates, JobStates
      <3> QED
        BY <2>1, <3>1, Outside, Zenon
    <2>4. Alive(q)' = Alive(q) /\ Results(q)' = Results(q)
      BY <2>1 DEF Alive, Results
    <2>5. Loose(q)' = Loose(q)
      BY <1>2, <2>1, <2>2, <2>4
    <2> QED
      BY <1>3, <1>4, <2>1, <2>3, <2>4, <2>5
  <1>14. ASSUME NEW c \in Checks, SendNull(q, c)
         PROVE  RequestOK(q)'
    <2>1. /\ job[q][c] \in {"queued", "running"} /\ job' = [job EXCEPT ![q][c] = "unlink"]
          /\ send_result(q, NullMsg(q))
          /\ UNCHANGED <<pc, request, edict, resultmq, aborted>>
      BY <1>14 DEF SendNull
    <2>2. NullMsg(q) \in Message /\ NullMsg(q).null
      BY DEF NullMsg, Message, J_UNDEFINED, J_PASS
    <2>3. edict[q] > 0
      BY <1>5, <2>1 DEF EdictStates
    <2>4. Cardinality(Nulls(Results(q)')) = Cardinality(Nulls(Results(q))) + 1
      BY <2>1, <2>2, <2>3, AfterSend
    <2>5. Cardinality(Jobs(q, RequestStates)') = Cardinality(Jobs(q, RequestStates)) - 1
      <3>1. "unlink" \in JobStates /\ "unlink" \notin RequestStates /\ job[q][c] \in RequestStates
        BY <2>1 DEF RequestStates, JobStates
      <3> QED
        BY <2>1, <3>1, Leaves, Zenon
    <2>6. Cardinality(Jobs(q, PastStates)') = Cardinality(Jobs(q, PastStates)) + 1
      BY <2>1, Joins DEF PastStates, JobStates
    <2>7. Alive(q)' = Alive(q) /\ Alive(q) \in 0..1
      BY <2>1 DEF Alive
    <2>8. Loose(q)' = Loose(q) + 1
      BY <1>1, <1>2, <2>1, <2>5, <2>7
    <2> QED
      BY <1>1, <1>3, <1>4, <2>1, <2>3, <2>4, <2>6, <2>8
  <1>15. ASSUME NEW c \in Checks, NEW r \in Early(c), SendEarly(q, c, r)
         PROVE  RequestOK(q)'
    <2>1. /\ job[q][c] = "running" /\ send_result(q, Msg(q, r, TRUE))
          /\ UNCHANGED <<pc, job, request, edict, resultmq, aborted>>
      BY <1>15 DEF SendEarly
    <2>2. Msg(q, r, TRUE) \in Message /\ ~Msg(q, r, TRUE).null
      BY Answers DEF Msg, Message, Result
    <2>3. edict[q] > 0
      BY <1>5, <2>1 DEF EdictStates
    <2>4. Cardinality(Nulls(Results(q)')) = Cardinality(Nulls(Results(q))) + 0
      BY <2>1, <2>2, <2>3, AfterSend
    <2>5. Alive(q)' = Alive(q) /\ \A states : Jobs(q, states)' = Jobs(q, states)
      BY <2>1, Alone DEF Alive
    <2>6. Loose(q)' = Loose(q)
      BY <1>2, <2>1, <2>5
    <2> QED
      BY <1>1, <1>3, <1>4, <2>1, <2>3, <2>4, <2>5, <2>6
  <1>16. ASSUME NEW c \in Checks, NEW r \in Final(c), SendFinal(q, c, r)
         PROVE  RequestOK(q)'
    <2>1. /\ job[q][c] = "running" /\ send_result(q, Msg(q, r, FALSE))
          /\ job' = [job EXCEPT ![q][c] = "sent"]
          /\ UNCHANGED <<pc, request, edict, resultmq, aborted>>
      BY <1>16 DEF SendFinal
    <2>2. Msg(q, r, FALSE) \in Message /\ ~Msg(q, r, FALSE).null
      BY Answers DEF Msg, Message, Result
    <2>3. edict[q] > 0
      BY <1>5, <2>1 DEF EdictStates
    <2>4. Cardinality(Nulls(Results(q)')) = Cardinality(Nulls(Results(q))) + 0
      BY <2>1, <2>2, <2>3, AfterSend
    <2>5. Cardinality(Jobs(q, RequestStates)') = Cardinality(Jobs(q, RequestStates))
      BY <2>1, Stays DEF RequestStates, JobStates
    <2>6. Cardinality(Jobs(q, PastStates)') = Cardinality(Jobs(q, PastStates))
      BY <2>1, Outside DEF PastStates, JobStates
    <2>7. Alive(q)' = Alive(q)
      BY <2>1 DEF Alive
    <2>8. Loose(q)' = Loose(q)
      BY <1>2, <2>1, <2>5, <2>7
    <2> QED
      BY <1>1, <1>3, <1>4, <2>1, <2>3, <2>4, <2>6, <2>8
  <1>17. ASSUME NEW c \in Checks, CheckReturns(q, c)
         PROVE  RequestOK(q)'
    <2>1. /\ job[q][c] = "sent" /\ job' = [job EXCEPT ![q][c] = "unlink"]
          /\ request'[q] = IF request[q] > 0 THEN request[q] - 1 ELSE 0
          /\ UNCHANGED <<pc, edict, resultmq, mq>>
      BY <1>1, <1>17 DEF CheckReturns, queues, request_unlink
    <2>2. Cardinality(Jobs(q, RequestStates)') = Cardinality(Jobs(q, RequestStates)) - 1
      BY <2>1, Leaves DEF RequestStates, JobStates
    <2>3. Cardinality(Jobs(q, PastStates)') = Cardinality(Jobs(q, PastStates)) + 1
      BY <2>1, Joins DEF PastStates, JobStates
    <2>4. Alive(q)' = Alive(q) /\ Alive(q) \in 0..1 /\ Results(q)' = Results(q)
      BY <2>1 DEF Alive, Results
    <2>5. Loose(q)' = Loose(q)
      <3>1. Cardinality(Jobs(q, RequestStates)') \in Nat
        BY CheckSets DEF Jobs
      <3>2. request[q] > 0
        BY <1>1, <1>2, <1>3, <2>2, <2>4, <3>1
      <3> QED
        BY <1>1, <1>2, <2>1, <2>2, <2>4, <3>2
    <2> QED
      BY <1>1, <1>3, <1>4, <2>1, <2>3, <2>4, <2>5
  <1>18. CASE QueryUnlinks(q)
    <2>1. /\ pc[q] = "unlink" /\ pc' = [pc EXCEPT ![q] = "update"] /\ edict_unlink(q)
          /\ UNCHANGED <<job, request, resultmq>>
      BY <1>18 DEF QueryUnlinks, checks
    <2>2. edict[q] > 0 /\ Alive(q)' = Alive(q)
      BY <1>1, <1>5, <2>1 DEF Alive
    <2>3. \A states : Jobs(q, states)' = Jobs(q, states)
      BY <2>1, Alone
    <2>4. Loose(q)' = Loose(q)
      BY <1>2, <2>1, <2>2, <2>3
    <2>5. /\ edict'[q] = edict[q] - 1
          /\ edict[q] > 1 => Results(q)' = Results(q)
          /\ edict'[q] = 0 /\ ~aborted' => Cardinality(Nulls(Results(q))) = 0
      BY <2>1, <2>2, AfterUnlink
    <2> QED
      BY <1>1, <1>3, <1>4, <2>2, <2>3, <2>4, <2>5
  <1>19. ASSUME NEW c \in Checks, ThreadUnlinks(q, c)
         PROVE  RequestOK(q)'
    <2>1. /\ job[q][c] = "unlink" /\ job' = [job EXCEPT ![q][c] = "done"] /\ edict_unlink(q)
          /\ UNCHANGED <<pc, request, resultmq>>
      BY <1>19 DEF ThreadUnlinks
    <2>2. edict[q] > 0 /\ Alive(q)' = Alive(q)
      BY <1>5, <2>1 DEF Alive, EdictStates
    <2>3. Cardinality(Jobs(q, RequestStates)') = Cardinality(Jobs(q, RequestStates))
      BY <2>1, Stays DEF RequestStates, JobStates
    <2>4. Cardinality(Jobs(q, PastStates)') = Cardinality(Jobs(q, PastStates))
      BY <2>1, Stays DEF PastStates, JobStates
    <2>5. Loose(q)' = Loose(q)
      BY <1>2, <2>1, <2>2, <2>3
    <2>6. /\ edict'[q] = edict[q] - 1
          /\ edict[q] > 1 => Results(q)' = Results(q)
          /\ edict'[q] = 0 /\ ~aborted' => Cardinality(Nulls(Results(q))) = 0
      BY <2>1, <2>2, AfterUnlink
    <2> QED
      BY <1>1, <1>3, <1>4, <2>2, <2>4, <2>5, <2>6
  <1> QED
    BY <1>7, <1>8, <1>9, <1>10, <1>11, <1>12, <1>13, <1>14, <1>15, <1>16, <1>17, <1>18, <1>19
       DEF Step, test_tuple, Check

-----------------------------------------------------------------------------
(* What a query has added up and what is in its queue make up the total. *)
LEMMA ResultTypes ==
  ASSUME Base, NEW q \in Queries
  PROVE  SoFar(q) \in Result /\ total[q] \in Result
  BY DEF Base, TypeOK, SoFar, Result

LEMMA AfterReceive ==
  ASSUME Base, NEW q \in Queries, ReceiveResult(q)
  PROVE  /\ pc[q] = "wait" /\ edict[q] > 0 /\ checks_running[q] > 0 /\ ~definitive[q]
         /\ Results(q) \in Seq(Message) /\ Results(q) # <<>>
         /\ Results(q)' = Tail(Results(q))
         /\ SoFar(q)' = Plus(SoFar(q), Head(Results(q)))
         /\ checks_running'[q] = checks_running[q] - StillRunning(Head(Results(q)))
         /\ UNCHANGED <<checklist, block_threshold, pc, ta, status, edict, resultmq, job, total>>
  <1>1. /\ pc[q] = "wait" /\ checks_running[q] > 0 /\ ~definitive[q] /\ Results(q) # <<>>
        /\ mq' = [mq EXCEPT ![resultmq[q]] = Tail(Results(q))]
        /\ UNCHANGED <<checklist, block_threshold, pc, ta, status, edict, resultmq, job, total>>
    BY Types DEF ReceiveResult, Waiting, Results, checks, config
  <1>2. edict[q] > 0
    BY <1>1, HasEdict
  <1>3. Results(q) \in Seq(Message) /\ Results(q)' = Tail(Results(q))
    BY <1>1, <1>2, Types DEF Results
  <1>4. /\ judgment'[q] = Max2(judgment[q], Head(Results(q)).judgment)
        /\ susp_weight'[q] = susp_weight[q] + Head(Results(q)).weight
        /\ checks_running'[q] = checks_running[q] - StillRunning(Head(Results(q)))
    BY DEF ReceiveResult, Results, Base, TypeOK
  <1>5. SoFar(q)' = Plus(SoFar(q), Head(Results(q)))
    BY <1>4 DEF SoFar, Plus
  <1> QED
    BY <1>1, <1>2, <1>3, <1>4, <1>5

LEMMA SumStep ==
  ASSUME Base, Sound, ~aborted, NEW q \in Queries, Step(q)
  PROVE  SumOK(q)'
  <1>1. SumOK(q) /\ SoFar(q) \in Result /\ total[q] \in Result
    BY ResultTypes DEF Base, Sound, QueryOK
  <1>2. /\ \A c \in Checks : job[q][c] \in EdictStates => edict[q] > 0
        /\ pc[q] \in {"submit", "wait", "unlink"} => edict[q] > 0
    BY HasEdict
  <1>3. /\ edict \in [Queries -> Nat] /\ total \in [Queries -> Result]
        /\ job \in [Queries -> [Checks -> JobStates]]
    BY Types DEF Base, Sound, TypeOK
  <1>4. ASSUME UNCHANGED <<judgment, susp_weight, total, checklist, resultmq>>,
               edict'[q] > 0 => edict[q] > 0 /\ Results(q)' = Results(q)
        PROVE  SumOK(q)'
    <2>1. SoFar(q)' = SoFar(q)
      BY <1>4 DEF SoFar
    <2> QED
      BY <1>1, <1>4, <2>1 DEF SumOK
  <1>5. ASSUME edict[q] > 0, NEW m \in Message, send_result(q, m),
               UNCHANGED <<judgment, susp_weight, checklist, edict, resultmq>>,
               total'[q] = Plus(total[q], m),
               m.judgment > J_SUSPICIOUS => checklist \cap Definitive # {}
        PROVE  SumOK(q)'
    <2>1. SoFar(q)' = SoFar(q)
      BY <1>5 DEF SoFar
    <2>2. Results(q)' = Append(Results(q), m) /\ Results(q) \in Seq(Message)
      BY <1>5, AfterSend
    <2>3. PICK f : IsSum(f, SoFar(q), Results(q), total[q])
      BY <1>1, <1>5 DEF SumOK
    <2>4. \E g : IsSum(g, SoFar(q)', Results(q)', total'[q])
      <3>1. PICK a, b, s : a = SoFar(q) /\ b = total[q] /\ s = Results(q)
        OBVIOUS
      <3>2. b \in Result /\ s \in Seq(Message) /\ IsSum(f, a, s, b)
        BY <1>1, <2>2, <2>3, <3>1
      <3>3. \E g : IsSum(g, a, Append(s, m), Plus(b, m))
        BY <3>2, SumArrives
      <3> QED
        BY <1>5, <2>1, <2>2, <3>1, <3>3, Zenon
    <2>5. Plus(total[q], m) \in Result /\ Below(total[q], Plus(total[q], m))
      BY <1>1, PlusType
    <2>6. Below(SoFar(q)', total'[q])
      BY <1>1, <1>5, <2>1, <2>5 DEF SumOK, Below, Result
    <2>7. total'[q].judgment > J_SUSPICIOUS =>
             total[q].judgment > J_SUSPICIOUS \/ m.judgment > J_SUSPICIOUS
      BY <1>1, <1>5 DEF Plus, Max2, Result, Message
    <2>8. resultmq'[q] # 0
      BY <1>5, Types
    <2> QED
      BY <1>1, <1>5, <2>4, <2>6, <2>7, <2>8 DEF SumOK
  <1>6. CASE \E match \in BOOLEAN : MaskFails(q) \/ NoChecks(q, match) \/ SumUp(q, match)
    BY <1>4, <1>6 DEF MaskFails, NoChecks, SumUp, queues, checks, local, config, Results
  <1>7. CASE StartWait(q) \/ Expire(q) \/ Update(q) \/ Respond(q)
    BY <1>4, <1>7 DEF StartWait, Expire, Update, Respond, queues, checks, local, config, Results
  <1>8. CASE \E match \in BOOLEAN : WriteEdict(q, match)
    <2>1. edict[q] = 0 /\ resultmq[q] = 0 /\ resultmq'[q] # 0 /\ Results(q)' = <<>>
      BY <1>8, NewQueue
    <2>2. UNCHANGED <<judgment, susp_weight, total, checklist>>
      BY <1>8 DEF WriteEdict, local, checks, config
    <2>3. SoFar(q)' = SoFar(q) /\ total[q] = SoFar(q)
      BY <1>1, <2>1, <2>2 DEF SoFar, SumOK
    <2>4. IsSum([i \in 0..0 |-> total[q]], total[q], <<>>, total[q])
      <3>1. Below(total[q], total[q])
        BY <1>1 DEF Below, Result
      <3> QED
        BY <1>1, <3>1 DEF IsSum
    <2>5. \E f : IsSum(f, SoFar(q)', Results(q)', total'[q])
      BY <2>1, <2>2, <2>3, <2>4
    <2> QED
      BY <1>1, <2>1, <2>2, <2>3, <2>5 DEF SumOK
  <1>9. ASSUME NEW c \in Checks, Submit(q, c)
        PROVE  SumOK(q)'
    <2>1. edict[q] > 0
      BY <1>2, <1>9 DEF Submit
    <2> QED
      BY <1>4, <1>9, <2>1 DEF Submit, queues, local, config, Results
  <1>10. ASSUME NEW c \in Checks, Run(q, c) \/ CheckReturns(q, c)
         PROVE  SumOK(q)'
    BY <1>4, <1>10 DEF Run, CheckReturns, queues, local, config, Results
  <1>11. CASE ReceiveResult(q)
    <2>1. /\ edict[q] > 0 /\ Results(q) \in Seq(Message) /\ Results(q) # <<>>
          /\ Results(q)' = Tail(Results(q))
          /\ SoFar(q)' = Plus(SoFar(q), Head(Results(q)))
          /\ UNCHANGED <<checklist, edict, resultmq, total>>
      BY <1>11, AfterReceive
    <2>2. PICK f : IsSum(f, SoFar(q), Results(q), total[q])
      BY <1>1, <2>1 DEF SumOK
    <2>3. /\ \E g : IsSum(g, SoFar(q)', Results(q)', total'[q])
          /\ Below(SoFar(q)', total'[q])
      <3>1. PICK a, b, s : a = SoFar(q) /\ b = total[q] /\ s = Results(q)
        OBVIOUS
      <3>2. b \in Result /\ s \in Seq(Message) /\ s # <<>> /\ IsSum(f, a, s, b)
        BY <1>1, <2>1, <2>2, <3>1
      <3>3. (\E g : IsSum(g, Plus(a, Head(s)), Tail(s), b)) /\ Below(Plus(a, Head(s)), b)
        BY <3>2, SumTaken
      <3> QED
        BY <2>1, <3>1, <3>3, Zenon
    <2>4. resultmq'[q] # 0
      BY <2>1, Types
    <2> QED
      BY <1>1, <2>1, <2>3, <2>4 DEF SumOK
  <1>12. CASE QueryUnlinks(q)
    <2>1. edict[q] > 0 /\ edict_unlink(q) /\ UNCHANGED <<judgment, susp_weight, total, checklist, resultmq>>
      BY <1>2, <1>12 DEF QueryUnlinks, local, checks, config
    <2>2. edict'[q] > 0 => Results(q)' = Results(q)
      BY <1>3, <2>1, AfterUnlink
    <2> QED
      BY <1>4, <2>1, <2>2
  <1>13. ASSUME NEW c \in Checks, ThreadUnlinks(q, c)
         PROVE  SumOK(q)'
    <2>1. edict[q] > 0 /\ edict_unlink(q) /\ UNCHANGED <<judgment, susp_weight, total, checklist, resultmq>>
      BY <1>2, <1>13 DEF ThreadUnlinks, local, config, EdictStates
    <2>2. edict'[q] > 0 => Results(q)' = Results(q)
      BY <1>3, <2>1, AfterUnlink
    <2> QED
      BY <1>4, <2>1, <2>2
  <1>14. ASSUME NEW c \in Checks, SendNull(q, c)
         PROVE  SumOK(q)'
    <2>1. /\ edict[q] > 0 /\ send_result(q, NullMsg(q))
          /\ UNCHANGED <<judgment, susp_weight, checklist, edict, resultmq, total>>
      BY <1>2, <1>14 DEF SendNull, local, config, EdictStates
    <2>2. NullMsg(q) \in Message /\ ~(NullMsg(q).judgment > J_SUSPICIOUS)
      BY DEF NullMsg, Message, J_UNDEFINED, J_SUSPICIOUS, J_PASS
    <2>3. total[q] = Plus(total[q], NullMsg(q))
      BY <1>1 DEF Plus, Max2, NullMsg, Result, J_UNDEFINED, J_PASS
    <2> QED
      BY <1>5, <2>1, <2>2, <2>3
  <1>15. ASSUME NEW c \in Checks, NEW r \in Early(c), SendEarly(q, c, r)
         PROVE  SumOK(q)'
    <2>1. /\ edict[q] > 0 /\ send_result(q, Msg(q, r, TRUE)) /\ job[q][c] = "running"
          /\ UNCHANGED <<judgment, susp_weight, checklist, edict, resultmq>>
      BY <1>2, <1>15 DEF SendEarly, local, config, EdictStates
    <2>2. Msg(q, r, TRUE) \in Message /\ Msg(q, r, TRUE).judgment = r.judgment
      BY Answers DEF Msg, Message, Result
    <2>3. total'[q] = Plus(total[q], Msg(q, r, TRUE))
      BY <1>3, <1>15 DEF SendEarly, Count, Plus, Msg
    <2>4. r.judgment > J_SUSPICIOUS => checklist \cap Definitive # {}
      BY <2>1, Answers DEF Base, Sound, JobInv
    <2> QED
      BY <1>5, <2>1, <2>2, <2>3, <2>4
  <1>16. ASSUME NEW c \in Checks, NEW r \in Final(c), SendFinal(q, c, r)
         PROVE  SumOK(q)'
    <2>1. /\ edict[q] > 0 /\ send_result(q, Msg(q, r, FALSE)) /\ job[q][c] = "running"
          /\ UNCHANGED <<judgment, susp_weight, checklist, edict, resultmq>>
      BY <1>2, <1>16 DEF SendFinal, local, config, EdictStates
    <2>2. Msg(q, r, FALSE) \in Message /\ Msg(q, r, FALSE).judgment = r.judgment
      BY Answers DEF Msg, Message, Result
    <2>3. total'[q] = Plus(total[q], Msg(q, r, FALSE))
      BY <1>3, <1>16 DEF SendFinal, Count, Plus, Msg
    <2>4. r.judgment > J_SUSPICIOUS => checklist \cap Definitive # {}
      BY <2>1, Answers DEF Base, Sound, JobInv
    <2> QED
      BY <1>5, <2>1, <2>2, <2>3, <2>4
  <1> QED
    BY <1>6, <1>7, <1>8, <1>9, <1>10, <1>11, <1>12, <1>13, <1>14, <1>15, <1>16
       DEF Step, test_tuple, Check

(* The last message in a queue. *)
LEMMA LastStep ==
  ASSUME Base, Sound, ~aborted, NEW q \in Queries, Step(q)
  PROVE  LastOK(q)'
  <1>1. LastOK(q) /\ edict \in [Queries -> Nat] /\ job \in [Queries -> [Checks -> JobStates]]
    BY Types DEF Base, Sound, QueryOK
  <1>2. /\ \A c \in Checks : job[q][c] \in EdictStates => edict[q] > 0
        /\ pc[q] \in {"submit", "wait", "unlink"} => edict[q] > 0
    BY HasEdict
  <1>3. ASSUME edict'[q] > 0 => edict[q] > 0 /\ Results(q)' = Results(q),
               \A c \in Checks : job[q][c] = "running" => job'[q][c] = "running"
        PROVE  LastOK(q)'
    BY <1>1, <1>3 DEF LastOK, Jobs
  <1>4. ASSUME edict[q] > 0, NEW m \in Message, send_result(q, m), UNCHANGED <<edict, resultmq>>,
               m.wait => \E c \in Checks : job'[q][c] = "running"
        PROVE  LastOK(q)'
    <2>1. Results(q)' = Append(Results(q), m) /\ Results(q) \in Seq(Message)
      BY <1>4, AfterSend
    <2>2. PICK s \in Seq(Message) : s = Results(q)
      BY <2>1
    <2>3. Append(s, m)[Len(Append(s, m))] = m
      OBVIOUS
    <2>4. Results(q)'[Len(Results(q)')] = m
      BY <2>1, <2>2, <2>3, Zenon
    <2> QED
      BY <1>4, <2>4 DEF LastOK, Jobs
  <1>5. CASE \E match \in BOOLEAN : MaskFails(q) \/ NoChecks(q, match) \/ SumUp(q, match)
    BY <1>3, <1>5 DEF MaskFails, NoChecks, SumUp, queues, checks, Results
  <1>6. CASE StartWait(q) \/ Expire(q) \/ Update(q) \/ Respond(q)
    BY <1>3, <1>6 DEF StartWait, Expire, Update, Respond, queues, checks, Results
  <1>7. CASE \E match \in BOOLEAN : WriteEdict(q, match)
    <2>1. Results(q)' = <<>>
      BY <1>7, NewQueue
    <2> QED
      BY <2>1 DEF LastOK
  <1>8. ASSUME NEW c \in Checks, Submit(q, c)
        PROVE  LastOK(q)'
    <2>1. edict[q] > 0
      BY <1>2, <1>8 DEF Submit
    <2> QED
      BY <1>1, <1>3, <1>8, <2>1 DEF Submit, queues, Results
  <1>9. ASSUME NEW c \in Checks, Run(q, c) \/ CheckReturns(q, c)
        PROVE  LastOK(q)'
    BY <1>1, <1>3, <1>9 DEF Run, CheckReturns, queues, Results
  <1>10. CASE ReceiveResult(q)
    <2>1. /\ edict[q] > 0 /\ Results(q) \in Seq(Message) /\ Results(q) # <<>>
          /\ Results(q)' = Tail(Results(q))
          /\ UNCHANGED job
      BY <1>10, AfterReceive
    <2>2. PICK s \in Seq(Message) : s = Results(q)
      BY <2>1
    <2>3. Tail(s) # <<>> => Tail(s)[Len(Tail(s))] = s[Len(s)]
      BY <2>1, <2>2
    <2>4. Jobs(q, {"running"})' = Jobs(q, {"running"})
      BY <2>1 DEF Jobs
    <2>5. Results(q)' # <<>> => Results(q)'[Len(Results(q)')] = Results(q)[Len(Results(q))]
      BY <2>1, <2>2, <2>3, Zenon
    <2> QED
      BY <1>1, <2>1, <2>4, <2>5 DEF LastOK
  <1>11. CASE QueryUnlinks(q)
    <2>1. edict[q] > 0 /\ edict_unlink(q) /\ UNCHANGED <<job, resultmq>>
      BY <1>2, <1>11 DEF QueryUnlinks, checks
    <2>2. edict'[q] > 0 => Results(q)' = Results(q)
      BY <1>1, <2>1, AfterUnlink
    <2> QED
      BY <1>3, <2>1, <2>2
  <1>12. ASSUME NEW c \in Checks, ThreadUnlinks(q, c)
         PROVE  LastOK(q)'
    <2>1. /\ edict[q] > 0 /\ edict_unlink(q) /\ UNCHANGED resultmq
          /\ job[q][c] = "unlink" /\ job' = [job EXCEPT ![q][c] = "done"]
      BY <1>2, <1>12 DEF ThreadUnlinks, EdictStates
    <2>2. edict'[q] > 0 => Results(q)' = Results(q)
      BY <1>1, <2>1, AfterUnlink
    <2> QED
      BY <1>1, <1>3, <2>1, <2>2
  <1>13. ASSUME NEW c \in Checks, SendNull(q, c)
         PROVE  LastOK(q)'
    <2>1. edict[q] > 0 /\ send_result(q, NullMsg(q)) /\ UNCHANGED <<edict, resultmq>>
      BY <1>2, <1>13 DEF SendNull, EdictStates
    <2>2. NullMsg(q) \in Message /\ ~NullMsg(q).wait
      BY DEF NullMsg, Message, J_UNDEFINED, J_PASS
    <2> QED
      BY <1>4, <2>1, <2>2
  <1>14. ASSUME NEW c \in Checks, NEW r \in Early(c), SendEarly(q, c, r)
         PROVE  LastOK(q)'
    <2>1. /\ edict[q] > 0 /\ send_result(q, Msg(q, r, TRUE)) /\ UNCHANGED <<edict, resultmq>>
          /\ job'[q][c] = "running"
      BY <1>2, <1>14 DEF SendEarly, EdictStates
    <2>2. Msg(q, r, TRUE) \in Message
      BY Answers DEF Msg, Message, Result
    <2> QED
      BY <1>4, <2>1, <2>2
  <1>15. ASSUME NEW c \in Checks, NEW r \in Final(c), SendFinal(q, c, r)
         PROVE  LastOK(q)'
    <2>1. edict[q] > 0 /\ send_result(q, Msg(q, r, FALSE)) /\ UNCHANGED <<edict, resultmq>>
      BY <1>2, <1>15 DEF SendFinal, EdictStates
    <2>2. Msg(q, r, FALSE) \in Message /\ ~Msg(q, r, FALSE).wait
      BY Answers DEF Msg, Message, Result
    <2> QED
      BY <1>4, <2>1, <2>2
  <1> QED
    BY <1>5, <1>6, <1>7, <1>8, <1>9, <1>10, <1>11, <1>12, <1>13, <1>14, <1>15
       DEF Step, test_tuple, Check

(* checks_running counts what is still to come. *)
SentStates == {"sent", "unlink", "done"}

LEMMA RunningStep ==
  ASSUME Base, Sound, ~aborted, NEW q \in Queries, Step(q)
  PROVE  RunningOK(q)'
  <1>1. /\ RunningOK(q) /\ edict \in [Queries -> Nat]
        /\ job \in [Queries -> [Checks -> JobStates]]
        /\ pc \in [Queries -> {"idle", "submit", "wait", "unlink", "update", "respond", "done"}]
        /\ checks_running \in [Queries -> Nat] /\ Cardinality(checklist) \in Nat
        /\ Cardinality(Jobs(q, SentStates)) \in Nat
    <2>1. checks_running \in [Queries -> Nat]
      BY CheckSets DEF Base, Sound, TypeOK
    <2> QED
      BY <2>1, Types DEF Base, Sound, QueryOK, TypeOK
  <1>2. /\ \A c \in Checks : job[q][c] \in EdictStates => edict[q] > 0
        /\ pc[q] \in {"submit", "wait", "unlink"} => edict[q] > 0
    BY HasEdict
  <1>3. Sent(q) = Jobs(q, SentStates) /\ Sent(q)' = Jobs(q, SentStates)'
    BY DEF Sent, SentStates
  <1>4. edict[q] > 0 => Cardinality(Finals(Results(q))) \in Nat
    <2>1. HAVE edict[q] > 0
    <2>2. PICK s \in Seq(Message) : s = Results(q)
      BY <2>1, Types
    <2>3. NullMsg(q) \in Message
      BY DEF NullMsg, Message, J_UNDEFINED, J_PASS
    <2>4. Cardinality(Finals(s)) \in Nat
      BY <2>3, Arrives
    <2> QED
      BY <2>2, <2>4
  <1>5. CASE \E match \in BOOLEAN : MaskFails(q) \/ NoChecks(q, match) \/ SumUp(q, match)
    BY <1>1, <1>5 DEF MaskFails, NoChecks, SumUp, RunningOK
  <1>6. CASE QueryUnlinks(q) \/ Update(q) \/ Respond(q)
    BY <1>1, <1>6 DEF QueryUnlinks, Update, Respond, RunningOK
  <1>7. CASE \E match \in BOOLEAN : WriteEdict(q, match)
    <2>1. Results(q)' = <<>> /\ \A c \in Checks : job[q][c] = "none"
      BY <1>7, NewQueue
    <2>2. pc'[q] = "submit" /\ UNCHANGED <<job, checklist>>
      BY <1>1, <1>7 DEF WriteEdict, checks, config
    <2>3. Jobs(q, SentStates)' = {}
      BY <2>1, <2>2 DEF Jobs, SentStates
    <2>4. Cardinality(Jobs(q, SentStates)') = 0 /\ Cardinality(Finals(Results(q)')) = 0
      BY <2>1, <2>3, EmptyQueue
    <2> QED
      BY <1>1, <1>3, <2>2, <2>4 DEF RunningOK
  <1>8. CASE StartWait(q)
    <2>1. /\ pc[q] = "submit" /\ pc'[q] = "wait" /\ checks_running'[q] = Cardinality(checklist)
          /\ UNCHANGED <<job, checklist, mq, resultmq>>
      BY <1>1, <1>8 DEF StartWait, checks, queues, config
    <2>2. Jobs(q, SentStates)' = Jobs(q, SentStates) /\ Results(q)' = Results(q)
      BY <2>1, Alone DEF Results
    <2> QED
      BY <1>1, <1>3, <2>1, <2>2 DEF RunningOK
  <1>9. ASSUME UNCHANGED <<pc, checks_running, checklist, mq, resultmq>>,
               Cardinality(Jobs(q, SentStates)') = Cardinality(Jobs(q, SentStates))
        PROVE  RunningOK(q)'
    BY <1>1, <1>3, <1>9 DEF RunningOK, Results
  <1>10. CASE Expire(q)
    <2>1. Jobs(q, SentStates)' = Jobs(q, SentStates)
      BY <1>10, Alone DEF Expire, checks
    <2> QED
      BY <1>9, <1>10, <2>1 DEF Expire, checks, queues, config
  <1>11. ASSUME NEW c \in Checks, Submit(q, c)
         PROVE  RunningOK(q)'
    <2>1. Cardinality(Jobs(q, SentStates)') = Cardinality(Jobs(q, SentStates))
      BY <1>11, Outside DEF Submit, SentStates, JobStates
    <2> QED
      BY <1>9, <1>11, <2>1 DEF Submit, queues, config, local
  <1>12. ASSUME NEW c \in Checks, Run(q, c)
         PROVE  RunningOK(q)'
    <2>1. Cardinality(Jobs(q, SentStates)') = Cardinality(Jobs(q, SentStates))
      BY <1>12, Outside DEF Run, SentStates, JobStates
    <2> QED
      BY <1>9, <1>12, <2>1 DEF Run, queues, config, local
  <1>13. ASSUME NEW c \in Checks, CheckReturns(q, c)
         PROVE  RunningOK(q)'
    <2>1. Cardinality(Jobs(q, SentStates)') = Cardinality(Jobs(q, SentStates))
      BY <1>13, Stays DEF CheckReturns, SentStates, JobStates
    <2> QED
      BY <1>9, <1>13, <2>1 DEF CheckReturns, queues, config, local
  <1>14. CASE ReceiveResult(q)
    <2>1. /\ pc[q] = "wait" /\ edict[q] > 0 /\ Results(q) \in Seq(Message) /\ Results(q) # <<>>
          /\ Results(q)' = Tail(Results(q))
          /\ checks_running'[q] = checks_running[q] - StillRunning(Head(Results(q)))
          /\ UNCHANGED <<checklist, pc, job>>
      BY <1>14, AfterReceive
    <2>2. PICK s \in Seq(Message) : s = Results(q)
      BY <2>1
    <2>3. /\ Cardinality(Finals(s)) \in Nat
          /\ Cardinality(Finals(Tail(s))) = Cardinality(Finals(s)) - (IF Head(s).wait THEN 0 ELSE 1)
      BY <2>1, <2>2, Taken
    <2>4. Jobs(q, SentStates)' = Jobs(q, SentStates)
      BY <2>1, Alone
    <2>5. checks_running[q] + Cardinality(Jobs(q, SentStates))
             = Cardinality(checklist) + Cardinality(Finals(s))
      BY <1>1, <1>3, <2>1, <2>2 DEF RunningOK
    <2>6. checks_running'[q] + Cardinality(Jobs(q, SentStates))
             = Cardinality(checklist) + Cardinality(Finals(Tail(s)))
      <3>1. PICK h \in 0..1 : h = IF Head(s).wait THEN 0 ELSE 1
        OBVIOUS
      <3>2. checks_running'[q] = checks_running[q] - h
        BY <2>1, <2>2, <3>1 DEF StillRunning
      <3>3. Cardinality(Finals(Tail(s))) = Cardinality(Finals(s)) - h
        BY <2>3, <3>1
      <3> QED
        BY <1>1, <2>3, <2>5, <3>2, <3>3
    <2> QED
      BY <1>3, <2>1, <2>2, <2>4, <2>6 DEF RunningOK
  <1>15. ASSUME edict[q] > 0, NEW m \in Message, send_result(q, m), NEW k \in 0..1,
                UNCHANGED <<pc, checks_running, checklist, edict, resultmq>>,
                Cardinality(Jobs(q, SentStates)') = Cardinality(Jobs(q, SentStates)) + k,
                k = IF m.wait THEN 0 ELSE 1
         PROVE  RunningOK(q)'
    <2>1. Cardinality(Finals(Results(q)')) =
               Cardinality(Finals(Results(q))) + (IF m.wait THEN 0 ELSE 1)
      BY <1>15, AfterSend, Zenon
    <2>2. PICK n \in Nat : n = Cardinality(Finals(Results(q)))
      BY <1>4, <1>15
    <2>3. Cardinality(Finals(Results(q)')) = n + k
      BY <1>15, <2>1, <2>2
    <2>4. pc[q] \in {"submit", "wait"} =>
             (IF pc[q] = "wait" THEN checks_running[q] ELSE Cardinality(checklist))
                + Cardinality(Jobs(q, SentStates)) = Cardinality(checklist) + n
      BY <1>1, <1>3, <2>2 DEF RunningOK
    <2>5. pc[q] \in {"submit", "wait"} =>
             (IF pc[q] = "wait" THEN checks_running[q] ELSE Cardinality(checklist))
                + Cardinality(Jobs(q, SentStates)') = Cardinality(checklist) + (n + k)
      <3>1. PICK x \in Nat : x = IF pc[q] = "wait" THEN checks_running[q] ELSE Cardinality(checklist)
        BY <1>1
      <3>2. pc[q] \in {"submit", "wait"} =>
               x + Cardinality(Jobs(q, SentStates)) = Cardinality(checklist) + n
        BY <2>4, <3>1
      <3>3. pc[q] \in {"submit", "wait"} =>
               x + Cardinality(Jobs(q, SentStates)') = Cardinality(checklist) + (n + k)
        <4>1. PICK a \in Nat : a = Cardinality(Jobs(q, SentStates))
          BY <1>1
        <4>2. PICK b \in Nat : b = Cardinality(checklist)
          BY <1>1
        <4>3. PICK e : e = Cardinality(Jobs(q, SentStates)')
          OBVIOUS
        <4>4. e = a + k /\ (pc[q] \in {"submit", "wait"} => x + a = b + n)
          BY <1>15, <3>2, <4>1, <4>2, <4>3, Zenon
        <4>5. pc[q] \in {"submit", "wait"} => x + e = b + (n + k)
          BY <1>15, <4>4
        <4> QED
          BY <4>2, <4>3, <4>5, Zenon
      <3> QED
        BY <3>1, <3>3
    <2> QED
      BY <1>3, <1>15, <2>3, <2>5 DEF RunningOK
  <1>16. ASSUME NEW c \in Checks, ThreadUnlinks(q, c)
         PROVE  RunningOK(q)'
    <2>1. /\ edict[q] > 0 /\ edict_unlink(q) /\ UNCHANGED <<pc, checks_running, checklist, resultmq>>
          /\ job[q][c] = "unlink" /\ job' = [job EXCEPT ![q][c] = "done"]
      BY <1>2, <1>16 DEF ThreadUnlinks, EdictStates, local, config
    <2>2. Cardinality(Jobs(q, SentStates)') = Cardinality(Jobs(q, SentStates))
      BY <2>1, Stays DEF SentStates, JobStates
    <2>3. pc[q] \in {"submit", "wait"} => edict[q] > 1
      <3>1. edict[q] = Cardinality(Jobs(q, EdictStates)) + Own(q)
        BY HolderSets DEF Base, Sound, EdictInv, EdictStates
      <3>2. c \in Jobs(q, EdictStates) /\ Jobs(q, EdictStates) \in SUBSET Checks
        BY <2>1 DEF Jobs, EdictStates
      <3>3. Cardinality(Jobs(q, EdictStates)) \in Nat /\ Cardinality(Jobs(q, EdictStates)) # 0
        BY <3>2, CheckSets, FS_EmptySet
      <3> QED
        BY <3>1, <3>3 DEF Own
    <2>4. pc[q] \in {"submit", "wait"} => Results(q)' = Results(q)
      BY <2>1, <2>3, AfterUnlink
    <2> QED
      BY <1>1, <1>3, <2>1, <2>2, <2>4 DEF RunningOK
  <1>17. ASSUME NEW c \in Checks, SendNull(q, c)
         PROVE  RunningOK(q)'
    <2>1. /\ edict[q] > 0 /\ send_result(q, NullMsg(q))
          /\ UNCHANGED <<pc, checks_running, checklist, edict, resultmq>>
          /\ job[q][c] \in {"queued", "running"} /\ job' = [job EXCEPT ![q][c] = "unlink"]
      BY <1>2, <1>17 DEF SendNull, EdictStates, local, config
    <2>2. NullMsg(q) \in Message /\ ~NullMsg(q).wait
      BY DEF NullMsg, Message, J_UNDEFINED, J_PASS
    <2>3. Cardinality(Jobs(q, SentStates)') = Cardinality(Jobs(q, SentStates)) + 1
      BY <2>1, Joins DEF SentStates, JobStates
    <2> QED
      BY <1>15, <2>1, <2>2, <2>3
  <1>18. ASSUME NEW c \in Checks, NEW r \in Early(c), SendEarly(q, c, r)
         PROVE  RunningOK(q)'
    <2>1. /\ edict[q] > 0 /\ send_result(q, Msg(q, r, TRUE))
          /\ UNCHANGED <<pc, checks_running, checklist, edict, resultmq, job>>
      BY <1>2, <1>18 DEF SendEarly, EdictStates, local, config
    <2>2. Msg(q, r, TRUE) \in Message /\ Msg(q, r, TRUE).wait
      BY Answers DEF Msg, Message, Result
    <2>3. Jobs(q, SentStates)' = Jobs(q, SentStates)
      BY <2>1, Alone
    <2>4. Cardinality(Jobs(q, SentStates)') = Cardinality(Jobs(q, SentStates)) + 0
      BY <1>1, <2>3
    <2>5. 0 \in 0..1 /\ 0 = IF Msg(q, r, TRUE).wait THEN 0 ELSE 1
      BY <2>2
    <2> QED
      BY <1>15, <2>1, <2>2, <2>4, <2>5, Zenon
  <1>19. ASSUME NEW c \in Checks, NEW r \in Final(c), SendFinal(q, c, r)
         PROVE  RunningOK(q)'
    <2>1. /\ edict[q] > 0 /\ send_result(q, Msg(q, r, FALSE))
          /\ UNCHANGED <<pc, checks_running, checklist, edict, resultmq>>
          /\ job[q][c] = "running" /\ job' = [job EXCEPT ![q][c] = "sent"]
      BY <1>2, <1>19 DEF SendFinal, EdictStates, local, config
    <2>2. Msg(q, r, FALSE) \in Message /\ ~Msg(q, r, FALSE).wait
      BY Answers DEF Msg, Message, Result
    <2>3. Cardinality(Jobs(q, SentStates)') = Cardinality(Jobs(q, SentStates)) + 1
      BY <2>1, Joins DEF SentStates, JobStates
    <2>4. 1 \in 0..1 /\ 1 = IF Msg(q, r, FALSE).wait THEN 0 ELSE 1
      BY <2>2
    <2> QED
      BY <1>15, <2>1, <2>2, <2>3, <2>4, Zenon
  <1> QED
    BY <1>5, <1>6, <1>7, <1>8, <1>10, <1>11, <1>12, <1>13, <1>14, <1>16, <1>17, <1>18, <1>19
       DEF Step, test_tuple, Check

-----------------------------------------------------------------------------
(* A query that stops waiting has decided, is out of time, or has all      *)
(* results: no check can still send one and none is in the queue.          *)
LEMMA AllTaken ==
  ASSUME Base, Sound, NEW q \in Queries, pc[q] = "wait", checks_running[q] = 0
  PROVE  Sent(q) = checklist /\ total[q] = SoFar(q)
  <1>1. edict[q] > 0 /\ QueryOK(q)
    BY HasEdict DEF Base, Sound
  <1>2. PICK s \in Seq(Message) : s = Results(q)
    BY <1>1, Types
  <1>3. Cardinality(Sent(q)) = Cardinality(checklist) + Cardinality(Finals(s))
    <2>1. 0 + Cardinality(Sent(q)) = Cardinality(checklist) + Cardinality(Finals(s))
      BY <1>1, <1>2 DEF QueryOK, RunningOK
    <2>2. Cardinality(Sent(q)) \in Nat
      BY Types DEF Sent
    <2> QED
      BY <2>1, <2>2
  <1>4. Sent(q) \in SUBSET checklist /\ IsFiniteSet(checklist) /\ Cardinality(checklist) \in Nat
    BY Types DEF Base, Sound, JobInv, Sent, Jobs
  <1>5. /\ Cardinality(Sent(q)) <= Cardinality(checklist)
        /\ Cardinality(checklist) = Cardinality(Sent(q)) => checklist = Sent(q)
    BY <1>4, FS_Subset
  <1>6. Cardinality(Finals(s)) \in Nat
    <2>1. NullMsg(q) \in Message
      BY DEF NullMsg, Message, J_UNDEFINED, J_PASS
    <2> QED
      BY <2>1, Arrives
  <1>7. Sent(q) = checklist /\ Cardinality(Finals(s)) = 0
    BY <1>3, <1>4, <1>5, <1>6
  <1>8. s = <<>>
    <2>1. SUFFICES ASSUME s # <<>> PROVE FALSE
      OBVIOUS
    <2>2. \A i \in 1..Len(s) : s[i].wait
      BY <1>7, NoNulls
    <2>3. Len(s) \in 1..Len(s)
      BY <2>1
    <2>4. Jobs(q, {"running"}) # {}
      BY <1>1, <1>2, <2>1, <2>2, <2>3 DEF QueryOK, LastOK
    <2>5. PICK c \in Checks : job[q][c] = "running"
      BY <2>4 DEF Jobs
    <2>6. c \in checklist /\ c \notin Sent(q)
      BY <2>5 DEF Base, Sound, JobInv, Sent, Jobs
    <2> QED
      BY <1>7, <2>6
  <1>9. total[q] = SoFar(q)
    <2>1. PICK f : IsSum(f, SoFar(q), s, total[q])
      BY <1>1, <1>2 DEF QueryOK, SumOK
    <2>2. Len(s) = 0
      BY <1>8
    <2> QED
      BY <2>1, <2>2 DEF IsSum
  <1> QED
    BY <1>7, <1>9

LEMMA DecisionStep ==
  ASSUME Base, Sound, ~aborted, NEW q \in Queries, Step(q)
  PROVE  DecisionOK(q)'
  <1>1. /\ DecisionOK(q) /\ JobInv
        /\ job \in [Queries -> [Checks -> JobStates]]
        /\ pc \in [Queries -> {"idle", "submit", "wait", "unlink", "update", "respond", "done"}]
        /\ status \in [Queries -> {"UNKNOWN", "FAIL", "TRUST", "MATCH", "GREY", "BLOCK"}]
        /\ definitive \in [Queries -> BOOLEAN]
        /\ ta \in [Queries -> 0..Timeouts]
    BY Types DEF Base, Sound, QueryOK, TypeOK
  <1>2. ASSUME UNCHANGED <<checklist, block_threshold>>
        PROVE  \A j, w : /\ Decided(j, w)' <=> Decided(j, w)
                         /\ \A match : Verdict(j, w, match)' = Verdict(j, w, match)
    BY <1>2 DEF Decided, Verdict, definitives_running
  <1>3. ASSUME UNCHANGED <<definitive, judgment, susp_weight, checklist, block_threshold>>
        PROVE  /\ definitive'[q] => Decided(judgment[q], susp_weight[q])'
               /\ SoFar(q)' = SoFar(q)
    BY <1>1, <1>3 DEF DecisionOK, Decided, definitives_running, SoFar
  <1>4. ASSUME UNCHANGED <<definitive, judgment, susp_weight, checklist, block_threshold>>,
               pc'[q] \notin {"unlink", "update", "respond", "done"} \/ resultmq'[q] = 0
        PROVE  DecisionOK(q)'
    BY <1>3, <1>4 DEF DecisionOK
  <1>5. CASE \E match \in BOOLEAN : MaskFails(q) \/ NoChecks(q, match)
    <2>1. resultmq'[q] = 0 /\ UNCHANGED <<definitive, judgment, susp_weight, checklist, block_threshold>>
      BY <1>1, <1>5 DEF MaskFails, NoChecks, JobInv, local, config
    <2> QED
      BY <1>4, <2>1
  <1>6. CASE \E match \in BOOLEAN : WriteEdict(q, match)
    BY <1>1, <1>4, <1>6 DEF WriteEdict, local, config
  <1>7. ASSUME NEW c \in Checks, Submit(q, c)
        PROVE  DecisionOK(q)'
    BY <1>1, <1>4, <1>7 DEF Submit, local, config
  <1>8. CASE StartWait(q) \/ Expire(q)
    BY <1>1, <1>4, <1>8 DEF StartWait, Expire, Waiting, config
  <1>9. CASE ReceiveResult(q)
    <2>1. pc'[q] = "wait" /\ UNCHANGED <<checklist, block_threshold>>
      BY <1>9, AfterReceive
    <2>2. definitive' = [definitive EXCEPT ![q] = Decided(judgment'[q], susp_weight'[q])]
      BY <1>9 DEF ReceiveResult
    <2>3. definitive'[q] = Decided(judgment'[q], susp_weight'[q])
      BY <1>1, <2>2, Zenon
    <2>4. definitive'[q] => Decided(judgment[q], susp_weight[q])'
      BY <2>1, <2>3 DEF Decided, definitives_running
    <2> QED
      BY <2>1, <2>4 DEF DecisionOK
  <1>10. ASSUME NEW match \in BOOLEAN, SumUp(q, match)
         PROVE  DecisionOK(q)'
    <2>1. /\ pc[q] = "wait" /\ ~Waiting(q)
          /\ status'[q] = Verdict(judgment[q], susp_weight[q], match)
          /\ UNCHANGED <<definitive, judgment, susp_weight, checklist, block_threshold, resultmq,
                         ta, checks_running, job, total>>
      BY <1>1, <1>10 DEF SumUp, local, config, checks
    <2>2. ta[q] > 0 /\ ~definitive[q] => checks_running[q] = 0
      <3>1. checks_running[q] \in Nat
        BY CheckSets DEF Base, Sound, TypeOK
      <3> QED
        BY <2>1, <3>1 DEF Waiting
    <2>3. ta[q] > 0 /\ ~definitive[q] => Sent(q) = checklist /\ total[q] = SoFar(q)
      BY <2>1, <2>2, AllTaken
    <2>4. Sent(q)' = Sent(q)
      BY <2>1 DEF Sent, Jobs
    <2>5. status'[q] = Verdict(judgment[q], susp_weight[q], match)'
      BY <2>1 DEF Verdict
    <2> QED
      BY <1>3, <2>1, <2>3, <2>4, <2>5 DEF DecisionOK
  <1>11. ASSUME UNCHANGED <<definitive, judgment, susp_weight, checklist, block_threshold, resultmq,
                            ta>>,
                pc[q] \in {"unlink", "update", "respond", "done"}
                    \/ pc'[q] \notin {"unlink", "update", "respond", "done"},
                pc'[q] \in {"unlink", "update"} => pc[q] \in {"unlink", "update"},
                pc'[q] \in {"unlink", "update"} \/ ~Dryrun => status'[q] = status[q],
                resultmq[q] # 0 /\ Sent(q) = checklist => Sent(q)' = checklist /\ total'[q] = total[q]
         PROVE  DecisionOK(q)'
    <2>1. \A match : Verdict(judgment[q], susp_weight[q], match)'
                        = Verdict(judgment[q], susp_weight[q], match)
      BY <1>11 DEF Verdict
    <2> QED
      BY <1>1, <1>3, <1>11, <2>1 DEF DecisionOK
  <1>12. CASE QueryUnlinks(q)
    BY <1>1, <1>11, <1>12 DEF QueryUnlinks, local, config, checks, Sent, Jobs
  <1>13. CASE Update(q)
    BY <1>1, <1>11, <1>13 DEF Update, local, config, checks, Sent, Jobs
  <1>14. CASE Respond(q)
    BY <1>1, <1>11, <1>14 DEF Respond, local, config, checks, Sent, Jobs
  <1>15. ASSUME NEW c \in Checks, job[q][c] \in {"queued", "running"}
         PROVE  Sent(q) # checklist
    BY <1>1, <1>15 DEF JobInv, Sent, Jobs
  <1>16. ASSUME NEW c \in Checks, Run(q, c) \/ SendNull(q, c)
         PROVE  DecisionOK(q)'
    BY <1>11, <1>15, <1>16 DEF Run, SendNull, local, config
  <1>17. ASSUME NEW c \in Checks, NEW r, SendEarly(q, c, r) \/ SendFinal(q, c, r)
         PROVE  DecisionOK(q)'
    BY <1>11, <1>15, <1>17 DEF SendEarly, SendFinal, local, config
  <1>18. ASSUME NEW c \in Checks, CheckReturns(q, c) \/ ThreadUnlinks(q, c)
         PROVE  DecisionOK(q)'
    <2>1. Sent(q)' = Sent(q)
      BY <1>1, <1>18 DEF CheckReturns, ThreadUnlinks, Sent, Jobs
    <2> QED
      BY <1>11, <1>18, <2>1 DEF CheckReturns, ThreadUnlinks, local, config
  <1> QED
    BY <1>5, <1>6, <1>7, <1>8, <1>9, <1>10, <1>12, <1>13, <1>14, <1>16, <1>17, <1>18
       DEF Step, test_tuple, Check

-----------------------------------------------------------------------------
LEMMA TypeStep ==
  ASSUME Base, NEW q \in Queries, Step(q), EdictInv'
  PROVE  TypeOK'
  <1>1. TypeOK /\ Timeouts \in Nat /\ MaxEarly \in Nat /\ MaxQueues \in Nat
    BY QueryAssumption DEF QueryAssumption, Base
  <1>2. /\ edict \in [Queries -> Nat] /\ request \in [Queries -> Nat]
        /\ checklist \in SUBSET Checks /\ Cardinality(Checks) \in Nat
        /\ Cardinality(checklist) \in 0..Cardinality(Checks)
        /\ job \in [Queries -> [Checks -> JobStates]]
    BY Types, CheckSets
  <1>3. checklist' \in Checklists /\ block_threshold' \in Thresholds
    BY <1>1 DEF TypeOK, Step, test_tuple, Check, MaskFails, NoChecks, WriteEdict, SumUp, Submit,
           StartWait, ReceiveResult, Expire, QueryUnlinks, Update, Respond, Run, SendNull,
           SendEarly, SendFinal, CheckReturns, ThreadUnlinks, config
  <1>4. pc' \in [Queries -> {"idle", "submit", "wait", "unlink", "update", "respond", "done"}]
    BY <1>1 DEF TypeOK, Step, test_tuple, Check, MaskFails, NoChecks, WriteEdict, SumUp, Submit,
           StartWait, ReceiveResult, Expire, QueryUnlinks, Update, Respond, Run, SendNull,
           SendEarly, SendFinal, CheckReturns, ThreadUnlinks
  <1>5. ta' \in [Queries -> 0..Timeouts]
    <2>1. CASE Expire(q)
      <3>1. ta \in [Queries -> 0..Timeouts] /\ ta[q] > 0 /\ ta' = [ta EXCEPT ![q] = ta[q] - 1]
        BY <1>1, <2>1 DEF TypeOK, Expire, Waiting
      <3> QED
        BY <1>1, <3>1
    <2>2. CASE UNCHANGED ta
      BY <1>1, <2>2 DEF TypeOK
    <2> QED
      BY <2>1, <2>2 DEF local, Step, test_tuple, Check, MaskFails, NoChecks, WriteEdict, SumUp, Submit,
           StartWait, ReceiveResult, Expire, QueryUnlinks, Update, Respond, Run, SendNull,
           SendEarly, SendFinal, CheckReturns, ThreadUnlinks
  <1>6. checks_running' \in [Queries -> 0..Cardinality(Checks)]
    <2>1. CASE ReceiveResult(q)
      <3>1. PICK h : h = StillRunning(Head(mq[resultmq[q]]))
        OBVIOUS
      <3>2. h \in 0..1
        BY <3>1 DEF StillRunning
      <3>3. /\ checks_running[q] > 0
            /\ checks_running' = [checks_running EXCEPT ![q] = checks_running[q] - h]
            /\ checks_running \in [Queries -> 0..Cardinality(Checks)]
        BY <1>1, <2>1, <3>1 DEF TypeOK, ReceiveResult, Waiting
      <3> QED
        BY <1>2, <3>2, <3>3
    <2>2. CASE StartWait(q)
      BY <1>1, <1>2, <2>2 DEF TypeOK, StartWait
    <2>3. CASE UNCHANGED checks_running
      BY <1>1, <2>3 DEF TypeOK
    <2> QED
      BY <2>1, <2>2, <2>3 DEF local, Step, test_tuple, Check, MaskFails, NoChecks, WriteEdict, SumUp, Submit,
           StartWait, ReceiveResult, Expire, QueryUnlinks, Update, Respond, Run, SendNull,
           SendEarly, SendFinal, CheckReturns, ThreadUnlinks
  <1>7. judgment' \in [Queries -> J_UNDEFINED..J_PASS] /\ susp_weight' \in [Queries -> Nat]
    <2>1. CASE ReceiveResult(q)
      <3>1. /\ edict[q] > 0 /\ Results(q) \in Seq(Message) /\ Results(q) # <<>>
        BY <2>1, AfterReceive
      <3>2. PICK m \in Message : m = Head(Results(q))
        BY <3>1
      <3>3. /\ judgment' = [judgment EXCEPT ![q] = Max2(judgment[q], m.judgment)]
            /\ susp_weight' = [susp_weight EXCEPT ![q] = susp_weight[q] + m.weight]
        BY <1>1, <2>1, <3>2 DEF TypeOK, ReceiveResult, Results
      <3>4. judgment \in [Queries -> J_UNDEFINED..J_PASS] /\ susp_weight \in [Queries -> Nat]
        BY <1>1 DEF TypeOK
      <3>5. m.judgment \in J_UNDEFINED..J_PASS /\ m.weight \in Nat
        BY DEF Message
      <3>6. Max2(judgment[q], m.judgment) \in J_UNDEFINED..J_PASS /\ susp_weight[q] + m.weight \in Nat
        BY <3>4, <3>5 DEF Max2
      <3> QED
        BY <3>3, <3>4, <3>6
    <2>2. CASE UNCHANGED <<judgment, susp_weight>>
      BY <1>1, <2>2 DEF TypeOK
    <2> QED
      BY <2>1, <2>2 DEF local, Step, test_tuple, Check, MaskFails, NoChecks, WriteEdict, SumUp, Submit,
           StartWait, ReceiveResult, Expire, QueryUnlinks, Update, Respond, Run, SendNull,
           SendEarly, SendFinal, CheckReturns, ThreadUnlinks
  <1>8. definitive' \in [Queries -> BOOLEAN]
    <2>1. CASE ReceiveResult(q)
      <3>1. /\ definitive' = [definitive EXCEPT ![q] = Decided(judgment'[q], susp_weight'[q])]
            /\ Decided(judgment'[q], susp_weight'[q]) \in BOOLEAN
            /\ definitive \in [Queries -> BOOLEAN]
        BY <1>1, <2>1, Zenon DEF TypeOK, ReceiveResult, Decided
      <3> QED
        BY <3>1
    <2>2. CASE UNCHANGED definitive
      BY <1>1, <2>2 DEF TypeOK
    <2> QED
      BY <2>1, <2>2 DEF local, Step, test_tuple, Check, MaskFails, NoChecks, WriteEdict, SumUp, Submit,
           StartWait, ReceiveResult, Expire, QueryUnlinks, Update, Respond, Run, SendNull,
           SendEarly, SendFinal, CheckReturns, ThreadUnlinks
  <1>9. status' \in [Queries -> {"UNKNOWN", "FAIL", "TRUST", "MATCH", "GREY", "BLOCK"}]
    <2>1. \A j, w, match : Verdict(j, w, match) \in {"TRUST", "MATCH", "GREY", "BLOCK"}
      BY DEF Verdict
    <2>2. status \in [Queries -> {"UNKNOWN", "FAIL", "TRUST", "MATCH", "GREY", "BLOCK"}]
      BY <1>1 DEF TypeOK
    <2>3. CASE \E match \in BOOLEAN : NoChecks(q, match) \/ SumUp(q, match)
      BY <2>1, <2>2, <2>3 DEF NoChecks, SumUp
    <2>4. CASE MaskFails(q) \/ Update(q)
      BY <2>2, <2>4 DEF MaskFails, Update
    <2>5. CASE UNCHANGED status
      BY <2>2, <2>5
    <2> QED
      BY <2>3, <2>4, <2>5 DEF Step, test_tuple, Check, MaskFails, NoChecks, WriteEdict, SumUp, Submit,
           StartWait, ReceiveResult, Expire, QueryUnlinks, Update, Respond, Run, SendNull,
           SendEarly, SendFinal, CheckReturns, ThreadUnlinks
  <1>10. updated' \in [Queries -> BOOLEAN]
    <2>1. CASE Update(q)
      <3>1. /\ updated' = [updated EXCEPT ![q] = status[q] \in {"GREY", "MATCH"} \/ UpdateAlways]
            /\ (status[q] \in {"GREY", "MATCH"} \/ UpdateAlways) \in BOOLEAN
            /\ updated \in [Queries -> BOOLEAN]
        BY <1>1, <2>1, Zenon DEF TypeOK, Update
      <3> QED
        BY <3>1
    <2>2. CASE UNCHANGED updated
      BY <1>1, <2>2 DEF TypeOK
    <2> QED
      BY <2>1, <2>2 DEF Step, test_tuple, Check, MaskFails, NoChecks, WriteEdict, SumUp, Submit,
           StartWait, ReceiveResult, Expire, QueryUnlinks, Update, Respond, Run, SendNull,
           SendEarly, SendFinal, CheckReturns, ThreadUnlinks
  <1>11. edict' \in [Queries -> 0..Cardinality(Checks) + 1]
    <2>1. edict' \in [Queries -> Int]
      <3>1. CASE edict_unlink(q)
        BY <1>2, <3>1 DEF edict_unlink
      <3>2. CASE UNCHANGED edict
        BY <1>2, <3>2
      <3>3. CASE \E match \in BOOLEAN : WriteEdict(q, match)
        BY <1>2, <3>3 DEF WriteEdict
      <3>4. CASE \E c \in Checks : Submit(q, c)
        BY <1>2, <3>4 DEF Submit
      <3> QED
        BY <3>1, <3>2, <3>3, <3>4 DEF Step, test_tuple, Check, MaskFails, NoChecks, WriteEdict, SumUp, Submit,
           StartWait, ReceiveResult, Expire, QueryUnlinks, Update, Respond, Run, SendNull,
           SendEarly, SendFinal, CheckReturns, ThreadUnlinks
    <2>2. ASSUME NEW p \in Queries
          PROVE  edict'[p] \in 0..Cardinality(Checks) + 1
      <3>1. edict'[p] = Cardinality(HoldsEdict(p)') + Own(p)'
        BY DEF EdictInv
      <3>2. HoldsEdict(p)' \in SUBSET Checks
        BY DEF HoldsEdict
      <3>3. Cardinality(HoldsEdict(p)') \in 0..Cardinality(Checks)
        BY <3>2, CheckSets
      <3>4. Own(p)' \in 0..1
        BY DEF Own
      <3> QED
        BY <1>2, <3>1, <3>3, <3>4
    <2> QED
      BY <2>1, <2>2
  <1>12. request' \in [Queries -> Nat]
    <2>1. CASE \E n \in Nat : request' = [request EXCEPT ![q] = n]
      BY <1>2, <2>1
    <2>2. CASE UNCHANGED request
      BY <1>2, <2>2
    <2>3. /\ request[q] + 1 \in Nat
          /\ (IF request[q] > 0 THEN request[q] - 1 ELSE 0) \in Nat
      BY <1>2
    <2>4. CASE request_unlink(q)
      <3>1. request' = [request EXCEPT ![q] = IF request[q] > 0 THEN request[q] - 1 ELSE 0]
        BY <2>4 DEF request_unlink
      <3> QED
        BY <2>1, <2>3, <3>1
    <2> QED
      BY <2>1, <2>2, <2>3, <2>4 DEF Step, test_tuple, Check, MaskFails, NoChecks, WriteEdict, SumUp,
           Submit, StartWait, ReceiveResult, Expire, QueryUnlinks, Update, Respond, Run, SendNull,
           SendEarly, SendFinal, CheckReturns, ThreadUnlinks
  <1>13. resultmq' \in [Queries -> 0..MaxQueues]
    <2>1. CASE \E match \in BOOLEAN : WriteEdict(q, match)
      BY <1>1, <2>1 DEF TypeOK, WriteEdict
    <2>2. CASE UNCHANGED resultmq
      BY <1>1, <2>2 DEF TypeOK
    <2> QED
      BY <2>1, <2>2 DEF Step, test_tuple, Check, MaskFails, NoChecks, WriteEdict, SumUp, Submit,
           StartWait, ReceiveResult, Expire, QueryUnlinks, Update, Respond, Run, SendNull,
           SendEarly, SendFinal, CheckReturns, ThreadUnlinks
  <1>14. job' \in [Queries -> [Checks -> {"none", "queued", "running", "sent", "unlink", "done"}]]
    <2>1. ASSUME NEW c \in Checks, NEW t \in JobStates, job' = [job EXCEPT ![q][c] = t]
          PROVE  job' \in [Queries -> [Checks -> JobStates]]
      BY <1>2, <2>1
    <2>2. CASE UNCHANGED job
      BY <1>2, <2>2 DEF JobStates
    <2>3. "queued" \in JobStates /\ "running" \in JobStates /\ "sent" \in JobStates
          /\ "unlink" \in JobStates /\ "done" \in JobStates
      BY DEF JobStates
    <2>4. job' \in [Queries -> [Checks -> JobStates]]
      BY <1>2, <2>1, <2>2, <2>3 DEF checks, Step, test_tuple, Check, MaskFails, NoChecks, WriteEdict, SumUp, Submit,
           StartWait, ReceiveResult, Expire, QueryUnlinks, Update, Respond, Run, SendNull,
           SendEarly, SendFinal, CheckReturns, ThreadUnlinks
    <2> QED
      BY <2>4 DEF JobStates
  <1>15. early' \in [Queries -> [Checks -> 0..MaxEarly]]
    <2>1. early \in [Queries -> [Checks -> 0..MaxEarly]]
      BY <1>1 DEF TypeOK
    <2>2. ASSUME NEW c \in Checks, NEW r, SendEarly(q, c, r)
          PROVE  early' \in [Queries -> [Checks -> 0..MaxEarly]]
      <3>1. PICK n \in 0..MaxEarly : early' = [early EXCEPT ![q][c] = n]
        <4>1. early[q][c] + 1 \in 0..MaxEarly /\ early' = [early EXCEPT ![q][c] = early[q][c] + 1]
          BY <1>1, <2>1, <2>2 DEF SendEarly
        <4> QED
          BY <4>1
      <3> QED
        BY <2>1, <3>1
    <2>3. CASE UNCHANGED early
      BY <2>1, <2>3
    <2> QED
      BY <2>2, <2>3 DEF checks, Step, test_tuple, Check, MaskFails, NoChecks, WriteEdict, SumUp, Submit,
           StartWait, ReceiveResult, Expire, QueryUnlinks, Update, Respond, Run, SendNull,
           SendEarly, SendFinal, CheckReturns, ThreadUnlinks
  <1>16. total' \in [Queries -> Result]
    <2>1. ASSUME NEW c \in Checks, NEW r \in Early(c) \cup Final(c), Count(q, r)
          PROVE  total' \in [Queries -> Result]
      <3>1. r \in Result
        BY <2>1, Answers
      <3>2. total[q] \in Result
        BY <1>1 DEF TypeOK
      <3>3. [judgment |-> Max2(total[q].judgment, r.judgment),
             weight |-> total[q].weight + r.weight] \in Result
        BY <3>1, <3>2 DEF Result, Max2, J_UNDEFINED, J_PASS
      <3> QED
        BY <1>1, <2>1, <3>3 DEF TypeOK, Count
    <2>2. CASE UNCHANGED total
      BY <1>1, <2>2 DEF TypeOK
    <2> QED
      BY <2>1, <2>2 DEF checks, Step, test_tuple, Check, MaskFails, NoChecks, WriteEdict, SumUp, Submit,
           StartWait, ReceiveResult, Expire, QueryUnlinks, Update, Respond, Run, SendNull,
           SendEarly, SendFinal, CheckReturns, ThreadUnlinks
  <1>17. mq' \in [1..MaxQueues -> Seq(Message)]
    <2>1. mq \in [1..MaxQueues -> Seq(Message)]
      BY <1>1 DEF TypeOK
    <2>2. ASSUME NEW m \in Message, send_result(q, m), edict[q] > 0
          PROVE  mq' \in [1..MaxQueues -> Seq(Message)]
      <3>1. resultmq[q] \in 1..MaxQueues /\ Append(mq[resultmq[q]], m) \in Seq(Message)
        BY <2>1, <2>2, Types
      <3> QED
        BY <2>1, <2>2, <3>1 DEF send_result
    <2>3. ASSUME edict_unlink(q)
          PROVE  mq' \in [1..MaxQueues -> Seq(Message)]
      <3>1. <<>> \in Seq(Message)
        OBVIOUS
      <3>2. CASE edict[q] > 1
        BY <2>1, <2>3, <3>2 DEF edict_unlink, Flush
      <3>3. CASE ~(edict[q] > 1)
        <4>1. mq' = [mq EXCEPT ![resultmq[q]] = <<>>]
          BY <2>3, <3>3 DEF edict_unlink, Flush
        <4> QED
          BY <2>1, <3>1, <4>1
      <3> QED
        BY <3>2, <3>3
    <2>4. CASE ReceiveResult(q)
      <3>1. edict[q] > 0 /\ Results(q) \in Seq(Message) /\ Results(q) # <<>>
        BY <2>4, AfterReceive
      <3>2. mq' = [mq EXCEPT ![resultmq[q]] = Tail(Results(q))] /\ Tail(Results(q)) \in Seq(Message)
        BY <2>1, <2>4, <3>1, Types DEF ReceiveResult, Results
      <3> QED
        BY <2>1, <3>2
    <2>5. CASE UNCHANGED mq
      BY <2>1, <2>5
    <2>6. \A c \in Checks : job[q][c] \in EdictStates => edict[q] > 0
      BY HasEdict
    <2>7. NullMsg(q) \in Message
      BY DEF NullMsg, Message, J_UNDEFINED, J_PASS
    <2>8. \A c \in Checks, b \in BOOLEAN : \A r \in Early(c) \cup Final(c) : Msg(q, r, b) \in Message
      BY Answers DEF Msg, Message, Result
    <2> QED
      BY <2>2, <2>3, <2>4, <2>5, <2>6, <2>7, <2>8 DEF queues, EdictStates, Step, test_tuple, Check, MaskFails, NoChecks, WriteEdict, SumUp, Submit,
           StartWait, ReceiveResult, Expire, QueryUnlinks, Update, Respond, Run, SendNull,
           SendEarly, SendFinal, CheckReturns, ThreadUnlinks
  <1>18. numqueues' \in 0..MaxQueues /\ metaqueue' \in Seq(1..numqueues')
    <2>1. /\ numqueues \in 0..MaxQueues /\ metaqueue \in Seq(1..numqueues)
          /\ resultmq \in [Queries -> 0..MaxQueues]
      BY <1>1 DEF TypeOK
    <2>2. CASE \E match \in BOOLEAN : WriteEdict(q, match)
      <3>1. PICK k \in 1..MaxQueues : get_queue(k)
        BY <2>2 DEF WriteEdict
      <3> QED
        BY <3>1, NewNumber
    <2>3. ASSUME edict_unlink(q), edict[q] > 0
          PROVE  numqueues' \in 0..MaxQueues /\ metaqueue' \in Seq(1..numqueues')
      <3>1. resultmq[q] \in 1..numqueues
        BY <2>1, <2>3, Types DEF Base, RangeInv
      <3>2. Append(metaqueue, resultmq[q]) \in Seq(1..numqueues)
        BY <2>1, <3>1
      <3> QED
        BY <2>1, <2>3, <3>2 DEF edict_unlink, Flush
    <2>4. CASE UNCHANGED <<numqueues, metaqueue>>
      BY <2>1, <2>4
    <2>5. /\ \A c \in Checks : job[q][c] \in EdictStates => edict[q] > 0
          /\ pc[q] = "unlink" => edict[q] > 0
      BY HasEdict
    <2> QED
      BY <2>2, <2>3, <2>4, <2>5 DEF queues, EdictStates, Step, test_tuple, Check, MaskFails, NoChecks, WriteEdict, SumUp, Submit,
           StartWait, ReceiveResult, Expire, QueryUnlinks, Update, Respond, Run, SendNull,
           SendEarly, SendFinal, CheckReturns, ThreadUnlinks
  <1>19. aborted' \in BOOLEAN
    <2>1. CASE edict_unlink(q)
      BY <1>1, <2>1, Zenon DEF TypeOK, edict_unlink, Flush
    <2>2. CASE UNCHANGED aborted
      BY <1>1, <2>2 DEF TypeOK
    <2>3. CASE request_unlink(q)
      BY <2>3, Zenon DEF request_unlink
    <2>4. CASE ReceiveResult(q)
      <3>1. Results(q) \in Seq(Message) /\ Results(q) # <<>>
        BY <2>4, AfterReceive
      <3>2. PICK m \in Message : m = Head(Results(q))
        BY <3>1
      <3>3. m.host \in BOOLEAN
        BY DEF Message
      <3>4. request_unlink(q) \/ aborted' = m.host
        BY <2>4, <3>2 DEF ReceiveResult, Results
      <3> QED
        BY <2>3, <3>3, <3>4
    <2> QED
      BY <2>1, <2>2, <2>3, <2>4 DEF Step, test_tuple, Check, MaskFails, NoChecks, WriteEdict, SumUp,
           Submit, StartWait, Expire, QueryUnlinks, Update, Respond, Run, SendNull,
           SendEarly, SendFinal, CheckReturns, ThreadUnlinks
  <1>20. UNCHANGED lookups
    BY LookupsAside
  <1>21. /\ call' \in [Queries -> [Checks -> 0..2]]
         /\ response_q' \in [Queries -> [Checks -> 0..MaxQueues]]
         /\ requests' \in SUBSET Lookups /\ cb' \in SUBSET Lookups
         /\ givenup' \in 0..MaxGiveUps
    BY <1>1, <1>20 DEF TypeOK, lookups
  <1> QED
    BY <1>3, <1>4, <1>5, <1>6, <1>7, <1>8, <1>9, <1>10, <1>11, <1>12, <1>13, <1>14, <1>15, <1>16,
       <1>17, <1>18, <1>19, <1>21 DEF TypeOK

-----------------------------------------------------------------------------
(* A step of a lookup: of the check that asks, or of the helper. *)
LookupAction == (\E q \in Queries : \E c \in Askers : Gethostby(q, c)) \/ Helper

(* Any but that of giving up. *)
Answering ==
    \/ \E q \in Queries : \E c \in Askers : (\E n \in 1..2 : Ask(q, c, n)) \/ GetAnswer(q, c)
    \/ Helper

LEMMA NotGivenUp ==
  ASSUME Base, LookupAction, givenup' = 0
  PROVE  givenup = 0 /\ Answering
  <1>1. givenup \in Nat
    BY QueryAssumption DEF QueryAssumption, Base, TypeOK
  <1>2. ~\E q \in Queries : \E c \in Askers : GiveUp(q, c)
    BY <1>1 DEF GiveUp
  <1>3. Answering
    BY <1>2 DEF LookupAction, Gethostby, Answering
  <1>4. givenup' = givenup
    BY <1>3 DEF Answering, Ask, GetAnswer, Helper, default_cb, put_msg_raw
  <1> QED
    BY <1>3, <1>4

(* What a lookup does not touch. *)
LEMMA QueriesAside ==
  ASSUME LookupAction
  PROVE  UNCHANGED <<config, pc, local, status, updated, request, edict, resultmq, checks, aborted>>
  BY DEF LookupAction, Gethostby, Helper, Ask, GetAnswer, GiveUp, default_cb, put_msg_raw

LEMMA LookupBase ==
  ASSUME Base, LookupAction
  PROVE  Base'
  <1>1. UNCHANGED <<config, pc, local, status, updated, request, edict, resultmq, checks, aborted>>
    BY QueriesAside
  <1>2. /\ JobInv' /\ EdictInv'
    BY <1>1 DEF Base, JobInv, EdictInv, HoldsEdict, Own, config, checks
  <1>3. /\ mq \in [1..MaxQueues -> Seq(Message)] /\ MaxQueues \in Nat
        /\ numqueues \in 0..MaxQueues /\ metaqueue \in Seq(1..numqueues)
        /\ call \in [Queries -> [Checks -> 0..2]]
        /\ response_q \in [Queries -> [Checks -> 0..MaxQueues]]
        /\ requests \in SUBSET Lookups /\ cb \in SUBSET Lookups
        /\ givenup \in 0..MaxGiveUps /\ MaxGiveUps \in Nat
        /\ \A q \in Queries : \A c \in Checks : response_q[q][c] <= numqueues
        /\ \A q \in Queries : resultmq[q] <= numqueues /\ (edict[q] > 0 => resultmq[q] > 0)
        /\ resultmq \in [Queries -> 0..MaxQueues]
    BY QueryAssumption DEF QueryAssumption, Base, TypeOK, RangeInv
  <1>4. Askers \subseteq Checks
    BY DEF Askers
  <1> DEFINE Types2 == /\ mq' \in [1..MaxQueues -> Seq(Message)]
                       /\ numqueues' \in 0..MaxQueues /\ metaqueue' \in Seq(1..numqueues')
                       /\ call' \in [Queries -> [Checks -> 0..2]]
                       /\ response_q' \in [Queries -> [Checks -> 0..MaxQueues]]
                       /\ requests' \in SUBSET Lookups /\ cb' \in SUBSET Lookups
                       /\ givenup' \in 0..MaxGiveUps
                       /\ numqueues <= numqueues'
                       /\ \A q \in Queries : \A c \in Checks : response_q'[q][c] <= numqueues'
  <1>5. ASSUME NEW i \in 1..numqueues, release_queue(i), UNCHANGED numqueues
        PROVE  metaqueue' \in Seq(1..numqueues')
    <2>1. PICK S : S = 1..numqueues
      OBVIOUS
    <2>2. metaqueue \in Seq(S) /\ i \in S
      BY <1>3, <2>1
    <2>3. Append(metaqueue, i) \in Seq(S)
      BY <2>2
    <2>4. metaqueue' = Append(metaqueue, i) \/ metaqueue' = metaqueue
      BY <1>5, Zenon DEF release_queue
    <2> QED
      BY <1>5, <2>1, <2>2, <2>3, <2>4, Zenon
  <1>6. ASSUME NEW q \in Queries, NEW c \in Askers, NEW n \in 1..2, Ask(q, c, n)
        PROVE  Types2
    <2>1. PICK i \in 1..MaxQueues :
             /\ get_queue(i)
             /\ response_q' = [response_q EXCEPT ![q][c] = i]
             /\ requests' = requests \cup {[q |-> q, c |-> c, n |-> n, mq |-> i]}
      BY <1>6 DEF Ask
    <2>2. /\ numqueues' \in 0..MaxQueues /\ numqueues <= numqueues' /\ i <= numqueues'
          /\ metaqueue' \in Seq(1..numqueues')
      BY <2>1, NewNumber
    <2>3. requests' \in SUBSET Lookups
      BY <1>3, <2>1 DEF Lookups
    <2>4. /\ call' = [call EXCEPT ![q][c] = n]
          /\ UNCHANGED <<mq, cb, givenup>>
      BY <1>6 DEF Ask
    <2>5. call' \in [Queries -> [Checks -> 0..2]]
      BY <1>3, <1>4, <2>4
    <2>6. /\ response_q' \in [Queries -> [Checks -> 0..MaxQueues]]
          /\ \A p \in Queries : \A d \in Checks : response_q'[p][d] <= numqueues'
      BY <1>3, <1>4, <2>1, <2>2
    <2> QED
      BY <1>3, <2>2, <2>3, <2>4, <2>5, <2>6
  <1>7. ASSUME NEW q \in Queries, NEW c \in Askers, GetAnswer(q, c)
        PROVE  Types2
    <2>1. PICK i \in 1..numqueues : i = response_q[q][c]
      BY <1>3, <1>4, <1>7 DEF GetAnswer
    <2>2. /\ mq[i] # <<>> /\ mq' = [mq EXCEPT ![i] = Tail(mq[i])]
          /\ release_queue(i) /\ UNCHANGED <<numqueues, requests, cb, givenup>>
          /\ response_q' = [response_q EXCEPT ![q][c] = 0]
      BY <1>3, <1>7, <2>1 DEF GetAnswer
    <2>3. mq' \in [1..MaxQueues -> Seq(Message)]
      <3>1. i \in 1..MaxQueues /\ mq[i] \in Seq(Message)
        BY <1>3, <2>1
      <3>2. Tail(mq[i]) \in Seq(Message)
        BY <2>2, <3>1
      <3> QED
        BY <1>3, <2>2, <3>2
    <2>4. metaqueue' \in Seq(1..numqueues')
      BY <1>5, <2>1, <2>2
    <2>5. PICK n \in 0..2 : call' = [call EXCEPT ![q][c] = n]
      <3>1. PICK n : n = IF c = "reverse" /\ Head(mq[response_q[q][c]]).null THEN 2 ELSE call[q][c]
        OBVIOUS
      <3>2. n \in 0..2
        BY <1>3, <1>4, <3>1
      <3>3. call' = [call EXCEPT ![q][c] = n]
        BY <1>7, <3>1 DEF GetAnswer
      <3> QED
        BY <3>2, <3>3
    <2>6. call' \in [Queries -> [Checks -> 0..2]]
      BY <1>3, <1>4, <2>5
    <2>7. /\ response_q' \in [Queries -> [Checks -> 0..MaxQueues]]
          /\ \A p \in Queries : \A d \in Checks : response_q'[p][d] <= numqueues'
      BY <1>3, <1>4, <2>2
    <2> QED
      BY <1>3, <2>2, <2>3, <2>4, <2>6, <2>7
  <1>8. ASSUME NEW q \in Queries, NEW c \in Askers, GiveUp(q, c)
        PROVE  Types2
    <2>1. PICK i \in 1..numqueues : i = response_q[q][c]
      BY <1>3, <1>4, <1>8 DEF GiveUp
    <2>2. /\ release_queue(i) /\ UNCHANGED <<mq, numqueues, call, requests, cb>>
          /\ response_q' = [response_q EXCEPT ![q][c] = 0]
          /\ givenup < MaxGiveUps /\ givenup' = givenup + 1
      BY <1>8, <2>1 DEF GiveUp
    <2>3. metaqueue' \in Seq(1..numqueues')
      BY <1>5, <2>1, <2>2
    <2>4. /\ response_q' \in [Queries -> [Checks -> 0..MaxQueues]]
          /\ \A p \in Queries : \A d \in Checks : response_q'[p][d] <= numqueues'
      BY <1>3, <1>4, <2>2
    <2> QED
      BY <1>3, <2>2, <2>3, <2>4
  <1>9. ASSUME NEW r \in requests, default_cb(r)
        PROVE  Types2
    BY <1>3, <1>9 DEF default_cb, queues
  <1>10. ASSUME NEW r \in cb, NEW found \in BOOLEAN, put_msg_raw(r, found)
         PROVE  Types2
    <2>1. r.q \in Queries /\ r.mq \in 1..MaxQueues
      BY <1>3 DEF Lookups
    <2>2. HostMsg(r.q, found) \in Message
      BY <2>1 DEF HostMsg, Message, J_UNDEFINED, J_PASS
    <2>3. PICK s \in Seq(Message) : s = Append(mq[r.mq], HostMsg(r.q, found))
      <3>1. PICK m \in Message : m = HostMsg(r.q, found)
        BY <2>2
      <3>2. Append(mq[r.mq], m) \in Seq(Message)
        BY <1>3, <2>1
      <3> QED
        BY <3>1, <3>2, Zenon
    <2>4. /\ mq' = [mq EXCEPT ![r.mq] = s] /\ cb' = {}
          /\ UNCHANGED <<numqueues, metaqueue, call, response_q, requests, givenup>>
      <3>1. mq' = [mq EXCEPT ![r.mq] = Append(mq[r.mq], HostMsg(r.q, found))]
        BY <1>10 DEF put_msg_raw
      <3> QED
        BY <1>10, <2>3, <3>1 DEF put_msg_raw
    <2>5. mq' \in [1..MaxQueues -> Seq(Message)]
      BY <1>3, <2>4
    <2>6. /\ numqueues' \in 0..MaxQueues /\ metaqueue' \in Seq(1..numqueues')
          /\ call' \in [Queries -> [Checks -> 0..2]]
          /\ response_q' \in [Queries -> [Checks -> 0..MaxQueues]]
          /\ requests' \in SUBSET Lookups /\ cb' \in SUBSET Lookups
          /\ givenup' \in 0..MaxGiveUps
      BY <1>3, <2>4, Zenon
    <2>7. /\ numqueues <= numqueues'
          /\ \A q \in Queries : \A c \in Checks : response_q'[q][c] <= numqueues'
      BY <1>3, <2>4
    <2> QED
      BY <2>5, <2>6, <2>7, Zenon
  <1>11. Types2
    BY <1>6, <1>7, <1>8, <1>9, <1>10 DEF LookupAction, Gethostby, Helper
  <1>12. TypeOK'
    BY <1>1, <1>11 DEF Base, TypeOK, config, local, checks
  <1>13. RangeInv'
    BY <1>1, <1>3, <1>11 DEF RangeInv
  <1> QED
    BY <1>2, <1>12, <1>13 DEF Base

(* A lookup takes a queue that nobody has, gets its answer there, and      *)
(* gives it back empty, when the helper has nothing more to send into it.  *)
LEMMA LookupStep ==
  ASSUME Base, Sound, Answering
  PROVE  QueueInv' /\ Home' /\ LookupInv' /\ \A p \in Queries : Same(p)
  <1>1. /\ QueueInv /\ Home /\ LookupInv /\ RangeInv
        /\ edict \in [Queries -> Nat]
        /\ resultmq \in [Queries -> 0..MaxQueues]
        /\ mq \in [1..MaxQueues -> Seq(Message)]
        /\ MaxQueues \in Nat /\ numqueues \in 0..MaxQueues /\ metaqueue \in Seq(1..numqueues)
        /\ response_q \in [Queries -> [Checks -> 0..MaxQueues]]
        /\ requests \in SUBSET Lookups /\ cb \in SUBSET Lookups
    BY Types DEF Base, TypeOK, Sound
  <1>2. UNCHANGED <<config, pc, local, status, updated, request, edict, resultmq, checks, aborted>>
    <2>1. LookupAction
      BY DEF Answering, LookupAction, Gethostby
    <2> QED
      BY <2>1, QueriesAside
  <1>3. Askers \subseteq Checks
    BY DEF Askers
  <1>4. \A r \in requests \cup cb :
           /\ r.q \in Queries /\ r.c \in Checks /\ r.mq \in 1..MaxQueues
           /\ Underway(r)
    BY <1>1, <1>3 DEF LookupInv, Lookups
  <1>5. ASSUME \A p \in Queries : edict[p] > 0 => mq'[resultmq[p]] = mq[resultmq[p]]
        PROVE  \A p \in Queries : Same(p)
    BY <1>2, <1>5 DEF Same, config, local, checks, Results
  <1>6. ASSUME NEW q \in Queries, NEW c \in Askers, NEW n \in 1..2, Ask(q, c, n)
        PROVE  QueueInv' /\ Home' /\ LookupInv' /\ \A p \in Queries : Same(p)
    <2>1. PICK k \in 1..MaxQueues :
             /\ get_queue(k)
             /\ response_q' = [response_q EXCEPT ![q][c] = k]
             /\ requests' = requests \cup {[q |-> q, c |-> c, n |-> n, mq |-> k]}
      BY <1>6 DEF Ask
    <2>2. response_q[q][c] = 0 /\ mq' = mq /\ cb' = cb
      BY <1>6 DEF Ask
    <2>3. /\ numqueues' \in 0..MaxQueues /\ numqueues <= numqueues' /\ k <= numqueues'
          /\ ~Owned(k) /\ mq[k] = <<>>
          /\ k \notin Range(metaqueue')
          /\ \A i \in 1..numqueues' : i # k => i \in 1..numqueues
          /\ \A i \in Range(metaqueue) : i = k \/ i \in Range(metaqueue')
          /\ Range(metaqueue') \subseteq Range(metaqueue)
          /\ \A i, j \in 1..Len(metaqueue') : metaqueue'[i] = metaqueue'[j] => i = j
      BY <1>1, <2>1, NewNumber, GetQueue
    <2>4. /\ \A p \in Queries : edict[p] > 0 => resultmq[p] # k
          /\ \A p \in Queries : \A d \in Checks : response_q[p][d] # k
      BY <2>3 DEF Owned
    <2>5. /\ response_q'[q][c] = k
          /\ \A p \in Queries : \A d \in Checks :
                p # q \/ d # c => response_q'[p][d] = response_q[p][d]
      BY <1>1, <1>3, <2>1
    <2>6. \A i \in 1..MaxQueues : Owned(i) \/ i = k => Owned(i)'
      BY <1>2, <1>3, <2>2, <2>5 DEF Owned
    <2>7. QueueInv'
      <3>1. \A i \in 1..numqueues' : Owned(i)' \/ i \in Range(metaqueue')
        <4>1. TAKE i \in 1..numqueues'
        <4>2. i \in 1..MaxQueues
          BY <1>1, <2>3
        <4>3. CASE i = k
          BY <2>6, <4>2, <4>3
        <4>4. CASE i # k
          <5>1. i \in 1..numqueues
            BY <2>3, <4>4
          <5>2. Owned(i) \/ i \in Range(metaqueue)
            BY <1>1, <5>1 DEF QueueInv
          <5> QED
            BY <2>3, <2>6, <4>2, <4>4, <5>2
        <4> QED
          BY <4>3, <4>4
      <3>2. \A i \in 1..MaxQueues : Owned(i)' \/ mq'[i] = <<>>
        BY <1>1, <2>2, <2>6 DEF QueueInv
      <3> QED
        BY <2>3, <3>1, <3>2 DEF QueueInv
    <2>8. Home'
      <3>1. \A p \in Queries : edict[p] > 0 =>
               \A s \in Queries : \A d \in Checks : response_q'[s][d] # resultmq[p]
        <4>1. SUFFICES ASSUME NEW p \in Queries, edict[p] > 0, NEW s \in Queries, NEW d \in Checks
                       PROVE  response_q'[s][d] # resultmq[p]
          OBVIOUS
        <4>2. CASE s = q /\ d = c
          BY <2>4, <2>5, <4>1, <4>2
        <4>3. CASE s # q \/ d # c
          BY <1>1, <2>5, <4>1, <4>3 DEF Home
        <4> QED
          BY <4>2, <4>3
      <3> QED
        BY <1>1, <1>2, <2>2, <2>3, <3>1 DEF Home
    <2>9. \A p \in Queries : \A d \in Checks : Waits(p, d)'
      <3>1. TAKE p \in Queries
      <3>2. TAKE d \in Checks
      <3>3. CASE p = q /\ d = c
        <4>1. response_q'[p][d] = k /\ k \notin Range(metaqueue')
          BY <2>3, <2>5, <3>3
        <4>2. Len(mq'[k]) <= 1
          <5>1. mq'[k] = <<>>
            BY <2>2, <2>3
          <5> QED
            BY <5>1
        <4>3. \A s \in Queries : \A e \in Checks : response_q'[s][e] = k => s = p /\ e = d
          BY <2>4, <2>5, <3>3
        <4> QED
          BY <4>1, <4>2, <4>3 DEF Waits
      <3>4. CASE p # q \/ d # c
        <4>1. Waits(p, d) /\ response_q'[p][d] = response_q[p][d]
          BY <1>1, <2>5, <3>4 DEF LookupInv
        <4>2. SUFFICES ASSUME response_q[p][d] # 0 PROVE Waits(p, d)'
          BY <4>1 DEF Waits
        <4>3. /\ response_q[p][d] \notin Range(metaqueue')
              /\ Len(mq'[response_q[p][d]]) <= 1
          BY <2>2, <2>3, <4>1, <4>2 DEF Waits
        <4>4. \A s \in Queries : \A e \in Checks :
                 response_q'[s][e] = response_q[p][d] => s = p /\ e = d
          BY <2>4, <2>5, <4>1, <4>2 DEF Waits
        <4> QED
          BY <4>1, <4>3, <4>4 DEF Waits
      <3> QED
        BY <3>3, <3>4
    <2>10. PICK a : a = [q |-> q, c |-> c, n |-> n, mq |-> k]
      OBVIOUS
    <2>11. a.q = q /\ a.c = c /\ a.mq = k /\ requests' = requests \cup {a}
      BY <2>1, <2>10
    <2>12. \A r \in requests \cup cb : (r.q # q \/ r.c # c) /\ r.mq # k
      BY <1>4, <2>2, <2>4 DEF Underway
    <2>13. \A r \in requests' \cup cb' : Underway(r)'
      <3>1. Underway(a)'
        BY <2>2, <2>3, <2>5, <2>11, <2>12 DEF Underway
      <3>2. ASSUME NEW r \in requests \cup cb
            PROVE  Underway(r)'
        BY <1>4, <2>2, <2>5, <2>11, <2>12 DEF Underway
      <3> QED
        BY <2>2, <2>11, <3>1, <3>2
    <2>14. requests' \cap cb' = {}
      BY <1>1, <2>2, <2>11, <2>12 DEF LookupInv
    <2>15. LookupInv'
      BY <2>9, <2>13, <2>14 DEF LookupInv
    <2> QED
      BY <1>5, <2>2, <2>7, <2>8, <2>15
  <1>7. ASSUME NEW q \in Queries, NEW c \in Askers, GetAnswer(q, c)
        PROVE  QueueInv' /\ Home' /\ LookupInv' /\ \A p \in Queries : Same(p)
    <2>1. PICK k \in 1..MaxQueues : k = response_q[q][c] /\ k \in 1..numqueues
      BY <1>1, <1>3, <1>7 DEF GetAnswer, RangeInv
    <2>2. /\ mq[k] # <<>> /\ mq' = [mq EXCEPT ![k] = Tail(mq[k])]
          /\ release_queue(k)
          /\ response_q' = [response_q EXCEPT ![q][c] = 0]
          /\ UNCHANGED <<numqueues, requests, cb>>
      BY <1>1, <1>7, <2>1 DEF GetAnswer
    <2>3. mq'[k] = <<>> /\ \A i \in 1..MaxQueues : i # k => mq'[i] = mq[i]
      <3>1. mq[k] \in Seq(Message) /\ Len(mq[k]) <= 1
        BY <1>1, <1>3, <2>1 DEF LookupInv, Waits
      <3>2. Tail(mq[k]) = <<>>
        BY <2>2, <3>1
      <3> QED
        BY <1>1, <2>2, <3>2
    <2>4. metaqueue' = Append(metaqueue, k)
      BY <2>2, <2>3 DEF release_queue
    <2>5. /\ k \notin Range(metaqueue)
          /\ \A p \in Queries : \A d \in Checks : response_q[p][d] = k => p = q /\ d = c
          /\ \A p \in Queries : edict[p] > 0 => resultmq[p] # k
          /\ \A r \in requests \cup cb : r.mq # k
      <3>1. Waits(q, c)
        BY <1>1, <1>3 DEF LookupInv
      <3>2. \A r \in requests \cup cb : r.mq # k
        BY <1>4, <2>2 DEF Underway
      <3>3. \A p \in Queries : edict[p] > 0 => resultmq[p] # k
        BY <1>1, <1>3, <2>1 DEF Home
      <3> QED
        BY <2>1, <3>1, <3>2, <3>3 DEF Waits
    <2>6. Range(metaqueue') = Range(metaqueue) \cup {k}
      <3>1. PICK S : S = 1..numqueues
        OBVIOUS
      <3>2. metaqueue \in Seq(S) /\ k \in S
        BY <1>1, <2>1, <3>1
      <3> QED
        BY <2>4, <3>2, RangeAppend
    <2>7. /\ response_q'[q][c] = 0
          /\ \A p \in Queries : \A d \in Checks :
                p # q \/ d # c => response_q'[p][d] = response_q[p][d]
      BY <1>1, <1>3, <2>2
    <2>8. \A i \in 1..MaxQueues : i # k /\ Owned(i) => Owned(i)'
      BY <1>2, <2>1, <2>7 DEF Owned
    <2>9. QueueInv'
      <3>1. \A i, j \in 1..Len(metaqueue') : metaqueue'[i] = metaqueue'[j] => i = j
        <4>1. /\ Len(metaqueue') = Len(metaqueue) + 1 /\ Len(metaqueue) \in Nat
              /\ metaqueue'[Len(metaqueue) + 1] = k
              /\ \A i \in 1..Len(metaqueue) : metaqueue'[i] = metaqueue[i]
          BY <1>1, <2>1, <2>4
        <4>2. \A i \in 1..Len(metaqueue) : metaqueue[i] # k
          BY <1>1, <2>5 DEF Range
        <4>3. \A i, j \in 1..Len(metaqueue) : metaqueue[i] = metaqueue[j] => i = j
          BY <1>1 DEF QueueInv
        <4> QED
          BY <4>1, <4>2, <4>3
      <3>2. \A i \in 1..numqueues' : Owned(i)' \/ i \in Range(metaqueue')
        BY <1>1, <2>2, <2>6, <2>8 DEF QueueInv
      <3>3. \A i \in 1..MaxQueues : Owned(i)' \/ mq'[i] = <<>>
        BY <1>1, <2>3, <2>8 DEF QueueInv
      <3> QED
        BY <3>1, <3>2, <3>3 DEF QueueInv
    <2>10. \A p \in Queries : edict[p] > 0 => mq'[resultmq[p]] = mq[resultmq[p]]
      BY <1>1, <2>3, <2>5 DEF RangeInv
    <2>11. Home'
      <3>1. \A p \in Queries : edict[p] > 0 =>
               \A s \in Queries : \A d \in Checks : response_q'[s][d] # resultmq[p]
        <4>1. SUFFICES ASSUME NEW p \in Queries, edict[p] > 0, NEW s \in Queries, NEW d \in Checks
                       PROVE  response_q'[s][d] # resultmq[p]
          OBVIOUS
        <4>2. CASE s = q /\ d = c
          BY <1>1, <2>7, <4>1, <4>2 DEF RangeInv
        <4>3. CASE s # q \/ d # c
          BY <1>1, <2>7, <4>1, <4>3 DEF Home
        <4> QED
          BY <4>2, <4>3
      <3>2. \A p \in Queries : edict[p] > 0 => resultmq[p] \notin Range(metaqueue')
        BY <1>1, <2>5, <2>6 DEF Home
      <3> QED
        BY <1>1, <1>2, <2>10, <3>1, <3>2 DEF Home
    <2>12. \A p \in Queries : \A d \in Checks : Waits(p, d)'
      <3>1. TAKE p \in Queries
      <3>2. TAKE d \in Checks
      <3>3. CASE p = q /\ d = c
        BY <2>7, <3>3 DEF Waits
      <3>4. CASE p # q \/ d # c
        <4>1. Waits(p, d) /\ response_q'[p][d] = response_q[p][d]
          BY <1>1, <2>7, <3>4 DEF LookupInv
        <4>2. SUFFICES ASSUME response_q[p][d] # 0 PROVE Waits(p, d)'
          BY <4>1 DEF Waits
        <4>3. /\ response_q[p][d] # k /\ response_q[p][d] \in 1..MaxQueues
              /\ response_q[p][d] \notin Range(metaqueue')
          BY <1>1, <2>5, <2>6, <3>4, <4>1, <4>2 DEF Waits
        <4>4. mq'[response_q[p][d]] = mq[response_q[p][d]]
          BY <2>3, <4>3
        <4>5. \A s \in Queries : \A e \in Checks :
                 response_q'[s][e] = response_q[p][d] => s = p /\ e = d
          BY <2>7, <4>1, <4>2 DEF Waits
        <4> QED
          BY <4>1, <4>2, <4>3, <4>4, <4>5 DEF Waits
      <3> QED
        BY <3>3, <3>4
    <2>13. \A r \in requests \cup cb : Underway(r)'
      <3>1. TAKE r \in requests \cup cb
      <3>2. r.q # q \/ r.c # c
        BY <1>4, <2>1, <2>5 DEF Underway
      <3>3. response_q'[r.q][r.c] = r.mq /\ mq'[r.mq] = <<>>
        BY <1>4, <2>3, <2>5, <2>7, <3>2 DEF Underway
      <3> QED
        BY <1>4, <2>2, <3>3 DEF Underway
    <2>14. LookupInv'
      BY <1>1, <2>2, <2>12, <2>13 DEF LookupInv
    <2> QED
      BY <1>5, <2>9, <2>10, <2>11, <2>14
  <1>8. ASSUME NEW r \in requests, default_cb(r)
        PROVE  QueueInv' /\ Home' /\ LookupInv' /\ \A p \in Queries : Same(p)
    <2>1. /\ requests' = requests \ {r} /\ (cb' = {r} \/ cb' = {}) /\ cb = {}
          /\ UNCHANGED <<mq, numqueues, metaqueue, response_q>>
      BY <1>8 DEF default_cb, queues
    <2>2. QueueInv' /\ Home'
      BY <1>1, <1>2, <2>1 DEF QueueInv, Home, Owned
    <2>3. LookupInv'
      <3>1. \A p \in Queries : \A c \in Checks : Waits(p, c)'
        BY <1>1, <2>1 DEF LookupInv, Waits
      <3>2. requests' \cup cb' \subseteq requests \cup cb /\ requests' \cap cb' = {}
        BY <2>1
      <3>3. \A s \in requests' \cup cb' : Underway(s)'
        BY <1>4, <2>1, <3>2 DEF Underway
      <3> QED
        BY <3>1, <3>2, <3>3 DEF LookupInv
    <2> QED
      BY <1>5, <2>1, <2>2, <2>3
  <1>9. ASSUME NEW r \in cb, NEW found \in BOOLEAN, put_msg_raw(r, found)
        PROVE  QueueInv' /\ Home' /\ LookupInv' /\ \A p \in Queries : Same(p)
    <2>1. /\ r.q \in Queries /\ r.c \in Checks /\ r.mq \in 1..MaxQueues
          /\ response_q[r.q][r.c] = r.mq /\ mq[r.mq] = <<>>
          /\ \A s \in requests \cup cb : s.mq = r.mq => s = r
      BY <1>4 DEF Underway
    <2>2. PICK m \in Message : m = HostMsg(r.q, found)
      <3>1. HostMsg(r.q, found) \in Message
        BY <2>1 DEF HostMsg, Message, J_UNDEFINED, J_PASS
      <3> QED
        BY <3>1
    <2>3. /\ mq' = [mq EXCEPT ![r.mq] = <<m>>] /\ cb' = {}
          /\ UNCHANGED <<numqueues, metaqueue, response_q, requests>>
      <3>1. Append(mq[r.mq], m) = <<m>>
        BY <2>1
      <3> QED
        BY <1>9, <2>2, <3>1 DEF put_msg_raw
    <2>4. Owned(r.mq) /\ \A i : Owned(i)' <=> Owned(i)
      BY <1>2, <2>1, <2>3 DEF Owned
    <2>5. QueueInv'
      BY <1>1, <2>3, <2>4 DEF QueueInv
    <2>6. \A p \in Queries : edict[p] > 0 => mq'[resultmq[p]] = mq[resultmq[p]]
      <3>1. \A p \in Queries : edict[p] > 0 => resultmq[p] # r.mq
        BY <1>1, <2>1 DEF Home
      <3> QED
        BY <1>1, <2>3, <3>1, Types
    <2>7. Home'
      BY <1>1, <1>2, <2>3, <2>6 DEF Home
    <2>8. \A p \in Queries : \A c \in Checks : Waits(p, c)'
      <3>1. Len(<<m>>) <= 1
        OBVIOUS
      <3>2. \A i \in 1..MaxQueues : mq'[i] = IF i = r.mq THEN <<m>> ELSE mq[i]
        BY <1>1, <2>3
      <3>3. \A p \in Queries : \A c \in Checks :
               response_q[p][c] # 0 => Len(mq'[response_q[p][c]]) <= 1
        <4>1. TAKE p \in Queries
        <4>2. TAKE c \in Checks
        <4>3. SUFFICES ASSUME response_q[p][c] # 0 PROVE Len(mq'[response_q[p][c]]) <= 1
          OBVIOUS
        <4>4. PICK i \in 1..MaxQueues : i = response_q[p][c]
          BY <1>1, <4>3
        <4>5. Len(mq[i]) <= 1
          BY <1>1, <4>3, <4>4 DEF LookupInv, Waits
        <4>6. mq'[i] = <<m>> \/ mq'[i] = mq[i]
          BY <3>2
        <4> QED
          BY <3>1, <4>4, <4>5, <4>6, Zenon
      <3> QED
        BY <1>1, <2>3, <3>3 DEF LookupInv, Waits
    <2>9. \A s \in requests : Underway(s)'
      <3>1. TAKE s \in requests
      <3>2. s.mq # r.mq
        BY <1>1, <2>1 DEF LookupInv
      <3> QED
        BY <1>1, <1>4, <2>3, <3>2 DEF Underway
    <2>10. LookupInv'
      BY <2>3, <2>8, <2>9 DEF LookupInv
    <2> QED
      BY <1>5, <2>5, <2>6, <2>7, <2>10
  <1> QED
    BY <1>6, <1>7, <1>8, <1>9 DEF Answering, Helper

-----------------------------------------------------------------------------
LEMMA InitIInv == Init => IInv
  <1> SUFFICES ASSUME Init PROVE IInv
    OBVIOUS
  <1>1. TypeOK
    <2>1. /\ 0 \in 0..Cardinality(Checks) /\ 0 \in 0..Cardinality(Checks) + 1
          /\ 0 \in 0..MaxGiveUps
          /\ Timeouts \in 0..Timeouts /\ 0 \in 0..MaxQueues /\ 0 \in 0..MaxEarly
          /\ 0 \in J_UNDEFINED..J_PASS
      BY CheckSets, QueryAssumption DEF QueryAssumption, J_UNDEFINED, J_PASS
    <2>2. /\ checklist \in Checklists /\ block_threshold \in Thresholds
          /\ pc \in [Queries -> {"idle", "submit", "wait", "unlink", "update", "respond", "done"}]
          /\ status \in [Queries -> {"UNKNOWN", "FAIL", "TRUST", "MATCH", "GREY", "BLOCK"}]
          /\ job \in [Queries -> [Checks -> {"none", "queued", "running", "sent", "unlink", "done"}]]
          /\ definitive \in [Queries -> BOOLEAN] /\ updated \in [Queries -> BOOLEAN]
          /\ aborted \in BOOLEAN
      BY DEF Init, Checklists, Thresholds
    <2>3. /\ ta \in [Queries -> 0..Timeouts]
          /\ checks_running \in [Queries -> 0..Cardinality(Checks)]
          /\ judgment \in [Queries -> J_UNDEFINED..J_PASS]
          /\ susp_weight \in [Queries -> Nat]
          /\ request \in [Queries -> Nat]
          /\ edict \in [Queries -> 0..Cardinality(Checks) + 1]
          /\ resultmq \in [Queries -> 0..MaxQueues]
          /\ early \in [Queries -> [Checks -> 0..MaxEarly]]
      BY <2>1 DEF Init, J_UNDEFINED
    <2>4. /\ mq \in [1..MaxQueues -> Seq(Message)]
          /\ numqueues \in 0..MaxQueues
          /\ metaqueue \in Seq(1..numqueues)
          /\ total \in [Queries -> Result]
      BY <2>1 DEF Init, Result, J_UNDEFINED
    <2>5. /\ call \in [Queries -> [Checks -> 0..2]]
          /\ response_q \in [Queries -> [Checks -> 0..MaxQueues]]
          /\ requests \in SUBSET Lookups /\ cb \in SUBSET Lookups
          /\ givenup \in 0..MaxGiveUps
      BY <2>1 DEF Init
    <2> QED
      BY <2>2, <2>3, <2>4, <2>5 DEF TypeOK
  <1>2. JobInv
    BY DEF Init, JobInv
  <1>3. \A q \in Queries : \A states : "none" \notin states => Jobs(q, states) = {}
    BY DEF Init, Jobs
  <1>4. \A q \in Queries : Own(q) = 0 /\ Alive(q) = 1
    BY DEF Init, Own, Alive
  <1>5. EdictInv
    <2>1. ASSUME NEW q \in Queries
          PROVE  edict[q] = Cardinality(HoldsEdict(q)) + Own(q)
      <3>1. HoldsEdict(q) = {}
        BY <1>3, HolderSets
      <3>2. edict[q] = 0
        BY DEF Init
      <3> QED
        BY <1>4, <3>1, <3>2, FS_EmptySet
    <2> QED
      BY <2>1 DEF EdictInv
  <1>6. QueueInv /\ Home /\ LookupInv /\ RangeInv
    BY DEF Init, QueueInv, Home, LookupInv, Waits, RangeInv
  <1>7. ASSUME NEW q \in Queries
        PROVE  QueryOK(q)
    <2>1. HoldsRequest(q) = {} /\ Past(q) = {}
      BY <1>3, HolderSets DEF Past
    <2>2. /\ request[q] = 1 /\ edict[q] = 0 /\ pc[q] = "idle" /\ definitive[q] = FALSE
          /\ judgment[q] = J_UNDEFINED /\ susp_weight[q] = 0
          /\ total[q] = [judgment |-> J_UNDEFINED, weight |-> 0]
      BY DEF Init
    <2>3. RequestOK(q)
      <3>1. Cardinality(HoldsRequest(q)) = 0 /\ Cardinality(Past(q)) = 0
        BY <2>1, FS_EmptySet
      <3> QED
        BY <1>4, <2>2, <3>1 DEF RequestOK, Loose
    <2>4. SumOK(q)
      BY <2>2 DEF SumOK, SoFar, Below, J_UNDEFINED, J_SUSPICIOUS
    <2>5. LastOK(q) /\ RunningOK(q) /\ DecisionOK(q)
      BY <2>2 DEF LastOK, RunningOK, DecisionOK
    <2> QED
      BY <2>3, <2>4, <2>5 DEF QueryOK
  <1> QED
    BY <1>1, <1>2, <1>5, <1>6, <1>7 DEF IInv, Base, Sound

LEMMA StutterIInv == IInv /\ UNCHANGED vars => IInv'
  <1> SUFFICES ASSUME IInv, UNCHANGED vars PROVE IInv'
    OBVIOUS
  <1> USE DEF vars, config, local, checks, queues, lookups
  <1>1. TypeOK' /\ JobInv'
    BY DEF IInv, Base, TypeOK, JobInv
  <1>2. EdictInv' /\ RangeInv'
    BY DEF IInv, Base, EdictInv, HoldsEdict, Own, RangeInv
  <1>3. ASSUME Sound
        PROVE  Sound'
    <2>1. QueueInv' /\ Home'
      BY <1>3 DEF Sound, QueueInv, Home, Owned
    <2>2. LookupInv'
      BY <1>3 DEF Sound, LookupInv, Waits, Underway
    <2>3. ASSUME NEW q \in Queries
          PROVE  QueryOK(q)'
      <3>1. QueryOK(q)
        BY <1>3 DEF Sound
      <3>2. RequestOK(q)'
        BY <3>1 DEF QueryOK, RequestOK, Loose, HoldsRequest, Past, Jobs, Alive, Results
      <3>3. SumOK(q)'
        BY <3>1 DEF QueryOK, SumOK, SoFar, Results
      <3>4. LastOK(q)' /\ RunningOK(q)'
        BY <3>1 DEF QueryOK, LastOK, RunningOK, Sent, Jobs, Results
      <3>5. DecisionOK(q)'
        BY <3>1 DEF QueryOK, DecisionOK, Decided, Verdict, definitives_running, Sent, Jobs, SoFar
      <3> QED
        BY <3>2, <3>3, <3>4, <3>5 DEF QueryOK
    <2> QED
      BY <2>1, <2>2, <2>3 DEF Sound
  <1>4. givenup' = 0 => Sound'
    BY <1>3 DEF IInv
  <1> QED
    BY <1>1, <1>2, <1>4 DEF IInv, Base

LEMMA NextIInv == IInv /\ [Next]_vars => IInv'
  <1>1. ASSUME IInv, ~aborted, NEW q \in Queries, Step(q)
        PROVE  IInv'
    <2>1. Base
      BY <1>1 DEF IInv
    <2>2. EdictInv' /\ JobInv' /\ RangeInv'
      BY <1>1, <2>1, EdictStep, JobStep, RangeStep
    <2>3. Base'
      BY <1>1, <2>1, <2>2, TypeStep DEF Base
    <2>4. ASSUME Sound
          PROVE  Sound'
      <3>1. ASSUME NEW p \in Queries
            PROVE  QueryOK(p)'
        <4>1. CASE p = q
          <5>1. RequestOK(q)' /\ SumOK(q)' /\ LastOK(q)' /\ RunningOK(q)' /\ DecisionOK(q)'
            BY <1>1, <2>1, <2>4, RequestStep, SumStep, LastStep, RunningStep, DecisionStep
          <5> QED
            BY <4>1, <5>1 DEF QueryOK
        <4>2. CASE p # q
          BY <1>1, <2>1, <2>4, <4>2, Others, OthersKeep
        <4> QED
          BY <4>1, <4>2
      <3>2. QueueInv' /\ Home' /\ LookupInv'
        BY <1>1, <2>1, <2>4, QueueStep, LookupKept
      <3> QED
        BY <3>1, <3>2 DEF Sound
    <2>5. givenup' = givenup
      BY <1>1, LookupsAside DEF lookups
    <2> QED
      BY <1>1, <2>3, <2>4, <2>5 DEF IInv
  <1>2. ASSUME IInv, ~aborted, LookupAction
        PROVE  IInv'
    <2>1. Base
      BY <1>2 DEF IInv
    <2>2. Base'
      BY <1>2, <2>1, LookupBase
    <2>3. ASSUME givenup' = 0
          PROVE  Sound'
      <3>1. givenup = 0 /\ Answering
        BY <1>2, <2>1, <2>3, NotGivenUp
      <3>2. Sound
        BY <1>2, <3>1 DEF IInv
      <3>3. QueueInv' /\ Home' /\ LookupInv' /\ \A p \in Queries : Same(p)
        BY <2>1, <3>1, <3>2, LookupStep
      <3>4. \A p \in Queries : QueryOK(p)'
        BY <1>2, <2>1, <3>2, <3>3, OthersKeep
      <3> QED
        BY <3>3, <3>4 DEF Sound
    <2> QED
      BY <2>2, <2>3 DEF IInv
  <1>3. IInv /\ Next => IInv'
    BY <1>1, <1>2 DEF Next, Step, LookupAction
  <1> QED
    BY <1>3, StutterIInv

(* The inductive invariant holds in every state of test_tuple() and its    *)
(* checks.                                                                 *)
THEOREM InvariantHolds == Spec => []IInv
  BY InitIInv, NextIInv, PTL DEF Spec

(* The variables of test_tuple(), the reference counts and the queues keep *)
(* their types, whatever the lookups of helo and reverse do; in particular *)
(* no edict has more references than checks and query together hold, and   *)
(* checks_running does not go below zero.                                  *)
THEOREM TypeCorrect == Spec => []TypeOK
  <1>1. IInv => TypeOK
    BY DEF IInv, Base
  <1> QED
    BY <1>1, InvariantHolds, PTL

(* edict_unlink() and release_queue(): as long as no lookup of helo or     *)
(* reverse has been given up, no query finds the results of another one or *)
(* the host of a lookup, and no queue has two owners.                      *)
THEOREM ResultsStayHome == Spec => []ResultsGoHome
  <1>1. IInv => ResultsGoHome
    BY DEF IInv, Sound, Home, Mine, ResultsGoHome
  <1> QED
    BY <1>1, InvariantHolds, PTL

(* Request, edict and queue are there for whoever still uses them, however *)
(* early the query gives up and in whichever order checks end, as long as  *)
(* no lookup of a check has been given up.                                 *)
THEOREM ReferencesCounted == Spec => []NothingUsedAfterFree
  <1>1. ASSUME IInv
        PROVE  NothingUsedAfterFree
    <2> SUFFICES ASSUME givenup = 0 PROVE NothingUsedAfterFree
      BY DEF NothingUsedAfterFree
    <2>0. Base /\ Sound
      BY <1>1 DEF IInv
    <2>1. ASSUME NEW q \in Queries
          PROVE  /\ HoldsEdict(q) # {} \/ pc[q] \in {"submit", "wait", "unlink"} => edict[q] > 0
                 /\ HoldsRequest(q) # {} \/ pc[q] # "done" => request[q] > 0
      <3>1. HoldsEdict(q) # {} \/ pc[q] \in {"submit", "wait", "unlink"} => edict[q] > 0
        BY <2>0, HasEdict DEF HoldsEdict, EdictStates
      <3>2. /\ Loose(q) >= 0 /\ request[q] \in Nat /\ Alive(q) \in 0..1
            /\ IsFiniteSet(HoldsRequest(q)) /\ Cardinality(HoldsRequest(q)) \in Nat
        <4>1. Loose(q) \in 0..Cardinality(Past(q))
          BY <2>0 DEF Sound, QueryOK, RequestOK
        <4>2. HoldsRequest(q) \in SUBSET Checks /\ Alive(q) \in 0..1
          BY DEF HoldsRequest, Alive
        <4> QED
          BY <2>0, <4>1, <4>2, Types, CheckSets
      <3>3. Cardinality(HoldsRequest(q)) = 0 <=> HoldsRequest(q) = {}
        BY <3>2, FS_EmptySet
      <3>4. request[q] >= Cardinality(HoldsRequest(q)) + Alive(q)
        BY <3>2 DEF Loose
      <3> QED
        BY <3>1, <3>2, <3>3, <3>4 DEF Alive
    <2> QED
      BY <2>1 DEF NothingUsedAfterFree
  <1> QED
    BY <1>1, InvariantHolds, PTL

(* Whoever ends last frees the request, the edict and the queue: nothing   *)
(* is lost, in whichever order query and checks end, as long as no lookup  *)
(* of a check has been given up.                                           *)
THEOREM EverythingReturned == Spec => []NothingLeaks
  <1>1. ASSUME IInv
        PROVE  NothingLeaks
    <2> SUFFICES ASSUME givenup = 0 PROVE NothingLeaks
      BY DEF NothingLeaks
    <2>0. Base /\ Sound
      BY <1>1 DEF IInv
    <2>1. ASSUME ~aborted, NEW q \in Queries, pc[q] = "done", HoldsEdict(q) = {}
          PROVE  /\ request[q] = 0
                 /\ edict[q] = 0
                 /\ \/ resultmq[q] = 0
                    \/ resultmq[q] \in Range(metaqueue)
                    \/ \E p \in Queries : edict[p] > 0 /\ resultmq[p] = resultmq[q]
                    \/ \E p \in Queries : \E c \in Checks : response_q[p][c] = resultmq[q]
      <3>1. edict[q] = 0
        BY <2>0, <2>1, FS_EmptySet DEF Base, EdictInv, Own
      <3>2. HoldsRequest(q) = {}
        BY <2>1 DEF HoldsRequest, HoldsEdict
      <3>3. request[q] - 0 - 0 = 0
        <4>1. Loose(q) = 0
          BY <2>0, <2>1, <3>1 DEF Sound, QueryOK, RequestOK
        <4> QED
          BY <2>1, <3>2, <4>1, FS_EmptySet DEF Loose, Alive
      <3>4. request[q] \in Nat /\ resultmq[q] \in 0..numqueues
        BY <2>0, Types DEF Base, TypeOK, RangeInv
      <3>5. resultmq[q] # 0 => Owned(resultmq[q]) \/ resultmq[q] \in Range(metaqueue)
        BY <2>0, <3>4, Types DEF Sound, QueueInv
      <3> QED
        BY <3>1, <3>3, <3>4, <3>5 DEF Owned
    <2> QED
      BY <2>1 DEF NothingLeaks
  <1> QED
    BY <1>1, InvariantHolds, PTL

(* A later result does not change a decision that was made without it. *)
LEMMA VerdictKept ==
  ASSUME Base, Sound, NEW q \in Queries, Decided(judgment[q], susp_weight[q]), NEW match
  PROVE  Verdict(judgment[q], susp_weight[q], match)
            = Verdict(total[q].judgment, total[q].weight, match)
  <1>1. /\ judgment[q] \in J_UNDEFINED..J_PASS /\ total[q].judgment \in J_UNDEFINED..J_PASS
        /\ susp_weight[q] \in Nat /\ total[q].weight \in Nat
        /\ block_threshold \in Nat /\ grey_threshold \in Nat
    BY QueryAssumption DEF QueryAssumption, Base, Sound, TypeOK, Result
  <1>2. /\ judgment[q] <= total[q].judgment /\ susp_weight[q] <= total[q].weight
        /\ total[q].judgment > J_SUSPICIOUS => checklist \cap Definitive # {}
    BY DEF Base, Sound, QueryOK, SumOK, Below, SoFar
  <1> USE DEF J_UNDEFINED, J_SUSPICIOUS, J_BLOCK, J_PASS
  <1>3. CASE judgment[q] = J_PASS
    BY <1>1, <1>2, <1>3 DEF Verdict
  <1>4. CASE judgment[q] # J_PASS
    <2>1. /\ definitives_running = 0
          /\ IF block_threshold # 0 THEN susp_weight[q] >= block_threshold
                                    ELSE susp_weight[q] >= grey_threshold
      BY <1>4 DEF Decided
    <2>2. checklist \cap Definitive = {}
      <3>1. checklist \cap Definitive \in SUBSET Checks
        BY Types
      <3> QED
        BY <2>1, <3>1, CheckSets, FS_EmptySet DEF definitives_running
    <2>3. ~(total[q].judgment > J_SUSPICIOUS)
      BY <1>2, <2>2
    <2> QED
      BY <1>1, <1>2, <2>1, <2>3 DEF Verdict
  <1> QED
    BY <1>3, <1>4

(* test_tuple(): a query that no time limit ended answers what all results *)
(* together give, although it may have stopped waiting at the first of     *)
(* them, and in whichever order they came, as long as no lookup of a check *)
(* has been given up.                                                      *)
THEOREM OrderDoesNotMatter == Spec => []DecisionIndependentOfOrder
  <1>1. ASSUME IInv
        PROVE  DecisionIndependentOfOrder
    <2> SUFFICES ASSUME givenup = 0 PROVE DecisionIndependentOfOrder
      BY DEF DecisionIndependentOfOrder
    <2>0. Base /\ Sound
      BY <1>1 DEF IInv
    <2>1. ASSUME NEW q \in Queries, pc[q] = "done", ~Dryrun, resultmq[q] # 0, ta[q] > 0
          PROVE  \E match \in BOOLEAN :
                    status[q] = Verdict(total[q].judgment, total[q].weight, match)
      <3>1. /\ definitive[q] => Decided(judgment[q], susp_weight[q])
            /\ definitive[q] \/ total[q] = SoFar(q)
            /\ \E match \in BOOLEAN : status[q] = Verdict(judgment[q], susp_weight[q], match)
        BY <2>0, <2>1 DEF Sound, QueryOK, DecisionOK
      <3>2. PICK match \in BOOLEAN : status[q] = Verdict(judgment[q], susp_weight[q], match)
        BY <3>1
      <3>3. CASE definitive[q]
        BY <2>0, <3>1, <3>2, <3>3, VerdictKept
      <3>4. CASE total[q] = SoFar(q)
        BY <3>2, <3>4 DEF SoFar
      <3> QED
        BY <3>1, <3>3, <3>4
    <2> QED
      BY <2>1 DEF DecisionIndependentOfOrder
  <1> QED
    BY <1>1, InvariantHolds, PTL
=============================================================================
