------------------------------- MODULE Query -------------------------------
(***************************************************************************)
(* A query through test_tuple() of worker.c: the edict that is submitted   *)
(* to the pool of every check, the checks that run in other threads and    *)
(* send their results into the edict's message queue, the wait for results *)
(* with its time limits, the decision, and the reference counts by which   *)
(* query and checks, which end in any order, share the request, the edict  *)
(* and the queue.  Queues are recycled through the metaqueue, which the    *)
(* lookups of the checks helo and reverse use too: the DNS helper sends    *)
(* into the queue it was given even when its asker has gone on without the *)
(* answer (DnsHelper has the helper itself, its pipe and its cache).       *)
(*                                                                         *)
(* Whether a pool thread runs a job or rejects it (ThreadPool) and how     *)
(* long a check takes is open.  A time limit may pass at any moment of the *)
(* wait.  The content of the Bloom ring is an input.                       *)
(***************************************************************************)
EXTENDS Checks, Sequences, FiniteSets, SequencesExt

CONSTANTS
    Queries,
    MaxEarly,        \* bound on the early results of one check
    Configs,         \* the configurations: ctx->checklist and block_threshold
    grey_threshold,
    Timeouts,        \* length of the tmout_action_t list
    Shortcut,        \* FLG_MATCH_SHORTCUT
    UpdateAlways,    \* FLG_UPDATE_ALWAYS
    Dryrun,          \* FLG_DRYRUN
    MaxQueues,       \* bound on the message queues ever created
    MaxGiveUps,      \* bound on the lookups that are given up
    MaxJobs          \* bound on the jobs submitted by all queries together

Checklists == {c.checklist : c \in Configs}
Thresholds == {c.block_threshold : c \in Configs}

ASSUME QueryAssumption ==
    /\ Checklists \subseteq SUBSET AllChecks
    /\ Thresholds \subseteq Nat
    /\ grey_threshold \in Nat
    /\ Timeouts \in Nat \ {0}
    /\ MaxEarly \in Nat
    /\ Shortcut \in BOOLEAN
    /\ UpdateAlways \in BOOLEAN
    /\ Dryrun \in BOOLEAN
    /\ MaxQueues \in Nat /\ MaxQueues >= Cardinality(Queries)
    /\ MaxGiveUps \in Nat
    /\ MaxJobs \in Nat

Checks == UNION Checklists

VARIABLES
    checklist, block_threshold,      \* the configuration
    pc, ta,                          \* test_tuple(): place, time limits left
    checks_running, judgment, susp_weight, definitive,
    status, updated,
    request, edict,                  \* reference counts, 0: freed
    resultmq,                        \* edict->resultmq
    job, early,                      \* the checks of every query
    mq, numqueues, metaqueue,        \* message queues and the released ones
    call,                            \* lookups a check is through or in, 0..2
    response_q,                      \* the queue its lookup waits on, 0: it is in none
    requests,                        \* lookups the DNS helper has not ended
    cb,                              \* the one default_cb() is passing on, if any
    aborted,                         \* an assert() has failed, or a wild pointer was read
    \* What follows is not in the program.
    total,                           \* all results a query's checks have sent
    givenup                          \* how many lookups ended without an answer

config == <<checklist, block_threshold>>
local == <<ta, checks_running, judgment, susp_weight, definitive>>
checks == <<job, early, total>>
queues == <<mq, numqueues, metaqueue>>
lookups == <<call, response_q, requests, cb, givenup>>
vars == <<config, pc, local, status, updated, request, edict, resultmq, checks, queues, lookups,
          aborted>>

(* A message in a queue is a pointer: to a result, to a host, or the NULL  *)
(* that stands for a check which was never run or for a lookup that found  *)
(* nothing.  The program sees neither what it points to nor whom it is for. *)
Message == [for : Queries, judgment : J_UNDEFINED..J_PASS, weight : Nat,
            wait : BOOLEAN, null : BOOLEAN, host : BOOLEAN, dns : BOOLEAN]

Msg(q, r, wait) == [for |-> q, judgment |-> r.judgment, weight |-> r.weight,
                    wait |-> wait, null |-> FALSE, host |-> FALSE, dns |-> FALSE]
NullMsg(q) == [for |-> q, judgment |-> J_UNDEFINED, weight |-> 0,
               wait |-> FALSE, null |-> TRUE, host |-> FALSE, dns |-> FALSE]
HostMsg(q, found) == [for |-> q, judgment |-> J_UNDEFINED, weight |-> 0,
                      wait |-> FALSE, null |-> ~found, host |-> found, dns |-> TRUE]

(* The lookups of helo and reverse: number n is for a name or an address. *)
Askers == Checks \cap {"helo", "reverse"}
Lookups == [q : Queries, c : Askers, n : 1..2, mq : 1..MaxQueues]
ForName(c, n) == IF c = "helo" THEN n = 1 ELSE n = 2

TypeOK ==
    /\ checklist \in Checklists
    /\ block_threshold \in Thresholds
    /\ pc \in [Queries -> {"idle", "submit", "wait", "unlink", "update", "respond", "done"}]
    /\ ta \in [Queries -> 0..Timeouts]
    /\ checks_running \in [Queries -> 0..Cardinality(Checks)]
    /\ judgment \in [Queries -> J_UNDEFINED..J_PASS]
    /\ susp_weight \in [Queries -> Nat]
    /\ definitive \in [Queries -> BOOLEAN]
    /\ status \in [Queries -> {"UNKNOWN", "FAIL", "TRUST", "MATCH", "GREY", "BLOCK"}]
    /\ updated \in [Queries -> BOOLEAN]
    /\ request \in [Queries -> Nat]
    /\ edict \in [Queries -> 0..Cardinality(Checks) + 1]
    /\ resultmq \in [Queries -> 0..MaxQueues]
    /\ job \in [Queries -> [Checks -> {"none", "queued", "running", "sent", "unlink", "done"}]]
    /\ early \in [Queries -> [Checks -> 0..MaxEarly]]
    /\ mq \in [1..MaxQueues -> Seq(Message)]
    /\ numqueues \in 0..MaxQueues
    /\ metaqueue \in Seq(1..numqueues)
    /\ total \in [Queries -> Result]
    /\ call \in [Queries -> [Checks -> 0..2]]
    /\ response_q \in [Queries -> [Checks -> 0..MaxQueues]]
    /\ requests \in SUBSET Lookups
    /\ cb \in SUBSET Lookups
    /\ givenup \in 0..MaxGiveUps
    /\ aborted \in BOOLEAN

Init ==
    /\ \E c \in Configs : checklist = c.checklist /\ block_threshold = c.block_threshold
    /\ pc = [q \in Queries |-> "idle"]
    /\ ta = [q \in Queries |-> Timeouts]
    /\ checks_running = [q \in Queries |-> 0]
    /\ judgment = [q \in Queries |-> J_UNDEFINED]
    /\ susp_weight = [q \in Queries |-> 0]
    /\ definitive = [q \in Queries |-> FALSE]
    /\ status = [q \in Queries |-> "UNKNOWN"]
    /\ updated = [q \in Queries |-> FALSE]
    /\ request = [q \in Queries |-> 1]
    /\ edict = [q \in Queries |-> 0]
    /\ resultmq = [q \in Queries |-> 0]
    /\ job = [q \in Queries |-> [c \in Checks |-> "none"]]
    /\ early = [q \in Queries |-> [c \in Checks |-> 0]]
    /\ mq = [i \in 1..MaxQueues |-> <<>>]
    /\ numqueues = 0
    /\ metaqueue = <<>>
    /\ total = [q \in Queries |-> [judgment |-> J_UNDEFINED, weight |-> 0]]
    /\ call = [q \in Queries |-> [c \in Checks |-> 0]]
    /\ response_q = [q \in Queries |-> [c \in Checks |-> 0]]
    /\ requests = {}
    /\ cb = {}
    /\ givenup = 0
    /\ aborted = FALSE

Max2(a, b) == IF a > b THEN a ELSE b

-----------------------------------------------------------------------------
(* test_tuple() up to the wait. *)

(* grey_mask() fails: the query ends with STATUS_FAIL and no update. *)
MaskFails(q) ==
    /\ pc[q] = "idle"
    /\ status' = [status EXCEPT ![q] = "FAIL"]
    /\ pc' = [pc EXCEPT ![q] = "respond"]
    /\ UNCHANGED <<config, local, updated, request, edict, resultmq, checks, queues, lookups, aborted>>

(* No check runs: there is none (a traditional greylister), or the request *)
(* matches the ring and the configuration makes that a shortcut.           *)
NoChecks(q, match) ==
    /\ pc[q] = "idle"
    /\ checklist = {} \/ (match /\ Shortcut)
    /\ status' = [status EXCEPT ![q] = IF match THEN "MATCH" ELSE "GREY"]
    /\ pc' = [pc EXCEPT ![q] = "update"]
    /\ UNCHANGED <<config, local, updated, request, edict, resultmq, checks, queues, lookups, aborted>>

(* get_queue(): a released queue if there is one, else a new one. *)
get_queue(i) ==
    IF metaqueue # <<>>
    THEN i = Head(metaqueue) /\ metaqueue' = Tail(metaqueue) /\ UNCHANGED numqueues
    ELSE i = numqueues + 1 /\ numqueues' = i /\ UNCHANGED metaqueue

(* edict_get() *)
WriteEdict(q, match) ==
    /\ pc[q] = "idle"
    /\ checklist # {} /\ ~(match /\ Shortcut)
    /\ (Cardinality({p \in Queries : resultmq[p] # 0}) + 1) * Cardinality(checklist) <= MaxJobs
    /\ \E i \in 1..MaxQueues : get_queue(i) /\ resultmq' = [resultmq EXCEPT ![q] = i]
    /\ edict' = [edict EXCEPT ![q] = 1]
    /\ pc' = [pc EXCEPT ![q] = "submit"]
    /\ UNCHANGED <<config, local, status, updated, request, checks, mq, lookups, aborted>>

SubmitUncounted(q, c) ==
    /\ pc[q] = "submit"
    /\ c \in checklist /\ job[q][c] = "none"
    /\ request' = [request EXCEPT ![q] = @ + 1]
    /\ job' = [job EXCEPT ![q][c] = "queued"]
    /\ UNCHANGED <<config, pc, local, status, updated, edict, resultmq, early, total, queues, lookups, aborted>>

(* request_reference() and submit_job(), which references the edict.  A    *)
(* check may end before the next one is submitted.                         *)
Submit(q, c) ==
    /\ pc[q] = "submit"
    /\ c \in checklist /\ job[q][c] = "none"
    /\ request' = [request EXCEPT ![q] = @ + 1]
    /\ edict' = [edict EXCEPT ![q] = @ + 1]
    /\ job' = [job EXCEPT ![q][c] = "queued"]
    /\ UNCHANGED <<config, pc, local, status, updated, resultmq, early, total, queues, lookups, aborted>>

StartWait(q) ==
    /\ pc[q] = "submit"
    /\ \A c \in checklist : job[q][c] # "none"
    /\ checks_running' = [checks_running EXCEPT ![q] = Cardinality(checklist)]
    /\ pc' = [pc EXCEPT ![q] = "wait"]
    /\ UNCHANGED <<config, ta, judgment, susp_weight, definitive, status, updated,
                   request, edict, resultmq, checks, queues, lookups, aborted>>

-----------------------------------------------------------------------------
(* request_unlink(); at zero the request is freed already, and what is read *)
(* there fails the assertion.                                               *)
request_unlink(q) ==
    /\ request' = [request EXCEPT ![q] = IF @ > 0 THEN @ - 1 ELSE 0]
    /\ aborted' = (request[q] = 0)

(* The wait.  definitives_running counts down for results that have        *)
(* "definitive" set, but no check sets it: it stays what it was.           *)
definitives_running == Cardinality(checklist \cap Definitive)

Waiting(q) == pc[q] = "wait" /\ ~definitive[q] /\ checks_running[q] > 0 /\ ta[q] > 0

(* Nothing that arrives later can change the decision. *)
DecidedUnready(j, w) ==
    \/ j = J_PASS
    \/ IF block_threshold # 0 THEN w >= block_threshold ELSE w >= grey_threshold

Decided(j, w) ==
    \/ j = J_PASS
    \/ /\ definitives_running = 0
       /\ IF block_threshold # 0 THEN w >= block_threshold ELSE w >= grey_threshold

(* What a message takes off checks_running: "wait" results are not final. *)
StillRunning(m) == IF m.wait THEN 0 ELSE 1

(* A NULL is taken for a check that was not run.  A host that is taken for *)
(* a result has the family and length of its address where the reason      *)
(* should be, which strdup() reads from.                                   *)
ReceiveResult(q) ==
    /\ Waiting(q)
    /\ mq[resultmq[q]] # <<>>
    /\ LET m == Head(mq[resultmq[q]]) IN
          /\ judgment' = [judgment EXCEPT ![q] = Max2(@, m.judgment)]
          /\ susp_weight' = [susp_weight EXCEPT ![q] = @ + m.weight]
          /\ checks_running' = [checks_running EXCEPT ![q] = @ - StillRunning(m)]
          /\ IF m.null THEN request_unlink(q) ELSE aborted' = m.host /\ UNCHANGED request
          /\ definitive' = [definitive EXCEPT ![q] = Decided(judgment'[q], susp_weight'[q])]
    /\ mq' = [mq EXCEPT ![resultmq[q]] = Tail(@)]
    /\ UNCHANGED <<config, pc, ta, status, updated, edict, resultmq, checks, numqueues, metaqueue, lookups>>

ExpireStuck(q) ==
    /\ Waiting(q)
    /\ UNCHANGED vars

(* A time limit passes; its action (calm_client()) does not change what is *)
(* modelled.                                                               *)
Expire(q) ==
    /\ Waiting(q)
    /\ ta' = [ta EXCEPT ![q] = @ - 1]
    /\ UNCHANGED <<config, pc, checks_running, judgment, susp_weight, definitive, status, updated,
                   request, edict, resultmq, checks, queues, lookups, aborted>>

(* Summing up the results. *)
Verdict(j, w, match) ==
    CASE j = J_PASS -> "TRUST"
      [] j = J_BLOCK -> "BLOCK"
      [] OTHER -> IF block_threshold > 0 /\ w >= block_threshold THEN "BLOCK"
                  ELSE IF w >= grey_threshold THEN (IF match THEN "MATCH" ELSE "GREY")
                  ELSE "TRUST"

SumUp(q, match) ==
    /\ pc[q] = "wait" /\ ~Waiting(q)
    /\ status' = [status EXCEPT ![q] = Verdict(judgment[q], susp_weight[q], match)]
    /\ pc' = [pc EXCEPT ![q] = "unlink"]
    /\ UNCHANGED <<config, local, updated, request, edict, resultmq, checks, queues, lookups, aborted>>

-----------------------------------------------------------------------------
(* edict_unlink() by any holder.  The last one flushes the queue, asserting *)
(* that what it finds are results, and releases it.                         *)
FlushOnly(q) ==
    IF edict[q] > 1
    THEN UNCHANGED <<mq, metaqueue, aborted>>
    ELSE mq' = [mq EXCEPT ![resultmq[q]] = <<>>] /\ UNCHANGED <<metaqueue, aborted>>

ReleaseAtFirst(q) ==
    /\ mq' = [mq EXCEPT ![resultmq[q]] = <<>>]
    /\ metaqueue' = Append(metaqueue, resultmq[q])
    /\ aborted' = FALSE

Flush(q) ==
    IF edict[q] > 1
    THEN UNCHANGED <<mq, metaqueue, aborted>>
    ELSE /\ mq' = [mq EXCEPT ![resultmq[q]] = <<>>]
         /\ metaqueue' = Append(metaqueue, resultmq[q])
         /\ aborted' = (\E m \in Range(mq[resultmq[q]]) : m.null)

edict_unlink(q) ==
    /\ edict' = [edict EXCEPT ![q] = @ - 1]
    /\ Flush(q)
    /\ UNCHANGED numqueues

QueryUnlinks(q) ==
    /\ pc[q] = "unlink"
    /\ edict_unlink(q)
    /\ pc' = [pc EXCEPT ![q] = "update"]
    /\ UNCHANGED <<config, local, status, updated, request, resultmq, checks, lookups>>

(* An UPDATE for the filter goes to update_q, and to the peer; a dry run   *)
(* trusts everybody after that.                                            *)
Update(q) ==
    /\ pc[q] = "update"
    /\ updated' = [updated EXCEPT ![q] = status[q] \in {"GREY", "MATCH"} \/ UpdateAlways]
    /\ status' = [status EXCEPT ![q] = IF Dryrun THEN "TRUST" ELSE @]
    /\ pc' = [pc EXCEPT ![q] = "respond"]
    /\ UNCHANGED <<config, local, request, edict, resultmq, checks, queues, lookups, aborted>>

RespondTwice(q) ==
    /\ pc[q] = "respond"
    /\ request' = [request EXCEPT ![q] = @ - 2]
    /\ pc' = [pc EXCEPT ![q] = "done"]
    /\ UNCHANGED <<config, local, status, updated, edict, resultmq, checks, queues, lookups, aborted>>

(* The connection's handler answers the client and drops the request. *)
Respond(q) ==
    /\ pc[q] = "respond"
    /\ request_unlink(q)
    /\ pc' = [pc EXCEPT ![q] = "done"]
    /\ UNCHANGED <<config, local, status, updated, edict, resultmq, checks, queues, lookups>>

-----------------------------------------------------------------------------
(* A check.  send_result() puts a message into the edict's queue. *)
send_result(q, m) == mq' = [mq EXCEPT ![resultmq[q]] = Append(@, m)]

Count(q, r) ==
    total' = [total EXCEPT ![q] = [judgment |-> Max2(@.judgment, r.judgment),
                                   weight |-> @.weight + r.weight]]

Run(q, c) ==
    /\ job[q][c] = "queued"
    /\ job' = [job EXCEPT ![q][c] = "running"]
    /\ UNCHANGED <<config, pc, local, status, updated, request, edict, resultmq, early, total, queues, lookups, aborted>>

(* The pool rejects the job, or the check cannot get its resolver          *)
(* (dnsblc()): a NULL, and the receiver is to drop the request.            *)
SendNull(q, c) ==
    /\ job[q][c] = "queued" \/ (job[q][c] = "running" /\ c \in DnsLists)
    /\ send_result(q, NullMsg(q))
    /\ job' = [job EXCEPT ![q][c] = "unlink"]
    /\ UNCHANGED <<config, pc, local, status, updated, request, edict, resultmq, early, total,
                   numqueues, metaqueue, lookups, aborted>>

(* A match in one DNS list of several (addrinfo_callback()). *)
SendEarly(q, c, r) ==
    /\ job[q][c] = "running"
    /\ early[q][c] < MaxEarly
    /\ send_result(q, Msg(q, r, TRUE))
    /\ early' = [early EXCEPT ![q][c] = @ + 1]
    /\ Count(q, r)
    /\ UNCHANGED <<config, pc, local, status, updated, request, edict, resultmq, job,
                   numqueues, metaqueue, lookups, aborted>>

SendFinal(q, c, r) ==
    /\ job[q][c] = "running" /\ response_q[q][c] = 0
    /\ send_result(q, Msg(q, r, FALSE))
    /\ job' = [job EXCEPT ![q][c] = "sent"]
    /\ Count(q, r)
    /\ UNCHANGED <<config, pc, local, status, updated, request, edict, resultmq, early,
                   numqueues, metaqueue, lookups, aborted>>

(* The check drops the request, then the pool's thread the edict. *)
CheckReturns(q, c) ==
    /\ job[q][c] = "sent"
    /\ request_unlink(q)
    /\ job' = [job EXCEPT ![q][c] = "unlink"]
    /\ UNCHANGED <<config, pc, local, status, updated, edict, resultmq, early, total, queues, lookups>>

ThreadUnlinks(q, c) ==
    /\ job[q][c] = "unlink"
    /\ edict_unlink(q)
    /\ job' = [job EXCEPT ![q][c] = "done"]
    /\ UNCHANGED <<config, pc, local, status, updated, request, resultmq, early, total, lookups>>

-----------------------------------------------------------------------------
(* The lookups of helo() and reverse(), in Gethostbyname() and             *)
(* Gethostbyaddr(): a queue from get_queue() and a request for the helper. *)
(* The cache may answer instead, so that any number of them is skipped.    *)
Ask(q, c, n) ==
    /\ job[q][c] = "running" /\ response_q[q][c] = 0
    /\ n > call[q][c]
    /\ call' = [call EXCEPT ![q][c] = n]
    /\ \E i \in 1..MaxQueues :
          /\ get_queue(i)
          /\ response_q' = [response_q EXCEPT ![q][c] = i]
          /\ requests' = requests \cup {[q |-> q, c |-> c, n |-> n, mq |-> i]}
    /\ UNCHANGED <<config, pc, local, status, updated, request, edict, resultmq, checks, mq, cb,
                   givenup, aborted>>

(* release_queue() leaves a queue that is not empty where it is.  Its look *)
(* at the queue and the release are one step here: an answer that comes    *)
(* between them is one that default_cb() puts after the release.           *)
release_queue(i) ==
    metaqueue' = IF mq'[i] = <<>> THEN Append(metaqueue, i) ELSE metaqueue

(* The answer is there; reverse() ends when the address has no name. *)
GetAnswer(q, c) ==
    /\ response_q[q][c] # 0
    /\ mq[response_q[q][c]] # <<>>
    /\ mq' = [mq EXCEPT ![response_q[q][c]] = Tail(@)]
    /\ release_queue(response_q[q][c])
    /\ response_q' = [response_q EXCEPT ![q][c] = 0]
    /\ call' = [call EXCEPT ![q][c] =
                   IF c = "reverse" /\ Head(mq[response_q[q][c]]).null THEN 2 ELSE @]
    /\ UNCHANGED <<config, pc, local, status, updated, request, edict, resultmq, checks, numqueues,
                   requests, cb, givenup, aborted>>

(* The time limit is over: only the lookups of names have one. *)
GiveUp(q, c) ==
    /\ response_q[q][c] # 0
    /\ ForName(c, call[q][c])
    /\ givenup < MaxGiveUps
    /\ UNCHANGED mq
    /\ release_queue(response_q[q][c])
    /\ response_q' = [response_q EXCEPT ![q][c] = 0]
    /\ givenup' = givenup + 1
    /\ UNCHANGED <<config, pc, local, status, updated, request, edict, resultmq, checks, numqueues,
                   call, requests, cb, aborted>>

(* default_cb() in the helper's thread: put_msg_raw() looks, without the   *)
(* queue's mutex, whether the queue is active, and drops the answer if it  *)
(* is not; ...                                                             *)
Active(i) == i \notin Range(metaqueue)

default_cb(r) ==
    /\ cb = {}
    /\ requests' = requests \ {r}
    /\ cb' = IF Active(r.mq) THEN {r} ELSE {}
    /\ UNCHANGED <<config, pc, local, status, updated, request, edict, resultmq, checks, queues,
                   call, response_q, givenup, aborted>>

(* ... then it appends, whoever has the queue now. *)
put_msg_raw(r, found) ==
    /\ mq' = [mq EXCEPT ![r.mq] = Append(@, HostMsg(r.q, found))]
    /\ cb' = {}
    /\ UNCHANGED <<config, pc, local, status, updated, request, edict, resultmq, checks, numqueues,
                   metaqueue, call, response_q, requests, givenup, aborted>>

-----------------------------------------------------------------------------
test_tuple(q) ==
    \/ MaskFails(q)
    \/ \E match \in BOOLEAN : NoChecks(q, match) \/ WriteEdict(q, match) \/ SumUp(q, match)
    \/ \E c \in Checks : Submit(q, c)
    \/ StartWait(q)
    \/ ReceiveResult(q)
    \/ Expire(q)
    \/ QueryUnlinks(q)
    \/ Update(q)
    \/ Respond(q)

Check(q, c) ==
    \/ Run(q, c)
    \/ SendNull(q, c)
    \/ \E r \in Early(c) : SendEarly(q, c, r)
    \/ \E r \in Final(c) : SendFinal(q, c, r)
    \/ CheckReturns(q, c)
    \/ ThreadUnlinks(q, c)

Gethostby(q, c) ==
    \/ \E n \in 1..2 : Ask(q, c, n)
    \/ GetAnswer(q, c)
    \/ GiveUp(q, c)

Helper ==
    \/ \E r \in requests : default_cb(r)
    \/ \E r \in cb : \E found \in BOOLEAN : put_msg_raw(r, found)

Next ==
    /\ ~aborted
    /\ \/ \E q \in Queries : test_tuple(q) \/ \E c \in Checks : Check(q, c)
       \/ \E q \in Queries : \E c \in Askers : Gethostby(q, c)
       \/ Helper

(* As long as there are queries that wait and can go on, one of them does. *)
(* Nothing is said of the rest of test_tuple(), nor of the checks.         *)
Spec ==
    /\ Init /\ [][Next]_vars
    /\ WF_vars(~aborted /\ \E q \in Queries :
           pc[q] = "wait" /\ (ReceiveResult(q) \/ Expire(q) \/ \E match \in BOOLEAN : SumUp(q, match)))

-----------------------------------------------------------------------------
(* What the DNS helper puts into a recycled queue breaks all of the        *)
(* following: they are stated for runs in which no lookup is given up, and *)
(* NullMeansNotRun for the others.                                         *)

(* test_tuple() and the checks use the request, the edict and its queue    *)
(* only while they hold a reference, so nothing is used after it is freed, *)
(* however early the query gives up; and the counts are exact.             *)
HoldsEdict(q) == {c \in Checks : job[q][c] \in {"queued", "running", "sent", "unlink"}}
HoldsRequest(q) == {c \in Checks : job[q][c] \in {"queued", "running", "sent"}}

NothingUsedAfterFree ==
    givenup = 0 =>
        \A q \in Queries :
            /\ HoldsEdict(q) # {} \/ pc[q] \in {"submit", "wait", "unlink"} => edict[q] > 0
            /\ HoldsRequest(q) # {} \/ pc[q] # "done" => request[q] > 0

(* edict_unlink() and release_queue(): a queue is recycled only when       *)
(* nobody can send into it: no query finds the results of another or the   *)
(* hosts of a lookup, and no queue has two owners.                         *)
ResultsGoHome ==
    givenup = 0 =>
        \A q \in Queries : edict[q] > 0 =>
            /\ \A m \in Range(mq[resultmq[q]]) : m.for = q /\ ~m.dns
            /\ resultmq[q] \notin Range(metaqueue)
            /\ \A p \in Queries \ {q} : edict[p] > 0 => resultmq[p] # resultmq[q]
            /\ \A p \in Queries : \A c \in Checks : response_q[p][c] # resultmq[q]

(* When query and checks are through, request, edict and queue are free:   *)
(* no reference is lost, in whichever order they end.                      *)
NothingLeaks ==
    ~aborted /\ givenup = 0 =>
        \A q \in Queries :
            pc[q] = "done" /\ HoldsEdict(q) = {} =>
                /\ request[q] = 0
                /\ edict[q] = 0
                /\ \/ resultmq[q] = 0
                   \/ resultmq[q] \in Range(metaqueue)
                   \/ \E p \in Queries : edict[p] > 0 /\ resultmq[p] = resultmq[q]
                   \/ \E p \in Queries : \E c \in Checks : response_q[p][c] = resultmq[q]

(* test_tuple() stops waiting as soon as it knows enough.  If no time      *)
(* limit passed, its decision is nevertheless the one that all results     *)
(* together give, those that nobody waited for included, whatever the      *)
(* order in which they came.                                               *)
DecisionIndependentOfOrder ==
    givenup = 0 =>
        \A q \in Queries :
            pc[q] = "done" /\ ~Dryrun /\ resultmq[q] # 0 /\ ta[q] > 0 /\ HoldsEdict(q) = {} =>
                \E match \in BOOLEAN : status[q] = Verdict(total[q].judgment, total[q].weight, match)

(* The wait of test_tuple() ends, even if no check ever answers; what      *)
(* comes after it waits for nobody, so every query is answered.            *)
WaitEnds == \A q \in Queries : pc[q] = "wait" ~> pc[q] # "wait" \/ aborted

(* edict_unlink(), assert(message.result): what is left in the queue when  *)
(* the last reference is dropped are results.                              *)
FlushedResultsAreReal == ~aborted

(* test_tuple() on a NULL result, "pool exhausted" and "the request never  *)
(* reached its destination": what it finds in its queue was sent for a     *)
(* check of its own query.                                                 *)
NullMeansNotRun ==
    \A q \in Queries : edict[q] > 0 =>
        \A m \in Range(mq[resultmq[q]]) : m.null => m.for = q /\ ~m.dns
=============================================================================
