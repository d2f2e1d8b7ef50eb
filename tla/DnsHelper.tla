----------------------------- MODULE DnsHelper -----------------------------
(***************************************************************************)
(* The DNS helper (helper_dns.c): one thread that talks to the resolver    *)
(* for the check threads, a pipe that carries their requests, a message    *)
(* queue for each answer, and a cache of answers.                          *)
(*                                                                         *)
(* A check that has asked for a name waits for a limited time and goes on  *)
(* without an answer; its queue is recycled, and the memory its request    *)
(* points to is freed, while the request may still be in the pipe or with  *)
(* the resolver.  The askers are the checks helo and reverse, which make   *)
(* two lookups each.                                                       *)
(***************************************************************************)
EXTENDS Integers, Sequences, FiniteSets

CONSTANTS
    Askers,     \* check threads, each evaluating one query
    Check,      \* Check[a]: "helo" or "reverse"
    HeloName,   \* HeloName[a]: the name the client of a gave
    Address,    \* Address[a]: the client's address
    PtrName,    \* PtrName[x]: the name the address x resolves to
    Names,      \* host names
    Hash,       \* Hash[key]: the slot of the cache a key belongs to
    NULL        \* no host, no request

Addresses == {Address[a] : a \in Askers}
Keys      == Names \cup Addresses
Slots     == {Hash[key] : key \in Keys}
QueueIds  == 0..(Cardinality(Askers) * 2 - 1)   \* a lookup makes at most one queue
Calls     == 1..2

ASSUME DnsHelperAssumption ==
    /\ IsFiniteSet(Askers)
    /\ Check \in [Askers -> {"helo", "reverse"}]
    /\ HeloName \in [Askers -> Names]
    /\ PtrName \in [Addresses -> Names]
    /\ Names \cap Addresses = {}
    /\ DOMAIN Hash = Keys
    /\ NULL \notin Keys

VARIABLES
    pc,         \* pc[a]: where the asker is
    call,       \* call[a]: its first or its second lookup
    key,        \* key[a]: what it looks up
    reply,      \* reply[a]: the host it has got, or NULL
    response_q, \* response_q[a]: the queue it waits on
    numqueues,  \* queues created so far
    active,     \* active[q]: mq->active
    msgs,       \* msgs[q]: the messages in queue q
    metaqueue,  \* queues that are free for reuse
    pipe,       \* requests the helper has not read yet
    pending,    \* requests the resolver is working on
    cb,         \* the answer default_cb() is passing on, or NULL
    hashtab,    \* the cache
    \* What follows is not in the program.
    abandoned   \* lookups that ended without their own answer

queues == <<numqueues, active, msgs, metaqueue>>
helper == <<pipe, pending, cb>>
asker  == <<pc, call, key, reply, response_q>>
vars   == <<asker, queues, helper, hashtab, abandoned>>

(* A host is known by the key it is the answer to. *)
Hosts    == Keys \cup {NULL}
h_name(host) == IF host \in Addresses THEN PtrName[host] ELSE host
Requests == [asker : Askers, call : Calls, query : Keys, q : QueueIds]

(* An answer in a queue; the program does not say whose it is. *)
Answers  == [lookup : Askers \X Calls, host : Hosts]

TypeOK ==
    /\ pc \in [Askers -> {"lookup", "ask", "wait", "release", "retire", "cache", "next", "done"}]
    /\ call \in [Askers -> Calls]
    /\ key \in [Askers -> Keys]
    /\ reply \in [Askers -> Hosts]
    /\ response_q \in [Askers -> QueueIds]
    /\ numqueues \in 0..Cardinality(QueueIds)
    /\ active \in [QueueIds -> BOOLEAN]
    /\ msgs \in [QueueIds -> Seq(Answers)]
    /\ metaqueue \in Seq(QueueIds)
    /\ pipe \in Seq(Requests)
    /\ pending \in SUBSET Requests
    /\ cb \in [request : Requests, host : Hosts, checked : BOOLEAN] \cup {NULL}
    /\ hashtab \in [Slots -> [key : Keys, value : Keys, stale : BOOLEAN] \cup {NULL}]
    /\ abandoned \in SUBSET (Askers \X Calls)

(* helo() asks for the name, unless valid_dn() rejects it, then for the    *)
(* address; reverse() for the address, then for the name that came back.   *)
FirstKey(a) == IF Check[a] = "helo" THEN HeloName[a] ELSE Address[a]

Init ==
    /\ pc \in [Askers -> {"lookup", "done"}]
    /\ \A a \in Askers : pc[a] = "done" => Check[a] = "helo"
    /\ call = [a \in Askers |-> 1]
    /\ key = [a \in Askers |-> FirstKey(a)]
    /\ reply = [a \in Askers |-> NULL]
    /\ response_q = [a \in Askers |-> 0]
    /\ numqueues = 0
    /\ active = [q \in QueueIds |-> FALSE]
    /\ msgs = [q \in QueueIds |-> <<>>]
    /\ metaqueue = <<>>
    /\ pipe = <<>>
    /\ pending = {}
    /\ cb = NULL
    /\ hashtab = [h \in Slots |-> NULL]
    /\ abandoned = {}

Goto(a, place) == pc' = [pc EXCEPT ![a] = place]

----------------------------------------------------------------------------
(* lookup_str(), under the cache's mutex: an entry of another key is a     *)
(* collision, a stale one is freed, a good one is copied.                  *)
lookup_str_any(a) ==
    LET node == hashtab[Hash[key[a]]]
    IN  /\ pc[a] = "lookup"
        /\ IF node # NULL
           THEN /\ reply' = [reply EXCEPT ![a] = node.value]
                /\ Goto(a, "next")
           ELSE /\ Goto(a, "ask")
                /\ UNCHANGED reply
        /\ UNCHANGED <<call, key, response_q, queues, helper, hashtab, abandoned>>

lookup_str(a) ==
    LET node == hashtab[Hash[key[a]]]
    IN  /\ pc[a] = "lookup"
        /\ \/ /\ node = NULL \/ (node # NULL /\ node.key # key[a])
              /\ Goto(a, "ask")
              /\ UNCHANGED <<reply, hashtab>>
           \/ /\ node # NULL /\ node.key = key[a] /\ node.stale
              /\ hashtab' = [hashtab EXCEPT ![Hash[key[a]]] = NULL]
              /\ Goto(a, "ask")
              /\ UNCHANGED reply
           \/ /\ node # NULL /\ node.key = key[a] /\ ~node.stale
              /\ reply' = [reply EXCEPT ![a] = node.value]
              /\ Goto(a, "next")
              /\ UNCHANGED hashtab
        /\ UNCHANGED <<call, key, response_q, queues, helper, abandoned>>

(* CACHETIME passes. *)
Age(h) ==
    /\ hashtab[h] # NULL
    /\ ~hashtab[h].stale
    /\ hashtab' = [hashtab EXCEPT ![h].stale = TRUE]
    /\ UNCHANGED <<asker, queues, helper, abandoned>>

Abandon(a) == abandoned' = abandoned \cup {<<a, call[a]>>}

Request(a, q) == [asker |-> a, call |-> call[a], query |-> key[a], q |-> q]

(* get_queue() and the write to the pipe: a released queue is used again,  *)
(* with whatever is in it; ...                                             *)
AskRecycledTwice(a) ==
    /\ pc[a] = "ask"
    /\ metaqueue # <<>>
    /\ active' = [active EXCEPT ![Head(metaqueue)] = TRUE]
    /\ response_q' = [response_q EXCEPT ![a] = Head(metaqueue)]
    /\ pipe' = Append(pipe, Request(a, Head(metaqueue)))
    /\ Goto(a, "wait")
    /\ UNCHANGED <<call, key, reply, numqueues, msgs, metaqueue, pending, cb, hashtab, abandoned>>

AskRecycled(a) ==
    /\ pc[a] = "ask"
    /\ metaqueue # <<>>
    /\ metaqueue' = Tail(metaqueue)
    /\ active' = [active EXCEPT ![Head(metaqueue)] = TRUE]
    /\ response_q' = [response_q EXCEPT ![a] = Head(metaqueue)]
    /\ pipe' = Append(pipe, Request(a, Head(metaqueue)))
    /\ Goto(a, "wait")
    /\ UNCHANGED <<call, key, reply, numqueues, msgs, pending, cb, hashtab, abandoned>>

(* ... if there is none, a new one is created. *)
AskNewUncounted(a) ==
    /\ pc[a] = "ask"
    /\ metaqueue = <<>>
    /\ numqueues' = numqueues + 2
    /\ active' = [active EXCEPT ![numqueues] = TRUE]
    /\ response_q' = [response_q EXCEPT ![a] = numqueues]
    /\ pipe' = Append(pipe, Request(a, numqueues))
    /\ Goto(a, "wait")
    /\ UNCHANGED <<call, key, reply, msgs, metaqueue, pending, cb, hashtab, abandoned>>

AskNew(a) ==
    /\ pc[a] = "ask"
    /\ metaqueue = <<>>
    /\ numqueues' = numqueues + 1
    /\ active' = [active EXCEPT ![numqueues] = TRUE]
    /\ response_q' = [response_q EXCEPT ![a] = numqueues]
    /\ pipe' = Append(pipe, Request(a, numqueues))
    /\ Goto(a, "wait")
    /\ UNCHANGED <<call, key, reply, msgs, metaqueue, pending, cb, hashtab, abandoned>>

(* get_msg_timed(): a message is in the queue, or ... *)
Receive(a) ==
    /\ pc[a] = "wait"
    /\ msgs[response_q[a]] # <<>>
    /\ reply' = [reply EXCEPT ![a] = Head(msgs[response_q[a]]).host]
    /\ IF Head(msgs[response_q[a]]).lookup = <<a, call[a]>> THEN UNCHANGED abandoned
                                                             ELSE Abandon(a)
    /\ msgs' = [msgs EXCEPT ![response_q[a]] = Tail(@)]
    /\ Goto(a, "release")
    /\ UNCHANGED <<call, key, response_q, numqueues, active, metaqueue, helper, hashtab>>

(* ... the time limit is over, even when a message comes in that moment.   *)
(* Gethostbyaddr_str() passes no limit on: an address is waited for as     *)
(* long as it takes.                                                       *)
TimeOutAddress(a) ==
    /\ pc[a] = "wait"
    /\ key[a] \in Addresses
    /\ reply' = [reply EXCEPT ![a] = NULL]
    /\ Abandon(a)
    /\ Goto(a, "release")
    /\ UNCHANGED <<call, key, response_q, queues, helper, hashtab>>

TimeOut(a) ==
    /\ pc[a] = "wait"
    /\ key[a] \in Names
    /\ reply' = [reply EXCEPT ![a] = NULL]
    /\ Abandon(a)
    /\ Goto(a, "release")
    /\ UNCHANGED <<call, key, response_q, queues, helper, hashtab>>

(* release_queue() looks whether the queue is empty, without its mutex;    *)
(* a queue that is not is left as it is, for ever.                         *)
ReleaseOnlyAfterTimeOut(a) ==
    /\ pc[a] = "release"
    /\ Goto(a, IF msgs[response_q[a]] = <<>> /\ reply[a] = NULL THEN "retire" ELSE "cache")
    /\ UNCHANGED <<call, key, reply, response_q, queues, helper, hashtab, abandoned>>

Release(a) ==
    /\ pc[a] = "release"
    /\ Goto(a, IF msgs[response_q[a]] = <<>> THEN "retire" ELSE "cache")
    /\ UNCHANGED <<call, key, reply, response_q, queues, helper, hashtab, abandoned>>

Retire(a) ==
    /\ pc[a] = "retire"
    /\ active' = [active EXCEPT ![response_q[a]] = FALSE]
    /\ metaqueue' = Append(metaqueue, response_q[a])
    /\ Goto(a, "cache")
    /\ UNCHANGED <<call, key, reply, response_q, numqueues, msgs, helper, hashtab, abandoned>>

(* cache_str() replaces whatever is in the slot. *)
cache_str(a) ==
    /\ pc[a] = "cache"
    /\ hashtab' = IF reply[a] = NULL THEN hashtab
                  ELSE [hashtab EXCEPT ![Hash[key[a]]] =
                           [key |-> key[a], value |-> reply[a], stale |-> FALSE]]
    /\ Goto(a, "next")
    /\ UNCHANGED <<call, key, reply, response_q, queues, helper, abandoned>>

(* Back in the check: the second lookup, or the end, where the request     *)
(* with the helo name is freed.                                            *)
SecondLookup(a) ==
    /\ pc[a] = "next"
    /\ call[a] = 1
    /\ Check[a] = "helo" \/ reply[a] # NULL
    /\ call' = [call EXCEPT ![a] = 2]
    /\ key' = [key EXCEPT ![a] = IF Check[a] = "helo" THEN Address[a] ELSE h_name(reply[a])]
    /\ reply' = [reply EXCEPT ![a] = NULL]
    /\ Goto(a, "lookup")
    /\ UNCHANGED <<response_q, queues, helper, hashtab, abandoned>>

Finish(a) ==
    /\ pc[a] = "next"
    /\ call[a] = 2 \/ (Check[a] = "reverse" /\ reply[a] = NULL)
    /\ Goto(a, "done")
    /\ UNCHANGED <<call, key, reply, response_q, queues, helper, hashtab, abandoned>>

----------------------------------------------------------------------------
(* The helper thread: takes one request from the pipe, ... *)
ReadRequest ==
    /\ cb = NULL
    /\ pipe # <<>>
    /\ pending' = pending \cup {Head(pipe)}
    /\ pipe' = Tail(pipe)
    /\ UNCHANGED <<asker, queues, cb, hashtab, abandoned>>

(* ... and runs default_cb() when the resolver has the answer or gives up. *)
Answer(r) ==
    /\ cb = NULL
    /\ pending' = pending \ {r}
    /\ \E host \in {r.query, NULL} : cb' = [request |-> r, host |-> host, checked |-> FALSE]
    /\ UNCHANGED <<asker, queues, pipe, hashtab, abandoned>>

(* put_msg_raw(): whether the queue is active is looked at first, without  *)
(* its mutex, ...                                                          *)
CheckActive ==
    /\ cb # NULL
    /\ ~cb.checked
    /\ cb' = IF active[cb.request.q] THEN [cb EXCEPT !.checked = TRUE] ELSE NULL
    /\ UNCHANGED <<asker, queues, pipe, pending, hashtab, abandoned>>

(* ... then the message is appended. *)
PutAnswer ==
    /\ cb # NULL
    /\ cb.checked
    /\ msgs' = [msgs EXCEPT ![cb.request.q] = Append(@,
                  [lookup |-> <<cb.request.asker, cb.request.call>>, host |-> cb.host])]
    /\ cb' = NULL
    /\ UNCHANGED <<asker, numqueues, active, metaqueue, pipe, pending, hashtab, abandoned>>

Ask(a)   == lookup_str(a) \/ AskRecycled(a) \/ AskNew(a) \/ Receive(a) \/ TimeOut(a)
               \/ Release(a) \/ Retire(a) \/ cache_str(a) \/ SecondLookup(a) \/ Finish(a)
Callback == CheckActive \/ PutAnswer

AllDone == (\A a \in Askers : pc[a] = "done") /\ UNCHANGED vars

Next ==
    \/ \E a \in Askers : Ask(a)
    \/ \E h \in Slots : Age(h)
    \/ ReadRequest
    \/ \E r \in pending : Answer(r)
    \/ Callback
    \/ AllDone

Spec == Init /\ [][Next]_vars

(* The threads are scheduled; the resolver ends every lookup of an         *)
(* address (it has its own time limits), and may keep a name for ever.     *)
AnswerAddress == \E r \in pending : r.query \in Addresses /\ Answer(r)

FairSpec ==
    /\ Spec
    /\ \A a \in Askers : WF_vars(Ask(a))
    /\ WF_vars(ReadRequest \/ Callback \/ AnswerAddress)

----------------------------------------------------------------------------
Waiting(a) == pc[a] \in {"wait", "release", "retire"}

(* A queue has one owner: get_queue() never gives a queue to two askers,   *)
(* and a queue in the metaqueue is inactive and nobody waits on it.        *)
OneOwner ==
    /\ \A a, b \in Askers :
          a # b /\ Waiting(a) /\ Waiting(b) => response_q[a] # response_q[b]
    /\ \A i \in 1..Len(metaqueue) :
          /\ ~active[metaqueue[i]]
          /\ \A a \in Askers : Waiting(a) => response_q[a] # metaqueue[i]
          /\ \A j \in 1..Len(metaqueue) : metaqueue[i] = metaqueue[j] => i = j

(* A lookup returns the host that was asked for, and the cache holds under *)
(* a key what belongs to it.  The exception is the late answer to a lookup *)
(* that was given up: it may go to the next owner of the queue, which      *)
(* returns it and caches it under its own key, and whose own answer then   *)
(* is late in turn.                                                        *)
Late(host) == \E a \in Askers : \E c \in Calls :
                 <<a, c>> \in abandoned /\ (host = key[a] \/ host = FirstKey(a))

RightAnswers ==
    /\ \A a \in Askers : reply[a] \in {key[a], NULL} \/ Late(reply[a])
    /\ \A h \in Slots : hashtab[h] # NULL =>
          hashtab[h].value = hashtab[h].key \/ Late(hashtab[h].value)

(* release_queue() leaves a queue that is not empty to itself, and nobody  *)
(* ever uses it again.  The helper loses at most one queue for each lookup *)
(* that was given up: a late answer spoils one queue, whichever asker owns *)
(* the queue when it arrives and however often the queue was recycled.     *)
LostQueues ==
    {q \in 0..(numqueues - 1) :
        /\ \A i \in 1..Len(metaqueue) : metaqueue[i] # q
        /\ \A a \in Askers : Waiting(a) => response_q[a] # q}

QueuesComeBack == Cardinality(LostQueues) <= Cardinality(abandoned)

(* A check gets through its lookups: names end by their time limit even    *)
(* when the resolver never answers, addresses by the resolver.             *)
LookupsEnd == \A a \in Askers : <>(pc[a] = "done")
============================================================================
