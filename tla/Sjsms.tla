------------------------------- MODULE Sjsms -------------------------------
(***************************************************************************)
(* The UDP protocol between the mail server's mapping function             *)
(* (grosscheck.c, proto_sjsms.c) and grossd (worker_sjsms.c): datagrams    *)
(* are lost, duplicated, delayed and reordered, either of the two servers  *)
(* may be down or die, and the client waits only so long.                  *)
(*                                                                         *)
(* A datagram carries no identification: an answer belongs to a call only  *)
(* because it comes to the port of the socket that the call has opened; a  *)
(* call whose port was in use a moment ago may get an earlier call's.      *)
(* What the server does with the query is in Query; here its answer is     *)
(* open.  Time is in seconds.                                              *)
(***************************************************************************)
EXTENDS Integers, FiniteSets

CONSTANTS
    Ports,       \* ports the client's sockets may get
    FirstWait,   \* seconds grosscheck() waits for the first packet
    NextWait,    \* seconds it waits after a P
    CalmTime,    \* seconds after which the server sends a P
    TimeLimit,   \* query_timelimit in seconds
    MaxCalls,    \* bound on the number of calls of grosscheck()
    MaxFaults    \* bound on lost, duplicated and delayed datagrams and deaths

ASSUME SjsmsAssumption ==
    /\ FirstWait \in Nat /\ NextWait \in Nat
    /\ CalmTime \in Nat \ {0} /\ TimeLimit \in Nat \ {0}
    /\ MaxCalls \in Nat /\ MaxFaults \in Nat
    \* The times fit: the server speaks before the client stops waiting.
    /\ CalmTime < FirstWait
    /\ TimeLimit < CalmTime + NextWait
    \* A P does not shorten the wait.
    /\ FirstWait <= NextWait

VARIABLES
    up,          \* servers that run
    call,        \* number of calls so far
    pc,          \* the client: "idle", in select() ("wait"), or returned ("done")
    arg,         \* what the call was given: a "valid" or an "invalid" request
    port,        \* the port of its socket
    gserv,       \* the server it has asked last
    numservers,  \* servers it may still ask
    tv,          \* what is left of its time limit
    result,      \* what it returns
    net,         \* datagrams on their way
    jobs,        \* queries the servers work on
    faults,
    \* What follows is not in the program.
    asked,       \* servers the call has asked
    elapsed,     \* seconds since it began
    answers,     \* the call whose query its result answers
    reused       \* its port may still get answers to an earlier call

client == <<call, pc, arg, port, gserv, numservers, tv, result>>
ghosts == <<asked, elapsed, answers, reused>>
vars   == <<up, client, net, jobs, faults, ghosts>>

Servers  == {1, 2}                \* gserv1 and gserv2
Verdicts == {"M", "G", "B", "T"}
Letters  == Verdicts \cup {"F", "P"}
Calls    == 1..MaxCalls
Queries  == [to : Servers, port : Ports, call : Calls, arg : {"valid", "invalid"}]
Replies  == [from : Servers, port : Ports, call : Calls, letter : Letters]

TypeOK ==
    /\ up \in SUBSET Servers
    /\ call \in 0..MaxCalls
    /\ pc \in {"idle", "wait", "done"}
    /\ arg \in {"valid", "invalid", "malformed"}
    /\ port \in Ports
    /\ gserv \in Servers
    /\ numservers \in 0..2
    /\ tv \in 0..NextWait
    /\ result \in Verdicts \cup {"fail"}
    /\ net \in SUBSET (Queries \cup Replies)
    /\ jobs \in SUBSET [server : Servers, port : Ports, call : Calls,
                        age : 0..TimeLimit, calmed : BOOLEAN]
    /\ faults \in 0..MaxFaults
    /\ asked \in SUBSET Servers
    /\ elapsed \in Nat
    /\ answers \in 0..MaxCalls
    /\ reused \in BOOLEAN

Init ==
    /\ up \in SUBSET Servers
    /\ call = 0
    /\ pc = "idle"
    /\ arg = "valid"
    /\ port \in Ports
    /\ gserv = 1
    /\ numservers = 0
    /\ tv = 0
    /\ result = "fail"
    /\ net = {}
    /\ jobs = {}
    /\ faults = 0
    /\ asked = {}
    /\ elapsed = 0
    /\ answers = 0
    /\ reused = FALSE

----------------------------------------------------------------------------
(* The client.  sendquerystr() to a server. *)
Query(s, p, c, a) == [to |-> s, port |-> p, call |-> c, arg |-> a]

(* grosscheck() opens a socket and sends the query to the first server.    *)
(* The second server is used if its address can be read.  A malformed      *)
(* argument fails at once (its error message has no destination yet).      *)
grosscheck(a, n, p) ==
    /\ pc # "wait"
    /\ call < MaxCalls
    /\ call' = call + 1
    /\ arg' = a
    /\ port' = p
    /\ result' = "fail"
    /\ gserv' = 1
    /\ elapsed' = 0
    /\ answers' = 0
    /\ reused' = (\E m \in net \cup jobs : m.port = p)
    /\ \/ /\ a = "malformed"
          /\ pc' = "done"
          /\ asked' = {}
          /\ UNCHANGED <<numservers, tv, net>>
       \/ /\ a # "malformed"
          /\ pc' = "wait"
          /\ asked' = {1}
          /\ numservers' = n
          /\ tv' = FirstWait
          /\ net' = net \cup {Query(1, p, call + 1, a)}
    /\ UNCHANGED <<up, jobs, faults>>

(* select() times out: the other server, if there is one. *)
SelectTimeoutUncounted ==
    /\ pc = "wait"
    /\ tv = 0
    /\ numservers = 2
    /\ gserv' = 2
    /\ tv' = FirstWait
    /\ net' = net \cup {Query(2, port, call, arg)}
    /\ UNCHANGED <<up, call, pc, arg, port, numservers, result, jobs, faults, ghosts>>

SelectTimeoutLate ==
    /\ pc = "wait"
    /\ tv = 0
    /\ numservers' = numservers - 1
    /\ pc' = IF numservers = 0 THEN "done" ELSE pc
    /\ gserv' = 2
    /\ asked' = asked \cup {2}
    /\ tv' = FirstWait
    /\ net' = net \cup {Query(2, port, call, arg)}
    /\ UNCHANGED <<up, call, arg, port, result, jobs, faults, elapsed, answers, reused>>

SelectTimeout ==
    /\ pc = "wait"
    /\ tv = 0
    /\ numservers' = numservers - 1
    /\ \/ /\ numservers' = 0
          /\ pc' = "done"
          /\ UNCHANGED <<gserv, tv, net, asked>>
       \/ /\ numservers' # 0
          /\ gserv' = 2
          /\ asked' = asked \cup {2}
          /\ tv' = FirstWait
          /\ net' = net \cup {Query(2, port, call, arg)}
          /\ UNCHANGED pc
    /\ UNCHANGED <<up, call, arg, port, result, jobs, faults, elapsed, answers, reused>>

(* A datagram is taken from the network, or a copy of it stays there. *)
Arrives(m) ==
    \/ /\ net' = net \ {m}
       /\ UNCHANGED faults
    \/ /\ faults < MaxFaults
       /\ faults' = faults + 1
       /\ UNCHANGED net

(* recvfrom(), whoever the sender is: P means wait longer, a verdict is    *)
(* the result, anything else is a failure (the other server is not asked). *)
RecvFromIgnoringP(m) ==
    /\ pc = "wait"
    /\ m.port = port
    /\ Arrives(m)
    /\ pc' = IF m.letter = "P" THEN "wait" ELSE "done"
    /\ result' = IF m.letter \in Verdicts THEN m.letter ELSE "fail"
    /\ answers' = IF m.letter = "P" THEN answers ELSE m.call
    /\ UNCHANGED <<up, call, arg, port, gserv, numservers, tv, jobs, asked, elapsed, reused>>

RecvFrom(m) ==
    /\ pc = "wait"
    /\ m.port = port
    /\ Arrives(m)
    /\ \/ /\ m.letter = "P"
          /\ tv' = NextWait
          /\ UNCHANGED <<pc, result, answers>>
       \/ /\ m.letter # "P"
          /\ pc' = "done"
          /\ result' = IF m.letter \in Verdicts THEN m.letter ELSE "fail"
          /\ answers' = m.call
          /\ UNCHANGED tv
    /\ UNCHANGED <<up, call, arg, port, gserv, numservers, jobs, asked, elapsed, reused>>

----------------------------------------------------------------------------
(* The server.  sjsms_server() hands the datagram to a thread of the pool; *)
(* parsequery() rejects a request without sender, recipient or address,    *)
(* and sjsms_connection() then sends nothing at all.                       *)
sjsms_server(m) ==
    /\ Arrives(m)
    /\ jobs' = IF m.to \in up /\ m.arg = "valid"
               THEN jobs \cup {[server |-> m.to, port |-> m.port, call |-> m.call,
                                age |-> 0, calmed |-> FALSE]}
               ELSE jobs
    /\ UNCHANGED <<up, client, ghosts>>

Reply(j, letter) == [from |-> j.server, port |-> j.port, call |-> j.call, letter |-> letter]

(* The first timeout action of test_tuple(), if the limit leaves room for  *)
(* one.                                                                    *)
Calms(j) == TimeLimit > CalmTime /\ j.age >= CalmTime /\ ~j.calmed

calm_client(j) ==
    /\ Calms(j)
    /\ jobs' = (jobs \ {j}) \cup {[j EXCEPT !.calmed = TRUE]}
    /\ net' = net \cup {Reply(j, "P")}
    /\ UNCHANGED <<up, client, faults, ghosts>>

(* test_tuple() returns, at the latest when its time limit is over. *)
sjsms_connection(j, letter) ==
    /\ jobs' = jobs \ {j}
    /\ net' = net \cup {Reply(j, letter)}
    /\ UNCHANGED <<up, client, faults, ghosts>>

----------------------------------------------------------------------------
(* The network and the machines. *)
Fault == faults < MaxFaults /\ faults' = faults + 1

Lose(m) ==
    /\ Fault
    /\ net' = net \ {m}
    /\ UNCHANGED <<up, client, jobs, ghosts>>

(* Nobody has the port any more. *)
Discard(m) ==
    /\ ~(pc = "wait" /\ port = m.port)
    /\ net' = net \ {m}
    /\ UNCHANGED <<up, client, jobs, faults, ghosts>>

ServerDies(s) ==
    /\ Fault
    /\ s \in up
    /\ up' = up \ {s}
    /\ jobs' = {j \in jobs : j.server # s}
    /\ UNCHANGED <<client, net, ghosts>>

(* A second passes.  Nobody is late in it, except, as a fault, the network. *)
Tick ==
    /\ pc = "wait" \/ jobs # {}
    /\ pc = "wait" => tv > 0
    /\ \A j \in jobs : j.age < TimeLimit /\ ~Calms(j)
    /\ \/ net = {} /\ UNCHANGED faults
       \/ net # {} /\ Fault
    /\ jobs' = {[j EXCEPT !.age = @ + 1] : j \in jobs}
    /\ tv' = IF pc = "wait" THEN tv - 1 ELSE tv
    /\ elapsed' = IF pc = "wait" THEN elapsed + 1 ELSE elapsed
    /\ UNCHANGED <<up, call, pc, arg, port, gserv, numservers, result, net, asked, answers, reused>>

Next ==
    \/ \E a \in {"valid", "invalid", "malformed"} : \E n \in 1..2 : \E p \in Ports :
          grosscheck(a, n, p)
    \/ SelectTimeout
    \/ \E m \in net \cap Replies : RecvFrom(m) \/ Discard(m)
    \/ \E m \in net \cap Queries : sjsms_server(m)
    \/ \E j \in jobs : calm_client(j) \/ \E l \in Verdicts \cup {"F"} : sjsms_connection(j, l)
    \/ \E m \in net : Lose(m)
    \/ \E s \in Servers : ServerDies(s)
    \/ Tick

Spec == Init /\ [][Next]_vars

----------------------------------------------------------------------------
(* A call fails only for a reason: the request is bad, a server says F,    *)
(* the network or a server failed during the calls, or no server it asked  *)
(* is up.  The seconds of select(), of the P packet and of the query time  *)
(* limit fit together: a slow query is waited for, and when the first      *)
(* server is down the second one is asked in time.                         *)
NoNeedlessFailure ==
    pc = "done" /\ result = "fail" =>
        \/ arg # "valid"
        \/ answers # 0
        \/ faults > 0
        \/ asked \cap up = {}

(* The mail server waits for a bounded time: two servers, and one P from   *)
(* each of them, more only if the network duplicates datagrams or delivers *)
(* those of an earlier call.                                               *)
WaitBounded ==
    pc = "wait" /\ ~reused =>
        elapsed <= 2 * FirstWait + 2 * NextWait + faults * NextWait
============================================================================
