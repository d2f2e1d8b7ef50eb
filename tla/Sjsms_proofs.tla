--------------------------- MODULE Sjsms_proofs ---------------------------
(***************************************************************************)
(* Proofs about the UDP protocol, for any number of calls, ports and       *)
(* faults and any time limits that fit together.                           *)
(*                                                                         *)
(* NoNeedlessFailure rests on the clocks: while nothing has failed, a      *)
(* server that was asked and is up has the query before it, works on it,   *)
(* or has answered, and the client's clock is behind the server's by       *)
(* enough.  WaitBounded needs to know where the datagrams of a port come   *)
(* from and a count of the P packets that are still to come.               *)
(***************************************************************************)
EXTENDS Sjsms, FiniteSetTheorems, TLAPS

Jobs == [server : Servers, port : Ports, call : Calls, age : 0..TimeLimit, calmed : BOOLEAN]

CallInv ==
    /\ pc = "wait" => /\ numservers \in 1..2 /\ call \in Calls
                      /\ arg \in {"valid", "invalid"} /\ result = "fail"
    /\ \A m \in net \cup jobs : m.call <= call

(* What is on its way to a fresh port, or will be, belongs to the call. *)
PortInv == ~reused => \A m \in net \cup jobs : m.port = port => m.call = call

(* A job of this call on s, in time: before its P the clocks add up to     *)
(* FirstWait, after it to CalmTime + NextWait.                             *)
Mine(j, s) == j.server = s /\ j.port = port /\ j.call = call

Calmed(j) ==
    \/ j.age = CalmTime /\ Reply(j, "P") \in net /\ j.age + tv >= FirstWait
    \/ j.age + tv >= CalmTime + NextWait

JobInTime(j) ==
    \/ ~j.calmed /\ j.age <= CalmTime /\ j.age + tv >= FirstWait
    \/ j.calmed /\ Calmed(j)

AnswerComing(s) ==
    \E m \in net \cap Replies : /\ m.from = s /\ m.port = port /\ m.call = call
                                /\ m.letter # "P"

InTime(s) ==
    \/ Query(s, port, call, arg) \in net /\ tv >= FirstWait
    \/ \E j \in jobs : Mine(j, s) /\ JobInTime(j)
    \/ AnswerComing(s) /\ tv > 0

ServedInTime ==
    faults = 0 /\ pc = "wait" /\ arg = "valid" => \A s \in asked \cap up : InTime(s)

(* The datagrams and the jobs of this call from which a P may come. *)
PNet  == {m \in net : m.call = call /\ (m \in Queries \/ m.letter = "P")}
PJobs == {j \in jobs : j.call = call /\ ~j.calmed}

BoundInv ==
    /\ IsFiniteSet(net) /\ IsFiniteSet(jobs)
    /\ pc = "wait" /\ ~reused =>
          elapsed + tv + NextWait * (Cardinality(PNet) + Cardinality(PJobs))
                  + (FirstWait + NextWait) * (numservers - 1)
              <= 2 * FirstWait + 2 * NextWait + faults * NextWait

IInv ==
    /\ TypeOK
    /\ CallInv
    /\ PortInv
    /\ ServedInTime
    /\ NoNeedlessFailure
    /\ BoundInv

-----------------------------------------------------------------------------
(* The datagrams and the jobs the actions make. *)
LEMMA Made ==
  /\ \A s \in Servers, p \in Ports, c \in Calls, a \in {"valid", "invalid"} :
        /\ Query(s, p, c, a) \in Queries
        /\ Query(s, p, c, a).port = p /\ Query(s, p, c, a).call = c
  /\ \A j \in Jobs, l \in Letters :
        /\ Reply(j, l) \in Replies
        /\ Reply(j, l).port = j.port /\ Reply(j, l).call = j.call
        /\ Reply(j, l).from = j.server /\ Reply(j, l).letter = l
  BY DEF Query, Reply, Queries, Replies, Jobs

LEMMA Apart == \A m \in Replies : m \notin Queries
  <1> SUFFICES ASSUME NEW m \in Replies, m \in Queries PROVE FALSE
    OBVIOUS
  <1>1. "from" \in DOMAIN m
    BY DEF Replies
  <1>2. DOMAIN m = {"to", "port", "call", "arg"}
    BY DEF Queries
  <1> QED
    BY <1>1, <1>2

(* A second makes every job older. *)
Older == {[j EXCEPT !.age = @ + 1] : j \in jobs}

LEMMA OlderJobs ==
  ASSUME TypeOK, \A j \in jobs : j.age < TimeLimit
  PROVE  \A k \in Older : /\ k \in Jobs
                          /\ \E j \in jobs : /\ k.server = j.server /\ k.port = j.port
                                             /\ k.call = j.call /\ k.calmed = j.calmed
                                             /\ k.age = j.age + 1
  <1> SUFFICES ASSUME NEW j \in jobs, NEW k, k = [j EXCEPT !.age = @ + 1]
               PROVE  /\ k \in Jobs
                      /\ k.server = j.server /\ k.port = j.port
                      /\ k.call = j.call /\ k.calmed = j.calmed
                      /\ k.age = j.age + 1
    BY Zenon DEF Older
  <1>1. j \in Jobs /\ j.age + 1 \in 0..TimeLimit
    BY SjsmsAssumption DEF SjsmsAssumption, TypeOK, Jobs
  <1> QED
    BY <1>1 DEF Jobs

-----------------------------------------------------------------------------
LEMMA TypeStep ==
  ASSUME TypeOK, CallInv, Next
  PROVE  TypeOK'
  <1> USE DEF TypeOK, client, ghosts
  <1> USE SjsmsAssumption DEF SjsmsAssumption
  <1>1. ASSUME NEW a \in {"valid", "invalid", "malformed"}, NEW n \in 1..2, NEW p \in Ports,
               grosscheck(a, n, p)
        PROVE  TypeOK'
    <2>1. reused' \in BOOLEAN
      BY <1>1, Zenon DEF grosscheck
    <2>2. call' \in 0..MaxCalls /\ call + 1 \in Calls
      BY <1>1 DEF grosscheck, Calls
    <2>3. net' \in SUBSET (Queries \cup Replies)
      <3>1. CASE a = "malformed"
        BY <1>1, <3>1 DEF grosscheck
      <3>2. CASE a # "malformed"
        BY <1>1, <2>2, <3>2, Made DEF grosscheck, Servers
      <3> QED
        BY <3>1, <3>2
    <2>4. tv' \in 0..NextWait /\ numservers' \in 0..2
      BY <1>1 DEF grosscheck
    <2>5. /\ arg' \in {"valid", "invalid", "malformed"} /\ port' \in Ports /\ gserv' \in Servers
          /\ pc' \in {"idle", "wait", "done"} /\ result' \in Verdicts \cup {"fail"}
          /\ asked' \in SUBSET Servers /\ elapsed' \in Nat /\ answers' \in 0..MaxCalls
      BY <1>1 DEF grosscheck, Servers
    <2>6. UNCHANGED <<up, jobs, faults>>
      BY <1>1 DEF grosscheck
    <2> QED
      BY <2>1, <2>2, <2>3, <2>4, <2>5, <2>6
  <1>2. CASE SelectTimeout
    <2>1. numservers' \in 0..2
      BY <1>2 DEF SelectTimeout, CallInv
    <2>2. net' \in SUBSET (Queries \cup Replies)
      BY <1>2, Made DEF SelectTimeout, CallInv, Servers
    <2>3. gserv' \in Servers /\ asked' \in SUBSET Servers
      BY <1>2 DEF SelectTimeout, Servers
    <2>5. tv' \in 0..NextWait /\ pc' \in {"idle", "wait", "done"}
      BY <1>2 DEF SelectTimeout
    <2>4. UNCHANGED <<up, call, arg, port, result, jobs, faults, elapsed, answers, reused>>
      BY <1>2 DEF SelectTimeout
    <2> QED
      BY <2>1, <2>2, <2>3, <2>4, <2>5
  <1>3. ASSUME NEW m \in net \cap Replies, RecvFrom(m)
        PROVE  TypeOK'
    <2>1. m.call \in 0..MaxCalls /\ m.letter \in Letters
      BY DEF Replies, Calls
    <2>2. faults' \in 0..MaxFaults /\ net' \in SUBSET (Queries \cup Replies)
      BY <1>3 DEF RecvFrom, Arrives
    <2>3. /\ pc' \in {"idle", "wait", "done"} /\ result' \in Verdicts \cup {"fail"}
          /\ tv' \in 0..NextWait /\ answers' \in 0..MaxCalls
      BY <1>3, <2>1 DEF RecvFrom
    <2>4. UNCHANGED <<up, call, arg, port, gserv, numservers, jobs, asked, elapsed, reused>>
      BY <1>3 DEF RecvFrom
    <2> QED
      BY <2>2, <2>3, <2>4
  <1>4. ASSUME NEW m \in net \cap Replies, Discard(m)
        PROVE  TypeOK'
    BY <1>4 DEF Discard
  <1>5. ASSUME NEW m \in net \cap Queries, sjsms_server(m)
        PROVE  TypeOK'
    <2>1. faults' \in 0..MaxFaults /\ net' \in SUBSET (Queries \cup Replies)
      BY <1>5 DEF sjsms_server, Arrives
    <2>2. jobs' \in SUBSET Jobs
      <3>1. [server |-> m.to, port |-> m.port, call |-> m.call, age |-> 0, calmed |-> FALSE] \in Jobs
        BY DEF Queries, Jobs
      <3>2. jobs \in SUBSET Jobs
        BY Zenon DEF Jobs
      <3> QED
        BY <1>5, <3>1, <3>2 DEF sjsms_server
    <2> QED
      BY <1>5, <2>1, <2>2 DEF sjsms_server, Jobs
  <1>6. ASSUME NEW j \in jobs, calm_client(j)
        PROVE  TypeOK'
    <2>1. j \in Jobs
      BY DEF Jobs
    <2>2. [j EXCEPT !.calmed = TRUE] \in Jobs
      BY <2>1 DEF Jobs
    <2>3. net' \in SUBSET (Queries \cup Replies)
      BY <1>6, <2>1, Made DEF calm_client, Letters
    <2>4. jobs' \in SUBSET Jobs
      BY <1>6, <2>2 DEF calm_client, Jobs
    <2> QED
      BY <1>6, <2>3, <2>4 DEF calm_client, Jobs
  <1>7. ASSUME NEW j \in jobs, NEW l \in Verdicts \cup {"F"}, sjsms_connection(j, l)
        PROVE  TypeOK'
    <2>1. net' \in SUBSET (Queries \cup Replies)
      BY <1>7, Made DEF sjsms_connection, Jobs, Letters
    <2> QED
      BY <1>7, <2>1 DEF sjsms_connection
  <1>8. ASSUME NEW m \in net, Lose(m)
        PROVE  TypeOK'
    BY <1>8 DEF Lose, Fault
  <1>9. ASSUME NEW s \in Servers, ServerDies(s)
        PROVE  TypeOK'
    BY <1>9 DEF ServerDies, Fault
  <1>10. CASE Tick
    <2>1. jobs' \in SUBSET Jobs
      BY <1>10, OlderJobs DEF Tick, Older
    <2>2. tv' \in 0..NextWait /\ elapsed' \in Nat /\ faults' \in 0..MaxFaults
      BY <1>10 DEF Tick, Fault
    <2> QED
      BY <1>10, <2>1, <2>2 DEF Tick, Jobs
  <1> QED
    BY <1>1, <1>2, <1>3, <1>4, <1>5, <1>6, <1>7, <1>8, <1>9, <1>10 DEF Next

-----------------------------------------------------------------------------
(* Where the members of net and jobs come from: an action of the servers   *)
(* or of the network puts nothing there that has another port or call than *)
(* something that was there before.                                        *)
Inherited == \A m \in net' \cup jobs' : \E o \in net \cup jobs : m.port = o.port /\ m.call = o.call

LEMMA Copies ==
  ASSUME TypeOK, Next
  PROVE  \/ \E a \in {"valid", "invalid", "malformed"} : \E n \in 1..2 : \E p \in Ports :
               grosscheck(a, n, p)
         \/ SelectTimeout
         \/ Inherited /\ UNCHANGED <<call, port, reused>>
  <1> USE DEF TypeOK, client, ghosts
  <1>1. ASSUME NEW m \in net \cap Replies, RecvFrom(m) \/ Discard(m)
        PROVE  Inherited /\ UNCHANGED <<call, port, reused>>
    BY <1>1 DEF RecvFrom, Arrives, Discard, Inherited
  <1>2. ASSUME NEW m \in net \cap Queries, sjsms_server(m)
        PROVE  Inherited /\ UNCHANGED <<call, port, reused>>
    BY <1>2 DEF sjsms_server, Arrives, Inherited
  <1>3. ASSUME NEW j \in jobs, calm_client(j)
        PROVE  Inherited /\ UNCHANGED <<call, port, reused>>
    <2>1. j \in Jobs /\ "P" \in Letters
      BY DEF Jobs, Letters
    <2>2. /\ [j EXCEPT !.calmed = TRUE].port = j.port
          /\ [j EXCEPT !.calmed = TRUE].call = j.call
      BY <2>1 DEF Jobs
    <2>3. Reply(j, "P").port = j.port /\ Reply(j, "P").call = j.call
      BY <2>1, Made
    <2> QED
      BY <1>3, <2>2, <2>3 DEF calm_client, Inherited
  <1>4. ASSUME NEW j \in jobs, NEW l \in Verdicts \cup {"F"}, sjsms_connection(j, l)
        PROVE  Inherited /\ UNCHANGED <<call, port, reused>>
    <2>1. Reply(j, l).port = j.port /\ Reply(j, l).call = j.call
      BY Made DEF Jobs, Letters
    <2> QED
      BY <1>4, <2>1 DEF sjsms_connection, Inherited
  <1>5. ASSUME NEW m \in net, Lose(m)
        PROVE  Inherited /\ UNCHANGED <<call, port, reused>>
    BY <1>5 DEF Lose, Inherited
  <1>6. ASSUME NEW s \in Servers, ServerDies(s)
        PROVE  Inherited /\ UNCHANGED <<call, port, reused>>
    BY <1>6 DEF ServerDies, Inherited
  <1>7. CASE Tick
    BY <1>7, OlderJobs DEF Tick, Inherited, Older
  <1> QED
    BY <1>1, <1>2, <1>3, <1>4, <1>5, <1>6, <1>7 DEF Next

LEMMA CallStep ==
  ASSUME TypeOK, CallInv, PortInv, Next
  PROVE  (\A m \in net' \cup jobs' : m.call <= call') /\ PortInv'
  <1> USE DEF TypeOK
  <1>1. ASSUME NEW a \in {"valid", "invalid", "malformed"}, NEW n \in 1..2, NEW p \in Ports,
               grosscheck(a, n, p)
        PROVE  (\A m \in net' \cup jobs' : m.call <= call') /\ PortInv'
    <2>1. /\ call' = call + 1 /\ call + 1 \in Calls
          /\ port' = p
      BY <1>1, SjsmsAssumption DEF SjsmsAssumption, grosscheck, Calls
    <2>6. ~reused' => \A m \in net \cup jobs : m.port # p
      <3>1. reused' = (\E m \in net \cup jobs : m.port = p)
        BY <1>1, Zenon DEF grosscheck
      <3> QED
        BY <3>1, Zenon
    <2>2. \A m \in net' \cup jobs' : m \notin net \cup jobs =>
             a # "malformed" /\ m = Query(1, p, call + 1, a)
      BY <1>1 DEF grosscheck
    <2>3. \A m \in net' \cup jobs' : m \notin net \cup jobs => m.call = call + 1
      BY <2>2 DEF Query
    <2>4. \A m \in net \cup jobs : m.call \in Int
      BY DEF Queries, Replies, Calls
    <2>5. \A m \in net' \cup jobs' : m.call <= call'
      BY <2>1, <2>3, <2>4 DEF CallInv
    <2> QED
      BY <2>1, <2>3, <2>5, <2>6 DEF PortInv
  <1>2. CASE SelectTimeout
    <2>1. UNCHANGED <<call, port, reused>> /\ call \in Calls /\ call <= call
      BY <1>2 DEF SelectTimeout, CallInv, Calls
    <2>2. \A m \in net' \cup jobs' : m \notin net \cup jobs => m.call = call
      BY <1>2, Made DEF SelectTimeout, CallInv, Servers
    <2> QED
      BY <2>1, <2>2 DEF CallInv, PortInv
  <1>3. CASE Inherited /\ UNCHANGED <<call, port, reused>>
    BY <1>3 DEF Inherited, CallInv, PortInv
  <1> QED
    BY <1>1, <1>2, <1>3, Copies

LEMMA WaitStep ==
  ASSUME TypeOK, CallInv, PortInv, Next
  PROVE  CallInv'
  <1> USE DEF TypeOK, client, ghosts
  <1> DEFINE W == pc = "wait" => /\ numservers \in 1..2 /\ call \in Calls
                                 /\ arg \in {"valid", "invalid"} /\ result = "fail"
  <1> SUFFICES W'
    BY CallStep DEF CallInv
  <1>1. W
    BY DEF CallInv
  <1>2. ASSUME NEW a \in {"valid", "invalid", "malformed"}, NEW n \in 1..2, NEW p \in Ports,
               grosscheck(a, n, p)
        PROVE  W'
    <2>1. /\ result' = "fail" /\ call' \in Calls
          /\ pc' = "wait" => numservers' \in 1..2 /\ arg' \in {"valid", "invalid"}
      BY <1>2, SjsmsAssumption DEF SjsmsAssumption, grosscheck, Calls
    <2> QED
      BY <2>1
  <1>3. CASE SelectTimeout
    <2>1. UNCHANGED <<result, call, arg>> /\ result = "fail" /\ numservers \in 1..2
      BY <1>1, <1>3 DEF SelectTimeout
    <2>2. pc' = "wait" => numservers' \in 1..2
      BY <1>3, <2>1 DEF SelectTimeout
    <2> QED
      BY <1>1, <1>3, <2>1, <2>2 DEF SelectTimeout
  <1>4. ASSUME NEW m \in net \cap Replies, RecvFrom(m)
        PROVE  W'
    <2>1. CASE m.letter = "P"
      <3>1. UNCHANGED <<pc, numservers, call, arg, result>> /\ pc = "wait"
        BY <1>4, <2>1 DEF RecvFrom
      <3> QED
        BY <1>1, <3>1
    <2>2. CASE m.letter # "P"
      BY <1>4, <2>2 DEF RecvFrom
    <2> QED
      BY <2>1, <2>2
  <1>5. CASE UNCHANGED <<pc, numservers, call, arg, result>>
    BY <1>1, <1>5
  <1>6. CASE Tick
    BY <1>5, <1>6 DEF Tick
  <1>7. ASSUME NEW m \in net, Lose(m) \/ Discard(m) \/ sjsms_server(m)
        PROVE  W'
    BY <1>5, <1>7 DEF Lose, Discard, sjsms_server
  <1>8. ASSUME NEW j \in jobs, calm_client(j) \/ \E l \in Verdicts \cup {"F"} : sjsms_connection(j, l)
        PROVE  W'
    BY <1>5, <1>8 DEF calm_client, sjsms_connection
  <1>9. ASSUME NEW s \in Servers, ServerDies(s)
        PROVE  W'
    BY <1>5, <1>9 DEF ServerDies
  <1> HIDE DEF W
  <1> QED
    BY <1>2, <1>3, <1>4, <1>6, <1>7, <1>8, <1>9 DEF Next

-----------------------------------------------------------------------------
(* NoNeedlessFailure.  While a server is in time the client's clock runs. *)
LEMMA NotLate ==
  ASSUME TypeOK, NEW j \in jobs, JobInTime(j)
  PROVE  tv > 0
  <1> USE SjsmsAssumption DEF SjsmsAssumption, TypeOK
  <1>1. j.age \in 0..TimeLimit
    OBVIOUS
  <1> QED
    BY <1>1 DEF JobInTime, Calmed

LEMMA TimesUp ==
  ASSUME TypeOK, NEW s \in Servers, InTime(s)
  PROVE  tv > 0
  BY NotLate, SjsmsAssumption DEF SjsmsAssumption, TypeOK, InTime

LEMMA ServedStep ==
  ASSUME TypeOK, CallInv, ServedInTime, NoNeedlessFailure, TypeOK', Next
  PROVE  ServedInTime' /\ NoNeedlessFailure'
  <1> USE SjsmsAssumption DEF SjsmsAssumption, client, ghosts
  <1>0. /\ faults \in Nat /\ faults' \in Nat /\ tv \in Nat /\ tv' \in Nat
        /\ asked \subseteq Servers /\ up \subseteq Servers
    BY DEF TypeOK
  <1>1. ASSUME NEW a \in {"valid", "invalid", "malformed"}, NEW n \in 1..2, NEW p \in Ports,
               grosscheck(a, n, p)
        PROVE  ServedInTime' /\ NoNeedlessFailure'
    <2>1. CASE a = "malformed"
      BY <1>1, <2>1 DEF grosscheck, ServedInTime, NoNeedlessFailure
    <2>2. CASE a # "malformed"
      <3>1. /\ pc' = "wait" /\ asked' = {1} /\ tv' = FirstWait
            /\ port' = p /\ call' = call + 1 /\ arg' = a
            /\ Query(1, p, call + 1, a) \in net'
        BY <1>1, <2>2 DEF grosscheck
      <3>2. Query(1, port, call, arg)' \in net'
        BY <3>1 DEF Query
      <3>3. InTime(1)'
        BY <3>1, <3>2 DEF InTime
      <3> QED
        BY <3>1, <3>3 DEF ServedInTime, NoNeedlessFailure
    <2> QED
      BY <2>1, <2>2
  <1>2. CASE SelectTimeout
    <2>1. UNCHANGED <<up, faults, arg, call, port, answers, result>> /\ pc = "wait" /\ tv = 0
      BY <1>2 DEF SelectTimeout
    <2>2. faults = 0 /\ arg = "valid" => asked \cap up = {}
      BY <1>0, <2>1, TimesUp DEF ServedInTime
    <2>3. CASE numservers' = 0
      <3>1. pc' = "done" /\ asked' = asked
        BY <1>2, <2>3 DEF SelectTimeout
      <3>2. faults # 0 => faults > 0
        BY <1>0
      <3> QED
        BY <2>1, <2>2, <3>1, <3>2 DEF ServedInTime, NoNeedlessFailure
    <2>4. CASE numservers' # 0
      <3>1. /\ pc' = "wait" /\ asked' = asked \cup {2} /\ tv' = FirstWait
            /\ Query(2, port, call, arg) \in net'
        BY <1>2, <2>4 DEF SelectTimeout
      <3>2. InTime(2)'
        BY <2>1, <3>1 DEF InTime, Query
      <3> QED
        BY <2>1, <2>2, <3>1, <3>2 DEF ServedInTime, NoNeedlessFailure
    <2> QED
      BY <2>3, <2>4
  <1>3. ASSUME NEW m \in net \cap Replies, RecvFrom(m)
        PROVE  ServedInTime' /\ NoNeedlessFailure'
    <2>0. /\ UNCHANGED <<up, call, arg, port, jobs, asked>> /\ pc = "wait" /\ m.port = port
          /\ faults' = 0 => faults = 0 /\ net' = net \ {m}
      BY <1>0, <1>3 DEF RecvFrom, Arrives
    <2>1. CASE m.letter # "P"
      <3>1. pc' = "done" /\ answers' = m.call /\ m.call # 0
        BY <1>3, <2>1 DEF RecvFrom, Replies, Calls
      <3> QED
        BY <3>1 DEF ServedInTime, NoNeedlessFailure
    <2>2. CASE m.letter = "P"
      <3>1. pc' = "wait" /\ tv' = NextWait
        BY <1>3, <2>2 DEF RecvFrom
      <3>2. ASSUME faults' = 0, arg = "valid", NEW s \in asked \cap up
            PROVE  InTime(s)'
        <4>1. InTime(s) /\ s \in Servers
          BY <1>0, <2>0, <3>2 DEF ServedInTime
        <4>2. CASE Query(s, port, call, arg) \in net /\ tv >= FirstWait
          <5>1. Query(s, port, call, arg) # m
            BY Apart, Made, <2>0, <3>2, <4>1 DEF CallInv, TypeOK
          <5> QED
            BY <2>0, <3>1, <3>2, <4>2, <5>1 DEF InTime, Query
        <4>3. ASSUME NEW j \in jobs, Mine(j, s), JobInTime(j)
              PROVE  InTime(s)'
          <5>1. j.age \in Nat /\ j \in jobs' /\ j.calmed \in BOOLEAN
            BY <2>0 DEF TypeOK
          <5>2. CASE ~j.calmed
            BY <2>0, <3>1, <4>3, <5>1, <5>2 DEF JobInTime, InTime, Mine
          <5>3. CASE j.calmed /\ j.age = CalmTime
            BY <2>0, <3>1, <4>3, <5>1, <5>3 DEF JobInTime, Calmed, InTime, Mine
          <5>4. CASE j.calmed /\ j.age + tv >= CalmTime + NextWait
            <6>1. j.age + tv' >= CalmTime + NextWait
              BY <3>1, <5>1, <5>4, <1>0 DEF TypeOK
            <6> QED
              BY <2>0, <4>3, <5>1, <5>4, <6>1 DEF JobInTime, Calmed, InTime, Mine
          <5> QED
            BY <4>3, <5>2, <5>3, <5>4 DEF JobInTime, Calmed
        <4>4. CASE AnswerComing(s) /\ tv > 0
          <5>1. AnswerComing(s)'
            BY <2>0, <2>2, <3>2, <4>4 DEF AnswerComing
          <5> QED
            BY <3>1, <5>1 DEF InTime
        <4> QED
          BY <4>1, <4>2, <4>3, <4>4 DEF InTime
      <3> QED
        BY <2>0, <3>1, <3>2 DEF ServedInTime, NoNeedlessFailure
    <2> QED
      BY <2>1, <2>2
  <1>4. ASSUME NEW m \in net \cap Replies, Discard(m)
        PROVE  ServedInTime' /\ NoNeedlessFailure'
    <2>0. /\ UNCHANGED <<up, call, arg, port, tv, faults, pc, result, answers, jobs, asked>>
          /\ net' = net \ {m} /\ ~(pc = "wait" /\ port = m.port)
      BY <1>4 DEF Discard
    <2>1. ASSUME faults = 0, arg = "valid", pc = "wait", NEW s \in asked \cap up
          PROVE  InTime(s)'
      <3>1. InTime(s) /\ s \in Servers
        BY <1>0, <2>1 DEF ServedInTime
      <3>2. CASE Query(s, port, call, arg) \in net /\ tv >= FirstWait
        <4>1. Query(s, port, call, arg) # m
          BY Apart, Made, <2>1, <3>1 DEF CallInv, TypeOK
        <4> QED
          BY <2>0, <3>2, <4>1 DEF InTime, Query
      <3>3. ASSUME NEW j \in jobs, Mine(j, s), JobInTime(j)
            PROVE  InTime(s)'
        <4>1. Reply(j, "P") # m
          BY <2>0, <2>1, <3>3 DEF Mine, Reply
        <4>2. Mine(j, s)' /\ JobInTime(j)' /\ j \in jobs'
          BY <2>0, <3>3, <4>1 DEF Mine, JobInTime, Calmed, Reply
        <4> QED
          BY <4>2 DEF InTime
      <3>4. CASE AnswerComing(s) /\ tv > 0
        BY <2>0, <2>1, <3>4 DEF InTime, AnswerComing
      <3> QED
        BY <3>1, <3>2, <3>3, <3>4 DEF InTime
    <2> QED
      BY <2>0, <2>1 DEF ServedInTime, NoNeedlessFailure
  <1>5. ASSUME NEW m \in net \cap Queries, sjsms_server(m)
        PROVE  ServedInTime' /\ NoNeedlessFailure'
    <2>0. /\ UNCHANGED <<up, call, arg, port, tv, pc, result, answers, asked>>
          /\ faults' = 0 => faults = 0 /\ net' = net \ {m}
          /\ faults > 0 => faults' > 0
          /\ jobs \subseteq jobs'
      BY <1>0, <1>5 DEF sjsms_server, Arrives
    <2>1. ASSUME faults' = 0, arg = "valid", pc = "wait", NEW s \in asked \cap up
          PROVE  InTime(s)'
      <3>1. InTime(s) /\ s \in Servers
        BY <1>0, <2>0, <2>1 DEF ServedInTime
      <3>2. CASE Query(s, port, call, arg) \in net /\ tv >= FirstWait
        <4>1. CASE Query(s, port, call, arg) # m
          BY <2>0, <2>1, <3>2, <4>1 DEF InTime, Query
        <4>2. CASE Query(s, port, call, arg) = m
          <5>0. PICK k : k = [server |-> s, port |-> port, call |-> call, age |-> 0, calmed |-> FALSE]
            OBVIOUS
          <5>1. m.to = s /\ m.port = port /\ m.call = call /\ m.arg = "valid"
            BY <2>1, <4>2 DEF Query
          <5>2. k \in jobs'
            BY <1>5, <2>1, <5>0, <5>1 DEF sjsms_server
          <5>3. Mine(k, s)' /\ JobInTime(k)'
            BY <1>0, <2>0, <3>2, <5>0 DEF Mine, JobInTime
          <5> QED
            BY <5>2, <5>3 DEF InTime
        <4> QED
          BY <4>1, <4>2
      <3>3. ASSUME NEW j \in jobs, Mine(j, s), JobInTime(j)
            PROVE  InTime(s)'
        <4>1. Reply(j, "P") # m
          BY Apart, Made, <1>5 DEF TypeOK, Jobs, Letters
        <4>2. Mine(j, s)' /\ JobInTime(j)' /\ j \in jobs'
          BY <2>0, <2>1, <3>3, <4>1 DEF Mine, JobInTime, Calmed, Reply
        <4> QED
          BY <4>2 DEF InTime
      <3>4. CASE AnswerComing(s) /\ tv > 0
        BY <2>0, <2>1, <3>4, Apart DEF InTime, AnswerComing
      <3> QED
        BY <3>1, <3>2, <3>3, <3>4 DEF InTime
    <2> QED
      BY <2>0, <2>1 DEF ServedInTime, NoNeedlessFailure
  <1>6. ASSUME NEW k \in jobs, calm_client(k)
        PROVE  ServedInTime' /\ NoNeedlessFailure'
    <2> DEFINE c == [k EXCEPT !.calmed = TRUE]
    <2>0. /\ UNCHANGED <<up, call, arg, port, tv, faults, pc, result, answers, asked>>
          /\ net' = net \cup {Reply(k, "P")}
          /\ jobs' = (jobs \ {k}) \cup {c}
      BY <1>6 DEF calm_client
    <2>a. /\ k \in Jobs /\ k.age \in Nat /\ ~k.calmed /\ k.age >= CalmTime
          /\ c.server = k.server /\ c.port = k.port /\ c.call = k.call /\ c.age = k.age /\ c.calmed
      BY <1>6 DEF TypeOK, Jobs, calm_client, Calms
    <2>1. ASSUME faults = 0, arg = "valid", pc = "wait", NEW s \in asked \cap up
          PROVE  InTime(s)'
      <3>1. InTime(s) /\ s \in Servers
        BY <1>0, <2>1 DEF ServedInTime
      <3>2. CASE Query(s, port, call, arg) \in net /\ tv >= FirstWait
        BY <2>0, <3>2 DEF InTime, Query
      <3>3. ASSUME NEW j \in jobs, Mine(j, s), JobInTime(j)
            PROVE  InTime(s)'
        <4>1. CASE j # k
          <5>1. Mine(j, s)' /\ JobInTime(j)' /\ j \in jobs'
            BY <2>0, <3>3, <4>1 DEF Mine, JobInTime, Calmed, Reply
          <5> QED
            BY <5>1 DEF InTime
        <4>2. CASE j = k
          <5>1. Mine(c, s)'
            BY <2>0, <2>a, <3>3, <4>2 DEF Mine
          <5>2. k.age = CalmTime /\ k.age + tv >= FirstWait
            BY <2>a, <3>3, <4>2 DEF JobInTime
          <5>3. Reply(c, "P") = Reply(k, "P")
            BY <2>a DEF Reply
          <5>4. JobInTime(c)'
            <6>1. c.age = CalmTime /\ c.age + tv' >= FirstWait /\ c.calmed
              BY <2>0, <2>a, <5>2
            <6>2. Reply(c, "P") \in net'
              BY <2>0, <5>3
            <6> HIDE DEF c
            <6> QED
              BY <6>1, <6>2 DEF JobInTime, Calmed, Reply
          <5> HIDE DEF c
          <5> QED
            BY <2>0, <5>1, <5>4 DEF InTime
        <4> QED
          BY <4>1, <4>2
      <3>4. CASE AnswerComing(s) /\ tv > 0
        BY <2>0, <3>4 DEF InTime, AnswerComing
      <3> QED
        BY <3>1, <3>2, <3>3, <3>4 DEF InTime
    <2> QED
      BY <2>0, <2>1 DEF ServedInTime, NoNeedlessFailure
  <1>7. ASSUME NEW k \in jobs, NEW l \in Verdicts \cup {"F"}, sjsms_connection(k, l)
        PROVE  ServedInTime' /\ NoNeedlessFailure'
    <2>0. /\ UNCHANGED <<up, call, arg, port, tv, faults, pc, result, answers, asked>>
          /\ net' = net \cup {Reply(k, l)}
          /\ jobs' = jobs \ {k}
      BY <1>7 DEF sjsms_connection
    <2>1. ASSUME faults = 0, arg = "valid", pc = "wait", NEW s \in asked \cap up
          PROVE  InTime(s)'
      <3>1. InTime(s) /\ s \in Servers
        BY <1>0, <2>1 DEF ServedInTime
      <3>2. CASE Query(s, port, call, arg) \in net /\ tv >= FirstWait
        BY <2>0, <3>2 DEF InTime, Query
      <3>3. ASSUME NEW j \in jobs, Mine(j, s), JobInTime(j)
            PROVE  InTime(s)'
        <4>1. CASE j # k
          <5>1. Mine(j, s)' /\ JobInTime(j)' /\ j \in jobs'
            BY <2>0, <3>3, <4>1 DEF Mine, JobInTime, Calmed, Reply
          <5> QED
            BY <5>1 DEF InTime
        <4>2. CASE j = k
          <5>1. tv' > 0
            BY <2>0, <3>3, NotLate
          <5>2. /\ Reply(k, l) \in net' \cap Replies
                /\ Reply(k, l).port = k.port /\ Reply(k, l).call = k.call
                /\ Reply(k, l).from = k.server /\ Reply(k, l).letter # "P"
            BY <2>0, Made DEF TypeOK, Jobs, Letters, Verdicts
          <5>3. AnswerComing(s)'
            BY <2>0, <3>3, <4>2, <5>2 DEF AnswerComing, Mine
          <5> QED
            BY <5>1, <5>3 DEF InTime
        <4> QED
          BY <4>1, <4>2
      <3>4. CASE AnswerComing(s) /\ tv > 0
        BY <2>0, <3>4 DEF InTime, AnswerComing
      <3> QED
        BY <3>1, <3>2, <3>3, <3>4 DEF InTime
    <2> QED
      BY <2>0, <2>1 DEF ServedInTime, NoNeedlessFailure
  <1>8. CASE (\E m \in net : Lose(m)) \/ (\E s \in Servers : ServerDies(s))
    <2>1. faults' > 0
      BY <1>0, <1>8 DEF Lose, ServerDies, Fault
    <2> QED
      BY <2>1 DEF ServedInTime, NoNeedlessFailure
  <1>9. CASE Tick
    <2>0. /\ UNCHANGED <<up, call, arg, port, pc, result, answers, asked, net>>
          /\ jobs' = Older
          /\ \A j \in jobs : j.age < TimeLimit /\ ~Calms(j)
          /\ faults' = 0 => faults = 0 /\ net = {}
          /\ faults > 0 => faults' > 0
          /\ pc = "wait" => tv' = tv - 1
      BY <1>0, <1>9 DEF Tick, Fault, Older
    <2>1. ASSUME faults' = 0, arg = "valid", pc = "wait", NEW s \in asked \cap up
          PROVE  InTime(s)'
      <3>1. InTime(s) /\ s \in Servers
        BY <1>0, <2>0, <2>1 DEF ServedInTime
      <3>2. PICK j \in jobs : Mine(j, s) /\ JobInTime(j)
        BY <2>0, <2>1, <3>1 DEF InTime, AnswerComing
      <3> DEFINE k == [j EXCEPT !.age = @ + 1]
      <3>3. /\ k \in jobs' /\ j.age \in Nat /\ j.calmed \in BOOLEAN
            /\ k.server = j.server /\ k.port = j.port /\ k.call = j.call /\ k.age = j.age + 1
            /\ k.calmed = j.calmed
        BY <2>0 DEF Older, TypeOK
      <3>4. Mine(k, s)'
        BY <2>0, <3>2, <3>3 DEF Mine
      <3>5. JobInTime(k)'
        <4>1. k.age + tv' = j.age + tv
          BY <1>0, <2>0, <2>1, <3>3
        <4>2. CASE ~j.calmed
          <5>1. j.age < TimeLimit /\ (TimeLimit > CalmTime => j.age < CalmTime)
            BY <2>0, <3>3, <4>2 DEF Calms
          <5> QED
            BY <3>2, <3>3, <4>1, <4>2, <5>1 DEF JobInTime
        <4>3. CASE j.calmed
          <5>1. j.age + tv >= CalmTime + NextWait
            BY <2>0, <2>1, <3>2, <4>3 DEF JobInTime, Calmed
          <5> QED
            BY <3>3, <4>1, <4>3, <5>1 DEF JobInTime, Calmed
        <4> QED
          BY <3>3, <4>2, <4>3
      <3> HIDE DEF k
      <3> QED
        BY <3>3, <3>4, <3>5 DEF InTime
    <2> QED
      BY <2>0, <2>1 DEF ServedInTime, NoNeedlessFailure
  <1> QED
    BY <1>1, <1>2, <1>3, <1>4, <1>5, <1>6, <1>7, <1>8, <1>9 DEF Next

-----------------------------------------------------------------------------
(* WaitBounded.  Potential counts the P packets that may still come. *)
Potential == Cardinality(PNet) + Cardinality(PJobs)

LEMMA Finite ==
  ASSUME NEW S, IsFiniteSet(S), NEW T, T \subseteq S
  PROVE  IsFiniteSet(T) /\ Cardinality(T) \in Nat
  <1>1. IsFiniteSet(T)
    BY FS_Subset
  <1> QED
    BY <1>1, FS_CardinalityType

(* A finite set that gains at most x, or loses y. *)
LEMMA Gains ==
  ASSUME NEW S, IsFiniteSet(S), NEW x, NEW T, T \subseteq S \cup {x}
  PROVE  Cardinality(T) \in Nat /\ Cardinality(T) <= Cardinality(S) + 1
  <1>1. /\ IsFiniteSet(S \cup {x})
        /\ Cardinality(S \cup {x}) = IF x \in S THEN Cardinality(S) ELSE Cardinality(S) + 1
    BY FS_AddElement
  <1>2. Cardinality(T) <= Cardinality(S \cup {x}) /\ IsFiniteSet(T)
    BY <1>1, FS_Subset
  <1>3. Cardinality(S) \in Nat /\ Cardinality(T) \in Nat
    BY <1>2, FS_CardinalityType
  <1> QED
    BY <1>1, <1>2, <1>3

LEMMA Loses ==
  ASSUME NEW S, IsFiniteSet(S), NEW y \in S, NEW T, T \subseteq S \ {y}
  PROVE  Cardinality(T) \in Nat /\ Cardinality(T) + 1 <= Cardinality(S)
  <1>1. IsFiniteSet(S \ {y}) /\ Cardinality(S \ {y}) = Cardinality(S) - 1
    BY FS_RemoveElement
  <1>2. Cardinality(T) <= Cardinality(S \ {y}) /\ IsFiniteSet(T)
    BY <1>1, FS_Subset
  <1>3. Cardinality(S) \in Nat /\ Cardinality(T) \in Nat
    BY <1>2, FS_CardinalityType
  <1> QED
    BY <1>1, <1>2, <1>3

LEMMA NoMore ==
  ASSUME NEW S, IsFiniteSet(S), NEW T, T \subseteq S
  PROVE  Cardinality(T) \in Nat /\ Cardinality(T) <= Cardinality(S)
  <1>1. Cardinality(T) <= Cardinality(S) /\ IsFiniteSet(T)
    BY FS_Subset
  <1> QED
    BY <1>1, FS_CardinalityType

(* A P that is received costs NextWait seconds and one of the P packets to *)
(* come; a fault may give one more.                                        *)
LEMMA Budget ==
  ASSUME NEW w \in Nat, NEW x \in Nat, NEW y \in Nat, NEW n \in Nat, NEW m \in Nat,
         NEW f \in Nat, NEW g \in Nat, NEW e \in 0..1, NEW K \in Int, NEW B \in Int,
         x + w * n + K <= B + f * w,
         g >= f, m + e <= n + (g - f), y <= x + e * w
  PROVE  y + w * m + K <= B + g * w
  <1>1. PICK d \in Nat : n + (g - f) = m + e + d
    <2>1. n + (g - f) - (m + e) \in Nat
      OBVIOUS
    <2> QED
      BY <2>1
  <1>2. w * (n + (g - f)) = w * (m + e + d)
    BY <1>1
  <1>3. w * n + g * w - f * w = w * m + e * w + w * d
    BY <1>2
  <1>4. w * d >= 0 /\ w * d \in Int /\ w * n \in Int /\ g * w \in Int /\ f * w \in Int
          /\ w * m \in Int /\ e * w \in Int
    OBVIOUS
  <1> QED
    BY <1>3, <1>4

LEMMA Asking ==
  ASSUME NEW w \in Nat, NEW v \in Nat, NEW x \in Nat, NEW n \in Nat, NEW m \in Nat, NEW f \in Nat,
         m <= n + 1, x + w * n + (v + w) <= 2 * v + 2 * w + f * w
  PROVE  x + v + w * m <= 2 * v + 2 * w + f * w
  <1>1. PICK d \in Nat : n + 1 = m + d
    <2>1. n + 1 - m \in Nat
      OBVIOUS
    <2> QED
      BY <2>1
  <1>2. w * (n + 1) = w * (m + d)
    BY <1>1
  <1>3. w * n + w = w * m + w * d
    BY <1>2
  <1>4. w * d >= 0 /\ w * d \in Int /\ w * n \in Int /\ w * m \in Int /\ f * w \in Int
    OBVIOUS
  <1> QED
    BY <1>3, <1>4

LEMMA Times == \A w, n \in Nat : w * n \in Nat
  OBVIOUS

LEMMA Clocks ==
  ASSUME TypeOK, TypeOK'
  PROVE  /\ elapsed \in Nat /\ tv \in Nat /\ elapsed' \in Nat /\ tv' \in Nat
         /\ faults \in Nat /\ faults' \in Nat /\ NextWait \in Nat /\ FirstWait \in Nat
         /\ numservers \in Int
  BY SjsmsAssumption DEF SjsmsAssumption, TypeOK

(* The second conjunct of BoundInv. *)
WithinBudget ==
    elapsed + tv + NextWait * Potential + (FirstWait + NextWait) * (numservers - 1)
        <= 2 * FirstWait + 2 * NextWait + faults * NextWait

LEMMA BoundKept ==
  ASSUME TypeOK, TypeOK', IsFiniteSet(net), IsFiniteSet(jobs), IsFiniteSet(net'), IsFiniteSet(jobs'),
         WithinBudget, numservers' = numservers,
         NEW e \in 0..1, faults' >= faults,
         Potential' + e <= Potential + (faults' - faults),
         elapsed' + tv' <= elapsed + tv + e * NextWait
  PROVE  WithinBudget'
  <1>1. Potential \in Nat /\ Potential' \in Nat
    <2>1. /\ PNet \subseteq net /\ PNet' \subseteq net'
          /\ PJobs \subseteq jobs /\ PJobs' \subseteq jobs'
      BY Zenon DEF PNet, PJobs
    <2> QED
      BY <2>1, Finite DEF Potential
  <1>2. /\ elapsed + tv \in Nat /\ elapsed' + tv' \in Nat
        /\ faults \in Nat /\ faults' \in Nat /\ NextWait \in Nat
        /\ FirstWait \in Nat /\ numservers - 1 \in Int
    BY Clocks
  <1>a. /\ (FirstWait + NextWait) * (numservers - 1) \in Int
        /\ 2 * FirstWait + 2 * NextWait \in Int
    BY <1>2
  <1>3. PICK K \in Int : K = (FirstWait + NextWait) * (numservers - 1)
    BY <1>a
  <1>4. PICK B \in Int : B = 2 * FirstWait + 2 * NextWait
    BY <1>a
  <1>5. PICK x \in Nat : x = elapsed + tv
    BY <1>2
  <1>6. PICK y \in Nat : y = elapsed' + tv'
    BY <1>2
  <1>7. PICK n \in Nat : n = Potential
    BY <1>1
  <1>8. PICK m \in Nat : m = Potential'
    BY <1>1
  <1>9. x + NextWait * n + K <= B + faults * NextWait
    BY <1>3, <1>4, <1>5, <1>7 DEF WithinBudget
  <1>10. m + e <= n + (faults' - faults) /\ y <= x + e * NextWait
    BY <1>5, <1>6, <1>7, <1>8
  <1>11. y + NextWait * m + K <= B + faults' * NextWait
    BY <1>2, <1>9, <1>10, Budget
  <1> QED
    BY <1>3, <1>4, <1>6, <1>8, <1>11 DEF WithinBudget

LEMMA OlderFinite ==
  ASSUME IsFiniteSet(jobs)
  PROVE  IsFiniteSet(Older)
  <1> DEFINE f == [j \in jobs |-> [j EXCEPT !.age = @ + 1]]
  <1>1. f \in Surjection(jobs, Older)
    BY Zenon DEF Surjection, Older
  <1> QED
    BY <1>1, FS_Surjection

LEMMA FiniteStep ==
  ASSUME TypeOK, BoundInv, Next
  PROVE  IsFiniteSet(net') /\ IsFiniteSet(jobs')
  <1> USE DEF client, ghosts
  <1> SUFFICES /\ \E x : net' \subseteq net \cup {x}
               /\ jobs' = Older \/ \E x : jobs' \subseteq jobs \cup {x}
    BY OlderFinite, FS_AddElement, FS_Subset DEF BoundInv
  <1>1. ASSUME NEW a \in {"valid", "invalid", "malformed"}, NEW n \in 1..2, NEW p \in Ports,
               grosscheck(a, n, p)
        PROVE  jobs' = jobs /\ net' \subseteq net \cup {Query(1, p, call + 1, a)}
    BY <1>1 DEF grosscheck
  <1>2. CASE SelectTimeout
    BY <1>2 DEF SelectTimeout
  <1>3. ASSUME NEW m \in net, RecvFrom(m) \/ Discard(m) \/ Lose(m)
        PROVE  jobs' = jobs /\ net' \subseteq net
    BY <1>3 DEF RecvFrom, Arrives, Discard, Lose
  <1>4. ASSUME NEW m \in net, sjsms_server(m)
        PROVE  net' \subseteq net /\ \E x : jobs' \subseteq jobs \cup {x}
    BY <1>4 DEF sjsms_server, Arrives
  <1>5. ASSUME NEW j \in jobs, calm_client(j) \/ \E l \in Verdicts \cup {"F"} : sjsms_connection(j, l)
        PROVE  /\ \E x : net' \subseteq net \cup {x}
               /\ \E x : jobs' \subseteq jobs \cup {x}
    BY <1>5 DEF calm_client, sjsms_connection
  <1>6. ASSUME NEW s \in Servers, ServerDies(s)
        PROVE  net' = net /\ jobs' \subseteq jobs
    BY <1>6 DEF ServerDies
  <1>7. CASE Tick
    BY <1>7 DEF Tick, Older
  <1> QED
    BY <1>1, <1>2, <1>3, <1>4, <1>5, <1>6, <1>7 DEF Next

LEMMA OlderCount ==
  ASSUME TypeOK, IsFiniteSet(jobs), \A j \in jobs : j.age < TimeLimit,
         jobs' = Older, call' = call
  PROVE  Cardinality(PJobs') \in Nat /\ Cardinality(PJobs') <= Cardinality(PJobs)
  <1> DEFINE f == [j \in PJobs |-> [j EXCEPT !.age = @ + 1]]
  <1>1. PJobs \subseteq jobs
    BY Zenon DEF PJobs
  <1>2. ASSUME NEW j \in jobs
        PROVE  [j EXCEPT !.age = @ + 1].call = j.call /\ [j EXCEPT !.age = @ + 1].calmed = j.calmed
    BY DEF TypeOK
  <1>3. ASSUME NEW k \in PJobs' PROVE \E j \in PJobs : k = [j EXCEPT !.age = @ + 1]
    <2>1. PICK j \in jobs : k = [j EXCEPT !.age = @ + 1]
      BY <1>3, Zenon DEF PJobs, Older
    <2>2. k.call = call /\ ~k.calmed
      BY <1>3, Zenon DEF PJobs
    <2>3. j \in PJobs
      BY <1>2, <2>1, <2>2 DEF PJobs
    <2> QED
      BY <2>1, <2>3
  <1>4. ASSUME NEW j \in PJobs PROVE [j EXCEPT !.age = @ + 1] \in PJobs'
    BY <1>1, <1>2 DEF PJobs, Older
  <1>5. f \in Surjection(PJobs, PJobs')
    BY <1>3, <1>4, Zenon DEF Surjection
  <1> HIDE DEF f
  <1>6. IsFiniteSet(PJobs)
    BY <1>1, Finite
  <1>7. IsFiniteSet(PJobs') /\ Cardinality(PJobs') <= Cardinality(PJobs)
    BY <1>5, <1>6, FS_Surjection
  <1> QED
    BY <1>7, FS_CardinalityType

LEMMA BoundStep ==
  ASSUME TypeOK, CallInv, PortInv, BoundInv, TypeOK', Next
  PROVE  BoundInv'
  <1> USE SjsmsAssumption DEF SjsmsAssumption, client, ghosts
  <1>0. /\ IsFiniteSet(net) /\ IsFiniteSet(jobs) /\ IsFiniteSet(net') /\ IsFiniteSet(jobs')
        /\ faults \in Nat /\ tv \in Nat /\ elapsed \in Nat /\ faults' \in Nat
        /\ IsFiniteSet(PNet) /\ Cardinality(PNet) \in Nat
        /\ IsFiniteSet(PJobs) /\ Cardinality(PJobs) \in Nat
    <2>1. PNet \subseteq net /\ PJobs \subseteq jobs
      BY Zenon DEF PNet, PJobs
    <2> QED
      BY <2>1, Finite, FiniteStep DEF BoundInv, TypeOK
  <1> SUFFICES ASSUME pc' = "wait", ~reused' PROVE WithinBudget'
    BY <1>0, Zenon DEF BoundInv, WithinBudget, Potential
  <1>b. pc = "wait" /\ ~reused => WithinBudget
    BY DEF BoundInv, WithinBudget, Potential
  <1>1. ASSUME NEW a \in {"valid", "invalid", "malformed"}, NEW n \in 1..2, NEW p \in Ports,
               grosscheck(a, n, p)
        PROVE  WithinBudget'
    <2>1. /\ call' = call + 1 /\ elapsed' = 0 /\ tv' = FirstWait /\ numservers' = n
          /\ net' = net \cup {Query(1, p, call + 1, a)} /\ jobs' = jobs
      BY <1>1 DEF grosscheck
    <2>2. \A m \in net \cup jobs : m.call # call + 1
      BY DEF CallInv, TypeOK, Queries, Replies, Calls
    <2>3. PNet' \subseteq {} \cup {Query(1, p, call + 1, a)} /\ PJobs' \subseteq {}
      BY <2>1, <2>2 DEF PNet, PJobs
    <2>4. IsFiniteSet({}) /\ Cardinality({}) = 0
      BY FS_EmptySet
    <2>a. Cardinality(PNet') \in Nat /\ Cardinality(PNet') <= Cardinality({}) + 1
      BY <2>3, <2>4, Gains
    <2>5. Cardinality(PNet') \in Nat /\ Cardinality(PNet') <= 1
      BY <2>4, <2>a
    <2>6. Cardinality(PJobs') = 0
      BY <2>3, <2>4
    <2>7. Potential' \in {0, 1}
      BY <2>5, <2>6 DEF Potential
    <2>8. faults' * NextWait \in Nat
      BY <1>0, Times
    <2>9. CASE n = 1
      BY <2>1, <2>7, <2>8, <2>9 DEF WithinBudget
    <2>10. CASE n = 2
      BY <2>1, <2>7, <2>8, <2>10 DEF WithinBudget
    <2> QED
      BY <2>9, <2>10
  <1>2. CASE SelectTimeout
    <2>1. /\ pc = "wait" /\ tv = 0 /\ numservers' = numservers - 1 /\ numservers' # 0
          /\ tv' = FirstWait /\ net' = net \cup {Query(2, port, call, arg)}
          /\ UNCHANGED <<call, jobs, faults, elapsed, reused>>
      BY <1>2 DEF SelectTimeout
    <2>2. numservers = 2 /\ numservers' = 1
      BY <2>1 DEF CallInv
    <2>3. PNet' \subseteq PNet \cup {Query(2, port, call, arg)} /\ PJobs' = PJobs
      BY <2>1, Zenon DEF PNet, PJobs
    <2>4. Cardinality(PNet') \in Nat /\ Cardinality(PNet') <= Cardinality(PNet) + 1
      BY <1>0, <2>3, Gains
    <2>5. Potential \in Nat /\ Potential' \in Nat /\ Potential' <= Potential + 1
      BY <1>0, <2>3, <2>4 DEF Potential
    <2>6. elapsed + NextWait * Potential + (FirstWait + NextWait)
             <= 2 * FirstWait + 2 * NextWait + faults * NextWait
      <3>1. elapsed + 0 + NextWait * Potential + (FirstWait + NextWait) * (2 - 1)
             <= 2 * FirstWait + 2 * NextWait + faults * NextWait
        BY <1>b, <2>1, <2>2 DEF WithinBudget
      <3>2. NextWait * Potential \in Nat
        BY <2>5, Times
      <3> QED
        BY <1>0, <3>1, <3>2
    <2>7. elapsed + FirstWait + NextWait * Potential'
             <= 2 * FirstWait + 2 * NextWait + faults * NextWait
      BY <1>0, <2>5, <2>6, Asking
    <2>b. FirstWait + NextWait \in Nat /\ 1 - 1 = 0
      OBVIOUS
    <2>c. \A n \in Nat : n * 0 = 0
      OBVIOUS
    <2>d. (FirstWait + NextWait) * (1 - 1) = 0
      BY <2>b, <2>c
    <2>e. NextWait * Potential' \in Nat
      BY <2>5, Times
    <2>a. faults * NextWait \in Nat
      BY <1>0, Times
    <2>9. elapsed + FirstWait + NextWait * Potential' + (FirstWait + NextWait) * (1 - 1)
             <= 2 * FirstWait + 2 * NextWait + faults * NextWait
      BY <1>0, <2>7, <2>a, <2>d, <2>e
    <2> QED
      BY <2>1, <2>2, <2>9 DEF WithinBudget
  <1>3. ASSUME NEW m \in net \cap Replies, RecvFrom(m)
        PROVE  WithinBudget'
    <2>1. /\ pc = "wait" /\ m.port = port /\ m.letter = "P" /\ tv' = NextWait
          /\ UNCHANGED <<call, jobs, elapsed, reused, numservers>>
      BY <1>3 DEF RecvFrom
    <2>2. m \in PNet
      BY <2>1 DEF PNet, PortInv
    <2>3. Potential' + 1 <= Potential + (faults' - faults) /\ faults' >= faults
      <3>1. CASE net' = net \ {m} /\ faults' = faults
        <4>1. PNet' \subseteq PNet \ {m} /\ PJobs' = PJobs
          BY <2>1, <3>1, Zenon DEF PNet, PJobs
        <4>2. Cardinality(PNet') \in Nat /\ Cardinality(PNet') + 1 <= Cardinality(PNet)
          BY <1>0, <2>2, <4>1, Loses
        <4> QED
          BY <1>0, <3>1, <4>1, <4>2 DEF Potential
      <3>2. CASE net' = net /\ faults' = faults + 1
        <4>1. PNet' = PNet /\ PJobs' = PJobs
          BY <2>1, <3>2, Zenon DEF PNet, PJobs
        <4> QED
          BY <1>0, <3>2, <4>1 DEF Potential
      <3> QED
        BY <1>3, <3>1, <3>2 DEF RecvFrom, Arrives
    <2>4. elapsed' + tv' <= elapsed + tv + 1 * NextWait /\ WithinBudget
      BY <1>0, <1>b, <2>1
    <2> QED
      BY <1>0, <2>1, <2>3, <2>4, BoundKept
  <1>4. ASSUME NEW m \in net, Discard(m) \/ Lose(m)
        PROVE  WithinBudget'
    <2>1. /\ net' = net \ {m} /\ faults' >= faults
          /\ UNCHANGED <<pc, call, jobs, elapsed, tv, reused, numservers>>
      BY <1>0, <1>4 DEF Discard, Lose, Fault
    <2>2. PNet' \subseteq PNet /\ PJobs' = PJobs
      BY <2>1, Zenon DEF PNet, PJobs
    <2>3. Cardinality(PNet') \in Nat /\ Cardinality(PNet') <= Cardinality(PNet)
      BY <1>0, <2>2, NoMore
    <2>4. Potential' + 0 <= Potential + (faults' - faults)
      BY <1>0, <2>1, <2>2, <2>3 DEF Potential
    <2>5. elapsed' + tv' <= elapsed + tv + 0 * NextWait /\ WithinBudget
      BY <1>0, <1>b, <2>1
    <2> QED
      BY <1>0, <2>1, <2>4, <2>5, BoundKept
  <1>5. ASSUME NEW m \in net \cap Queries, sjsms_server(m)
        PROVE  WithinBudget'
    <2>0. PICK k : k = [server |-> m.to, port |-> m.port, call |-> m.call, age |-> 0, calmed |-> FALSE]
      OBVIOUS
    <2>1. /\ jobs' \subseteq jobs \cup {k} /\ k.call = m.call
          /\ UNCHANGED <<pc, call, elapsed, tv, reused, numservers>>
      BY <1>5, <2>0 DEF sjsms_server
    <2>2. PJobs' \subseteq PJobs \cup {k} /\ (m.call # call => PJobs' \subseteq PJobs)
      BY <2>1 DEF PJobs
    <2>3. /\ Cardinality(PJobs') \in Nat /\ Cardinality(PJobs') <= Cardinality(PJobs) + 1
          /\ m.call # call => Cardinality(PJobs') <= Cardinality(PJobs)
      BY <1>0, <2>2, Gains, NoMore
    <2>4. Potential' + 0 <= Potential + (faults' - faults) /\ faults' >= faults
      <3>1. CASE net' = net \ {m} /\ faults' = faults
        <4>1. PNet' \subseteq PNet \ {m}
          BY <2>1, <3>1, Zenon DEF PNet
        <4>2. CASE m.call = call
          <5>1. m \in PNet
            BY <4>2 DEF PNet
          <5>2. Cardinality(PNet') \in Nat /\ Cardinality(PNet') + 1 <= Cardinality(PNet)
            BY <1>0, <4>1, <5>1, Loses
          <5> QED
            BY <1>0, <2>3, <3>1, <5>2 DEF Potential
        <4>3. CASE m.call # call
          <5>1. Cardinality(PNet') \in Nat /\ Cardinality(PNet') <= Cardinality(PNet)
            BY <1>0, <4>1, NoMore
          <5> QED
            BY <1>0, <2>3, <3>1, <4>3, <5>1 DEF Potential
        <4> QED
          BY <4>2, <4>3
      <3>2. CASE net' = net /\ faults' = faults + 1
        <4>1. PNet' = PNet
          BY <2>1, <3>2, Zenon DEF PNet
        <4> QED
          BY <1>0, <2>3, <3>2, <4>1 DEF Potential
      <3> QED
        BY <1>5, <3>1, <3>2 DEF sjsms_server, Arrives
    <2>5. elapsed' + tv' <= elapsed + tv + 0 * NextWait /\ WithinBudget
      BY <1>0, <1>b, <2>1
    <2> QED
      BY <1>0, <2>1, <2>4, <2>5, BoundKept
  <1>6. ASSUME NEW j \in jobs, calm_client(j)
        PROVE  WithinBudget'
    <2>1. /\ jobs' = (jobs \ {j}) \cup {[j EXCEPT !.calmed = TRUE]}
          /\ net' = net \cup {Reply(j, "P")} /\ ~j.calmed
          /\ UNCHANGED <<pc, call, elapsed, tv, reused, numservers, faults>>
      BY <1>6 DEF calm_client, Calms
    <2>2. [j EXCEPT !.calmed = TRUE].calmed /\ Reply(j, "P").call = j.call
      BY DEF TypeOK, Reply
    <2>3. PJobs' \subseteq PJobs \ {j}
      BY <2>1, <2>2 DEF PJobs
    <2>4. Potential' + 0 <= Potential + (faults' - faults)
      <3>1. CASE j.call = call
        <4>1. j \in PJobs
          BY <2>1, <3>1 DEF PJobs
        <4>2. Cardinality(PJobs') \in Nat /\ Cardinality(PJobs') + 1 <= Cardinality(PJobs)
          BY <1>0, <2>3, <4>1, Loses
        <4>3. PNet' \subseteq PNet \cup {Reply(j, "P")}
          BY <2>1, Zenon DEF PNet
        <4>4. Cardinality(PNet') \in Nat /\ Cardinality(PNet') <= Cardinality(PNet) + 1
          BY <1>0, <4>3, Gains
        <4> QED
          BY <1>0, <2>1, <4>2, <4>4 DEF Potential
      <3>2. CASE j.call # call
        <4>1. Cardinality(PJobs') \in Nat /\ Cardinality(PJobs') <= Cardinality(PJobs)
          BY <1>0, <2>3, NoMore
        <4>2. PNet' \subseteq PNet
          BY <2>1, <2>2, <3>2, Zenon DEF PNet
        <4>3. Cardinality(PNet') \in Nat /\ Cardinality(PNet') <= Cardinality(PNet)
          BY <1>0, <4>2, NoMore
        <4> QED
          BY <1>0, <2>1, <4>1, <4>3 DEF Potential
      <3> QED
        BY <3>1, <3>2
    <2>5. elapsed' + tv' <= elapsed + tv + 0 * NextWait /\ WithinBudget /\ faults' >= faults
      BY <1>0, <1>b, <2>1
    <2> QED
      BY <1>0, <2>1, <2>4, <2>5, BoundKept
  <1>7. ASSUME NEW j \in jobs, NEW l \in Verdicts \cup {"F"}, sjsms_connection(j, l)
        PROVE  WithinBudget'
    <2>1. /\ jobs' = jobs \ {j} /\ net' = net \cup {Reply(j, l)}
          /\ UNCHANGED <<pc, call, elapsed, tv, reused, numservers, faults>>
      BY <1>7 DEF sjsms_connection
    <2>2. Reply(j, l) \notin Queries /\ Reply(j, l).letter # "P"
      BY Apart, Made DEF TypeOK, Jobs, Letters, Verdicts
    <2>3. PJobs' \subseteq PJobs /\ PNet' \subseteq PNet
      BY <2>1, <2>2, Zenon DEF PJobs, PNet
    <2>4. Potential' + 0 <= Potential + (faults' - faults)
      <3>1. /\ Cardinality(PJobs') \in Nat /\ Cardinality(PJobs') <= Cardinality(PJobs)
            /\ Cardinality(PNet') \in Nat /\ Cardinality(PNet') <= Cardinality(PNet)
        BY <1>0, <2>3, NoMore
      <3> QED
        BY <1>0, <2>1, <3>1 DEF Potential
    <2>5. elapsed' + tv' <= elapsed + tv + 0 * NextWait /\ WithinBudget /\ faults' >= faults
      BY <1>0, <1>b, <2>1
    <2> QED
      BY <1>0, <2>1, <2>4, <2>5, BoundKept
  <1>8. ASSUME NEW s \in Servers, ServerDies(s)
        PROVE  WithinBudget'
    <2>1. /\ jobs' \subseteq jobs /\ net' = net /\ faults' >= faults
          /\ UNCHANGED <<pc, call, elapsed, tv, reused, numservers>>
      BY <1>0, <1>8 DEF ServerDies, Fault
    <2>2. PJobs' \subseteq PJobs /\ PNet' = PNet
      BY <2>1, Zenon DEF PJobs, PNet
    <2>3. Cardinality(PJobs') \in Nat /\ Cardinality(PJobs') <= Cardinality(PJobs)
      BY <1>0, <2>2, NoMore
    <2>4. Potential' + 0 <= Potential + (faults' - faults)
      BY <1>0, <2>1, <2>2, <2>3 DEF Potential
    <2>5. elapsed' + tv' <= elapsed + tv + 0 * NextWait /\ WithinBudget
      BY <1>0, <1>b, <2>1
    <2> QED
      BY <1>0, <2>1, <2>4, <2>5, BoundKept
  <1>9. CASE Tick
    <2>1. /\ jobs' = Older /\ net' = net /\ faults' >= faults
          /\ \A j \in jobs : j.age < TimeLimit
          /\ tv' = tv - 1 /\ elapsed' = elapsed + 1
          /\ UNCHANGED <<pc, call, reused, numservers>>
      BY <1>0, <1>9 DEF Tick, Fault, Older
    <2>2. PNet' = PNet
      BY <2>1, Zenon DEF PNet
    <2>3. Cardinality(PJobs') \in Nat /\ Cardinality(PJobs') <= Cardinality(PJobs)
      BY <1>0, <2>1, OlderCount
    <2>4. Potential' + 0 <= Potential + (faults' - faults)
      BY <1>0, <2>1, <2>2, <2>3 DEF Potential
    <2>5. elapsed' + tv' <= elapsed + tv + 0 * NextWait /\ WithinBudget
      BY <1>0, <1>b, <2>1
    <2> QED
      BY <1>0, <2>1, <2>4, <2>5, BoundKept
  <1> QED
    BY <1>1, <1>2, <1>3, <1>4, <1>5, <1>6, <1>7, <1>8, <1>9 DEF Next

-----------------------------------------------------------------------------
LEMMA InitInv == Init => IInv
  <1> SUFFICES ASSUME Init PROVE IInv
    OBVIOUS
  <1> USE SjsmsAssumption DEF SjsmsAssumption, Init
  <1>1. TypeOK
    <2>1. /\ call \in 0..MaxCalls /\ gserv \in Servers /\ numservers \in 0..2 /\ tv \in 0..NextWait
          /\ faults \in 0..MaxFaults /\ elapsed \in Nat /\ answers \in 0..MaxCalls
      BY DEF Servers
    <2>2. reused \in BOOLEAN
      BY Zenon
    <2> QED
      BY <2>1, <2>2 DEF TypeOK
  <1>2. CallInv /\ PortInv /\ ServedInTime /\ NoNeedlessFailure
    BY DEF CallInv, PortInv, ServedInTime, NoNeedlessFailure
  <1>3. BoundInv
    BY FS_EmptySet DEF BoundInv
  <1> QED
    BY <1>1, <1>2, <1>3 DEF IInv

LEMMA NextInv == IInv /\ [Next]_vars => IInv'
  <1> SUFFICES ASSUME IInv, [Next]_vars PROVE IInv'
    OBVIOUS
  <1>1. CASE Next
    BY <1>1, TypeStep, CallStep, WaitStep, ServedStep, BoundStep DEF IInv
  <1>2. CASE UNCHANGED vars
    <2> USE <1>2 DEF vars, client, ghosts
    <2>1. TypeOK' /\ CallInv' /\ PortInv' /\ NoNeedlessFailure'
      BY Zenon DEF IInv, TypeOK, CallInv, PortInv, NoNeedlessFailure
    <2>2. ServedInTime'
      BY DEF IInv, ServedInTime, InTime, Query, Mine, JobInTime, Calmed, Reply, AnswerComing
    <2>3. BoundInv'
      BY Zenon DEF IInv, BoundInv, PNet, PJobs
    <2> QED
      BY <2>1, <2>2, <2>3 DEF IInv
  <1> QED
    BY <1>1, <1>2

(* The inductive invariant holds in every reachable state. *)
THEOREM InvariantHolds == Spec => []IInv
  BY InitInv, NextInv, PTL DEF Spec

(* The types: the number of servers never goes below zero, a job is never  *)
(* older than the time limit, and the client's clock never runs backwards. *)
THEOREM TypeCorrect == Spec => []TypeOK
  <1>1. IInv => TypeOK
    BY DEF IInv
  <1> QED
    BY <1>1, InvariantHolds, PTL

(* grosscheck() does not fail while a server it asked is up and nothing    *)
(* has gone wrong: for any seconds of select(), of the P packet and of the *)
(* query time limit with which the server speaks before the client stops   *)
(* waiting.                                                                *)
THEOREM FailsForAReason == Spec => []NoNeedlessFailure
  <1>1. IInv => NoNeedlessFailure
    BY DEF IInv
  <1> QED
    BY <1>1, InvariantHolds, PTL

(* grosscheck() waits for at most two servers and a P from each of them,   *)
(* and one P more for every fault.                                         *)
THEOREM WaitIsBounded == Spec => []WaitBounded
  <1>1. IInv => WaitBounded
    <2> SUFFICES ASSUME IInv, pc = "wait", ~reused
                 PROVE  elapsed <= 2 * FirstWait + 2 * NextWait + faults * NextWait
      BY DEF WaitBounded
    <2>1. /\ IsFiniteSet(net) /\ IsFiniteSet(jobs) /\ numservers \in 1..2
          /\ elapsed \in Nat /\ tv \in Nat /\ faults \in Nat
          /\ FirstWait \in Nat /\ NextWait \in Nat
      BY SjsmsAssumption DEF SjsmsAssumption, IInv, BoundInv, CallInv, TypeOK
    <2>2. PNet \subseteq net /\ PJobs \subseteq jobs
      BY Zenon DEF PNet, PJobs
    <2>3. PICK n \in Nat : n = Cardinality(PNet) + Cardinality(PJobs)
      BY <2>1, <2>2, Finite
    <2>4. PICK k \in Nat : k = numservers - 1
      BY <2>1
    <2>5. elapsed + tv + NextWait * n + (FirstWait + NextWait) * k
             <= 2 * FirstWait + 2 * NextWait + faults * NextWait
      BY <2>3, <2>4 DEF IInv, BoundInv
    <2>6. NextWait * n \in Nat /\ (FirstWait + NextWait) * k \in Nat /\ faults * NextWait \in Nat
      BY <2>1
    <2> QED
      BY <2>1, <2>5, <2>6
  <1> QED
    BY <1>1, InvariantHolds, PTL
=============================================================================
