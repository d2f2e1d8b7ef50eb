---------------------------- MODULE Sync_proofs ----------------------------
(***************************************************************************)
(* Proofs about Sync for any two servers and any bounds.                   *)
(*                                                                         *)
(* The results rest on one relation: where the sync manager is says what   *)
(* the semaphore is worth, and so whether main() can have begun to serve   *)
(* (GuardOK).  That one server finds the other needs in addition that a    *)
(* server that has got past its connect() listens (FoundOK).               *)
(***************************************************************************)
EXTENDS Sync, FiniteSetTheorems, TLAPS

(* The sync manager has never released the semaphore. *)
Before(s) == pc[s] \in {"listen", "deaf", "connect", "release", "assert"}

GuardOK ==
    \A s \in Servers :
        /\ main[s] = "down" => pc[s] = "listen"
        /\ Before(s) \/ pc[s] = "filters" => guard[s] = 0
        /\ ~Before(s) /\ pc[s] # "filters" => guard[s] = 1
        /\ main[s] = "serving" => ~Before(s)

(* The connect() of s has failed. *)
Past(s) == pc[s] \in {"release", "accept", "config", "guard", "filters", "recv", "ended"}

FoundOK == \A s, p \in Servers : s # p /\ Past(s) /\ Past(p) => cut[s] \/ cut[p]

(* A server that has not connected yet may still do so. *)
Starting(s) == IF main[s] # "down" /\ pc[s] \in {"listen", "connect"} THEN 1 ELSE 0

Counts == \A s \in Servers : conns + Starting(s) + Starting(peer(s)) <= starts

IInv == TypeOK /\ GuardOK /\ FoundOK /\ Counts

-----------------------------------------------------------------------------
(* The two servers. *)
LEMMA Peers ==
  ASSUME NEW s \in Servers
  PROVE  /\ peer(s) \in Servers /\ peer(s) # s /\ peer(peer(s)) = s
         /\ \A x \in Servers : x = s \/ x = peer(s)
  <1>1. PICK a, b \in Servers : a # b /\ Servers = {a, b}
    <2>1. Servers # {}
      BY SyncAssumption, FS_EmptySet
    <2>2. PICK a \in Servers : TRUE
      BY <2>1
    <2>3. IsFiniteSet(Servers \ {a}) /\ Cardinality(Servers \ {a}) = 1
      BY <2>2, SyncAssumption, FS_RemoveElement
    <2>4. PICK b : Servers \ {a} = {b}
      BY <2>3, FS_Singleton
    <2> QED
      BY <2>2, <2>4
  <1> QED
    BY <1>1 DEF peer

(* A step of s: it uses up a start at most once. *)
LEMMA CountsStep ==
  ASSUME Counts, NEW s \in Servers,
         conns \in Nat, conns' \in Nat, starts \in Nat, starts' \in Nat,
         Starting(peer(s))' = Starting(peer(s)),
         conns' + Starting(s)' + starts <= conns + Starting(s) + starts'
  PROVE  Counts'
  <1>1. \A x : Starting(x) \in {0, 1} /\ Starting(x)' \in {0, 1}
    BY DEF Starting
  <1>2. conns + Starting(s) + Starting(peer(s)) <= starts
    BY DEF Counts
  <1>3. conns' + Starting(s)' + Starting(peer(s))' <= starts'
    BY <1>1, <1>2
  <1>4. /\ \A x \in Servers : x = s \/ x = peer(s)
        /\ peer(peer(s)) = s
    BY Peers
  <1>5. conns' + Starting(peer(s))' + Starting(s)' <= starts'
    BY <1>1, <1>3
  <1> QED
    BY <1>3, <1>4, <1>5 DEF Counts

(* No process runs. *)
LEMMA InitIInv == Init => IInv
  <1> SUFFICES ASSUME Init PROVE IInv
    OBVIOUS
  <1>1. TypeOK
    <2>1. <<>> \in Seq(Conns)
      OBVIOUS
    <2> QED
      BY <2>1, SyncAssumption DEF Init, TypeOK, PCs
  <1>2. GuardOK /\ FoundOK
    BY DEF Init, GuardOK, FoundOK, Before, Past
  <1>3. Counts
    BY Peers DEF Init, Counts, Starting
  <1> QED
    BY <1>1, <1>2, <1>3 DEF IInv

(* main() starts. *)
LEMMA StartStep ==
  ASSUME IInv, NEW s \in Servers, Start(s)
  PROVE  IInv'
  <1>0. /\ TypeOK /\ GuardOK /\ FoundOK /\ Counts
        /\ peer(s) \in Servers /\ peer(s) # s
    BY Peers DEF IInv
  <1>2. TypeOK'
    BY <1>0, SyncAssumption DEF TypeOK, PCs, GuardOK, Before, Start, At, Goto, wires, bounds
  <1>3. GuardOK'
    BY <1>0 DEF TypeOK, GuardOK, Before, Start, At, Goto, wires, bounds
  <1>4. FoundOK'
    BY <1>0, Peers DEF TypeOK, FoundOK, GuardOK, Past, Before, Start, At, Goto, wires, bounds
  <1>5. Counts'
    <2>1. conns \in Nat /\ conns' \in Nat /\ starts \in Nat /\ starts' \in Nat
      BY <1>0, <1>2 DEF TypeOK
    <2>2. Starting(peer(s))' = Starting(peer(s))
      BY <1>0 DEF TypeOK, Starting, Start, At, Goto, wires, bounds
    <2>3. conns' + Starting(s)' + starts <= conns + Starting(s) + starts'
      BY <1>0, <2>1 DEF TypeOK, Starting, Start, At, Goto, wires, bounds
    <2> QED
      BY <1>0, <2>1, <2>2, <2>3, CountsStep
  <1> QED
    BY <1>2, <1>3, <1>4, <1>5 DEF IInv

(* main() gets the semaphore. *)
LEMMA StartServingStep ==
  ASSUME IInv, NEW s \in Servers, StartServing(s)
  PROVE  IInv'
  <1>0. /\ TypeOK /\ GuardOK /\ FoundOK /\ Counts
        /\ peer(s) \in Servers /\ peer(s) # s
    BY Peers DEF IInv
  <1>2. TypeOK'
    BY <1>0, SyncAssumption DEF TypeOK, PCs, GuardOK, Before, StartServing, At, Goto, wires, bounds
  <1>3. GuardOK'
    BY <1>0 DEF TypeOK, GuardOK, Before, StartServing, At, Goto, wires, bounds
  <1>4. FoundOK'
    BY <1>0, Peers DEF TypeOK, FoundOK, GuardOK, Past, Before, StartServing, At, Goto, wires, bounds
  <1>5. Counts'
    <2>1. conns \in Nat /\ conns' \in Nat /\ starts \in Nat /\ starts' \in Nat
      BY <1>0, <1>2 DEF TypeOK
    <2>2. Starting(peer(s))' = Starting(peer(s))
      BY <1>0 DEF TypeOK, Starting, StartServing, At, Goto, wires, bounds
    <2>3. conns' + Starting(s)' + starts <= conns + Starting(s) + starts'
      BY <1>0, <2>1 DEF TypeOK, Starting, StartServing, At, Goto, wires, bounds
    <2> QED
      BY <1>0, <2>1, <2>2, <2>3, CountsStep
  <1> QED
    BY <1>2, <1>3, <1>4, <1>5 DEF IInv

(* The socket exists. *)
LEMMA ListenStep ==
  ASSUME IInv, NEW s \in Servers, Listen(s)
  PROVE  IInv'
  <1>0. /\ TypeOK /\ GuardOK /\ FoundOK /\ Counts
        /\ peer(s) \in Servers /\ peer(s) # s
    BY Peers DEF IInv
  <1>2. TypeOK'
    BY <1>0, SyncAssumption DEF TypeOK, PCs, GuardOK, Before, Listen, At, Goto, wires, bounds
  <1>3. GuardOK'
    BY <1>0 DEF TypeOK, GuardOK, Before, Listen, At, Goto, wires, bounds
  <1>4. FoundOK'
    BY <1>0, Peers DEF TypeOK, FoundOK, GuardOK, Past, Before, Listen, At, Goto, wires, bounds
  <1>5. Counts'
    <2>1. conns \in Nat /\ conns' \in Nat /\ starts \in Nat /\ starts' \in Nat
      BY <1>0, <1>2 DEF TypeOK
    <2>2. Starting(peer(s))' = Starting(peer(s))
      BY <1>0 DEF TypeOK, Starting, Listen, At, Goto, wires, bounds
    <2>3. conns' + Starting(s)' + starts <= conns + Starting(s) + starts'
      BY <1>0, <2>1 DEF TypeOK, Starting, Listen, At, Goto, wires, bounds
    <2> QED
      BY <1>0, <2>1, <2>2, <2>3, CountsStep
  <1> QED
    BY <1>2, <1>3, <1>4, <1>5 DEF IInv

(* The socket does not exist. *)
LEMMA ListenFailsStep ==
  ASSUME IInv, NEW s \in Servers, ListenFails(s)
  PROVE  IInv'
  <1>0. /\ TypeOK /\ GuardOK /\ FoundOK /\ Counts
        /\ peer(s) \in Servers /\ peer(s) # s
    BY Peers DEF IInv
  <1>2. TypeOK'
    BY <1>0, SyncAssumption DEF TypeOK, PCs, GuardOK, Before, ListenFails, At, Goto, wires, bounds, Fault
  <1>3. GuardOK'
    BY <1>0 DEF TypeOK, GuardOK, Before, ListenFails, At, Goto, wires, bounds, Fault
  <1>4. FoundOK'
    BY <1>0, Peers DEF TypeOK, FoundOK, GuardOK, Past, Before, ListenFails, At, Goto, wires, bounds, Fault
  <1>5. Counts'
    <2>1. conns \in Nat /\ conns' \in Nat /\ starts \in Nat /\ starts' \in Nat
      BY <1>0, <1>2 DEF TypeOK
    <2>2. Starting(peer(s))' = Starting(peer(s))
      BY <1>0 DEF TypeOK, Starting, ListenFails, At, Goto, wires, bounds, Fault
    <2>3. conns' + Starting(s)' + starts <= conns + Starting(s) + starts'
      BY <1>0, <2>1 DEF TypeOK, Starting, ListenFails, At, Goto, wires, bounds, Fault
    <2> QED
      BY <1>0, <2>1, <2>2, <2>3, CountsStep
  <1> QED
    BY <1>2, <1>3, <1>4, <1>5 DEF IInv

(* The peer does not listen, so it is not past its own connect(). *)
LEMMA ConnectFailsStep ==
  ASSUME IInv, NEW s \in Servers, ConnectFails(s)
  PROVE  IInv'
  <1>0. /\ TypeOK /\ GuardOK /\ FoundOK /\ Counts
        /\ peer(s) \in Servers /\ peer(s) # s
    BY Peers DEF IInv
  <1>2. TypeOK'
    BY <1>0, SyncAssumption DEF TypeOK, PCs, GuardOK, Before, ConnectFails, At, Goto, wires, bounds, Listening
  <1>3. GuardOK'
    BY <1>0 DEF TypeOK, GuardOK, Before, ConnectFails, At, Goto, wires, bounds, Listening
  <1>4. FoundOK'
    BY <1>0, Peers DEF TypeOK, FoundOK, GuardOK, Past, Before, ConnectFails, At, Goto, wires, bounds, Listening
  <1>5. Counts'
    <2>1. conns \in Nat /\ conns' \in Nat /\ starts \in Nat /\ starts' \in Nat
      BY <1>0, <1>2 DEF TypeOK
    <2>2. Starting(peer(s))' = Starting(peer(s))
      BY <1>0 DEF TypeOK, Starting, ConnectFails, At, Goto, wires, bounds, Listening
    <2>3. conns' + Starting(s)' + starts <= conns + Starting(s) + starts'
      BY <1>0, <2>1 DEF TypeOK, Starting, ConnectFails, At, Goto, wires, bounds, Listening
    <2> QED
      BY <1>0, <2>1, <2>2, <2>3, CountsStep
  <1> QED
    BY <1>2, <1>3, <1>4, <1>5 DEF IInv

(* The peer listens, but the connection fails. *)
LEMMA ConnectCutStep ==
  ASSUME IInv, NEW s \in Servers, ConnectCut(s)
  PROVE  IInv'
  <1>0. /\ TypeOK /\ GuardOK /\ FoundOK /\ Counts
        /\ peer(s) \in Servers /\ peer(s) # s
    BY Peers DEF IInv
  <1>2. TypeOK'
    BY <1>0, SyncAssumption DEF TypeOK, PCs, GuardOK, Before, ConnectCut, At, Goto, wires, bounds, Fault, Listening
  <1>3. GuardOK'
    BY <1>0 DEF TypeOK, GuardOK, Before, ConnectCut, At, Goto, wires, bounds, Fault, Listening
  <1>4. FoundOK'
    BY <1>0, Peers DEF TypeOK, FoundOK, GuardOK, Past, Before, ConnectCut, At, Goto, wires, bounds, Fault, Listening
  <1>5. Counts'
    <2>1. conns \in Nat /\ conns' \in Nat /\ starts \in Nat /\ starts' \in Nat
      BY <1>0, <1>2 DEF TypeOK
    <2>2. Starting(peer(s))' = Starting(peer(s))
      BY <1>0 DEF TypeOK, Starting, ConnectCut, At, Goto, wires, bounds, Fault, Listening
    <2>3. conns' + Starting(s)' + starts <= conns + Starting(s) + starts'
      BY <1>0, <2>1 DEF TypeOK, Starting, ConnectCut, At, Goto, wires, bounds, Fault, Listening
    <2> QED
      BY <1>0, <2>1, <2>2, <2>3, CountsStep
  <1> QED
    BY <1>2, <1>3, <1>4, <1>5 DEF IInv

(* The semaphore is released for the first time. *)
LEMMA ReleaseStep ==
  ASSUME IInv, NEW s \in Servers, Release(s)
  PROVE  IInv'
  <1>0. /\ TypeOK /\ GuardOK /\ FoundOK /\ Counts
        /\ peer(s) \in Servers /\ peer(s) # s
    BY Peers DEF IInv
  <1>2. TypeOK'
    BY <1>0, SyncAssumption DEF TypeOK, PCs, GuardOK, Before, Release, At, Goto, wires, bounds
  <1>3. GuardOK'
    BY <1>0 DEF TypeOK, GuardOK, Before, Release, At, Goto, wires, bounds
  <1>4. FoundOK'
    BY <1>0, Peers DEF TypeOK, FoundOK, GuardOK, Past, Before, Release, At, Goto, wires, bounds
  <1>5. Counts'
    <2>1. conns \in Nat /\ conns' \in Nat /\ starts \in Nat /\ starts' \in Nat
      BY <1>0, <1>2 DEF TypeOK
    <2>2. Starting(peer(s))' = Starting(peer(s))
      BY <1>0 DEF TypeOK, Starting, Release, At, Goto, wires, bounds
    <2>3. conns' + Starting(s)' + starts <= conns + Starting(s) + starts'
      BY <1>0, <2>1 DEF TypeOK, Starting, Release, At, Goto, wires, bounds
    <2> QED
      BY <1>0, <2>1, <2>2, <2>3, CountsStep
  <1> QED
    BY <1>2, <1>3, <1>4, <1>5 DEF IInv

(* The connection is made; each start makes at most one. *)
LEMMA ConnectStep ==
  ASSUME IInv, NEW s \in Servers, Connect(s)
  PROVE  IInv'
  <1>0. /\ TypeOK /\ GuardOK /\ FoundOK /\ Counts
        /\ peer(s) \in Servers /\ peer(s) # s
    BY Peers DEF IInv
  <1>1. conns + 1 \in Conns
    <2>1. conns + Starting(s) + Starting(peer(s)) <= starts
      BY <1>0 DEF Counts
    <2>2. Starting(s) = 1 /\ Starting(peer(s)) \in {0, 1}
      BY DEF Connect, At, Starting
    <2> QED
      BY <1>0, <2>1, <2>2, SyncAssumption DEF TypeOK, Conns
  <1>2. TypeOK'
    <2>1. backlog' \in [Servers -> Seq(Conns)]
      <3>1. Append(backlog[peer(s)], conns + 1) \in Seq(Conns)
        BY <1>0, <1>1 DEF TypeOK
      <3> QED
        BY <1>0, <3>1 DEF TypeOK, Connect
    <2>2. /\ conns' \in 0..MaxStarts
          /\ connected' \in [Servers -> Conns \cup {0, -1}]
          /\ out' \in [Servers -> Conns \cup {0}]
      BY <1>0, <1>1, SyncAssumption DEF TypeOK, Connect, Conns
    <2>3. pc' \in [Servers -> PCs]
      BY <1>0 DEF TypeOK, PCs, Connect, Goto
    <2> QED
      BY <1>0, <2>1, <2>2, <2>3 DEF TypeOK, Connect, bounds
  <1>3. GuardOK'
    BY <1>0 DEF TypeOK, GuardOK, Before, Connect, At, Goto, wires, bounds, Listening
  <1>4. FoundOK'
    BY <1>0, Peers DEF TypeOK, FoundOK, GuardOK, Past, Before, Connect, At, Goto, wires, bounds, Listening
  <1>5. Counts'
    <2>1. conns \in Nat /\ conns' \in Nat /\ starts \in Nat /\ starts' \in Nat
      BY <1>0, <1>2 DEF TypeOK
    <2>2. Starting(peer(s))' = Starting(peer(s))
      BY <1>0 DEF TypeOK, Starting, Connect, At, Goto, wires, bounds, Listening
    <2>3. conns' + Starting(s)' + starts <= conns + Starting(s) + starts'
      BY <1>0, <2>1 DEF TypeOK, Starting, Connect, At, Goto, wires, bounds, Listening
    <2> QED
      BY <1>0, <2>1, <2>2, <2>3, CountsStep
  <1> QED
    BY <1>2, <1>3, <1>4, <1>5 DEF IInv

(* The assertion fails. *)
LEMMA AbortStep ==
  ASSUME IInv, NEW s \in Servers, Abort(s)
  PROVE  IInv'
  <1>0. /\ TypeOK /\ GuardOK /\ FoundOK /\ Counts
        /\ peer(s) \in Servers /\ peer(s) # s
    BY Peers DEF IInv
  <1>2. TypeOK'
    <2>1. <<>> \in Seq(Conns)
      OBVIOUS
    <2>2. gone' \in SUBSET Conns /\ open' \in [Servers -> 0..MaxOpen]
      BY <1>0, SyncAssumption DEF TypeOK, Abort, Dies
    <2>3. /\ main' \in [Servers -> {"down", "wait", "serving"}]
          /\ guard' \in [Servers -> 0..1]
          /\ pc' \in [Servers -> PCs]
          /\ backlog' \in [Servers -> Seq(Conns)]
      BY <1>0, <2>1 DEF TypeOK, PCs, Abort, Dies, Goto
    <2>4. /\ connected' \in [Servers -> Conns \cup {0, -1}]
          /\ out' \in [Servers -> Conns \cup {0}]
          /\ receive' \in [Servers -> {"unset", "peer", "stranger"}]
          /\ cut' \in [Servers -> BOOLEAN]
      BY <1>0 DEF TypeOK, Abort, Dies
    <2>5. conns' \in 0..MaxStarts /\ starts' \in 0..MaxStarts /\ faults' \in 0..MaxFaults
      BY <1>0, SyncAssumption DEF TypeOK, Abort, Fault, bounds
    <2> QED
      BY <2>2, <2>3, <2>4, <2>5 DEF TypeOK
  <1>3. GuardOK'
    BY <1>0 DEF TypeOK, GuardOK, Before, Abort, At, Goto, wires, bounds, Dies
  <1>4. FoundOK'
    BY <1>0, Peers DEF TypeOK, FoundOK, GuardOK, Past, Before, Abort, At, Goto, wires, bounds, Dies
  <1>5. Counts'
    <2>1. conns \in Nat /\ conns' \in Nat /\ starts \in Nat /\ starts' \in Nat
      BY <1>0, <1>2 DEF TypeOK
    <2>2. Starting(peer(s))' = Starting(peer(s))
      BY <1>0 DEF TypeOK, Starting, Abort, At, Goto, wires, bounds, Dies
    <2>3. conns' + Starting(s)' + starts <= conns + Starting(s) + starts'
      BY <1>0, <2>1 DEF TypeOK, Starting, Abort, At, Goto, wires, bounds, Dies
    <2> QED
      BY <1>0, <2>1, <2>2, <2>3, CountsStep
  <1> QED
    BY <1>2, <1>3, <1>4, <1>5 DEF IInv

(* A connection of the peer. *)
LEMMA AcceptStep ==
  ASSUME IInv, NEW s \in Servers, Accept(s)
  PROVE  IInv'
  <1>0. /\ TypeOK /\ GuardOK /\ FoundOK /\ Counts
        /\ peer(s) \in Servers /\ peer(s) # s
    BY Peers DEF IInv
  <1>2. TypeOK'
    <2>1. Head(backlog[s]) \in Conns /\ Tail(backlog[s]) \in Seq(Conns)
      BY <1>0 DEF TypeOK, Accept
    <2>2. /\ connected' \in [Servers -> Conns \cup {0, -1}]
          /\ backlog' \in [Servers -> Seq(Conns)]
      BY <1>0, <2>1 DEF TypeOK, Accept
    <2>3. open' \in [Servers -> 0..MaxOpen]
      BY <1>0, SyncAssumption DEF TypeOK, Accept
    <2>4. /\ pc' \in [Servers -> PCs]
          /\ receive' \in [Servers -> {"unset", "peer", "stranger"}]
      BY <1>0 DEF TypeOK, PCs, Accept, Goto
    <2> QED
      BY <1>0, <2>2, <2>3, <2>4 DEF TypeOK, Accept, bounds
  <1>3. GuardOK'
    BY <1>0 DEF TypeOK, GuardOK, Before, Accept, At, Goto, wires, bounds
  <1>4. FoundOK'
    BY <1>0, Peers DEF TypeOK, FoundOK, GuardOK, Past, Before, Accept, At, Goto, wires, bounds
  <1>5. Counts'
    <2>1. conns \in Nat /\ conns' \in Nat /\ starts \in Nat /\ starts' \in Nat
      BY <1>0, <1>2 DEF TypeOK
    <2>2. Starting(peer(s))' = Starting(peer(s))
      BY <1>0 DEF TypeOK, Starting, Accept, At, Goto, wires, bounds
    <2>3. conns' + Starting(s)' + starts <= conns + Starting(s) + starts'
      BY <1>0, <2>1 DEF TypeOK, Starting, Accept, At, Goto, wires, bounds
    <2> QED
      BY <1>0, <2>1, <2>2, <2>3, CountsStep
  <1> QED
    BY <1>2, <1>3, <1>4, <1>5 DEF IInv

(* A connection of somebody else. *)
LEMMA AcceptStrangerStep ==
  ASSUME IInv, NEW s \in Servers, AcceptStranger(s)
  PROVE  IInv'
  <1>0. /\ TypeOK /\ GuardOK /\ FoundOK /\ Counts
        /\ peer(s) \in Servers /\ peer(s) # s
    BY Peers DEF IInv
  <1>2. TypeOK'
    BY <1>0, SyncAssumption DEF TypeOK, PCs, GuardOK, Before, AcceptStranger, At, Goto, wires, bounds, Fault
  <1>3. GuardOK'
    BY <1>0 DEF TypeOK, GuardOK, Before, AcceptStranger, At, Goto, wires, bounds, Fault
  <1>4. FoundOK'
    BY <1>0, Peers DEF TypeOK, FoundOK, GuardOK, Past, Before, AcceptStranger, At, Goto, wires, bounds, Fault
  <1>5. Counts'
    <2>1. conns \in Nat /\ conns' \in Nat /\ starts \in Nat /\ starts' \in Nat
      BY <1>0, <1>2 DEF TypeOK
    <2>2. Starting(peer(s))' = Starting(peer(s))
      BY <1>0 DEF TypeOK, Starting, AcceptStranger, At, Goto, wires, bounds, Fault
    <2>3. conns' + Starting(s)' + starts <= conns + Starting(s) + starts'
      BY <1>0, <2>1 DEF TypeOK, Starting, AcceptStranger, At, Goto, wires, bounds, Fault
    <2> QED
      BY <1>0, <2>1, <2>2, <2>3, CountsStep
  <1> QED
    BY <1>2, <1>3, <1>4, <1>5 DEF IInv

(* No descriptor is left. *)
LEMMA AcceptFailsStep ==
  ASSUME IInv, NEW s \in Servers, AcceptFails(s)
  PROVE  IInv'
  <1>0. /\ TypeOK /\ GuardOK /\ FoundOK /\ Counts
        /\ peer(s) \in Servers /\ peer(s) # s
    BY Peers DEF IInv
  <1>2. TypeOK'
    BY <1>0, SyncAssumption DEF TypeOK, PCs, GuardOK, Before, AcceptFails, At, Goto, wires, bounds
  <1>3. GuardOK'
    BY <1>0 DEF TypeOK, GuardOK, Before, AcceptFails, At, Goto, wires, bounds
  <1>4. FoundOK'
    BY <1>0, Peers DEF TypeOK, FoundOK, GuardOK, Past, Before, AcceptFails, At, Goto, wires, bounds
  <1>5. Counts'
    <2>1. conns \in Nat /\ conns' \in Nat /\ starts \in Nat /\ starts' \in Nat
      BY <1>0, <1>2 DEF TypeOK
    <2>2. Starting(peer(s))' = Starting(peer(s))
      BY <1>0 DEF TypeOK, Starting, AcceptFails, At, Goto, wires, bounds
    <2>3. conns' + Starting(s)' + starts <= conns + Starting(s) + starts'
      BY <1>0, <2>1 DEF TypeOK, Starting, AcceptFails, At, Goto, wires, bounds
    <2> QED
      BY <1>0, <2>1, <2>2, <2>3, CountsStep
  <1> QED
    BY <1>2, <1>3, <1>4, <1>5 DEF IInv

(* The configuration is written. *)
LEMMA send_sync_configStep ==
  ASSUME IInv, NEW s \in Servers, send_sync_config(s)
  PROVE  IInv'
  <1>0. /\ TypeOK /\ GuardOK /\ FoundOK /\ Counts
        /\ peer(s) \in Servers /\ peer(s) # s
    BY Peers DEF IInv
  <1>2. TypeOK'
    BY <1>0, SyncAssumption DEF TypeOK, PCs, GuardOK, Before, send_sync_config, At, Goto, wires, bounds
  <1>3. GuardOK'
    BY <1>0 DEF TypeOK, GuardOK, Before, send_sync_config, At, Goto, wires, bounds
  <1>4. FoundOK'
    BY <1>0, Peers DEF TypeOK, FoundOK, GuardOK, Past, Before, send_sync_config, At, Goto, wires, bounds
  <1>5. Counts'
    <2>1. conns \in Nat /\ conns' \in Nat /\ starts \in Nat /\ starts' \in Nat
      BY <1>0, <1>2 DEF TypeOK
    <2>2. Starting(peer(s))' = Starting(peer(s))
      BY <1>0 DEF TypeOK, Starting, send_sync_config, At, Goto, wires, bounds
    <2>3. conns' + Starting(s)' + starts <= conns + Starting(s) + starts'
      BY <1>0, <2>1 DEF TypeOK, Starting, send_sync_config, At, Goto, wires, bounds
    <2> QED
      BY <1>0, <2>1, <2>2, <2>3, CountsStep
  <1> QED
    BY <1>2, <1>3, <1>4, <1>5 DEF IInv

(* The semaphore is taken. *)
LEMMA FreezeStep ==
  ASSUME IInv, NEW s \in Servers, Freeze(s)
  PROVE  IInv'
  <1>0. /\ TypeOK /\ GuardOK /\ FoundOK /\ Counts
        /\ peer(s) \in Servers /\ peer(s) # s
    BY Peers DEF IInv
  <1>2. TypeOK'
    BY <1>0, SyncAssumption DEF TypeOK, PCs, GuardOK, Before, Freeze, At, Goto, wires, bounds
  <1>3. GuardOK'
    BY <1>0 DEF TypeOK, GuardOK, Before, Freeze, At, Goto, wires, bounds
  <1>4. FoundOK'
    BY <1>0, Peers DEF TypeOK, FoundOK, GuardOK, Past, Before, Freeze, At, Goto, wires, bounds
  <1>5. Counts'
    <2>1. conns \in Nat /\ conns' \in Nat /\ starts \in Nat /\ starts' \in Nat
      BY <1>0, <1>2 DEF TypeOK
    <2>2. Starting(peer(s))' = Starting(peer(s))
      BY <1>0 DEF TypeOK, Starting, Freeze, At, Goto, wires, bounds
    <2>3. conns' + Starting(s)' + starts <= conns + Starting(s) + starts'
      BY <1>0, <2>1 DEF TypeOK, Starting, Freeze, At, Goto, wires, bounds
    <2> QED
      BY <1>0, <2>1, <2>2, <2>3, CountsStep
  <1> QED
    BY <1>2, <1>3, <1>4, <1>5 DEF IInv

(* The semaphore is given back. *)
LEMMA SendFiltersStep ==
  ASSUME IInv, NEW s \in Servers, SendFilters(s)
  PROVE  IInv'
  <1>0. /\ TypeOK /\ GuardOK /\ FoundOK /\ Counts
        /\ peer(s) \in Servers /\ peer(s) # s
    BY Peers DEF IInv
  <1>2. TypeOK'
    BY <1>0, SyncAssumption DEF TypeOK, PCs, GuardOK, Before, SendFilters, At, Goto, wires, bounds
  <1>3. GuardOK'
    BY <1>0 DEF TypeOK, GuardOK, Before, SendFilters, At, Goto, wires, bounds
  <1>4. FoundOK'
    BY <1>0, Peers DEF TypeOK, FoundOK, GuardOK, Past, Before, SendFilters, At, Goto, wires, bounds
  <1>5. Counts'
    <2>1. conns \in Nat /\ conns' \in Nat /\ starts \in Nat /\ starts' \in Nat
      BY <1>0, <1>2 DEF TypeOK
    <2>2. Starting(peer(s))' = Starting(peer(s))
      BY <1>0 DEF TypeOK, Starting, SendFilters, At, Goto, wires, bounds
    <2>3. conns' + Starting(s)' + starts <= conns + Starting(s) + starts'
      BY <1>0, <2>1 DEF TypeOK, Starting, SendFilters, At, Goto, wires, bounds
    <2> QED
      BY <1>0, <2>1, <2>2, <2>3, CountsStep
  <1> QED
    BY <1>2, <1>3, <1>4, <1>5 DEF IInv

(* The end of the connection. *)
LEMMA recv_closedStep ==
  ASSUME IInv, NEW s \in Servers, recv_closed(s)
  PROVE  IInv'
  <1>0. /\ TypeOK /\ GuardOK /\ FoundOK /\ Counts
        /\ peer(s) \in Servers /\ peer(s) # s
    BY Peers DEF IInv
  <1>2. TypeOK'
    BY <1>0, SyncAssumption DEF TypeOK, PCs, GuardOK, Before, recv_closed, At, Goto, wires, bounds
  <1>3. GuardOK'
    BY <1>0 DEF TypeOK, GuardOK, Before, recv_closed, At, Goto, wires, bounds
  <1>4. FoundOK'
    BY <1>0, Peers DEF TypeOK, FoundOK, GuardOK, Past, Before, recv_closed, At, Goto, wires, bounds
  <1>5. Counts'
    <2>1. conns \in Nat /\ conns' \in Nat /\ starts \in Nat /\ starts' \in Nat
      BY <1>0, <1>2 DEF TypeOK
    <2>2. Starting(peer(s))' = Starting(peer(s))
      BY <1>0 DEF TypeOK, Starting, recv_closed, At, Goto, wires, bounds
    <2>3. conns' + Starting(s)' + starts <= conns + Starting(s) + starts'
      BY <1>0, <2>1 DEF TypeOK, Starting, recv_closed, At, Goto, wires, bounds
    <2> QED
      BY <1>0, <2>1, <2>2, <2>3, CountsStep
  <1> QED
    BY <1>2, <1>3, <1>4, <1>5 DEF IInv

(* The process is killed. *)
LEMMA CrashStep ==
  ASSUME IInv, NEW s \in Servers, Crash(s)
  PROVE  IInv'
  <1>0. /\ TypeOK /\ GuardOK /\ FoundOK /\ Counts
        /\ peer(s) \in Servers /\ peer(s) # s
    BY Peers DEF IInv
  <1>2. TypeOK'
    <2>1. <<>> \in Seq(Conns)
      OBVIOUS
    <2>2. gone' \in SUBSET Conns /\ open' \in [Servers -> 0..MaxOpen]
      BY <1>0, SyncAssumption DEF TypeOK, Crash, Dies
    <2>3. /\ main' \in [Servers -> {"down", "wait", "serving"}]
          /\ guard' \in [Servers -> 0..1]
          /\ pc' \in [Servers -> PCs]
          /\ backlog' \in [Servers -> Seq(Conns)]
      BY <1>0, <2>1 DEF TypeOK, PCs, Crash, Dies, Goto
    <2>4. /\ connected' \in [Servers -> Conns \cup {0, -1}]
          /\ out' \in [Servers -> Conns \cup {0}]
          /\ receive' \in [Servers -> {"unset", "peer", "stranger"}]
          /\ cut' \in [Servers -> BOOLEAN]
      BY <1>0 DEF TypeOK, Crash, Dies
    <2>5. conns' \in 0..MaxStarts /\ starts' \in 0..MaxStarts /\ faults' \in 0..MaxFaults
      BY <1>0, SyncAssumption DEF TypeOK, Crash, Fault, bounds
    <2> QED
      BY <2>2, <2>3, <2>4, <2>5 DEF TypeOK
  <1>3. GuardOK'
    BY <1>0 DEF TypeOK, GuardOK, Before, Crash, At, Goto, wires, bounds, Dies, Fault
  <1>4. FoundOK'
    BY <1>0, Peers DEF TypeOK, FoundOK, GuardOK, Past, Before, Crash, At, Goto, wires, bounds, Dies, Fault
  <1>5. Counts'
    <2>1. conns \in Nat /\ conns' \in Nat /\ starts \in Nat /\ starts' \in Nat
      BY <1>0, <1>2 DEF TypeOK
    <2>2. Starting(peer(s))' = Starting(peer(s))
      BY <1>0 DEF TypeOK, Starting, Crash, At, Goto, wires, bounds, Dies, Fault
    <2>3. conns' + Starting(s)' + starts <= conns + Starting(s) + starts'
      BY <1>0, <2>1 DEF TypeOK, Starting, Crash, At, Goto, wires, bounds, Dies, Fault
    <2> QED
      BY <1>0, <2>1, <2>2, <2>3, CountsStep
  <1> QED
    BY <1>2, <1>3, <1>4, <1>5 DEF IInv

(* Every step keeps the invariant. *)
LEMMA NextIInv ==
  ASSUME IInv, [Next]_vars
  PROVE  IInv'
  <1>1. CASE UNCHANGED vars
    BY <1>1 DEF IInv, TypeOK, GuardOK, FoundOK, Counts, Before, Past, Starting, vars, wires, bounds
  <1>2. CASE Next
    <2>1. PICK s \in Servers :
             \/ Start(s) \/ StartServing(s)
             \/ Listen(s) \/ ListenFails(s)
             \/ Connecting(s) \/ Abort(s)
             \/ Accepting(s) \/ AcceptStranger(s)
             \/ Serving(s) \/ SendFilters(s)
             \/ Crash(s)
      BY <1>2 DEF Next
    <2> QED
      BY <2>1, StartStep, StartServingStep, ListenStep, ListenFailsStep, ConnectFailsStep, ConnectCutStep, ReleaseStep, ConnectStep, AbortStep, AcceptStep, AcceptStrangerStep, AcceptFailsStep, send_sync_configStep, FreezeStep, SendFiltersStep, recv_closedStep, CrashStep
         DEF Connecting, Accepting, Serving
  <1> QED
    BY <1>1, <1>2

(* The relations between semaphore, sync manager and main() hold always.   *)
THEOREM InvariantHolds == Spec => []IInv
  BY InitIInv, NextIInv, PTL DEF Spec

(* The semaphore never exceeds one: nobody gets it who should wait, and    *)
(* the number of a connection is one of the starts.                        *)
THEOREM TypeCorrect == Spec => []TypeOK
  BY InvariantHolds, PTL DEF IInv

(* Of two servers that start, one finds the other, unless the network      *)
(* failed, for any number of starts, crashes and failures in any order.    *)
THEOREM FoundByOne == Spec => []OneFindsTheOther
  <1>1. IInv => OneFindsTheOther
    <2> SUFFICES ASSUME IInv, \A s \in Servers : main[s] = "serving"
                 PROVE  \E s \in Servers : cut[s]
      BY DEF OneFindsTheOther
    <2>1. PICK s \in Servers : TRUE
      BY SyncAssumption, FS_EmptySet
    <2>2. peer(s) \in Servers /\ peer(s) # s
      BY Peers
    <2>3. Past(s) /\ Past(peer(s))
      BY <2>2 DEF IInv, TypeOK, PCs, GuardOK, Before, Past
    <2> QED
      BY <2>2, <2>3 DEF IInv, FoundOK
  <1> QED
    BY <1>1, InvariantHolds, PTL

(* The assertion that ends a starting server cannot end a serving one.     *)
THEOREM ServersSurvive == Spec => ServingSurvives
  <1>1. IInv /\ [Next]_vars =>
           [\A s \in Servers :
               main[s] = "serving" /\ main'[s] = "down" => faults' = faults + 1]_vars
    <2> SUFFICES ASSUME IInv, Next, NEW s \in Servers,
                        main[s] = "serving", main'[s] = "down"
                 PROVE  faults' = faults + 1
      BY DEF vars
    <2>1. ~At(s, "assert")
      BY DEF IInv, GuardOK, Before, At
    <2>2. PICK p \in Servers :
             \/ Start(p) \/ StartServing(p)
             \/ Listen(p) \/ ListenFails(p)
             \/ Connecting(p) \/ Abort(p)
             \/ Accepting(p) \/ AcceptStranger(p)
             \/ Serving(p) \/ SendFilters(p)
             \/ Crash(p)
      BY DEF Next
    <2>3. CASE Start(p) \/ StartServing(p)
      BY <2>3 DEF Start, StartServing, IInv, TypeOK
    <2>4. CASE Abort(p)
      BY <2>1, <2>4 DEF Abort, Dies, IInv, TypeOK
    <2>5. CASE Crash(p)
      BY <2>5 DEF Crash, Fault
    <2>6. CASE Listen(p) \/ ListenFails(p) \/ Connecting(p) \/ Accepting(p)
                  \/ AcceptStranger(p) \/ Serving(p) \/ SendFilters(p)
      BY <2>6 DEF Listen, ListenFails, Connecting, ConnectFails, ConnectCut, Release, Connect,
                  Accepting, Accept, AcceptFails, AcceptStranger, Serving, send_sync_config,
                  Freeze, recv_closed, SendFilters
    <2> QED
      BY <2>2, <2>3, <2>4, <2>5, <2>6
  <1> QED
    BY <1>1, InvariantHolds, PTL DEF Spec, ServingSurvives
============================================================================
