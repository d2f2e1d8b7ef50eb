-------------------------------- MODULE Sync --------------------------------
(***************************************************************************)
(* Two grossd servers that are each other's peer (syncmgr.c): the start of *)
(* a server against a peer that may be up, down, starting as well, or      *)
(* dying, and what the sync manager of the other one does with its         *)
(* connection.                                                             *)
(*                                                                         *)
(* This is the program as README.md says to build it, with assertions.     *)
(* There a server whose connect() succeeds does not live to read anything: *)
(* the next thing synchronize() does is instant_msg() with a size of 0,    *)
(* and Malloc() asserts that the size is not 0.  Hence there are no        *)
(* messages here, and neither the receiver thread nor anything that        *)
(* handles what a peer sends: only the accepting side writes, and all it   *)
(* ever reads is the end of the connection.                                *)
(*                                                                         *)
(* A server is main(), which waits for the semaphore sync_guard before it  *)
(* serves, and the sync manager thread.                                    *)
(***************************************************************************)
EXTENDS Integers, Sequences, FiniteSets

CONSTANTS
    Servers,    \* the two servers
    MaxOpen,    \* descriptors the sync manager can get from accept()
    MaxStarts,  \* bound on the number of starts, of both servers together
    MaxFaults   \* bound on crashes, network failures, refused sockets, strangers

ASSUME SyncAssumption ==
    /\ IsFiniteSet(Servers)
    /\ Cardinality(Servers) = 2
    /\ MaxOpen \in Nat
    /\ MaxStarts \in Nat
    /\ MaxFaults \in Nat

VARIABLES
    main,       \* main[s]: "down", "wait" for the semaphore, or "serving"
    guard,      \* the value of ctx->locks.sync_guard
    pc,         \* where the sync manager is
    connected,  \* peer->connected: a connection, 0, or -1
    out,        \* peer->peerfd_out: the connection made by s, or 0
    backlog,    \* connections s has still to accept
    gone,       \* connections whose maker has died
    open,       \* descriptors accept() has returned and nobody has closed
    receive,    \* whose address synchronize() has in its local variable
    conns,      \* number of connections made so far
    starts, faults,
    \* What follows is not in the program.
    cut         \* cut[s]: the connect() of s failed although the peer listened

wires  == <<backlog, gone, conns>>
bounds == <<starts, faults>>
vars   == <<main, guard, pc, connected, out, wires, open, receive, bounds, cut>>

Conns   == 1..MaxStarts   \* a start makes at most one connection
peer(s) == CHOOSE p \in Servers : p # s
PCs     == {"listen", "deaf", "connect", "release", "assert", "accept", "config",
            "guard", "filters", "recv", "ended"}

TypeOK ==
    /\ main \in [Servers -> {"down", "wait", "serving"}]
    /\ guard \in [Servers -> 0..1]
    /\ pc \in [Servers -> PCs]
    /\ connected \in [Servers -> Conns \cup {0, -1}]
    /\ out \in [Servers -> Conns \cup {0}]
    /\ backlog \in [Servers -> Seq(Conns)]
    /\ gone \in SUBSET Conns
    /\ open \in [Servers -> 0..MaxOpen]
    /\ receive \in [Servers -> {"unset", "peer", "stranger"}]
    /\ conns \in 0..MaxStarts
    /\ starts \in 0..MaxStarts
    /\ faults \in 0..MaxFaults
    /\ cut \in [Servers -> BOOLEAN]

Init ==
    /\ main = [s \in Servers |-> "down"]
    /\ guard = [s \in Servers |-> 0]
    /\ pc = [s \in Servers |-> "listen"]
    /\ connected = [s \in Servers |-> 0]
    /\ out = [s \in Servers |-> 0]
    /\ backlog = [s \in Servers |-> <<>>]
    /\ gone = {}
    /\ open = [s \in Servers |-> 0]
    /\ receive = [s \in Servers |-> "unset"]
    /\ conns = 0
    /\ starts = 0
    /\ faults = 0
    /\ cut = [s \in Servers |-> FALSE]

At(s, place)   == main[s] # "down" /\ pc[s] = place
Goto(s, place) == pc' = [pc EXCEPT ![s] = place]
Fault          == faults < MaxFaults /\ faults' = faults + 1

ListeningLate(s) ==
    main[s] # "down" /\ pc[s] \notin {"listen", "deaf", "connect", "release", "assert"}

(* The kernel completes connections to s as soon as and as long as the     *)
(* socket exists, whether or not the sync manager calls accept().          *)
Listening(s) == main[s] # "down" /\ pc[s] \notin {"listen", "deaf"}

(* The process is gone, and its descriptors with it. *)
Dies(s) ==
    /\ main' = [main EXCEPT ![s] = "down"]
    /\ guard' = [guard EXCEPT ![s] = 0]
    /\ Goto(s, "listen")
    /\ connected' = [connected EXCEPT ![s] = 0]
    /\ out' = [out EXCEPT ![s] = 0]
    /\ backlog' = [backlog EXCEPT ![s] = <<>>]
    /\ gone' = gone \cup ({out[s]} \ {0})
    /\ open' = [open EXCEPT ![s] = 0]
    /\ receive' = [receive EXCEPT ![s] = "unset"]
    /\ cut' = [cut EXCEPT ![s] = FALSE]

----------------------------------------------------------------------------
(* main() up to the wait for the semaphore: bloommgr_init() waits until    *)
(* the ring is built, syncmgr_init() takes the semaphore again and starts  *)
(* the sync manager.                                                       *)
Start(s) ==
    /\ main[s] = "down"
    /\ starts < MaxStarts
    /\ starts' = starts + 1
    /\ main' = [main EXCEPT ![s] = "wait"]
    /\ UNCHANGED <<guard, pc, connected, out, wires, open, receive, faults, cut>>

(* sem_wait() and sem_post(): "Filters in sync", and the workers start. *)
StartServing(s) ==
    /\ main[s] = "wait"
    /\ guard[s] > 0
    /\ main' = [main EXCEPT ![s] = "serving"]
    /\ UNCHANGED <<guard, pc, connected, out, wires, open, receive, bounds, cut>>

(* syncmgr() listens before synchronize() connects. *)
Listen(s) ==
    /\ At(s, "listen")
    /\ Goto(s, "connect")
    /\ UNCHANGED <<main, guard, connected, out, wires, open, receive, bounds, cut>>

(* socket(), bind() or listen() is refused, as when the port is taken: the *)
(* thread exits, with the semaphore still taken.                           *)
ListenFails(s) ==
    /\ At(s, "listen")
    /\ Fault
    /\ Goto(s, "deaf")
    /\ UNCHANGED <<main, guard, connected, out, wires, open, receive, starts, cut>>

(* connect() fails because the peer is not there, ... *)
ConnectFails(s) ==
    /\ At(s, "connect")
    /\ ~Listening(peer(s))
    /\ Goto(s, "release")
    /\ UNCHANGED <<main, guard, connected, out, wires, open, receive, bounds, cut>>

(* ... or because the network is down or the peer's backlog is full. *)
ConnectCut(s) ==
    /\ At(s, "connect")
    /\ Listening(peer(s))
    /\ Fault
    /\ cut' = [cut EXCEPT ![s] = TRUE]
    /\ Goto(s, "release")
    /\ UNCHANGED <<main, guard, connected, out, wires, open, receive, starts>>

ReleaseNot(s) ==
    /\ At(s, "release")
    /\ Goto(s, "accept")
    /\ UNCHANGED <<main, guard, connected, out, wires, open, receive, bounds, cut>>

(* Start alone: RELEASE_SYNC_GUARD(). *)
Release(s) ==
    /\ At(s, "release")
    /\ guard' = [guard EXCEPT ![s] = @ + 1]
    /\ Goto(s, "accept")
    /\ UNCHANGED <<main, connected, out, wires, open, receive, bounds, cut>>

ConnectReleases(s) ==
    /\ At(s, "connect")
    /\ Listening(peer(s))
    /\ conns' = conns + 1
    /\ guard' = [guard EXCEPT ![s] = @ + 1]
    /\ connected' = [connected EXCEPT ![s] = conns + 1]
    /\ out' = [out EXCEPT ![s] = conns + 1]
    /\ backlog' = [backlog EXCEPT ![peer(s)] = Append(@, conns + 1)]
    /\ Goto(s, "assert")
    /\ UNCHANGED <<main, gone, open, receive, bounds, cut>>

(* The connection is made, whether or not the peer accepts it soon, ... *)
Connect(s) ==
    /\ At(s, "connect")
    /\ Listening(peer(s))
    /\ conns' = conns + 1
    /\ connected' = [connected EXCEPT ![s] = conns + 1]
    /\ out' = [out EXCEPT ![s] = conns + 1]
    /\ backlog' = [backlog EXCEPT ![peer(s)] = Append(@, conns + 1)]
    /\ Goto(s, "assert")
    /\ UNCHANGED <<main, guard, gone, open, receive, bounds, cut>>

(* ... and instant_msg(ctx->update_q, &rotatecmd, 0) aborts the process.   *)
Abort(s) ==
    /\ At(s, "assert")
    /\ Dies(s)
    /\ UNCHANGED <<conns, bounds>>

----------------------------------------------------------------------------
(* accept() of the peer's connection. *)
Accept(s) ==
    /\ At(s, "accept")
    /\ backlog[s] # <<>>
    /\ open[s] < MaxOpen
    /\ open' = [open EXCEPT ![s] = @ + 1]
    /\ receive' = [receive EXCEPT ![s] = "peer"]
    /\ connected' = [connected EXCEPT ![s] = Head(backlog[s])]
    /\ backlog' = [backlog EXCEPT ![s] = Tail(@)]
    /\ Goto(s, "config")
    /\ UNCHANGED <<main, guard, out, gone, conns, bounds, cut>>

(* A connection that is not from the peer is closed at once. *)
AcceptStranger(s) ==
    /\ At(s, "accept")
    /\ open[s] < MaxOpen
    /\ Fault
    /\ receive' = [receive EXCEPT ![s] = "stranger"]
    /\ UNCHANGED <<main, guard, pc, connected, out, wires, open, starts, cut>>

(* No descriptor is left: accept() fails at once and leaves the address    *)
(* alone, which may never have been written.  If it passes for the peer's, *)
(* peer->connected becomes -1 and the sync manager returns; otherwise it   *)
(* closes descriptor -1 and tries again.                                   *)
AcceptFails(s) ==
    /\ At(s, "accept")
    /\ open[s] = MaxOpen
    /\ receive[s] \in {"unset", "peer"}
    /\ connected' = [connected EXCEPT ![s] = -1]
    /\ Goto(s, "ended")
    /\ UNCHANGED <<main, guard, out, wires, open, receive, bounds, cut>>

(* The configuration is written, to a connection that may be closed: the   *)
(* error is not looked at.                                                 *)
send_sync_config(s) ==
    /\ At(s, "config")
    /\ Goto(s, "guard")
    /\ UNCHANGED <<main, guard, connected, out, wires, open, receive, bounds, cut>>

FreezeUnguarded(s) ==
    /\ At(s, "guard")
    /\ Goto(s, "filters")
    /\ UNCHANGED <<main, guard, connected, out, wires, open, receive, bounds, cut>>

(* The sync manager takes the semaphore and freezes the update queue. *)
Freeze(s) ==
    /\ At(s, "guard")
    /\ guard[s] > 0
    /\ guard' = [guard EXCEPT ![s] = @ - 1]
    /\ Goto(s, "filters")
    /\ UNCHANGED <<main, connected, out, wires, open, receive, bounds, cut>>

SendFiltersKeepGuard(s) ==
    /\ At(s, "filters")
    /\ Goto(s, "recv")
    /\ UNCHANGED <<main, guard, connected, out, wires, open, receive, bounds, cut>>

(* send_filters() and walk_queue(), then the queue is thawed and the       *)
(* semaphore released.                                                     *)
SendFilters(s) ==
    /\ At(s, "filters")
    /\ guard' = [guard EXCEPT ![s] = @ + 1]
    /\ Goto(s, "recv")
    /\ UNCHANGED <<main, connected, out, wires, open, receive, bounds, cut>>

(* The peer reads nothing: what does not fit in the socket's buffers is    *)
(* written, in vain, when it is gone.                                      *)
SendFiltersUnread(s) == connected[s] \in gone /\ SendFilters(s)

(* recv_sync_msg() finds the connection closed or reset.  The descriptor   *)
(* is forgotten, not closed.                                               *)
recv_closed(s) ==
    /\ At(s, "recv")
    /\ connected[s] \in gone
    /\ connected' = [connected EXCEPT ![s] = 0]
    /\ Goto(s, "accept")
    /\ UNCHANGED <<main, guard, out, wires, open, receive, bounds, cut>>

(* The process is killed, or an error is answered with daemon_fatal(). *)
Crash(s) ==
    /\ main[s] # "down"
    /\ Fault
    /\ Dies(s)
    /\ UNCHANGED <<conns, starts>>

Connecting(s) == ConnectFails(s) \/ ConnectCut(s) \/ Release(s) \/ Connect(s)
Accepting(s)  == Accept(s) \/ AcceptFails(s)
Serving(s)    == send_sync_config(s) \/ Freeze(s) \/ recv_closed(s)

Next == \E s \in Servers :
           \/ Start(s) \/ StartServing(s)
           \/ Listen(s) \/ ListenFails(s)
           \/ Connecting(s) \/ Abort(s)
           \/ Accepting(s) \/ AcceptStranger(s)
           \/ Serving(s) \/ SendFilters(s)
           \/ Crash(s)

Spec == Init /\ [][Next]_vars

(* main() and the sync manager are scheduled, and semaphore and sockets    *)
(* wake who waits.  SendFilters may block as long as the peer lives.       *)
FairSpec ==
    /\ Spec
    /\ \A s \in Servers :
          /\ WF_vars(StartServing(s))
          /\ WF_vars(Listen(s) \/ Connecting(s) \/ Abort(s))
          /\ WF_vars(Accepting(s) \/ Serving(s) \/ SendFiltersUnread(s))

----------------------------------------------------------------------------
(* A peer that starts, aborts or dies does no harm to a server that        *)
(* serves, and neither does its own sync manager: it goes down only when   *)
(* it is killed.  The assertion can fail only before main() has got the    *)
(* semaphore.                                                              *)
ServingSurvives ==
    [][\A s \in Servers :
          main[s] = "serving" /\ main'[s] = "down" => faults' = faults + 1]_vars

(* Since a server listens before it connects, of two servers that start at *)
(* the same time one finds the other: both serve without knowing of each   *)
(* other only if a connect() failed although the peer was listening.  (In  *)
(* this build the one that finds the other aborts.)                        *)
OneFindsTheOther ==
    (\A s \in Servers : main[s] = "serving") => \E s \in Servers : cut[s]

(* main() does not wait for ever for the semaphore: it serves, or the      *)
(* process aborts or is killed.  Only a sync manager that could not listen *)
(* leaves it there.                                                        *)
StartupEnds ==
    \A s \in Servers : (main[s] = "wait") ~> (main[s] # "wait" \/ pc[s] = "deaf")

(* While the sync manager deals with a connection it holds the semaphore   *)
(* and, in send_filters(), both mutexes of the update queue, so that the   *)
(* workers wait.  It gets through, whatever becomes of the peer, however   *)
(* often the peer has connected before.                                    *)
WithPeer(s) == pc[s] \in {"config", "guard", "filters", "recv"}

PeerIsDealtWith == \A s \in Servers : WithPeer(s) ~> ~WithPeer(s)
============================================================================
