---------------------------- MODULE DelayChannel ----------------------------
(***************************************************************************)
(* What a delay queue promises its users (get_delay_queue, put_msg,        *)
(* instant_msg and get_msg of msgqueue.h), without threads and locks.  A   *)
(* delayed message becomes ready no sooner than Delay after it was handed  *)
(* over, an instant one at once; each kind stays in order, nothing is lost *)
(* and nothing is delivered twice.                                         *)
(***************************************************************************)
EXTENDS Integers, Sequences

CONSTANTS
    Delayed,   \* messages sent with put_msg()
    Instant,   \* messages sent with instant_msg()
    Delay,     \* the constant delay
    MaxTime,   \* bound on the clock
    NoTime     \* the timestamp of a message not handed over yet

Msgs == Delayed \cup Instant

VARIABLES
    now,
    ts,        \* when a message was handed over
    accepted,  \* messages the queue has accepted
    pending,   \* delayed messages, in the order they were accepted
    ready,     \* messages that may be received
    received   \* messages in the order they were received

vars == <<now, ts, accepted, pending, ready, received>>

Init ==
    /\ now = 0
    /\ ts = [m \in Msgs |-> NoTime]
    /\ accepted = {}
    /\ pending = <<>>
    /\ ready = <<>>
    /\ received = <<>>

Tick ==
    /\ now < MaxTime
    /\ now' = now + 1
    /\ UNCHANGED <<ts, accepted, pending, ready, received>>

HandOver(m) ==
    /\ ts[m] = NoTime
    /\ ts' = [ts EXCEPT ![m] = now]
    /\ UNCHANGED <<now, accepted, pending, ready, received>>

Accept(m) ==
    /\ ts[m] # NoTime
    /\ m \notin accepted
    /\ accepted' = accepted \cup {m}
    /\ IF m \in Delayed
       THEN pending' = Append(pending, m) /\ UNCHANGED ready
       ELSE ready' = Append(ready, m) /\ UNCHANGED pending
    /\ UNCHANGED <<now, ts, received>>

Mature ==
    /\ pending # <<>>
    /\ ts[Head(pending)] + Delay <= now
    /\ ready' = Append(ready, Head(pending))
    /\ pending' = Tail(pending)
    /\ UNCHANGED <<now, ts, accepted, received>>

Receive ==
    /\ ready # <<>>
    /\ received' = Append(received, Head(ready))
    /\ ready' = Tail(ready)
    /\ UNCHANGED <<now, ts, accepted, pending>>

Next ==
    \/ Tick
    \/ \E m \in Msgs : HandOver(m) \/ Accept(m)
    \/ Mature
    \/ Receive

(* A message that is due does become ready, and is received. *)
Fairness ==
    /\ WF_vars(\E m \in Msgs : Accept(m))
    /\ WF_vars(Mature)
    /\ WF_vars(Receive)

Spec == Init /\ [][Next]_vars /\ Fairness
=============================================================================
