----------------------------- MODULE DelayQueue -----------------------------
(***************************************************************************)
(* The delay queue of msgqueue.c, through which updates of the Bloom ring  *)
(* reach the bloom manager: two message queues, a thread that carries      *)
(* messages from one to the other when their delay is over, producers that *)
(* put delayed messages into the first queue and instant ones into the     *)
(* second, the consumer, and the synchronisation thread, which freezes     *)
(* both queues to walk over them when a peer connects.                     *)
(*                                                                         *)
(* Each queue has a mutex.  Every operation but a freeze takes and         *)
(* releases one mutex inside one function, so it is one step here that     *)
(* needs the mutex free; a freeze holds both over several steps.  Waiting  *)
(* on the condition variable is a disabled step: put_msg_raw() signals     *)
(* under the mutex and the waiters test the queue under it.                *)
(***************************************************************************)
EXTENDS Integers, Sequences, FiniteSets, SequencesExt

CONSTANTS
    Delayed,   \* messages sent with put_msg()
    Instant,   \* messages sent with instant_msg()
    Updates,   \* those whose mtype is UPDATE
    Delay,     \* *delay_ts, the greylisting delay
    MaxTime,   \* bound on the clock
    NoTime, NoMsg

ASSUME DelayQueueAssumption ==
    /\ Delayed \cap Instant = {}
    /\ Updates \subseteq Delayed
    /\ Delay \in Nat
    /\ MaxTime \in Nat
    /\ NoTime \notin Nat
    /\ NoMsg \notin Delayed \cup Instant

Msgs == Delayed \cup Instant

VARIABLES
    now,
    ts,        \* msg->timestamp of every message
    inq, outq, \* the two queues
    pc,        \* where the delay thread is
    wake,      \* when its sleep ends
    hand,      \* the message it carries
    mx,        \* which of the two mutexes the synchronisation thread holds
    sync,      \* where the synchronisation thread is
    sent,      \* what its walk has sent to the peer
    received   \* what the consumer got, in order

vars == <<now, ts, inq, outq, pc, wake, hand, mx, sync, sent, received>>

Mutexes == {"inq", "outq"}

TypeOK ==
    /\ now \in 0..MaxTime
    /\ ts \in [Msgs -> 0..MaxTime \cup {NoTime}]
    /\ inq \in Seq(Delayed)
    /\ outq \in Seq(Msgs)
    /\ pc \in {"peek", "sleep", "take", "put"}
    /\ wake \in Nat
    /\ hand \in Msgs \cup {NoMsg}
    /\ mx \in SUBSET Mutexes
    /\ sync \in {"idle", "freezing", "frozen", "walked", "failed", "thawing"}
    /\ sent \in Seq(Updates)
    /\ received \in Seq(Msgs)

Init ==
    /\ now = 0
    /\ ts = [m \in Msgs |-> NoTime]
    /\ inq = <<>>
    /\ outq = <<>>
    /\ pc = "peek"
    /\ wake = 0
    /\ hand = NoMsg
    /\ mx = {}
    /\ sync = "idle"
    /\ sent = <<>>
    /\ received = <<>>

Tick ==
    /\ now < MaxTime
    /\ now' = now + 1
    /\ UNCHANGED <<ts, inq, outq, pc, wake, hand, mx, sync, sent, received>>

-----------------------------------------------------------------------------
(* put_msg() and instant_msg() read the clock before put_msg_raw() takes   *)
(* the mutex: two producers may enter the queue in the other order.        *)
Stamp(m) ==
    /\ ts[m] = NoTime
    /\ now + Delay <= MaxTime
    /\ ts' = [ts EXCEPT ![m] = now]
    /\ UNCHANGED <<now, inq, outq, pc, wake, hand, mx, sync, sent, received>>

Accepted == Range(inq) \cup Range(outq) \cup Range(received) \cup ({hand} \ {NoMsg})

put_msg_unlocked(m) ==
    /\ m \in Delayed
    /\ ts[m] # NoTime
    /\ m \notin Accepted
    /\ inq' = Append(inq, m)
    /\ UNCHANGED <<now, ts, outq, pc, wake, hand, mx, sync, sent, received>>

put_msg(m) ==
    /\ m \in Delayed
    /\ ts[m] # NoTime
    /\ m \notin Accepted
    /\ "inq" \notin mx
    /\ inq' = Append(inq, m)
    /\ UNCHANGED <<now, ts, outq, pc, wake, hand, mx, sync, sent, received>>

instant_msg(m) ==
    /\ m \in Instant
    /\ ts[m] # NoTime
    /\ m \notin Accepted
    /\ "outq" \notin mx
    /\ outq' = Append(outq, m)
    /\ UNCHANGED <<now, ts, inq, pc, wake, hand, mx, sync, sent, received>>

(* get_msg() on a delay queue reads the second queue. *)
get_msg ==
    /\ outq # <<>>
    /\ "outq" \notin mx
    /\ received' = Append(received, Head(outq))
    /\ outq' = Tail(outq)
    /\ UNCHANGED <<now, ts, inq, pc, wake, hand, mx, sync, sent>>

-----------------------------------------------------------------------------
(* The delay thread.  It looks at the first message without removing it,   *)
(* reads the clock, and sleeps when the end of the delay is not past.      *)
Peek ==
    /\ pc = "peek"
    /\ inq # <<>>
    /\ "inq" \notin mx
    /\ LET reftime == ts[Head(inq)] + Delay IN
          IF Delay # 0 /\ reftime >= now
          THEN wake' = reftime /\ pc' = "sleep"
          ELSE pc' = "take" /\ UNCHANGED wake
    /\ UNCHANGED <<now, ts, inq, outq, hand, mx, sync, sent, received>>

SleepShort ==
    /\ pc = "sleep"
    /\ pc' = "take"
    /\ UNCHANGED <<now, ts, inq, outq, wake, hand, mx, sync, sent, received>>

Sleep ==
    /\ pc = "sleep"
    /\ now >= wake
    /\ pc' = "take"
    /\ UNCHANGED <<now, ts, inq, outq, wake, hand, mx, sync, sent, received>>

(* get_msg_raw() on the first queue. *)
TakeLast ==
    /\ pc = "take"
    /\ inq # <<>>
    /\ "inq" \notin mx
    /\ hand' = Last(inq)
    /\ inq' = Front(inq)
    /\ pc' = "put"
    /\ UNCHANGED <<now, ts, outq, wake, mx, sync, sent, received>>

Take ==
    /\ pc = "take"
    /\ inq # <<>>
    /\ "inq" \notin mx
    /\ hand' = Head(inq)
    /\ inq' = Tail(inq)
    /\ pc' = "put"
    /\ UNCHANGED <<now, ts, outq, wake, mx, sync, sent, received>>

PutLost ==
    /\ pc = "put"
    /\ "outq" \notin mx
    /\ hand' = NoMsg
    /\ pc' = "peek"
    /\ UNCHANGED <<now, ts, inq, outq, wake, mx, sync, sent, received>>

(* put_msg_raw() on the second queue. *)
Put ==
    /\ pc = "put"
    /\ "outq" \notin mx
    /\ outq' = Append(outq, hand)
    /\ hand' = NoMsg
    /\ pc' = "peek"
    /\ UNCHANGED <<now, ts, inq, wake, mx, sync, sent, received>>

DelayThread == Peek \/ Sleep \/ Take \/ Put

-----------------------------------------------------------------------------
(* queue_freeze(): one mutex after the other. *)
FreezeIn ==
    /\ sync = "idle"
    /\ mx' = mx \cup {"inq"}
    /\ sync' = "freezing"
    /\ UNCHANGED <<now, ts, inq, outq, pc, wake, hand, sent, received>>

FreezeOut ==
    /\ sync = "freezing"
    /\ mx' = mx \cup {"outq"}
    /\ sync' = "frozen"
    /\ UNCHANGED <<now, ts, inq, outq, pc, wake, hand, sent, received>>

OperSyncsOfAll(q) == q

(* send_update_msg_as_oper_sync() sends UPDATE messages and skips others. *)
OperSyncs(q) ==
    LET syncs[n \in 0..Len(q)] ==
            IF n = 0 THEN <<>>
            ELSE IF q[n] \in Updates THEN Append(syncs[n - 1], q[n])
            ELSE syncs[n - 1]
    IN syncs[Len(q)]

(* walk_queue().  When the second queue is not empty, the second loop      *)
(* starts again at the head of the first queue.                            *)
walked_nothing == <<>>

walked == OperSyncs(inq) \o (IF outq = <<>> THEN <<>> ELSE OperSyncs(inq))

walk_queue ==
    /\ sync = "frozen"
    /\ sent' = walked
    /\ sync' = "walked"
    /\ UNCHANGED <<now, ts, inq, outq, pc, wake, hand, mx, received>>

(* The callback fails, because the peer is gone, and the walk ends early;  *)
(* synchronize() ignores its return value.                                 *)
WalkFails ==
    /\ sync = "frozen"
    /\ \E n \in 1..Len(walked) : sent' = SubSeq(walked, 1, n - 1)
    /\ sync' = "failed"
    /\ UNCHANGED <<now, ts, inq, outq, pc, wake, hand, mx, received>>

(* queue_thaw() *)
ThawIn ==
    /\ sync \in {"walked", "failed"}
    /\ mx' = mx \ {"inq"}
    /\ sync' = "thawing"
    /\ UNCHANGED <<now, ts, inq, outq, pc, wake, hand, sent, received>>

ThawOut ==
    /\ sync = "thawing"
    /\ mx' = mx \ {"outq"}
    /\ sync' = "idle"
    /\ sent' = <<>>
    /\ UNCHANGED <<now, ts, inq, outq, pc, wake, hand, received>>

SyncThread == FreezeIn \/ FreezeOut \/ walk_queue \/ WalkFails \/ ThawIn \/ ThawOut

-----------------------------------------------------------------------------
Next ==
    \/ Tick
    \/ \E m \in Msgs : Stamp(m) \/ put_msg(m) \/ instant_msg(m)
    \/ DelayThread
    \/ get_msg
    \/ SyncThread

(* Threads run, time passes, a thread that waits for a mutex gets it in    *)
(* the end, and a walk over the queues ends.                               *)
Fairness ==
    /\ WF_vars(Tick)
    /\ SF_vars(DelayThread)
    /\ SF_vars(get_msg)
    /\ \A m \in Msgs : SF_vars(put_msg(m) \/ instant_msg(m))
    /\ WF_vars(FreezeOut \/ walk_queue \/ WalkFails \/ ThawIn \/ ThawOut)

Spec == Init /\ [][Next]_vars /\ Fairness

-----------------------------------------------------------------------------
(* The threads and mutexes implement the channel: the message in the hands *)
(* of the delay thread is still the first of the pending ones.  So no      *)
(* update reaches the Bloom ring before its delay is over, which is what   *)
(* makes a client that retries at once greylisted again, whatever the      *)
(* interleaving of producers, delay thread and freezes; none is lost, none *)
(* is delivered twice, and each is delivered in the end.                   *)
Channel == INSTANCE DelayChannel WITH
    accepted <- Accepted,
    pending  <- (IF hand = NoMsg THEN <<>> ELSE <<hand>>) \o inq,
    ready    <- outq

ImplementsChannel == Channel!Spec

(* Every message handed over is received, although the synchronisation     *)
(* thread may freeze the queues again and again.                           *)
AllReceived == \A m \in Msgs : ts[m] # NoTime ~> m \in Range(received)

(* queue_freeze(): between the second lock and the first unlock neither    *)
(* queue changes under the walk.                                           *)
FreezeHolds ==
    [][(sync \in {"frozen", "walked", "failed"} /\ sync' # "thawing") => (inq' = inq /\ outq' = outq)]_vars

(* A delayed update that is still in the first queue when a peer connects  *)
(* is sent to the peer by walk_queue().                                    *)
DelayedUpdatesAreSent ==
    sync = "walked" => Range(inq) \cap Updates \subseteq Range(sent)

(* The walk that synchronize() makes with both queues frozen sends every   *)
(* update that is still in the delay queue to the peer, those whose delay  *)
(* is over included (walk_queue() and its use in synchronize()).           *)
WalkSendsEveryUpdate ==
    sync = "walked" =>
        (Range(inq) \cup Range(outq)) \cap Updates \subseteq Range(sent)
=============================================================================
