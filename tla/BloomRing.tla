----------------------------- MODULE BloomRing -----------------------------
(***************************************************************************)
(* The ring of Bloom filters in which grossd remembers greylisted triplets *)
(* (bloom.c) and its only writer, the bloom manager thread (bloommgr.c).   *)
(*                                                                         *)
(* The worker threads look a digest up in the aggregate filter without     *)
(* taking any lock, and the ring may live in a memory mapped state file    *)
(* that survives a crash of the process at any instruction.  So every      *)
(* store the manager makes into the ring is a step of its own here, and a  *)
(* crash may come between any two of them.                                 *)
(*                                                                         *)
(* A digest is the sequence of its NUM_HASH masked words (bit positions),  *)
(* a filter is the set of its bits that are one.                           *)
(***************************************************************************)
EXTENDS Integers, FiniteSets

CONSTANTS
    Digests,          \* digests that may be inserted
    Bits,             \* bit positions of one filter
    NUM_HASH,         \* words of a digest, 8 in bloom.c
    BitsOf,           \* BitsOf[d][k]: the k-th word of d under the filter's mask
    num_bufs,         \* filters in the ring
    rotate_interval,  \* seconds a filter is the current one
    Statefile,        \* is a state file configured?
    MaxTime,          \* bound on the clock
    MaxCrashes        \* bound on the number of crashes

ASSUME BloomRingAssumption ==
    /\ NUM_HASH \in Nat \ {0}
    /\ BitsOf \in [Digests -> [1..NUM_HASH -> Bits]]
    /\ num_bufs \in Nat \ {0}
    /\ rotate_interval \in Nat \ {0}
    /\ Statefile \in BOOLEAN
    /\ MaxTime \in Nat
    /\ MaxCrashes \in Nat

VARIABLES
    group,          \* brq->group: the filters of the ring
    current_index,  \* brq->current_index
    aggregate,      \* brq->aggregate: what lookups read
    last_rotate,    \* *ctx->last_rotate
    now,            \* time(NULL)
    phase,          \* life of the process, as far as main() is concerned
    pc,             \* where the bloom manager is
    digest, k,      \* its digest and the next word of it to insert
    todo,           \* filters its current loop over the group has still to visit
    tmp,            \* the new aggregate a rotation has computed
    \* What follows is not in the program: it records what the properties need.
    stamp,          \* last_rotate when the newest insert of a digest was complete
    touched,        \* last_rotate when a bit was last set anywhere in the ring
    crashes         \* number of crashes so far

ring    == <<group, current_index, aggregate, last_rotate>>
manager == <<pc, digest, k, todo, tmp>>
ghosts  == <<stamp, touched, crashes>>
vars    == <<ring, now, phase, manager, ghosts>>

Slots   == 0..(num_bufs - 1)
None    == -1   \* a stamp: never inserted
Phases  == {"starting", "serving", "unattended", "down"}
PCs     == {"get_msg", "insert_aggregate", "insert_group",
            "rotate", "zero_next", "copy",
            "zero_aggregate", "zero_group", "zero_stamp"}
BitSet(d) == {BitsOf[d][j] : j \in 1..NUM_HASH}

TypeOK ==
    /\ group \in [Slots -> SUBSET Bits]
    /\ current_index \in Slots
    /\ aggregate \in SUBSET Bits
    /\ last_rotate \in Nat
    /\ now \in Nat
    /\ phase \in Phases
    /\ pc \in PCs
    /\ digest \in Digests
    /\ k \in 1..NUM_HASH
    /\ todo \in SUBSET Slots
    /\ tmp \in SUBSET Bits
    /\ stamp \in [Digests -> Nat \cup {None}]
    /\ touched \in [Bits -> Nat]
    /\ crashes \in Nat

----------------------------------------------------------------------------
(* The first start: build_bloom_ring() zeroes every filter and stamps the  *)
(* ring with the current time.                                             *)
Init ==
    /\ group = [i \in Slots |-> {}]
    /\ current_index = 0
    /\ aggregate = {}
    /\ last_rotate = 0
    /\ now = 0
    /\ phase = "starting"
    /\ pc = "get_msg"
    /\ digest \in Digests
    /\ k = 1
    /\ todo = {}
    /\ tmp = {}
    /\ stamp = [d \in Digests |-> None]
    /\ touched = [b \in Bits |-> 0]
    /\ crashes = 0

Tick ==
    /\ now < MaxTime
    /\ now' = now + 1
    /\ UNCHANGED <<ring, phase, manager, ghosts>>

(* is_in_ring_queue(): all the words of the digest are set in the          *)
(* aggregate.                                                              *)
is_in_ring_queue(d) == BitSet(d) \subseteq aggregate

bloom_ring_queue_next_index ==
    IF current_index + 1 >= num_bufs THEN 0 ELSE current_index + 1

(* The workers run. *)
Served == phase \in {"serving", "unattended"}

Overdue == now - last_rotate > rotate_interval

----------------------------------------------------------------------------
(* Inserting a digest: an UPDATE message, once a worker has sent one.  The *)
(* aggregate gets all the words first, then the current filter.            *)
GetUpdate(d) ==
    /\ pc = "get_msg"
    /\ Served
    /\ digest' = d
    /\ k' = 1
    /\ pc' = "insert_aggregate"
    /\ UNCHANGED <<ring, now, phase, todo, tmp, ghosts>>

Touch(B) == touched' = [b \in Bits |-> IF b \in B THEN last_rotate ELSE touched[b]]

InsertAggregateOverrun ==
    /\ pc = "insert_aggregate"
    /\ aggregate' = aggregate \cup {BitsOf[digest][k]}
    /\ Touch({BitsOf[digest][k]})
    /\ k' = k + 1
    /\ pc' = IF k > NUM_HASH THEN "insert_group" ELSE pc
    /\ UNCHANGED <<group, current_index, last_rotate, now, phase, digest, todo, tmp,
                   stamp, crashes>>

(* insert_digest() on the aggregate, one insert_bit() a step. *)
InsertAggregate ==
    /\ pc = "insert_aggregate"
    /\ aggregate' = aggregate \cup {BitsOf[digest][k]}
    /\ Touch({BitsOf[digest][k]})
    /\ \/ /\ k < NUM_HASH
          /\ k' = k + 1
          /\ pc' = pc
       \/ /\ k = NUM_HASH
          /\ k' = 1
          /\ pc' = "insert_group"
    /\ UNCHANGED <<group, current_index, last_rotate, now, phase, digest, todo, tmp,
                   stamp, crashes>>

(* insert_digest_to_group_member() on the current filter. *)
InsertGroup ==
    /\ pc = "insert_group"
    /\ group' = [group EXCEPT ![current_index] = @ \cup {BitsOf[digest][k]}]
    /\ Touch({BitsOf[digest][k]})
    /\ \/ /\ k < NUM_HASH
          /\ k' = k + 1
          /\ UNCHANGED <<pc, stamp>>
       \/ /\ k = NUM_HASH
          /\ k' = 1
          /\ pc' = "get_msg"
          /\ stamp' = [stamp EXCEPT ![digest] = last_rotate]
    /\ UNCHANGED <<current_index, aggregate, last_rotate, now, phase, digest, todo, tmp,
                   crashes>>

----------------------------------------------------------------------------
(* Rotating.  ROTATE messages come from the loop of main() only.  One may  *)
(* be stale or a duplicate: rotate() looks at the clock again, and returns with nothing changed when the     *)
(* rotation is not due.  It reads the clock once more to decide between    *)
(* one rotation and giving up the whole ring.                              *)
GetRotateUnchecked ==
    /\ pc = "get_msg"
    /\ phase = "serving"
    /\ pc' = "rotate"
    /\ UNCHANGED <<ring, now, phase, digest, k, todo, tmp, ghosts>>

GetRotate ==
    /\ pc = "get_msg"
    /\ phase = "serving"
    /\ Overdue
    /\ pc' = "rotate"
    /\ UNCHANGED <<ring, now, phase, digest, k, todo, tmp, ghosts>>

(* The clock is at most num_bufs intervals ahead: one rotation, paid for   *)
(* first.  A rotation that is late by several intervals is caught up with  *)
(* one message after the other.                                            *)
RotateOneUnpaid ==
    /\ pc = "rotate"
    /\ now - last_rotate <= rotate_interval * num_bufs
    /\ pc' = "zero_next"
    /\ UNCHANGED <<ring, now, phase, digest, k, todo, tmp, ghosts>>

RotateOne ==
    /\ pc = "rotate"
    /\ now - last_rotate <= rotate_interval * num_bufs
    /\ last_rotate' = last_rotate + rotate_interval
    /\ pc' = "zero_next"
    /\ UNCHANGED <<group, current_index, aggregate, now, phase, digest, k, todo, tmp, ghosts>>

(* rotate_bloom_ring_queue(): zero the filter that becomes the current     *)
(* one, ...                                                                *)
ZeroNext ==
    /\ pc = "zero_next"
    /\ \E b \in group[bloom_ring_queue_next_index] :
          group' = [group EXCEPT ![bloom_ring_queue_next_index] = @ \ {b}]
    /\ UNCHANGED <<current_index, aggregate, last_rotate, now, phase, manager, ghosts>>

(* ... then compute the union of the group aside, advance, ... *)
AdvanceUncleared ==
    /\ pc = "zero_next"
    /\ tmp' = UNION {group[i] : i \in Slots}
    /\ current_index' = bloom_ring_queue_next_index
    /\ pc' = "copy"
    /\ UNCHANGED <<group, aggregate, last_rotate, now, phase, digest, k, todo, ghosts>>

Advance ==
    /\ pc = "zero_next"
    /\ group[bloom_ring_queue_next_index] = {}
    /\ tmp' = UNION {group[i] : i \in Slots}
    /\ current_index' = bloom_ring_queue_next_index
    /\ pc' = "copy"
    /\ UNCHANGED <<group, aggregate, last_rotate, now, phase, digest, k, todo, ghosts>>

(* ... and copy it over the aggregate lookups are reading: memcpy() stores *)
(* the words one after the other, the bits that differ in some order.      *)
Copy ==
    /\ pc = "copy"
    /\ \/ \E b \in aggregate \ tmp : aggregate' = aggregate \ {b}
       \/ \E b \in tmp \ aggregate : aggregate' = aggregate \cup {b}
    /\ UNCHANGED <<group, current_index, last_rotate, now, phase, manager, ghosts>>

CopyDone ==
    /\ pc = "copy"
    /\ aggregate = tmp
    /\ pc' = "get_msg"
    /\ tmp' = {}
    /\ UNCHANGED <<ring, now, phase, digest, k, todo, ghosts>>

(* More than num_bufs intervals late: zero_bloom_ring_queue(). *)
RotateZero ==
    /\ pc = "rotate"
    /\ now - last_rotate > rotate_interval * num_bufs
    /\ pc' = "zero_aggregate"
    /\ UNCHANGED <<ring, now, phase, digest, k, todo, tmp, ghosts>>

ZeroAggregate ==
    /\ pc = "zero_aggregate"
    /\ \/ /\ \E b \in aggregate : aggregate' = aggregate \ {b}
          /\ UNCHANGED <<pc, todo>>
       \/ /\ aggregate = {}
          /\ pc' = "zero_group"
          /\ todo' = Slots
          /\ UNCHANGED aggregate
    /\ UNCHANGED <<group, current_index, last_rotate, now, phase, digest, k, tmp, ghosts>>

ZeroGroup ==
    /\ pc = "zero_group"
    /\ \E i \in todo :
          \/ /\ \E b \in group[i] : group' = [group EXCEPT ![i] = @ \ {b}]
             /\ UNCHANGED todo
          \/ /\ group[i] = {}
             /\ todo' = todo \ {i}
             /\ UNCHANGED group
    /\ UNCHANGED <<current_index, aggregate, last_rotate, now, phase, pc, digest, k, tmp, ghosts>>

ZeroIndex ==
    /\ pc = "zero_group"
    /\ todo = {}
    /\ current_index' = 0
    /\ pc' = "zero_stamp"
    /\ UNCHANGED <<group, aggregate, last_rotate, now, phase, digest, k, todo, tmp, ghosts>>

ZeroStamp ==
    /\ pc = "zero_stamp"
    /\ last_rotate' = now
    /\ pc' = "get_msg"
    /\ UNCHANGED <<group, current_index, aggregate, now, phase, digest, k, todo, tmp, ghosts>>

----------------------------------------------------------------------------
(* No peer is configured, or the connection to it failed: main() gets the  *)
(* semaphore.  (A start whose connection succeeds aborts, see Sync, which  *)
(* is a Crash here.)                                                       *)
StartServing ==
    /\ phase = "starting"
    /\ phase' = "serving"
    /\ UNCHANGED <<ring, now, manager, ghosts>>

(* main() waits in log_stats() for a mutex that the status thread never    *)
(* gives back (see Stats): the workers go on, the loop does not.           *)
LoopBlocks ==
    /\ phase = "serving"
    /\ phase' = "unattended"
    /\ UNCHANGED <<ring, now, manager, ghosts>>

----------------------------------------------------------------------------
(* The process dies between any two stores. *)
Crash ==
    /\ phase # "down"
    /\ crashes < MaxCrashes
    /\ crashes' = crashes + 1
    /\ phase' = "down"
    /\ pc' = "get_msg"
    /\ k' = 1
    /\ todo' = {}
    /\ tmp' = {}
    /\ UNCHANGED <<ring, now, digest, stamp, touched>>

(* build_bloom_ring() on a state file with the right magic string maps the *)
(* ring as the dead process left it.                                       *)
RestartFromStatefile ==
    /\ phase = "down"
    /\ Statefile
    /\ phase' = "starting"
    /\ UNCHANGED <<ring, now, manager, ghosts>>

(* Without a state file the memory is gone, and with it every promise; a   *)
(* fresh state file (grossd -C) is as empty.                               *)
RestartEmpty ==
    /\ phase = "down"
    /\ phase' = "starting"
    /\ group' = [i \in Slots |-> {}]
    /\ current_index' = 0
    /\ aggregate' = {}
    /\ last_rotate' = now
    /\ stamp' = [d \in Digests |-> None]
    /\ UNCHANGED <<now, manager, touched, crashes>>

Insert == InsertAggregate \/ InsertGroup
Rotate == RotateOne \/ ZeroNext \/ Advance \/ Copy \/ CopyDone
Zero   == RotateZero \/ ZeroAggregate \/ ZeroGroup \/ ZeroIndex \/ ZeroStamp

(* What the manager does after it has a message. *)
Handle == phase # "down" /\ (Insert \/ Rotate \/ Zero)

Next ==
    \/ Tick
    \/ \E d \in Digests : GetUpdate(d)
    \/ GetRotate
    \/ Handle
    \/ StartServing
    \/ LoopBlocks
    \/ Crash
    \/ RestartFromStatefile
    \/ RestartEmpty

Spec == Init /\ [][Next]_vars

(* The manager thread is scheduled, and a ROTATE message that the loop of  *)
(* main() sends while a rotation is overdue is received: the queue is      *)
(* first in, first out, so updates cannot overtake it for ever.  Nothing   *)
(* is assumed of a main() that is not in its loop.                         *)
FairSpec == Spec /\ WF_vars(Handle) /\ SF_vars(GetRotate)

----------------------------------------------------------------------------
(* A digest whose insert was completed when last_rotate was s is due to    *)
(* stay until num_bufs intervals after s.                                  *)
Remembered(d) ==
    /\ stamp[d] # None
    /\ now <= stamp[d] + num_bufs * rotate_interval

(* README: false negatives are not possible.  While workers are served, a  *)
(* digest that is still to be remembered is found by is_in_ring_queue() in *)
(* every state the memory passes through: in the middle of an insert, of   *)
(* the zeroing, of the copy of rotate_bloom_ring_queue(), after a crash    *)
(* there, however late rotate() runs and however many ROTATE messages      *)
(* there are.                                                              *)
NoFalseNegative ==
    Served => \A d \in Digests : Remembered(d) => is_in_ring_queue(d)

(* Entries leave.  When the manager waits for a message, a bit that is set *)
(* in the aggregate was set by somebody fewer than num_bufs rotations ago; *)
(* a crash may cost one rotation, whose interval rotate() had accounted    *)
(* for before it touched the ring.                                         *)
NoOverstay ==
    pc = "get_msg" =>
        \A b \in aggregate :
            last_rotate <= touched[b] + (num_bufs - 1 + crashes) * rotate_interval

(* A rotation that is overdue, by however many intervals, is caught up     *)
(* with as long as main() is in its loop: rotate() adds one interval a     *)
(* message and main() sends messages as long as it is late.                *)
CatchesUp == (phase = "serving" /\ Overdue) ~> (phase # "serving" \/ ~Overdue)
============================================================================
