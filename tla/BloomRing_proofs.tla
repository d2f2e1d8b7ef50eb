-------------------------- MODULE BloomRing_proofs --------------------------
(***************************************************************************)
(* Proof that the Bloom ring has no false negatives, for every number of   *)
(* filters, every rotation interval, every set of digests and every number *)
(* of crashes (the bounds MaxTime and MaxCrashes are arbitrary).           *)
(*                                                                         *)
(* NoFalseNegative is not inductive: that a remembered digest is in the    *)
(* aggregate says nothing about the next rotation, which rebuilds the      *)
(* aggregate from the group.  The strengthening follows a digest through   *)
(* the ring: one filter still holds all its bits, and last_rotate has      *)
(* moved on by at least one interval for each advance since.  So the       *)
(* filter that a rotation clears holds expired digests only.               *)
(***************************************************************************)
EXTENDS BloomRing, TLAPS

(* Advances of the ring since filter i was the current one. *)
Age(i) == IF i <= current_index THEN current_index - i
                                ELSE current_index - i + num_bufs

(* While the next filter is being cleared, the interval is accounted for   *)
(* and the advance is still to come.                                       *)
Paid == IF pc = "zero_next" THEN 1 ELSE 0

HeldBy(d, i) ==
    /\ BitSet(d) \subseteq group[i]
    /\ stamp[d] + (Age(i) + Paid) * rotate_interval <= last_rotate
    /\ pc = "zero_next" => i # bloom_ring_queue_next_index

RingInv ==
    \A d \in Digests : Remembered(d) => \E i \in Slots : HeldBy(d, i)

(* Giving up the whole ring forgets expired digests only. *)
ZeroInv ==
    pc \in {"zero_aggregate", "zero_group", "zero_stamp"} =>
        \A d \in Digests : ~Remembered(d)

AggregateInv ==
    \A d \in Digests : Remembered(d) => BitSet(d) \subseteq aggregate

CopyInv ==
    pc = "copy" => \A d \in Digests : Remembered(d) => BitSet(d) \subseteq tmp

InsertInv ==
    /\ pc = "insert_aggregate" =>
          \A j \in 1..(k - 1) : BitsOf[digest][j] \in aggregate
    /\ pc = "insert_group" =>
          /\ BitSet(digest) \subseteq aggregate
          /\ \A j \in 1..(k - 1) : BitsOf[digest][j] \in group[current_index]

DueInv ==
    /\ pc = "rotate" => Overdue
    /\ phase = "down" => pc = "get_msg"

IInv ==
    /\ TypeOK
    /\ RingInv
    /\ ZeroInv
    /\ AggregateInv
    /\ CopyInv
    /\ InsertInv
    /\ DueInv

-----------------------------------------------------------------------------
(* The first start. *)
LEMMA InitType == Init => TypeOK
  <1> SUFFICES ASSUME Init PROVE TypeOK
    OBVIOUS
  <1> USE BloomRingAssumption DEF BloomRingAssumption, Init
  <1>1. group \in [Slots -> SUBSET Bits]
    OBVIOUS
  <1>2. stamp \in [Digests -> Nat \cup {None}]
    BY Zenon
  <1>3. touched \in [Bits -> Nat]
    OBVIOUS
  <1>4. aggregate \in SUBSET Bits /\ todo \in SUBSET Slots /\ tmp \in SUBSET Bits
    OBVIOUS
  <1>5. current_index \in Slots /\ phase \in Phases /\ pc \in PCs
    BY DEF Slots, Phases, PCs
  <1>6. /\ last_rotate \in Nat /\ now \in Nat /\ digest \in Digests /\ k \in 1..NUM_HASH
        /\ crashes \in Nat
    OBVIOUS
  <1>7. QED
    BY <1>1, <1>2, <1>3, <1>4, <1>5, <1>6, Zenon DEF TypeOK

(* Every variable keeps its type: the ring, the manager and the ghosts. *)
THEOREM TypeCorrect == Spec => []TypeOK
<1>1. Init => TypeOK
  BY InitType
<1>2. TypeOK /\ [Next]_vars => TypeOK'
  <2> SUFFICES ASSUME TypeOK, [Next]_vars
               PROVE  TypeOK'
    OBVIOUS
  <2> USE BloomRingAssumption
        DEF BloomRingAssumption, TypeOK, Slots, PCs, Phases, None, ring, manager, ghosts
  <2>1. CASE Tick
    BY <2>1 DEF Tick
  <2>2. ASSUME NEW d \in Digests, GetUpdate(d)
        PROVE  TypeOK'
    BY <2>2 DEF GetUpdate
  <2>3. CASE GetRotate
    BY <2>3 DEF GetRotate
  <2>4. CASE Insert
    <3>1. CASE InsertAggregate
      BY <3>1 DEF InsertAggregate, Touch
    <3>2. CASE InsertGroup
      <4>1. group' \in [Slots -> SUBSET Bits]
        BY <3>2 DEF InsertGroup
      <4>2. stamp' \in [Digests -> Nat \cup {None}]
        BY <3>2 DEF InsertGroup
      <4>3. touched' \in [Bits -> Nat]
        BY <3>2 DEF InsertGroup, Touch
      <4>4. k' \in 1..NUM_HASH /\ pc' \in PCs
        BY <3>2 DEF InsertGroup
      <4>5. /\ current_index' \in Slots /\ aggregate' \in SUBSET Bits /\ last_rotate' \in Nat
            /\ now' \in Nat /\ phase' \in Phases /\ digest' \in Digests
            /\ todo' \in SUBSET Slots /\ tmp' \in SUBSET Bits /\ crashes' \in Nat
        BY <3>2 DEF InsertGroup
      <4>6. QED
        BY <4>1, <4>2, <4>3, <4>4, <4>5, Zenon
    <3>3. QED
      BY <2>4, <3>1, <3>2 DEF Insert
  <2>5. CASE Rotate
    <3>1. CASE RotateOne
      BY <3>1 DEF RotateOne
    <3>2. CASE ZeroNext
      BY <3>2 DEF ZeroNext
    <3>3. CASE Advance
      <4>1. bloom_ring_queue_next_index \in Slots
        BY DEF bloom_ring_queue_next_index
      <4>2. UNION {group[i] : i \in Slots} \in SUBSET Bits
        OBVIOUS
      <4>3. QED
        BY <3>3, <4>1, <4>2 DEF Advance
    <3>4. CASE Copy
      BY <3>4 DEF Copy
    <3>5. CASE CopyDone
      BY <3>5 DEF CopyDone
    <3>6. QED
      BY <2>5, <3>1, <3>2, <3>3, <3>4, <3>5 DEF Rotate
  <2>6. CASE Zero
    <3>1. CASE RotateZero
      BY <3>1 DEF RotateZero
    <3>2. CASE ZeroAggregate
      BY <3>2 DEF ZeroAggregate
    <3>3. CASE ZeroGroup
      BY <3>3 DEF ZeroGroup
    <3>4. CASE ZeroIndex
      BY <3>4 DEF ZeroIndex
    <3>5. CASE ZeroStamp
      BY <3>5 DEF ZeroStamp
    <3>6. QED
      BY <2>6, <3>1, <3>2, <3>3, <3>4, <3>5 DEF Zero
  <2>7. CASE StartServing
    BY <2>7 DEF StartServing
  <2>8. CASE LoopBlocks
    BY <2>8 DEF LoopBlocks
  <2>9. CASE Crash
    BY <2>9 DEF Crash
  <2>10. CASE RestartFromStatefile
    BY <2>10 DEF RestartFromStatefile
  <2>11. CASE RestartEmpty
    <3>1. group' \in [Slots -> SUBSET Bits]
      BY <2>11 DEF RestartEmpty
    <3>2. stamp' \in [Digests -> Nat \cup {None}]
      BY <2>11, Zenon DEF RestartEmpty
    <3>3. current_index' \in Slots /\ aggregate' \in SUBSET Bits /\ last_rotate' \in Nat
          /\ phase' \in Phases
      BY <2>11 DEF RestartEmpty
    <3>4. UNCHANGED <<now, manager, touched, crashes>>
      BY <2>11, Zenon DEF RestartEmpty
    <3>5. QED
      BY <3>1, <3>2, <3>3, <3>4
  <2>12. CASE UNCHANGED vars
    BY <2>12 DEF vars
  <2>13. QED
    BY <2>1, <2>2, <2>3, <2>4, <2>5, <2>6, <2>7, <2>8, <2>9, <2>10, <2>11, <2>12
       DEF Next, Handle
<1>3. QED
  BY <1>1, <1>2, PTL DEF Spec

-----------------------------------------------------------------------------
(* Arithmetic of the ring. *)

(* Multiples of the interval. *)
LEMMA Multiples ==
    ASSUME NEW a \in Nat
    PROVE  /\ a * rotate_interval \in Nat
           /\ (a + 1) * rotate_interval = a * rotate_interval + rotate_interval
           /\ rotate_interval * a = a * rotate_interval
  BY BloomRingAssumption DEF BloomRingAssumption

(* The next filter is the oldest one, and an advance ages every other      *)
(* filter by one.                                                          *)
LEMMA Ages ==
    ASSUME TypeOK
    PROVE  /\ bloom_ring_queue_next_index \in Slots
           /\ \A i \in Slots : Age(i) \in Nat
           /\ Age(current_index) = 0
           /\ Age(bloom_ring_queue_next_index) = num_bufs - 1
           /\ current_index' = bloom_ring_queue_next_index =>
                 \A i \in Slots \ {bloom_ring_queue_next_index} : Age(i)' = Age(i) + 1
  <1> USE BloomRingAssumption
      DEF BloomRingAssumption, TypeOK, Slots, Age, bloom_ring_queue_next_index
  <1>1. bloom_ring_queue_next_index \in Slots
    OBVIOUS
  <1>2. \A i \in Slots : Age(i) \in 0..(num_bufs - 1)
    OBVIOUS
  <1>3. /\ Age(current_index) = 0
        /\ Age(bloom_ring_queue_next_index) = num_bufs - 1
    OBVIOUS
  <1>4. ASSUME current_index' = bloom_ring_queue_next_index,
               NEW i \in Slots \ {bloom_ring_queue_next_index}
        PROVE  Age(i)' = Age(i) + 1
    BY <1>4
  <1> HIDE DEF TypeOK, Slots, Age, bloom_ring_queue_next_index
  <1>5. QED
    BY <1>1, <1>2, <1>3, <1>4

(* Time only makes a digest forgotten. *)
LEMMA RememberedFrame ==
    ASSUME TypeOK, now' \in Nat, now' >= now, stamp' = stamp,
           NEW d \in Digests, Remembered(d)'
    PROVE  Remembered(d)
  <1>1. stamp[d] \in Nat
    BY DEF TypeOK, Remembered, None
  <1>2. num_bufs * rotate_interval \in Nat
    BY BloomRingAssumption DEF BloomRingAssumption
  <1>3. QED
    BY <1>1, <1>2 DEF TypeOK, Remembered, None

(* A step that takes nothing out of the filters and moves neither the      *)
(* index nor last_rotate leaves every digest where it was.                 *)
LEMMA RingFrame ==
    ASSUME TypeOK, RingInv,
           now' \in Nat, now' >= now, stamp' = stamp,
           last_rotate' = last_rotate, current_index' = current_index,
           \A i \in Slots : group[i] \subseteq group'[i],
           pc = "zero_next" <=> pc' = "zero_next"
    PROVE  RingInv'
  <1> SUFFICES ASSUME NEW d \in Digests, Remembered(d)'
               PROVE  (\E i \in Slots : HeldBy(d, i))'
    BY DEF RingInv
  <1>1. Remembered(d)
    BY RememberedFrame
  <1>2. PICK i \in Slots : HeldBy(d, i)
    BY <1>1 DEF RingInv
  <1>3. Age(i)' = Age(i) /\ Paid' = Paid
    BY DEF Age, Paid
  <1>4. bloom_ring_queue_next_index' = bloom_ring_queue_next_index
    BY DEF bloom_ring_queue_next_index
  <1>5. HeldBy(d, i)'
    BY <1>2, <1>3, <1>4 DEF HeldBy, BitSet
  <1>6. QED
    BY <1>5

(* When nothing is remembered, the invariants about remembered digests     *)
(* hold of whatever the ring contains.                                     *)
LEMMA Forgotten ==
    ASSUME \A d \in Digests : ~Remembered(d)'
    PROVE  RingInv' /\ ZeroInv' /\ AggregateInv' /\ CopyInv'
  BY DEF RingInv, ZeroInv, AggregateInv, CopyInv

(* A remembered digest is not in the filter a due rotation clears. *)
LEMMA OldestExpired ==
    ASSUME TypeOK, Overdue, pc # "zero_next",
           NEW d \in Digests, Remembered(d),
           NEW i \in Slots, HeldBy(d, i)
    PROVE  i # bloom_ring_queue_next_index
  <1> SUFFICES ASSUME i = bloom_ring_queue_next_index
               PROVE  FALSE
    OBVIOUS
  <1>1. num_bufs - 1 \in Nat /\ rotate_interval \in Nat
    BY BloomRingAssumption DEF BloomRingAssumption
  <1>2. stamp[d] \in Nat /\ last_rotate \in Nat /\ now \in Nat
    BY DEF TypeOK, Remembered, None
  <1>3. Age(i) + Paid = num_bufs - 1
    BY <1>1, Ages DEF Paid
  <1>4. stamp[d] + (num_bufs - 1) * rotate_interval <= last_rotate
    BY <1>3 DEF HeldBy
  <1>5. num_bufs * rotate_interval = (num_bufs - 1) * rotate_interval + rotate_interval
    <2>1. num_bufs = (num_bufs - 1) + 1
      BY BloomRingAssumption DEF BloomRingAssumption
    <2>2. QED
      BY <1>1, <2>1, Multiples
  <1>6. (num_bufs - 1) * rotate_interval \in Nat
    BY <1>1, Multiples
  <1>7. QED
    BY <1>1, <1>2, <1>4, <1>5, <1>6 DEF Remembered, Overdue

-----------------------------------------------------------------------------
(* Every step of the manager, the peer, the clock and the process keeps    *)
(* the inductive invariant.                                                *)
LEMMA Inductive ==
    ASSUME IInv, TypeOK', Next
    PROVE  IInv'
<1> USE DEF IInv
<1>1. CASE Tick
  <2>1. /\ now' >= now /\ now' \in Nat
        /\ UNCHANGED <<ring, phase, manager, ghosts>>
    BY <1>1 DEF Tick, TypeOK
  <2>2. \A d \in Digests : Remembered(d)' => Remembered(d)
    BY <2>1, RememberedFrame DEF ghosts
  <2>3. RingInv'
    BY <2>1, RingFrame DEF ghosts, ring, manager
  <2>4. ZeroInv' /\ AggregateInv' /\ CopyInv'
    BY <2>1, <2>2 DEF ZeroInv, AggregateInv, CopyInv, ring, manager, ghosts, BitSet
  <2>5. InsertInv'
    BY <2>1 DEF InsertInv, ring, manager, BitSet
  <2>6. DueInv'
    BY <1>1, BloomRingAssumption
       DEF BloomRingAssumption, Tick, DueInv, Overdue, TypeOK, ring, manager
  <2>7. QED
    BY <2>3, <2>4, <2>5, <2>6
<1>2. ASSUME NEW e \in Digests, GetUpdate(e)
      PROVE  IInv'
  <2> USE <1>2 DEF GetUpdate, ring, ghosts
  <2>1. \A d \in Digests : Remembered(d)' => Remembered(d)
    BY RememberedFrame DEF TypeOK
  <2>2. RingInv'
    BY RingFrame DEF TypeOK
  <2>3. ZeroInv' /\ AggregateInv' /\ CopyInv'
    BY <2>1 DEF ZeroInv, AggregateInv, CopyInv, BitSet
  <2>4. InsertInv' /\ DueInv'
    BY DEF InsertInv, DueInv, Served
  <2>5. QED
    BY <2>2, <2>3, <2>4
<1>3. CASE GetRotate
  <2> USE <1>3 DEF GetRotate, ring, ghosts
  <2>1. \A d \in Digests : Remembered(d)' => Remembered(d)
    BY RememberedFrame DEF TypeOK
  <2>2. RingInv'
    BY RingFrame DEF TypeOK
  <2>3. ZeroInv' /\ AggregateInv' /\ CopyInv'
    BY <2>1 DEF ZeroInv, AggregateInv, CopyInv, BitSet
  <2>4. InsertInv' /\ DueInv'
    BY DEF InsertInv, DueInv, Overdue
  <2>5. QED
    BY <2>2, <2>3, <2>4
<1>4. CASE InsertAggregate
  <2> USE <1>4 DEF InsertAggregate
  <2>1. \A d \in Digests : Remembered(d)' => Remembered(d)
    BY RememberedFrame DEF TypeOK
  <2>2. RingInv'
    BY RingFrame DEF TypeOK
  <2>3. ZeroInv' /\ AggregateInv' /\ CopyInv'
    BY <2>1 DEF ZeroInv, AggregateInv, CopyInv, BitSet
  <2>4. InsertInv'
    <3>1. \A j \in 1..k : BitsOf[digest][j] \in aggregate'
      BY BloomRingAssumption DEF BloomRingAssumption, InsertInv, TypeOK
    <3> k \in Nat /\ NUM_HASH \in Nat
      BY BloomRingAssumption DEF BloomRingAssumption, TypeOK
    <3>2. CASE k < NUM_HASH
      <4>1. k' = k + 1 /\ pc' = "insert_aggregate" /\ digest' = digest
        BY <3>2
      <4>2. k' - 1 = k
        BY <4>1
      <4>3. QED
        BY <3>1, <4>1, <4>2 DEF InsertInv
    <3>3. CASE k = NUM_HASH
      <4>1. k' - 1 = 0 /\ pc' = "insert_group" /\ digest' = digest
        BY <3>3, BloomRingAssumption DEF BloomRingAssumption, TypeOK
      <4>2. QED
        BY <3>1, <3>3, <4>1 DEF InsertInv, BitSet
    <3>4. QED
      BY <3>2, <3>3, BloomRingAssumption DEF BloomRingAssumption, TypeOK
  <2>5. DueInv'
    BY DEF DueInv
  <2>6. QED
    BY <2>2, <2>3, <2>4, <2>5
<1>5. CASE InsertGroup /\ k < NUM_HASH
  <2> USE <1>5 DEF InsertGroup
  <2>1. \A d \in Digests : Remembered(d)' => Remembered(d)
    BY RememberedFrame DEF TypeOK
  <2>2. \A i \in Slots : group[i] \subseteq group'[i]
    BY DEF TypeOK
  <2>3. RingInv'
    BY <2>2, RingFrame DEF TypeOK
  <2>4. ZeroInv' /\ AggregateInv' /\ CopyInv'
    BY <2>1 DEF ZeroInv, AggregateInv, CopyInv, BitSet
  <2>5. InsertInv'
    <3> k \in Nat /\ NUM_HASH \in Nat
      BY BloomRingAssumption DEF BloomRingAssumption, TypeOK
    <3>1. k' = k + 1 /\ pc' = pc /\ digest' = digest /\ aggregate' = aggregate
          /\ current_index' = current_index
      OBVIOUS
    <3> k' - 1 = k
      BY <3>1
    <3>2. \A j \in 1..k : BitsOf[digest][j] \in group'[current_index]
      BY BloomRingAssumption DEF BloomRingAssumption, InsertInv, TypeOK
    <3>3. QED
      BY <3>1, <3>2 DEF InsertInv, BitSet
  <2>6. DueInv'
    BY DEF DueInv
  <2>7. QED
    BY <2>3, <2>4, <2>5, <2>6
<1>6. CASE InsertGroup /\ k = NUM_HASH
  <2> USE <1>6 DEF InsertGroup
  <2>1. \A i \in Slots : group[i] \subseteq group'[i]
    BY DEF TypeOK
  <2>2. BitSet(digest) \subseteq group'[current_index]
    BY BloomRingAssumption DEF BloomRingAssumption, InsertInv, TypeOK, BitSet
  <2>3. BitSet(digest) \subseteq aggregate
    BY DEF InsertInv
  <2>4. pc = "insert_group" /\ pc' = "get_msg" /\ current_index' = current_index
        /\ last_rotate' = last_rotate /\ now' = now /\ aggregate' = aggregate
        /\ stamp' = [stamp EXCEPT ![digest] = last_rotate]
    BY BloomRingAssumption DEF BloomRingAssumption, TypeOK
  <2> HIDE <1>6 DEF InsertGroup
  <2>5. ASSUME NEW d \in Digests, Remembered(d)'
        PROVE  (\E i \in Slots : HeldBy(d, i))' /\ BitSet(d) \subseteq aggregate
    <3>1. CASE d = digest
      <4>1. Age(current_index)' = 0 /\ Paid' = 0
        BY <2>4, Ages DEF Age, Paid
      <4>2. stamp'[d] = last_rotate
        BY <2>4, <3>1 DEF TypeOK
      <4>3. (Age(current_index)' + Paid') * rotate_interval = 0
        BY <4>1, BloomRingAssumption DEF BloomRingAssumption
      <4>4. BitSet(d)' \subseteq group'[current_index]
        BY <2>2, <3>1 DEF BitSet
      <4>5. HeldBy(d, current_index)'
        BY <2>4, <4>1, <4>2, <4>3, <4>4 DEF HeldBy, TypeOK
      <4>6. QED
        BY <2>3, <2>4, <3>1, <4>5 DEF TypeOK
    <3>2. CASE d # digest
      <4>1. stamp'[d] = stamp[d]
        BY <2>4, <3>2 DEF TypeOK
      <4>2. Remembered(d)
        BY <2>4, <2>5, <4>1 DEF Remembered
      <4>3. PICK i \in Slots : HeldBy(d, i)
        BY <4>2 DEF RingInv
      <4>4. Age(i)' = Age(i) /\ Paid' = Paid
        BY <2>4 DEF Age, Paid
      <4>5. HeldBy(d, i)'
        BY <2>1, <2>4, <4>1, <4>3, <4>4 DEF HeldBy, BitSet
      <4>6. QED
        BY <2>4, <4>2, <4>5 DEF AggregateInv
    <3>3. QED
      BY <3>1, <3>2
  <2>6. RingInv'
    BY <2>5 DEF RingInv
  <2>7. ZeroInv' /\ AggregateInv' /\ CopyInv'
    BY <2>4, <2>5 DEF ZeroInv, AggregateInv, CopyInv, BitSet
  <2>8. InsertInv' /\ DueInv'
    BY <2>4 DEF InsertInv, DueInv
  <2>9. QED
    BY <2>6, <2>7, <2>8
<1>7. CASE RotateOne
  <2>1. /\ Overdue /\ pc = "rotate" /\ pc' = "zero_next"
        /\ last_rotate' = last_rotate + rotate_interval
        /\ UNCHANGED <<group, current_index, aggregate, now, phase, digest, k, todo, tmp,
                        stamp>>
    BY <1>7 DEF RotateOne, DueInv, ghosts
  <2>2. \A d \in Digests : Remembered(d)' => Remembered(d)
    BY <2>1 DEF Remembered
  <2>3. ASSUME NEW d \in Digests, Remembered(d)
        PROVE  (\E i \in Slots : HeldBy(d, i))'
    <3>1. PICK i \in Slots : HeldBy(d, i)
      BY <2>3 DEF RingInv
    <3>2. i # bloom_ring_queue_next_index
      BY <2>1, <2>3, <3>1, OldestExpired
    <3>3. bloom_ring_queue_next_index' = bloom_ring_queue_next_index
      BY <2>1 DEF bloom_ring_queue_next_index
    <3>4. Age(i)' = Age(i) /\ Paid = 0 /\ Paid' = 1
      BY <2>1 DEF Age, Paid
    <3> stamp[d] \in Nat /\ last_rotate \in Nat /\ rotate_interval \in Nat
      BY <2>3, BloomRingAssumption DEF BloomRingAssumption, TypeOK, Remembered, None
    <3>5. Age(i) \in Nat
      BY Ages
    <3>6. stamp[d] + Age(i) * rotate_interval <= last_rotate
      BY <3>1, <3>4, <3>5 DEF HeldBy
    <3>7. stamp[d] + (Age(i) + 1) * rotate_interval <= last_rotate + rotate_interval
      BY <3>5, <3>6, Multiples
    <3>8. HeldBy(d, i)'
      BY <2>1, <3>1, <3>2, <3>3, <3>4, <3>7 DEF HeldBy, BitSet
    <3>9. QED
      BY <3>8
  <2>4. RingInv'
    BY <2>2, <2>3 DEF RingInv
  <2>5. ZeroInv' /\ AggregateInv' /\ CopyInv'
    BY <2>1, <2>2 DEF ZeroInv, AggregateInv, CopyInv, BitSet
  <2>6. InsertInv' /\ DueInv'
    BY <2>1 DEF InsertInv, DueInv
  <2>7. QED
    BY <2>4, <2>5, <2>6
<1>8. CASE ZeroNext
  <2>1. /\ pc = "zero_next" /\ pc' = "zero_next"
        /\ UNCHANGED <<current_index, aggregate, last_rotate, now, phase, stamp>>
    BY <1>8 DEF ZeroNext, manager, ghosts
  <2>2. \A i \in Slots : i # bloom_ring_queue_next_index => group'[i] = group[i]
    BY <1>8 DEF ZeroNext, TypeOK
  <2>3. \A d \in Digests : Remembered(d)' => Remembered(d)
    BY <2>1 DEF Remembered
  <2>4. ASSUME NEW d \in Digests, Remembered(d)
        PROVE  (\E i \in Slots : HeldBy(d, i))'
    <3>1. PICK i \in Slots : HeldBy(d, i)
      BY <2>4 DEF RingInv
    <3>2. i # bloom_ring_queue_next_index
      BY <2>1, <3>1 DEF HeldBy
    <3>3. bloom_ring_queue_next_index' = bloom_ring_queue_next_index
      BY <2>1 DEF bloom_ring_queue_next_index
    <3>4. Age(i)' = Age(i) /\ Paid' = Paid
      BY <2>1 DEF Age, Paid
    <3>5. HeldBy(d, i)'
      BY <2>1, <2>2, <3>1, <3>2, <3>3, <3>4 DEF HeldBy, BitSet
    <3>6. QED
      BY <3>5
  <2>5. RingInv'
    BY <2>3, <2>4 DEF RingInv
  <2>6. ZeroInv' /\ AggregateInv' /\ CopyInv'
    BY <2>1, <2>3 DEF ZeroInv, AggregateInv, CopyInv, BitSet
  <2>7. InsertInv' /\ DueInv'
    BY <2>1 DEF InsertInv, DueInv
  <2>8. QED
    BY <2>5, <2>6, <2>7
<1>9. CASE Advance
  <2>1. /\ pc = "zero_next" /\ pc' = "copy"
        /\ tmp' = UNION {group[i] : i \in Slots}
        /\ current_index' = bloom_ring_queue_next_index
        /\ UNCHANGED <<group, aggregate, last_rotate, now, phase, stamp>>
    BY <1>9 DEF Advance, ghosts
  <2>2. \A d \in Digests : Remembered(d)' => Remembered(d)
    BY <2>1 DEF Remembered
  <2>3. ASSUME NEW d \in Digests, Remembered(d)
        PROVE  (\E i \in Slots : HeldBy(d, i))' /\ BitSet(d) \subseteq tmp'
    <3>1. PICK i \in Slots : HeldBy(d, i)
      BY <2>3 DEF RingInv
    <3>2. i # bloom_ring_queue_next_index
      BY <2>1, <3>1 DEF HeldBy
    <3>3. Age(i)' = Age(i) + 1 /\ Paid = 1 /\ Paid' = 0 /\ Age(i) \in Nat
      BY <2>1, <3>2, Ages DEF Paid
    <3>4. Age(i)' + Paid' = Age(i) + Paid
      BY <3>3
    <3>5. HeldBy(d, i)'
      BY <2>1, <3>1, <3>4 DEF HeldBy, BitSet
    <3>6. BitSet(d) \subseteq tmp'
      BY <2>1, <3>1 DEF HeldBy
    <3>7. QED
      BY <3>5, <3>6
  <2>4. RingInv'
    BY <2>2, <2>3 DEF RingInv
  <2>5. ZeroInv' /\ AggregateInv' /\ CopyInv'
    BY <2>1, <2>2, <2>3 DEF ZeroInv, AggregateInv, CopyInv, BitSet
  <2>6. InsertInv' /\ DueInv'
    BY <2>1 DEF InsertInv, DueInv
  <2>7. QED
    BY <2>4, <2>5, <2>6
<1>10. CASE Copy
  <2> USE <1>10 DEF Copy, manager, ghosts
  <2>1. \A d \in Digests : Remembered(d)' => Remembered(d)
    BY RememberedFrame DEF TypeOK
  <2>2. RingInv'
    BY RingFrame DEF TypeOK
  <2>3. ASSUME NEW d \in Digests, Remembered(d), BitSet(d) \subseteq aggregate
        PROVE  BitSet(d) \subseteq aggregate'
    BY <2>3 DEF CopyInv
  <2>4. ZeroInv' /\ AggregateInv' /\ CopyInv'
    BY <2>1, <2>3 DEF ZeroInv, AggregateInv, CopyInv, BitSet
  <2>5. InsertInv' /\ DueInv'
    BY DEF InsertInv, DueInv
  <2>6. QED
    BY <2>2, <2>4, <2>5
<1>11. CASE CopyDone
  <2> USE <1>11 DEF CopyDone, ring, ghosts
  <2>1. \A d \in Digests : Remembered(d)' => Remembered(d)
    BY RememberedFrame DEF TypeOK
  <2>2. RingInv'
    BY RingFrame DEF TypeOK
  <2>3. ZeroInv' /\ AggregateInv' /\ CopyInv'
    BY <2>1 DEF ZeroInv, AggregateInv, CopyInv, BitSet
  <2>4. InsertInv' /\ DueInv'
    BY DEF InsertInv, DueInv
  <2>5. QED
    BY <2>2, <2>3, <2>4
<1>12. CASE RotateZero
  <2>1. \A d \in Digests : ~Remembered(d)
    <3> SUFFICES ASSUME NEW d \in Digests, Remembered(d)
                 PROVE  FALSE
      OBVIOUS
    <3>1. PICK i \in Slots : HeldBy(d, i)
      BY DEF RingInv
    <3> stamp[d] \in Nat /\ last_rotate \in Nat /\ now \in Nat /\ num_bufs \in Nat
      BY BloomRingAssumption DEF BloomRingAssumption, TypeOK, Remembered, None
    <3>2. Age(i) \in Nat
      BY Ages
    <3>3. Paid = 0
      BY <1>12 DEF RotateZero, Paid
    <3>4. stamp[d] + Age(i) * rotate_interval <= last_rotate
      BY <3>1, <3>2, <3>3 DEF HeldBy
    <3>5. now - last_rotate > num_bufs * rotate_interval
      BY <1>12, <3>2, Multiples DEF RotateZero
    <3>6. Age(i) * rotate_interval \in Nat /\ num_bufs * rotate_interval \in Nat
      BY <3>2, Multiples
    <3>7. QED
      BY <3>2, <3>4, <3>5, <3>6 DEF Remembered
  <2>2. \A d \in Digests : ~Remembered(d)'
    BY <1>12, <2>1 DEF RotateZero, Remembered, ghosts
  <2>3. InsertInv' /\ DueInv'
    BY <1>12 DEF RotateZero, InsertInv, DueInv
  <2>4. QED
    BY <2>2, <2>3, Forgotten
<1>13. CASE ZeroAggregate \/ ZeroGroup \/ ZeroIndex \/ ZeroStamp
  <2>1. \A d \in Digests : ~Remembered(d)
    BY <1>13 DEF ZeroInv, ZeroAggregate, ZeroGroup, ZeroIndex, ZeroStamp
  <2>2. /\ pc' \in {"zero_aggregate", "zero_group", "zero_stamp", "get_msg"}
        /\ UNCHANGED <<now, stamp>> /\ phase' = phase
        /\ pc \in {"zero_aggregate", "zero_group", "zero_stamp"}
    BY <1>13 DEF ZeroAggregate, ZeroGroup, ZeroIndex, ZeroStamp, ghosts
  <2>3. \A d \in Digests : ~Remembered(d)'
    BY <2>1, <2>2 DEF Remembered
  <2>4. InsertInv' /\ DueInv'
    BY <2>2 DEF InsertInv, DueInv
  <2>5. QED
    BY <2>3, <2>4, Forgotten
<1>14. CASE StartServing \/ LoopBlocks \/ RestartFromStatefile
  <2>1. /\ phase' # "down"
        /\ UNCHANGED <<ring, now, manager, ghosts>>
    BY <1>14 DEF StartServing, LoopBlocks, RestartFromStatefile
  <2> USE <2>1 DEF ring, manager, ghosts
  <2>2. \A d \in Digests : Remembered(d)' => Remembered(d)
    BY RememberedFrame DEF TypeOK
  <2>3. RingInv'
    BY RingFrame DEF TypeOK
  <2>4. ZeroInv' /\ AggregateInv' /\ CopyInv'
    BY <2>2 DEF ZeroInv, AggregateInv, CopyInv, BitSet
  <2>5. InsertInv' /\ DueInv'
    BY DEF InsertInv, DueInv, Overdue, BitSet
  <2>6. QED
    BY <2>3, <2>4, <2>5
<1>15. CASE Crash
  <2>1. /\ pc' = "get_msg"
        /\ UNCHANGED <<group, current_index, aggregate, last_rotate, now, stamp>>
    BY <1>15 DEF Crash, ring
  <2>2. \A d \in Digests : Remembered(d)' => Remembered(d)
    BY <2>1 DEF Remembered
  <2>3. ASSUME NEW d \in Digests, Remembered(d)
        PROVE  (\E i \in Slots : HeldBy(d, i))'
    <3>1. PICK i \in Slots : HeldBy(d, i)
      BY <2>3 DEF RingInv
    <3>2. Age(i)' = Age(i) /\ Paid' = 0 /\ Paid \in {0, 1}
      BY <2>1 DEF Age, Paid
    <3> stamp[d] \in Nat /\ last_rotate \in Nat /\ rotate_interval \in Nat
      BY <2>3, BloomRingAssumption DEF BloomRingAssumption, TypeOK, Remembered, None
    <3>3. Age(i) \in Nat
      BY Ages
    <3>4. stamp[d] + (Age(i) + 0) * rotate_interval <= last_rotate
      <4>1. CASE Paid = 0
        BY <3>1, <3>3, <4>1 DEF HeldBy
      <4>2. CASE Paid = 1
        <5>1. stamp[d] + (Age(i) + 1) * rotate_interval <= last_rotate
          BY <3>1, <4>2 DEF HeldBy
        <5>2. Age(i) + 0 = Age(i)
          BY <3>3
        <5>3. QED
          BY <3>3, <5>1, <5>2, Multiples
      <4>3. QED
        BY <3>2, <4>1, <4>2
    <3>5. HeldBy(d, i)'
      BY <2>1, <3>1, <3>2, <3>4 DEF HeldBy, BitSet
    <3>6. QED
      BY <3>5
  <2>4. RingInv'
    BY <2>2, <2>3 DEF RingInv
  <2>5. ZeroInv' /\ AggregateInv' /\ CopyInv'
    BY <2>1, <2>2 DEF ZeroInv, AggregateInv, CopyInv, BitSet
  <2>6. InsertInv' /\ DueInv'
    BY <2>1 DEF InsertInv, DueInv
  <2>7. QED
    BY <2>4, <2>5, <2>6
<1>16. CASE RestartEmpty
  <2>1. /\ stamp' = [d \in Digests |-> None]
        /\ pc' = "get_msg"
    BY <1>16 DEF RestartEmpty, DueInv, manager
  <2>2. \A d \in Digests : ~Remembered(d)'
    BY <2>1 DEF Remembered
  <2>3. InsertInv' /\ DueInv'
    BY <2>1 DEF InsertInv, DueInv
  <2>4. QED
    BY <2>2, <2>3, Forgotten
<1>17. QED
  <2>1. InsertGroup => (InsertGroup /\ k < NUM_HASH) \/ (InsertGroup /\ k = NUM_HASH)
    BY DEF InsertGroup
  <2>2. QED
    BY <1>1, <1>2, <1>3, <1>4, <1>5, <1>6, <1>7, <1>8, <1>9, <1>10, <1>11, <1>12, <1>13,
       <1>14, <1>15, <1>16, <2>1
       DEF Next, Handle, Insert, Rotate, Zero

-----------------------------------------------------------------------------
(* The inductive invariant holds of every reachable state. *)
THEOREM InvariantHolds == Spec => []IInv
<1>1. Init => IInv
  <2> SUFFICES ASSUME Init, TypeOK PROVE IInv
    BY InitType
  <2>1. \A d \in Digests : ~Remembered(d)
    BY DEF Init, Remembered
  <2>2. RingInv /\ ZeroInv /\ AggregateInv /\ CopyInv
    BY <2>1 DEF RingInv, ZeroInv, AggregateInv, CopyInv
  <2>3. InsertInv /\ DueInv
    BY DEF Init, InsertInv, DueInv
  <2>4. QED
    BY <2>2, <2>3 DEF IInv
<1>2. IInv /\ TypeOK' /\ [Next]_vars => IInv'
  <2>1. ASSUME IInv, TypeOK', UNCHANGED vars
        PROVE  IInv'
    BY <2>1 DEF IInv, vars, ring, manager, ghosts, RingInv, HeldBy, Age, Paid, ZeroInv,
                AggregateInv, CopyInv, InsertInv, DueInv, Remembered, Overdue,
                bloom_ring_queue_next_index, BitSet
  <2>2. QED
    BY <2>1, Inductive
<1>3. QED
  BY <1>1, <1>2, TypeCorrect, PTL DEF Spec

(* No false negatives: is_in_ring_queue() finds every digest whose insert  *)
(* was completed within the last num_bufs rotation intervals, in every     *)
(* intermediate state of bloommgr's stores and after any crash.            *)
THEOREM NoFalseNegatives == Spec => []NoFalseNegative
<1>1. IInv => NoFalseNegative
  BY DEF IInv, NoFalseNegative, AggregateInv, is_in_ring_queue
<1>2. QED
  BY <1>1, InvariantHolds, PTL

-----------------------------------------------------------------------------
(* How long a bit can stay.  A bit of a filter was set at most as many     *)
(* intervals ago as the filter is advances old, one more for each crash    *)
(* that came between the interval and the advance.                         *)
Within(b, a) == last_rotate <= touched[b] + a * rotate_interval

GroupStay ==
    \A i \in Slots : \A b \in group[i] : Within(b, Age(i) + Paid + crashes)

(* The aggregate is one rotation behind until the copy is done. *)
Behind == IF pc \in {"zero_next", "copy"} THEN 1 ELSE 0

AggregateStay == \A b \in aggregate : Within(b, num_bufs - 1 + Behind + crashes)

CopyStay == pc = "copy" => \A b \in tmp : Within(b, num_bufs - 1 + crashes)

EmptyInv ==
    /\ pc \in {"zero_group", "zero_stamp"} => aggregate = {}
    /\ pc = "zero_group" => \A i \in Slots \ todo : group[i] = {}
    /\ pc = "zero_stamp" => \A i \in Slots : group[i] = {}

StayInv == GroupStay /\ AggregateStay /\ CopyStay /\ EmptyInv

(* More intervals are a weaker bound, and one interval more is paid by one *)
(* more of them.                                                           *)
LEMMA Longer ==
    ASSUME TypeOK, NEW b \in Bits, NEW a \in Nat, NEW c \in Nat, a <= c, Within(b, a)
    PROVE  Within(b, c)
  <1>1. c - a \in Nat /\ rotate_interval \in Nat /\ touched[b] \in Nat /\ last_rotate \in Nat
    BY BloomRingAssumption DEF BloomRingAssumption, TypeOK
  <1>2. c * rotate_interval = a * rotate_interval + (c - a) * rotate_interval
    BY <1>1
  <1>3. a * rotate_interval \in Nat /\ (c - a) * rotate_interval \in Nat
    BY <1>1, Multiples
  <1> HIDE <1>2
  <1>4. \A x, y, z \in Nat : z = x + y => x <= z
    OBVIOUS
  <1>5. c * rotate_interval \in Nat
    BY Multiples
  <1>6. a * rotate_interval <= c * rotate_interval
    BY <1>2, <1>3, <1>4, <1>5
  <1> QED
    BY <1>1, <1>3, <1>5, <1>6 DEF Within

(* A step that leaves last_rotate alone keeps the bounds, also of the bits *)
(* it touches.                                                             *)
LEMMA StayFrame ==
    ASSUME TypeOK, last_rotate' = last_rotate, NEW b \in Bits, NEW a \in Nat,
           \/ Within(b, a) /\ touched'[b] = touched[b]
           \/ touched'[b] = last_rotate
    PROVE  Within(b, a)'
  <1>1. a * rotate_interval \in Nat /\ last_rotate \in Nat
    BY Multiples DEF TypeOK
  <1> QED
    BY <1>1 DEF Within

LEMMA StayTypes ==
    ASSUME TypeOK
    PROVE  /\ \A i \in Slots : Age(i) \in 0..(num_bufs - 1)
           /\ Paid \in 0..1 /\ Behind \in 0..1 /\ crashes \in Nat /\ num_bufs \in Nat \ {0}
           /\ \A i \in Slots : \A b \in group[i] : b \in Bits
           /\ aggregate \subseteq Bits /\ tmp \subseteq Bits
  BY BloomRingAssumption
     DEF BloomRingAssumption, TypeOK, Slots, Age, Paid, Behind

LEMMA AgesNext ==
    ASSUME TypeOK'
    PROVE  \A i \in Slots : Age(i)' \in 0..(num_bufs - 1)
  <1> USE BloomRingAssumption DEF BloomRingAssumption, Slots
  <1>1. PICK c \in Slots : c = current_index'
    BY DEF TypeOK
  <1>2. \A i \in Slots : Age(i)' = IF i <= c THEN c - i ELSE c - i + num_bufs
    BY <1>1 DEF Age
  <1> QED
    BY <1>2

(* A step that sets no bit and moves neither the index nor last_rotate, of *)
(* a manager that is not in the middle of a rotation before or after it.   *)
LEMMA StayQuiet ==
    ASSUME TypeOK, StayInv, last_rotate' = last_rotate, current_index' = current_index,
           touched' = touched, crashes' = crashes,
           \A i \in Slots : group'[i] \subseteq group[i],
           aggregate' \subseteq aggregate, Paid' = Paid, Behind' = Behind
    PROVE  GroupStay' /\ AggregateStay'
  <1>1. \A a \in Nat : \A b \in Bits : Within(b, a) => Within(b, a)'
    BY DEF Within
  <1>2. \A i \in Slots : Age(i)' = Age(i)
    BY DEF Age
  <1>3. ASSUME NEW i \in Slots, NEW b \in group'[i]
        PROVE  Within(b, Age(i) + Paid + crashes)'
    <2>1. b \in group[i] /\ b \in Bits /\ Age(i) + Paid + crashes \in Nat
      BY <1>3, StayTypes
    <2>2. Within(b, Age(i) + Paid + crashes)
      BY <2>1 DEF StayInv, GroupStay
    <2> QED
      BY <1>2, <2>1, <2>2 DEF Within
  <1>4. ASSUME NEW b \in aggregate'
        PROVE  Within(b, num_bufs - 1 + Behind + crashes)'
    <2>1. b \in aggregate
      OBVIOUS
    <2>2. Within(b, num_bufs - 1 + Behind + crashes)
      BY <2>1 DEF StayInv, AggregateStay
    <2> QED
      BY <2>2 DEF Within
  <1> QED
    BY <1>3, <1>4 DEF GroupStay, AggregateStay

(* Every step keeps the bounds. *)
LEMMA StayStep ==
    ASSUME IInv, StayInv, TypeOK', Next
    PROVE  StayInv'
<1>0. TypeOK /\ DueInv
  BY DEF IInv
<1> USE <1>0
<1> DEFINE Still == UNCHANGED <<last_rotate, current_index, touched, crashes>>
           Shrinks == (\A i \in Slots : group'[i] \subseteq group[i]) /\ aggregate' \subseteq aggregate
           Calm == pc \notin {"zero_next", "copy"} /\ pc' \notin {"zero_next", "copy"}
<1>a. Still /\ Shrinks /\ Calm => GroupStay' /\ AggregateStay' /\ CopyStay'
  <2> SUFFICES ASSUME Still, Shrinks, Calm PROVE GroupStay' /\ AggregateStay' /\ CopyStay'
    OBVIOUS
  <2>1. Paid' = Paid /\ Behind' = Behind
    BY DEF Paid, Behind
  <2>2. CopyStay'
    BY DEF CopyStay
  <2> QED
    BY <2>1, <2>2, StayQuiet
<1>1. CASE Tick \/ StartServing \/ LoopBlocks \/ RestartFromStatefile
  <2>1. UNCHANGED <<ring, manager, ghosts>>
    BY <1>1 DEF Tick, StartServing, LoopBlocks, RestartFromStatefile
  <2> QED
    BY <2>1 DEF ring, manager, ghosts, StayInv, GroupStay, AggregateStay, CopyStay, EmptyInv,
                Within, Age, Paid, Behind
<1>2. CASE GetRotate \/ RotateZero \/ \E d \in Digests : GetUpdate(d)
  <2>1. /\ UNCHANGED <<group, aggregate>> /\ Still /\ Calm
        /\ pc' \in {"rotate", "insert_aggregate", "zero_aggregate"}
    BY <1>2 DEF GetRotate, RotateZero, GetUpdate, ring, ghosts
  <2>2. EmptyInv'
    BY <2>1 DEF EmptyInv
  <2> QED
    BY <1>a, <2>1, <2>2 DEF StayInv
<1>3. CASE InsertAggregate \/ InsertGroup
  <2>1. PICK B \in SUBSET Bits :
           /\ touched' = [b \in Bits |-> IF b \in B THEN last_rotate ELSE touched[b]]
           /\ \A i \in Slots : group'[i] \subseteq group[i] \cup B
           /\ aggregate' \subseteq aggregate \cup B
    <3>1. CASE InsertAggregate
      <4>1. BitsOf[digest][k] \in Bits
        BY BloomRingAssumption DEF BloomRingAssumption, TypeOK
      <4> QED
        BY <3>1, <4>1 DEF InsertAggregate, Touch
    <3>2. CASE InsertGroup
      <4>1. BitsOf[digest][k] \in Bits
        BY BloomRingAssumption DEF BloomRingAssumption, TypeOK
      <4>2. /\ touched' = [b \in Bits |-> IF b \in {BitsOf[digest][k]} THEN last_rotate ELSE touched[b]]
            /\ \A j \in Slots : group'[j] \subseteq group[j] \cup {BitsOf[digest][k]}
            /\ aggregate' = aggregate
        BY <3>2 DEF InsertGroup, Touch, TypeOK
      <4> QED
        BY <4>1, <4>2
    <3> QED
      BY <1>3, <3>1, <3>2
  <2>2. /\ UNCHANGED <<last_rotate, current_index, crashes>> /\ Calm
        /\ pc' \in {"insert_aggregate", "insert_group", "get_msg"}
    BY <1>3 DEF InsertAggregate, InsertGroup
  <2>3. Paid = 0 /\ Paid' = 0 /\ Behind = 0 /\ Behind' = 0 /\ \A i \in Slots : Age(i)' = Age(i)
    BY <2>2 DEF Paid, Behind, Age
  <2>4. ASSUME NEW i \in Slots, NEW b \in group'[i]
        PROVE  Within(b, Age(i) + Paid + crashes)'
    <3>1. b \in Bits /\ Age(i) + Paid + crashes \in Nat
      BY StayTypes DEF TypeOK
    <3>2. Within(b, Age(i) + Paid + crashes) \/ b \in B
      BY <2>1 DEF StayInv, GroupStay
    <3>3. Age(i)' + Paid' + crashes' = Age(i) + Paid + crashes
      BY <2>2, <2>3
    <3>4. PICK a \in Nat : a = Age(i) + Paid + crashes
      BY <3>1
    <3>5. Within(b, a)'
      BY <2>1, <2>2, <3>1, <3>2, <3>4, StayFrame
    <3> QED
      BY <3>3, <3>4, <3>5 DEF Within
  <2>5. ASSUME NEW b \in aggregate'
        PROVE  Within(b, num_bufs - 1 + Behind + crashes)'
    <3>1. b \in Bits /\ num_bufs - 1 + Behind + crashes \in Nat
      BY StayTypes DEF TypeOK
    <3>2. Within(b, num_bufs - 1 + Behind + crashes) \/ b \in B
      BY <2>1 DEF StayInv, AggregateStay
    <3>3. PICK a \in Nat : a = num_bufs - 1 + Behind + crashes
      BY <3>1
    <3>4. Within(b, a)'
      BY <2>1, <2>2, <3>1, <3>2, <3>3, StayFrame
    <3> QED
      BY <2>2, <2>3, <3>3, <3>4 DEF Within
  <2>6. CopyStay' /\ EmptyInv'
    BY <2>2 DEF CopyStay, EmptyInv
  <2> QED
    BY <2>4, <2>5, <2>6 DEF StayInv, GroupStay, AggregateStay
<1>4. CASE RotateOne
  <2>1. /\ pc = "rotate" /\ pc' = "zero_next" /\ last_rotate' = last_rotate + rotate_interval
        /\ UNCHANGED <<group, current_index, aggregate, touched, crashes>>
    BY <1>4 DEF RotateOne, ghosts
  <2>2. Paid = 0 /\ Paid' = 1 /\ Behind = 0 /\ Behind' = 1 /\ \A i \in Slots : Age(i)' = Age(i)
    BY <2>1 DEF Paid, Behind, Age
  <2>3. ASSUME NEW b \in Bits, NEW a \in Nat, Within(b, a)
        PROVE  last_rotate' <= touched'[b] + (a + 1) * rotate_interval
    <3>1. /\ rotate_interval \in Nat /\ touched[b] \in Nat /\ last_rotate \in Nat
      BY BloomRingAssumption DEF BloomRingAssumption, TypeOK
    <3> QED
      BY <2>1, <2>3, <3>1, Multiples DEF Within
  <2>4. ASSUME NEW i \in Slots, NEW b \in group'[i]
        PROVE  Within(b, Age(i) + Paid + crashes)'
    <3>1. b \in Bits /\ Age(i) + crashes \in Nat /\ Age(i) \in Nat /\ crashes \in Nat
      BY StayTypes DEF TypeOK
    <3>2. Within(b, Age(i) + crashes)
      BY <2>1, <2>2, <3>1 DEF StayInv, GroupStay
    <3>3. Age(i)' + Paid' + crashes' = Age(i) + crashes + 1
      BY <2>1, <2>2, <3>1
    <3> QED
      BY <2>3, <3>1, <3>2, <3>3 DEF Within
  <2>5. ASSUME NEW b \in aggregate'
        PROVE  Within(b, num_bufs - 1 + Behind + crashes)'
    <3>1. b \in Bits /\ num_bufs - 1 + crashes \in Nat /\ crashes \in Nat /\ num_bufs \in Nat
      BY StayTypes DEF TypeOK
    <3>2. num_bufs - 1 + Behind + crashes = num_bufs - 1 + crashes
      BY <2>2, <3>1
    <3>3. Within(b, num_bufs - 1 + crashes)
      BY <2>1, <3>2 DEF StayInv, AggregateStay
    <3>4. num_bufs - 1 + Behind' + crashes' = num_bufs - 1 + crashes + 1
      BY <2>1, <2>2, <3>1
    <3> QED
      BY <2>3, <3>1, <3>3, <3>4 DEF Within
  <2>6. CopyStay' /\ EmptyInv'
    BY <2>1 DEF CopyStay, EmptyInv
  <2> QED
    BY <2>4, <2>5, <2>6 DEF StayInv, GroupStay, AggregateStay
<1>5. CASE ZeroNext
  <2>1. Still /\ Shrinks /\ pc = "zero_next" /\ pc' = "zero_next"
    BY <1>5 DEF ZeroNext, manager, ghosts, TypeOK
  <2>2. Paid' = Paid /\ Behind' = Behind
    BY <2>1 DEF Paid, Behind
  <2>3. CopyStay' /\ EmptyInv'
    BY <2>1 DEF CopyStay, EmptyInv
  <2> QED
    BY <2>1, <2>2, <2>3, StayQuiet DEF StayInv
<1>6. CASE Advance
  <2>1. /\ pc = "zero_next" /\ pc' = "copy" /\ group[bloom_ring_queue_next_index] = {}
        /\ tmp' = UNION {group[i] : i \in Slots}
        /\ current_index' = bloom_ring_queue_next_index
        /\ UNCHANGED <<group, aggregate, last_rotate, touched, crashes>>
    BY <1>6 DEF Advance, ghosts
  <2>2. Paid = 1 /\ Paid' = 0 /\ Behind = 1 /\ Behind' = 1
    BY <2>1 DEF Paid, Behind
  <2>3. ASSUME NEW i \in Slots, NEW b \in group[i]
        PROVE  /\ Within(b, Age(i) + Paid + crashes)'
               /\ Within(b, num_bufs - 1 + crashes)'
    <3>1. i # bloom_ring_queue_next_index
      BY <2>1, <2>3
    <3>2. Age(i)' = Age(i) + 1
      BY <2>1, <3>1, Ages
    <3>3. b \in Bits /\ Age(i) \in Nat /\ crashes \in Nat /\ num_bufs \in Nat \ {0}
      BY StayTypes
    <3>4. Age(i)' \in 0..(num_bufs - 1)
      BY AgesNext
    <3>5. Within(b, Age(i) + 1 + crashes)
      BY <2>2, <2>3 DEF StayInv, GroupStay
    <3>6. Within(b, num_bufs - 1 + crashes)
      BY <3>2, <3>3, <3>4, <3>5, Longer
    <3>7. Age(i)' + Paid' + crashes' = Age(i) + 1 + crashes
      BY <2>1, <2>2, <3>2, <3>3
    <3> QED
      BY <2>1, <3>5, <3>6, <3>7 DEF Within
  <2>4. GroupStay'
    BY <2>1, <2>3 DEF GroupStay
  <2>5. CopyStay'
    BY <2>1, <2>3 DEF CopyStay
  <2>6. AggregateStay'
    BY <2>1, <2>2 DEF StayInv, AggregateStay, Within
  <2>7. EmptyInv'
    BY <2>1 DEF EmptyInv
  <2> QED
    BY <2>4, <2>5, <2>6, <2>7 DEF StayInv
<1>7. CASE Copy
  <2>1. /\ pc = "copy" /\ pc' = "copy" /\ tmp' = tmp /\ Still /\ group' = group
        /\ aggregate' \subseteq aggregate \cup tmp
    BY <1>7 DEF Copy, manager, ghosts
  <2>2. Paid' = Paid /\ Behind = 1 /\ Behind' = 1 /\ \A i \in Slots : Age(i)' = Age(i)
    BY <2>1 DEF Paid, Behind, Age
  <2>3. GroupStay' /\ CopyStay' /\ EmptyInv'
    BY <2>1, <2>2 DEF StayInv, GroupStay, CopyStay, EmptyInv, Within
  <2>4. ASSUME NEW b \in aggregate'
        PROVE  Within(b, num_bufs - 1 + 1 + crashes)
    <3>1. CASE b \in aggregate
      BY <2>2, <3>1 DEF StayInv, AggregateStay
    <3>2. CASE b \in tmp
      <4>1. Within(b, num_bufs - 1 + crashes)
        BY <2>1, <3>2 DEF StayInv, CopyStay
      <4>2. b \in Bits /\ num_bufs \in Nat \ {0} /\ crashes \in Nat
        BY <3>2, StayTypes
      <4> QED
        BY <4>1, <4>2, Longer
    <3> QED
      BY <2>1, <3>1, <3>2
  <2>5. AggregateStay'
    BY <2>1, <2>2, <2>4 DEF AggregateStay, Within
  <2> QED
    BY <2>3, <2>5 DEF StayInv
<1>8. CASE CopyDone
  <2>1. /\ pc = "copy" /\ pc' = "get_msg" /\ aggregate = tmp /\ Still
        /\ UNCHANGED <<group, aggregate>>
    BY <1>8 DEF CopyDone, ring, ghosts
  <2>2. Paid = 0 /\ Paid' = 0 /\ Behind' = 0 /\ \A i \in Slots : Age(i)' = Age(i)
    BY <2>1 DEF Paid, Behind, Age
  <2>3. GroupStay' /\ CopyStay' /\ EmptyInv'
    BY <2>1, <2>2 DEF StayInv, GroupStay, CopyStay, EmptyInv, Within
  <2>4. num_bufs - 1 + Behind' + crashes' = num_bufs - 1 + crashes
    BY <2>1, <2>2, StayTypes
  <2>5. AggregateStay'
    BY <2>1, <2>4 DEF StayInv, CopyStay, AggregateStay, Within
  <2> QED
    BY <2>3, <2>5 DEF StayInv
<1>9. CASE ZeroAggregate \/ ZeroGroup
  <2>1. Still /\ Shrinks /\ Calm
    BY <1>9 DEF ZeroAggregate, ZeroGroup, ghosts, TypeOK
  <2>2. EmptyInv'
    <3>1. CASE ZeroAggregate
      BY <3>1 DEF ZeroAggregate, EmptyInv
    <3>2. CASE ZeroGroup
      <4>1. pc = "zero_group" /\ pc' = "zero_group" /\ aggregate' = aggregate
        BY <3>2 DEF ZeroGroup
      <4>2. \A i \in Slots \ todo' : group'[i] = {}
        BY <3>2, <4>1 DEF ZeroGroup, StayInv, EmptyInv, TypeOK
      <4> QED
        BY <4>1, <4>2 DEF StayInv, EmptyInv
    <3> QED
      BY <1>9, <3>1, <3>2
  <2> QED
    BY <1>a, <2>1, <2>2 DEF StayInv
<1>10. CASE ZeroIndex \/ ZeroStamp \/ RestartEmpty
  <2>1. /\ \A i \in Slots : group'[i] = {}
        /\ aggregate' = {} /\ pc' \in {"zero_stamp", "get_msg"}
    BY <1>10 DEF ZeroIndex, ZeroStamp, RestartEmpty, StayInv, EmptyInv, DueInv, manager
  <2> QED
    BY <2>1 DEF StayInv, GroupStay, AggregateStay, CopyStay, EmptyInv
<1>11. CASE Crash
  <2>1. /\ pc' = "get_msg" /\ crashes' = crashes + 1
        /\ UNCHANGED <<group, current_index, aggregate, last_rotate, touched>>
    BY <1>11 DEF Crash, ring
  <2>2. Paid' = 0 /\ Behind' = 0 /\ \A i \in Slots : Age(i)' = Age(i)
    BY <2>1 DEF Paid, Behind, Age
  <2>3. ASSUME NEW i \in Slots, NEW b \in group'[i]
        PROVE  Within(b, Age(i) + Paid + crashes)'
    <3>1. b \in Bits /\ Age(i) \in Nat /\ crashes \in Nat /\ Paid \in 0..1
      BY <2>1, <2>3, StayTypes
    <3>2. Within(b, Age(i) + Paid + crashes)
      BY <2>1, <2>3 DEF StayInv, GroupStay
    <3>3. Within(b, Age(i) + crashes + 1)
      <4>1. /\ Age(i) + Paid + crashes \in Nat /\ Age(i) + crashes + 1 \in Nat
            /\ Age(i) + Paid + crashes <= Age(i) + crashes + 1
        BY <3>1
      <4> QED
        BY <3>1, <3>2, <4>1, Longer
    <3>4. Age(i)' + Paid' + crashes' = Age(i) + crashes + 1
      BY <2>1, <2>2, <3>1
    <3> QED
      BY <2>1, <3>3, <3>4 DEF Within
  <2>4. ASSUME NEW b \in aggregate'
        PROVE  Within(b, num_bufs - 1 + Behind + crashes)'
    <3>1. b \in Bits /\ num_bufs \in Nat \ {0} /\ crashes \in Nat /\ Behind \in 0..1
      BY <2>1, <2>4, StayTypes
    <3>2. Within(b, num_bufs - 1 + Behind + crashes)
      BY <2>1, <2>4 DEF StayInv, AggregateStay
    <3>3. Within(b, num_bufs + crashes)
      <4>1. /\ num_bufs - 1 + Behind + crashes \in Nat /\ num_bufs + crashes \in Nat
            /\ num_bufs - 1 + Behind + crashes <= num_bufs + crashes
        BY <3>1
      <4> QED
        BY <3>1, <3>2, <4>1, Longer
    <3>4. num_bufs - 1 + Behind' + crashes' = num_bufs + crashes
      BY <2>1, <2>2, <3>1
    <3> QED
      BY <2>1, <3>3, <3>4 DEF Within
  <2>5. CopyStay' /\ EmptyInv'
    BY <2>1 DEF CopyStay, EmptyInv
  <2> QED
    BY <2>3, <2>4, <2>5 DEF StayInv, GroupStay, AggregateStay
<1>12. QED
  <2>1. CASE Handle
    BY <1>2, <1>3, <1>4, <1>5, <1>6, <1>7, <1>8, <1>9, <1>10, <2>1, Zenon
       DEF Handle, Insert, Rotate, Zero
  <2> QED
    BY <1>1, <1>2, <1>10, <1>11, <2>1, Zenon DEF Next

(* Entries leave: rotate_bloom_ring_queue() takes every bit out of the     *)
(* aggregate that nobody has set for num_bufs rotations, and a crash costs *)
(* one rotation at most.                                                   *)
THEOREM EntriesLeave == Spec => []NoOverstay
<1>1. Init => StayInv
  BY DEF Init, StayInv, GroupStay, AggregateStay, CopyStay, EmptyInv
<1>2. IInv /\ TypeOK' /\ StayInv /\ [Next]_vars => StayInv'
  <2>1. ASSUME StayInv, UNCHANGED vars
        PROVE  StayInv'
    BY <2>1 DEF vars, ring, manager, ghosts, StayInv, GroupStay, AggregateStay, CopyStay, EmptyInv,
                Within, Age, Paid, Behind
  <2> QED
    BY <2>1, StayStep
<1>3. IInv /\ StayInv => NoOverstay
  <2> SUFFICES ASSUME TypeOK, StayInv, pc = "get_msg", NEW b \in aggregate
               PROVE  last_rotate <= touched[b] + (num_bufs - 1 + crashes) * rotate_interval
    BY DEF NoOverstay, IInv
  <2>1. Behind = 0
    BY DEF Behind
  <2>2. num_bufs - 1 + Behind + crashes = num_bufs - 1 + crashes
    BY <2>1, StayTypes
  <2> QED
    BY <2>2 DEF StayInv, AggregateStay, Within
<1>4. QED
  BY <1>1, <1>2, <1>3, InvariantHolds, TypeCorrect, PTL DEF Spec
=============================================================================
