------------------------- MODULE DelayQueue_proofs -------------------------
(***************************************************************************)
(* Proofs about the delay queue, for any messages, any delay and any       *)
(* interleaving of producers, delay thread, consumer and synchronisation   *)
(* thread: the two queues, the thread between them and the freezes         *)
(* implement DelayChannel, step by step.                                   *)
(*                                                                         *)
(* The delay thread looks at the first message, sleeps, and takes the      *)
(* first message: that this is the same message, and that its delay is     *)
(* over, is the inductive invariant.                                       *)
(***************************************************************************)
EXTENDS DelayQueue, SequenceTheorems, WellFoundedInduction, TLAPS

TimeInv ==
    /\ \A m \in Accepted : ts[m] # NoTime
    /\ \A m \in Msgs : ts[m] # NoTime => ts[m] <= now

(* What the delay thread knows at each place. *)
ThreadInv ==
    /\ pc = "put" <=> hand # NoMsg
    /\ hand \in Delayed \cup {NoMsg}
    /\ pc \in {"sleep", "take"} => inq # <<>>
    /\ pc = "sleep" => wake = ts[Head(inq)] + Delay
    /\ pc = "take" => ts[Head(inq)] + Delay <= now
    /\ pc = "put" => ts[hand] + Delay <= now

(* Which mutexes the synchronisation thread holds at each place. *)
MutexInv ==
    /\ sync \in {"freezing", "frozen", "walked", "failed"} <=> "inq" \in mx
    /\ sync \in {"frozen", "walked", "failed", "thawing"} <=> "outq" \in mx

IInv ==
    /\ TypeOK
    /\ TimeInv
    /\ ThreadInv
    /\ MutexInv
    /\ DelayedUpdatesAreSent

-----------------------------------------------------------------------------
(* Induction over the natural numbers, for a set of them. *)
LEMMA Least ==
  ASSUME NEW T, T \subseteq Nat, T # {}
  PROVE  \E x \in T : \A y \in T : x <= y
  <1>1. PICK x \in T : \A y \in T : ~(<<y, x>> \in OpToRel(<, Nat))
    BY WFMin, NatLessThanWellFounded, Zenon
  <1>2. \A y \in T : ~(y < x)
    BY <1>1 DEF OpToRel
  <1> QED
    BY <1>2

LEMMA Induction ==
  ASSUME NEW T, 0 \in T, \A n \in Nat : n \in T => n + 1 \in T
  PROVE  \A n \in Nat : n \in T
  <1> SUFFICES ASSUME NEW k \in Nat, k \notin T PROVE FALSE
    OBVIOUS
  <1> DEFINE R == {n \in Nat : n \notin T}
  <1>1. R \subseteq Nat /\ R # {}
    OBVIOUS
  <1>2. PICK x \in R : \A y \in R : x <= y
    BY <1>1, Least
  <1>3. x # 0 /\ x - 1 \in Nat /\ x - 1 \notin R
    BY <1>2
  <1> QED
    BY <1>3

(* The walk over one queue, message by message. *)
WalkStep(f, q, i) ==
    IF i = 0 THEN <<>> ELSE IF q[i] \in Updates THEN Append(f[i - 1], q[i]) ELSE f[i - 1]

Walks(f, q, n) == f = [i \in 0..n |-> WalkStep(f, q, i)]

LEMMA WalkExists ==
  ASSUME NEW q, Len(q) \in Nat
  PROVE  \E f : Walks(f, q, Len(q)) /\ OperSyncs(q) = f[Len(q)]
  <1> DEFINE T == {n \in Nat : \E f : Walks(f, q, n)}
  <1>1. 0 \in T
    <2>1. PICK f : f = [i \in 0..0 |-> <<>>]
      OBVIOUS
    <2>2. Walks(f, q, 0)
      BY <2>1 DEF Walks, WalkStep
    <2> QED
      BY <2>2
  <1>2. ASSUME NEW n \in Nat, n \in T
        PROVE  n + 1 \in T
    <2>1. PICK f : Walks(f, q, n)
      BY <1>2
    <2>2. PICK g : g = [i \in 0..(n + 1) |-> IF i = n + 1 THEN WalkStep(f, q, i) ELSE f[i]]
      OBVIOUS
    <2>3. \A i \in 0..n : g[i] = f[i]
      BY <2>2
    <2>4. ASSUME NEW i \in 0..(n + 1)
          PROVE  g[i] = WalkStep(g, q, i)
      <3>1. CASE i = 0
        BY <2>1, <2>3, <3>1 DEF Walks, WalkStep
      <3>2. CASE i \in 1..(n + 1)
        <4>1. i - 1 \in 0..n /\ g[i - 1] = f[i - 1]
          BY <2>3, <3>2
        <4>2. WalkStep(g, q, i) = WalkStep(f, q, i)
          BY <4>1 DEF WalkStep
        <4>3. g[i] = WalkStep(f, q, i)
          BY <2>1, <2>2, <3>2 DEF Walks
        <4> QED
          BY <4>2, <4>3
      <3> QED
        BY <3>1, <3>2
    <2>5. Walks(g, q, n + 1)
      BY <2>2, <2>4 DEF Walks
    <2> QED
      BY <2>5
  <1> HIDE DEF T
  <1>3. Len(q) \in T
    BY <1>1, <1>2, Induction
  <1>4. \E f : Walks(f, q, Len(q))
    BY <1>3 DEF T
  <1> QED
    BY <1>4 DEF OperSyncs, Walks, WalkStep

(* The ranges of the sequences the actions make. *)
LEMMA Ranges ==
  ASSUME NEW S, NEW s \in Seq(S)
  PROVE  /\ Range(<<>>) = {}
         /\ \A e \in S : Append(s, e) \in Seq(S) /\ Range(Append(s, e)) = Range(s) \cup {e}
         /\ s # <<>> => /\ Head(s) \in S /\ Tail(s) \in Seq(S)
                        /\ Range(s) = {Head(s)} \cup Range(Tail(s))
  <1>1. Range(<<>>) = {}
    BY DEF Range
  <1>2. ASSUME NEW e \in S
        PROVE  Append(s, e) \in Seq(S) /\ Range(Append(s, e)) = Range(s) \cup {e}
    <2>1. /\ Append(s, e) \in Seq(S) /\ Len(Append(s, e)) = Len(s) + 1 /\ Len(s) \in Nat
          /\ \A i \in 1..Len(s) : Append(s, e)[i] = s[i]
          /\ Append(s, e)[Len(s) + 1] = e
      BY AppendProperties, LenProperties
    <2>2. Range(Append(s, e)) = {Append(s, e)[i] : i \in 1..(Len(s) + 1)}
      BY <2>1, RangeEquality
    <2>3. Range(s) = {s[i] : i \in 1..Len(s)}
      BY RangeEquality
    <2>4. 1..(Len(s) + 1) = (1..Len(s)) \cup {Len(s) + 1}
      BY <2>1
    <2> QED
      BY <2>1, <2>2, <2>3, <2>4
  <1>3. ASSUME s # <<>>
        PROVE  /\ Head(s) \in S /\ Tail(s) \in Seq(S)
               /\ Range(s) = {Head(s)} \cup Range(Tail(s))
    <2>1. /\ Head(s) \in S /\ Tail(s) \in Seq(S) /\ Len(Tail(s)) = Len(s) - 1
          /\ \A i \in 1..Len(Tail(s)) : Tail(s)[i] = s[i + 1]
          /\ Len(s) \in Nat \ {0} /\ Head(s) = s[1]
      BY <1>3, HeadTailProperties, EmptySeq
    <2>2. Range(s) = {s[i] : i \in 1..Len(s)} /\ Range(Tail(s)) = {Tail(s)[i] : i \in 1..(Len(s) - 1)}
      BY <2>1, RangeEquality
    <2>3. Range(s) \subseteq {Head(s)} \cup Range(Tail(s))
      <3> SUFFICES ASSUME NEW i \in 1..Len(s) PROVE s[i] \in {Head(s)} \cup Range(Tail(s))
        BY <2>2
      <3>1. CASE i = 1
        BY <2>1, <3>1
      <3>2. CASE i # 1
        <4>1. i - 1 \in 1..(Len(s) - 1) /\ Tail(s)[i - 1] = s[i]
          BY <2>1, <3>2
        <4> QED
          BY <2>2, <4>1
      <3> QED
        BY <3>1, <3>2
    <2>4. {Head(s)} \cup Range(Tail(s)) \subseteq Range(s)
      <3>1. \A i \in 1..(Len(s) - 1) : i + 1 \in 1..Len(s) /\ Tail(s)[i] = s[i + 1]
        BY <2>1
      <3> QED
        BY <2>1, <2>2, <3>1
    <2> QED
      BY <2>1, <2>3, <2>4
  <1> QED
    BY <1>1, <1>2, <1>3

(* send_update_msg_as_oper_sync() over a queue sends its updates, all of   *)
(* them and nothing else.                                                  *)
LEMMA WalkSends ==
  ASSUME NEW q \in Seq(Delayed)
  PROVE  OperSyncs(q) \in Seq(Updates) /\ Range(OperSyncs(q)) = Range(q) \cap Updates
  <1>1. Len(q) \in Nat /\ q \in [1..Len(q) -> Delayed]
    BY LenProperties
  <1>2. PICK f : Walks(f, q, Len(q)) /\ OperSyncs(q) = f[Len(q)]
    BY <1>1, WalkExists
  <1>3. \A i \in 0..Len(q) : f[i] = WalkStep(f, q, i)
    BY <1>2 DEF Walks
  <1> DEFINE T == {n \in Nat : n <= Len(q) =>
                      /\ f[n] \in Seq(Updates)
                      /\ Range(f[n]) = {q[i] : i \in 1..n} \cap Updates}
  <1>4. 0 \in T
    <2>1. f[0] = <<>>
      BY <1>1, <1>3 DEF WalkStep
    <2>2. <<>> \in Seq(Updates) /\ Range(<<>>) = {}
      BY EmptySeq DEF Range
    <2>3. {q[i] : i \in 1..0} = {}
      <3>1. 1..0 = {}
        OBVIOUS
      <3> QED
        BY <3>1, Zenon
    <2>4. Range(f[0]) = {q[i] : i \in 1..0} \cap Updates /\ f[0] \in Seq(Updates)
      BY <2>1, <2>2, <2>3
    <2> QED
      BY <2>4
  <1>5. ASSUME NEW n \in Nat, n \in T
        PROVE  n + 1 \in T
    <2> SUFFICES ASSUME n + 1 <= Len(q)
                 PROVE  /\ f[n + 1] \in Seq(Updates)
                        /\ Range(f[n + 1]) = {q[i] : i \in 1..(n + 1)} \cap Updates
      OBVIOUS
    <2>1. f[n] \in Seq(Updates) /\ Range(f[n]) = {q[i] : i \in 1..n} \cap Updates
      BY <1>1, <1>5
    <2>2. {q[i] : i \in 1..(n + 1)} = {q[i] : i \in 1..n} \cup {q[n + 1]}
      <3>1. 1..(n + 1) = (1..n) \cup {n + 1}
        OBVIOUS
      <3> QED
        BY <3>1
    <2>3. f[n + 1] = IF q[n + 1] \in Updates THEN Append(f[n], q[n + 1]) ELSE f[n]
      <3>1. n + 1 \in 0..Len(q) /\ n + 1 # 0 /\ (n + 1) - 1 = n
        BY <1>1
      <3> QED
        BY <1>3, <3>1 DEF WalkStep
    <2>4. CASE q[n + 1] \in Updates
      <3>1. f[n + 1] = Append(f[n], q[n + 1])
        BY <2>3, <2>4
      <3>2. f[n + 1] \in Seq(Updates) /\ Range(f[n + 1]) = Range(f[n]) \cup {q[n + 1]}
        BY <2>1, <2>4, <3>1, Ranges
      <3> QED
        BY <2>1, <2>2, <2>4, <3>2
    <2>5. CASE q[n + 1] \notin Updates
      BY <2>1, <2>2, <2>3, <2>5
    <2> QED
      BY <2>4, <2>5
  <1> HIDE DEF T
  <1>6. Len(q) \in T
    BY <1>1, <1>4, <1>5, Induction
  <1>7. f[Len(q)] \in Seq(Updates) /\ Range(f[Len(q)]) = {q[i] : i \in 1..Len(q)} \cap Updates
    BY <1>1, <1>6 DEF T
  <1>8. Range(q) = {q[i] : i \in 1..Len(q)}
    BY RangeEquality
  <1> QED
    BY <1>2, <1>7, <1>8

-----------------------------------------------------------------------------
(* Messages and times. *)
LEMMA Types ==
  ASSUME TypeOK
  PROVE  /\ \A m \in Msgs : ts[m] # NoTime => ts[m] \in Nat
         /\ now \in Nat /\ Delay \in Nat /\ MaxTime \in Nat
         /\ Updates \subseteq Delayed /\ Delayed \subseteq Msgs
         /\ NoMsg \notin Msgs
         /\ Accepted \subseteq Msgs
  <1>1. /\ \A m \in Msgs : ts[m] # NoTime => ts[m] \in Nat
        /\ now \in Nat /\ Delay \in Nat /\ MaxTime \in Nat
        /\ Updates \subseteq Delayed /\ Delayed \subseteq Msgs
        /\ NoMsg \notin Msgs
    BY DelayQueueAssumption DEF DelayQueueAssumption, TypeOK, Msgs
  <1>2. inq \in Seq(Msgs) /\ outq \in Seq(Msgs) /\ received \in Seq(Msgs)
    BY <1>1, SeqMonotonic DEF TypeOK
  <1>3. Range(inq) \subseteq Msgs /\ Range(outq) \subseteq Msgs /\ Range(received) \subseteq Msgs
    BY <1>2, RangeOfSeq
  <1> QED
    BY <1>1, <1>3 DEF Accepted, TypeOK

LEMMA InitInv == Init => IInv
  <1> SUFFICES ASSUME Init PROVE IInv
    OBVIOUS
  <1> USE DEF Init
  <1>1. TypeOK
    <2>1. <<>> \in Seq(Delayed) /\ <<>> \in Seq(Msgs) /\ <<>> \in Seq(Updates)
      BY EmptySeq
    <2>2. now \in 0..MaxTime /\ wake \in Nat
      BY DelayQueueAssumption DEF DelayQueueAssumption
    <2> QED
      BY <2>1, <2>2 DEF TypeOK
  <1>2. Range(<<>>) = {}
    BY DEF Range
  <1>3. TimeInv
    BY <1>2 DEF TimeInv, Accepted
  <1>4. ThreadInv /\ MutexInv /\ DelayedUpdatesAreSent
    BY DEF ThreadInv, MutexInv, DelayedUpdatesAreSent
  <1> QED
    BY <1>1, <1>3, <1>4 DEF IInv

(* Nobody but the delay thread takes from the first queue, so what it has  *)
(* looked at stays there.                                                  *)
LEMMA HeadKept ==
  ASSUME NEW S, NEW s \in Seq(S), NEW e \in S
  PROVE  /\ Append(s, e) # <<>>
         /\ s # <<>> => Head(Append(s, e)) = Head(s)
  BY AppendProperties, HeadTailAppend

LEMMA TickStep ==
  ASSUME IInv, Tick
  PROVE  IInv'
  <1> USE DEF Tick
  <1>1. TypeOK'
    BY DelayQueueAssumption DEF DelayQueueAssumption, IInv, TypeOK
  <1>2. TimeInv'
    BY Types DEF IInv, TimeInv, Accepted
  <1>3. ThreadInv'
    <2>1. \A m \in Msgs : ts[m] # NoTime /\ ts[m] + Delay <= now => ts[m] + Delay <= now'
      BY Types DEF IInv
    <2>2. hand # NoMsg => hand \in Accepted /\ hand \in Msgs
      BY Types DEF IInv, Accepted
    <2>3. inq # <<>> => Head(inq) \in Accepted /\ Head(inq) \in Msgs
      <3>1. inq \in Seq(Delayed)
        BY DEF IInv, TypeOK
      <3> QED
        BY <3>1, Ranges, Types DEF IInv, Accepted
    <2> QED
      BY <2>1, <2>2, <2>3 DEF IInv, ThreadInv, TimeInv
  <1> QED
    BY <1>1, <1>2, <1>3 DEF IInv, MutexInv, DelayedUpdatesAreSent

LEMMA StampStep ==
  ASSUME IInv, NEW m \in Msgs, Stamp(m)
  PROVE  IInv'
  <1> USE DEF Stamp
  <1>1. TypeOK'
    <2>1. ts' \in [Msgs -> 0..MaxTime \cup {NoTime}]
      BY DEF IInv, TypeOK
    <2> QED
      BY <2>1 DEF IInv, TypeOK
  <1>2. \A n \in Msgs : ts[n] # NoTime => ts'[n] = ts[n]
    BY DEF IInv, TypeOK
  <1>3. TimeInv'
    <2>1. ts'[m] = now /\ \A n \in Msgs : n # m => ts'[n] = ts[n]
      BY DEF IInv, TypeOK
    <2>2. Accepted' = Accepted /\ now' = now /\ now # NoTime /\ now <= now
      BY Types, DelayQueueAssumption DEF DelayQueueAssumption, IInv, Accepted
    <2> QED
      BY <2>1, <2>2, Types DEF IInv, TimeInv
  <1>4. ThreadInv'
    <2>1. hand # NoMsg => ts'[hand] = ts[hand]
      BY <1>2, Types DEF IInv, TimeInv, Accepted
    <2>2. inq # <<>> => ts'[Head(inq)] = ts[Head(inq)]
      <3>1. inq \in Seq(Delayed)
        BY DEF IInv, TypeOK
      <3>2. inq # <<>> => Head(inq) \in Accepted
        BY <3>1, Ranges DEF Accepted
      <3> QED
        BY <1>2, <3>2, Types DEF IInv, TimeInv
    <2> QED
      BY <2>1, <2>2 DEF IInv, ThreadInv
  <1> QED
    BY <1>1, <1>3, <1>4 DEF IInv, MutexInv, DelayedUpdatesAreSent

LEMMA PutMsgStep ==
  ASSUME IInv, NEW m \in Msgs, put_msg(m)
  PROVE  IInv' /\ Accepted' = Accepted \cup {m}
  <1> USE DEF put_msg
  <1>1. inq \in Seq(Delayed) /\ inq' = Append(inq, m) /\ m \in Delayed
    BY DEF IInv, TypeOK
  <1>2. inq' \in Seq(Delayed) /\ Range(inq') = Range(inq) \cup {m}
    BY <1>1, Ranges
  <1>3. inq' # <<>> /\ (inq # <<>> => Head(inq') = Head(inq))
    BY <1>1, HeadKept
  <1>4. Accepted' = Accepted \cup {m}
    BY <1>2 DEF Accepted
  <1>5. TypeOK'
    BY <1>2 DEF IInv, TypeOK
  <1>6. TimeInv' /\ ThreadInv'
    BY <1>3, <1>4 DEF IInv, TimeInv, ThreadInv
  <1>7. MutexInv' /\ DelayedUpdatesAreSent'
    BY DEF IInv, MutexInv, DelayedUpdatesAreSent
  <1> QED
    BY <1>4, <1>5, <1>6, <1>7 DEF IInv

LEMMA InstantStep ==
  ASSUME IInv, NEW m \in Msgs, instant_msg(m)
  PROVE  IInv' /\ Accepted' = Accepted \cup {m}
  <1> USE DEF instant_msg
  <1>1. outq \in Seq(Msgs) /\ outq' = Append(outq, m)
    BY DEF IInv, TypeOK
  <1>2. outq' \in Seq(Msgs) /\ Range(outq') = Range(outq) \cup {m}
    BY <1>1, Ranges
  <1>3. Accepted' = Accepted \cup {m}
    BY <1>2 DEF Accepted
  <1>4. TypeOK'
    BY <1>2 DEF IInv, TypeOK
  <1>5. TimeInv' /\ ThreadInv' /\ MutexInv' /\ DelayedUpdatesAreSent'
    BY <1>3 DEF IInv, TimeInv, ThreadInv, MutexInv, DelayedUpdatesAreSent
  <1> QED
    BY <1>3, <1>4, <1>5 DEF IInv

LEMMA GetMsgStep ==
  ASSUME IInv, get_msg
  PROVE  IInv' /\ Accepted' = Accepted
  <1> USE DEF get_msg
  <1>1. outq \in Seq(Msgs) /\ received \in Seq(Msgs) /\ outq # <<>>
    BY DEF IInv, TypeOK
  <1>2. /\ Head(outq) \in Msgs /\ outq' \in Seq(Msgs)
        /\ Range(outq) = {Head(outq)} \cup Range(outq')
    BY <1>1, Ranges
  <1>3. received' \in Seq(Msgs) /\ Range(received') = Range(received) \cup {Head(outq)}
    BY <1>1, <1>2, Ranges
  <1>4. Accepted' = Accepted
    BY <1>2, <1>3 DEF Accepted
  <1>5. TypeOK'
    BY <1>2, <1>3 DEF IInv, TypeOK
  <1>6. TimeInv' /\ ThreadInv' /\ MutexInv' /\ DelayedUpdatesAreSent'
    BY <1>4 DEF IInv, TimeInv, ThreadInv, MutexInv, DelayedUpdatesAreSent
  <1> QED
    BY <1>4, <1>5, <1>6 DEF IInv

LEMMA PeekStep ==
  ASSUME IInv, Peek
  PROVE  IInv' /\ Accepted' = Accepted
  <1> USE DEF Peek
  <1>1. inq \in Seq(Delayed) /\ inq # <<>>
    BY DEF IInv, TypeOK
  <1>2. Head(inq) \in Msgs /\ Head(inq) \in Accepted
    BY <1>1, Ranges, Types DEF IInv, Accepted
  <1>3. ts[Head(inq)] \in Nat /\ ts[Head(inq)] <= now /\ now \in Nat /\ Delay \in Nat
    BY <1>2, Types DEF IInv, TimeInv
  <1>4. TypeOK'
    BY <1>3 DEF IInv, TypeOK
  <1>5. hand = NoMsg
    BY DEF IInv, ThreadInv
  <1>6. ThreadInv'
    BY <1>1, <1>3, <1>5 DEF ThreadInv
  <1>7. Accepted' = Accepted
    BY DEF Accepted
  <1> QED
    BY <1>4, <1>6, <1>7 DEF IInv, TimeInv, MutexInv, DelayedUpdatesAreSent

LEMMA SleepStep ==
  ASSUME IInv, Sleep
  PROVE  IInv' /\ Accepted' = Accepted
  <1> USE DEF Sleep
  <1>1. TypeOK'
    BY DEF IInv, TypeOK
  <1>2. wake = ts[Head(inq)] + Delay /\ wake \in Nat /\ now \in Nat
    BY Types DEF IInv, TypeOK, ThreadInv
  <1>3. ThreadInv'
    BY <1>2 DEF IInv, ThreadInv
  <1>4. Accepted' = Accepted
    BY DEF Accepted
  <1> QED
    BY <1>1, <1>3, <1>4 DEF IInv, TimeInv, MutexInv, DelayedUpdatesAreSent

LEMMA TakeStep ==
  ASSUME IInv, Take
  PROVE  IInv' /\ Accepted' = Accepted /\ hand = NoMsg
  <1> USE DEF Take
  <1>1. inq \in Seq(Delayed) /\ inq # <<>> /\ hand = NoMsg
    BY DEF IInv, TypeOK, ThreadInv
  <1>2. /\ hand' \in Delayed /\ inq' \in Seq(Delayed)
        /\ Range(inq) = {hand'} \cup Range(inq')
    BY <1>1, Ranges
  <1>3. hand' # NoMsg /\ hand' \in Msgs
    BY <1>2, Types DEF IInv
  <1>4. Accepted' = Accepted
    BY <1>1, <1>2, <1>3 DEF Accepted
  <1>5. TypeOK'
    BY <1>2, <1>3 DEF IInv, TypeOK
  <1>6. ThreadInv'
    BY <1>2, <1>3 DEF IInv, ThreadInv
  <1>7. MutexInv' /\ DelayedUpdatesAreSent'
    BY DEF IInv, MutexInv, DelayedUpdatesAreSent
  <1> QED
    BY <1>1, <1>4, <1>5, <1>6, <1>7 DEF IInv, TimeInv

LEMMA PutStep ==
  ASSUME IInv, Put
  PROVE  IInv' /\ Accepted' = Accepted /\ hand # NoMsg
  <1> USE DEF Put
  <1>1. outq \in Seq(Msgs) /\ hand \in Msgs /\ hand # NoMsg
    BY DEF IInv, TypeOK, ThreadInv
  <1>2. outq' \in Seq(Msgs) /\ Range(outq') = Range(outq) \cup {hand}
    BY <1>1, Ranges
  <1>3. Accepted' = Accepted
    BY <1>1, <1>2 DEF Accepted
  <1>4. TypeOK'
    BY <1>2 DEF IInv, TypeOK
  <1>5. ThreadInv' /\ MutexInv' /\ DelayedUpdatesAreSent'
    BY DEF IInv, ThreadInv, MutexInv, DelayedUpdatesAreSent
  <1> QED
    BY <1>1, <1>3, <1>4, <1>5 DEF IInv, TimeInv

LEMMA SyncStep ==
  ASSUME IInv, SyncThread
  PROVE  IInv' /\ Accepted' = Accepted
  <1>1. UNCHANGED <<now, ts, inq, outq, pc, wake, hand, received>>
    BY DEF SyncThread, FreezeIn, FreezeOut, walk_queue, WalkFails, ThawIn, ThawOut
  <1>2. Accepted' = Accepted /\ TimeInv' /\ ThreadInv'
    BY <1>1 DEF Accepted, IInv, TimeInv, ThreadInv
  <1>3. MutexInv' /\ mx' \in SUBSET Mutexes
        /\ sync' \in {"idle", "freezing", "frozen", "walked", "failed", "thawing"}
    BY DEF IInv, TypeOK, Mutexes, MutexInv, SyncThread, FreezeIn, FreezeOut, walk_queue, WalkFails,
           ThawIn, ThawOut
  <1>4. inq \in Seq(Delayed)
    BY DEF IInv, TypeOK
  <1>5. PICK w : w = OperSyncs(inq)
    OBVIOUS
  <1>6. w \in Seq(Updates) /\ Range(w) = Range(inq) \cap Updates
    BY <1>4, <1>5, WalkSends
  <1>7. /\ walked \in Seq(Updates)
        /\ Range(inq) \cap Updates \subseteq Range(walked)
    <2>1. PICK z : z = IF outq = <<>> THEN <<>> ELSE w
      OBVIOUS
    <2>2. z \in Seq(Updates) /\ walked = w \o z
      BY <1>5, <1>6, <2>1, EmptySeq DEF walked
    <2>3. w \o z \in Seq(Updates) /\ Range(w \o z) = Range(w) \cup Range(z)
      BY <1>6, <2>2, ConcatProperties, RangeConcatenation
    <2> QED
      BY <1>6, <2>2, <2>3
  <1>8. sent' \in Seq(Updates)
    <2>1. CASE FreezeIn \/ FreezeOut \/ ThawIn
      BY <2>1 DEF FreezeIn, FreezeOut, ThawIn, IInv, TypeOK
    <2>2. CASE walk_queue
      BY <1>7, <2>2 DEF walk_queue
    <2>3. CASE WalkFails
      <3>1. PICK n \in 1..Len(walked) : sent' = SubSeq(walked, 1, n - 1)
        BY <2>3 DEF WalkFails
      <3>2. Len(walked) \in Nat
        BY <1>7, LenProperties
      <3> QED
        BY <1>7, <3>1, <3>2, SubSeqProperties
    <2>4. CASE ThawOut
      BY <2>4, EmptySeq DEF ThawOut
    <2> QED
      BY <2>1, <2>2, <2>3, <2>4 DEF SyncThread
  <1>9. TypeOK'
    BY <1>1, <1>3, <1>8 DEF IInv, TypeOK
  <1>10. DelayedUpdatesAreSent'
    <2>1. CASE walk_queue
      BY <1>1, <1>7, <2>1 DEF walk_queue, DelayedUpdatesAreSent
    <2>2. CASE ~walk_queue
      BY <2>2 DEF SyncThread, FreezeIn, FreezeOut, WalkFails, ThawIn, ThawOut, DelayedUpdatesAreSent
    <2> QED
      BY <2>1, <2>2
  <1> QED
    BY <1>2, <1>3, <1>9, <1>10 DEF IInv

LEMMA NextInv == IInv /\ [Next]_vars => IInv'
  <1> SUFFICES ASSUME IInv, [Next]_vars PROVE IInv'
    OBVIOUS
  <1>1. CASE UNCHANGED vars
    BY <1>1 DEF vars, IInv, TypeOK, TimeInv, Accepted, ThreadInv, MutexInv, DelayedUpdatesAreSent
  <1>2. CASE Next
    BY <1>2, TickStep, StampStep, PutMsgStep, InstantStep, GetMsgStep, PeekStep, SleepStep, TakeStep,
       PutStep, SyncStep DEF Next, DelayThread
  <1> QED
    BY <1>1, <1>2

(* The inductive invariant holds in every reachable state. *)
THEOREM InvariantHolds == Spec => []IInv
  BY InitInv, NextInv, PTL DEF Spec

(* The types: the first queue holds delayed messages only, and the walk    *)
(* sends nothing but updates.                                              *)
THEOREM TypeCorrect == Spec => []TypeOK
  <1>1. IInv => TypeOK
    BY DEF IInv
  <1> QED
    BY <1>1, InvariantHolds, PTL

(* walk_queue() sends every delayed update that is still in the first      *)
(* queue to the peer, for queues of any length.                            *)
THEOREM WalkSendsDelayed == Spec => []DelayedUpdatesAreSent
  <1>1. IInv => DelayedUpdatesAreSent
    BY DEF IInv
  <1> QED
    BY <1>1, InvariantHolds, PTL

(* queue_freeze(): no step of anybody changes a queue between the second   *)
(* lock and the first unlock.                                              *)
THEOREM FreezeIsExclusive == Spec => FreezeHolds
  <1>1. ASSUME IInv, [Next]_vars,
               sync \in {"frozen", "walked", "failed"}, sync' # "thawing"
        PROVE  inq' = inq /\ outq' = outq
    <2>1. "inq" \in mx /\ "outq" \in mx
      BY <1>1 DEF IInv, MutexInv
    <2>2. CASE UNCHANGED vars
      BY <2>2 DEF vars
    <2>3. CASE Next
      BY <2>1, <2>3 DEF Next, Tick, Stamp, put_msg, instant_msg, DelayThread, Peek, Sleep, Take, Put,
           get_msg, SyncThread, FreezeIn, FreezeOut, walk_queue, WalkFails, ThawIn, ThawOut
    <2> QED
      BY <1>1, <2>2, <2>3
  <1>2. IInv /\ [Next]_vars =>
           [(sync \in {"frozen", "walked", "failed"} /\ sync' # "thawing")
                => (inq' = inq /\ outq' = outq)]_vars
    BY <1>1
  <1> QED
    BY <1>2, InvariantHolds, PTL DEF Spec, FreezeHolds

-----------------------------------------------------------------------------
(* The refinement.  What the delay thread holds comes before the first     *)
(* queue.                                                                  *)
Pending == (IF hand = NoMsg THEN <<>> ELSE <<hand>>) \o inq

LEMMA PendingIs ==
  ASSUME IInv
  PROVE  /\ Pending \in Seq(Delayed)
         /\ hand = NoMsg => Pending = inq
         /\ hand # NoMsg => Pending # <<>> /\ Head(Pending) = hand /\ Tail(Pending) = inq
  <1>1. inq \in Seq(Delayed) /\ hand \in Delayed \cup {NoMsg}
    BY DEF IInv, TypeOK, ThreadInv
  <1>2. CASE hand = NoMsg
    BY <1>1, <1>2, ConcatEmptySeq DEF Pending
  <1>3. CASE hand # NoMsg
    <2>1. hand \in Delayed /\ Pending = <<hand>> \o inq
      BY <1>1, <1>3 DEF Pending
    <2> QED
      BY <1>1, <1>3, <2>1
  <1> QED
    BY <1>2, <1>3

LEMMA InitRefines == Init => Channel!Init
  <1> SUFFICES ASSUME Init PROVE Channel!Init
    OBVIOUS
  <1>1. Range(<<>>) = {}
    BY DEF Range
  <1>2. Accepted = {}
    BY <1>1 DEF Init, Accepted
  <1>3. (IF hand = NoMsg THEN <<>> ELSE <<hand>>) \o inq = <<>>
    BY DEF Init
  <1> QED
    BY <1>2, <1>3 DEF Init, Channel!Init, Channel!Msgs, Msgs

(* Every step is a step of the channel or leaves it as it is. *)
LEMMA StepRefines ==
  ASSUME IInv, IInv', Next
  PROVE  Channel!Next \/ UNCHANGED Channel!vars
  <1> DEFINE pend == (IF hand = NoMsg THEN <<>> ELSE <<hand>>) \o inq
  <1>0. pend = Pending /\ pend' = Pending'
    BY DEF Pending
  <1>a. /\ Pending \in Seq(Delayed)
        /\ hand = NoMsg => Pending = inq
        /\ hand # NoMsg => Pending # <<>> /\ Head(Pending) = hand /\ Tail(Pending) = inq
    BY PendingIs
  <1>b. inq \in Seq(Delayed) /\ hand \in Delayed \cup {NoMsg}
    BY DEF IInv, TypeOK, ThreadInv
  <1> USE DEF Channel!Next, Channel!vars
  <1> HIDE DEF pend
  <1>1. CASE Tick
    <2>1. UNCHANGED <<ts, outq, received>> /\ pend' = pend /\ Accepted' = Accepted
      BY <1>1 DEF Tick, pend, Accepted
    <2>2. Channel!Tick
      BY <1>1, <2>1 DEF Tick, Channel!Tick, pend
    <2> QED
      BY <2>2
  <1>2. ASSUME NEW m \in Msgs, Stamp(m)
        PROVE  Channel!Next
    <2>1. UNCHANGED <<now, outq, received>> /\ pend' = pend /\ Accepted' = Accepted
      BY <1>2 DEF Stamp, pend, Accepted
    <2>2. Channel!HandOver(m)
      BY <1>2, <2>1 DEF Stamp, Channel!HandOver, pend
    <2> QED
      BY <2>2 DEF Channel!Msgs, Msgs
  <1>3. ASSUME NEW m \in Msgs, put_msg(m)
        PROVE  Channel!Next
    <2>1. Accepted' = Accepted \cup {m}
      BY <1>3, PutMsgStep
    <2>2. pend' = Append(pend, m)
      <3>0. (IF hand = NoMsg THEN <<>> ELSE <<hand>>) \in Seq(Delayed)
        <4>1. <<>> \in Seq(Delayed)
          BY EmptySeq
        <4>2. hand # NoMsg => <<hand>> \in Seq(Delayed)
          BY <1>b
        <4> QED
          BY <4>1, <4>2
      <3>1. PICK h \in Seq(Delayed) : h = IF hand = NoMsg THEN <<>> ELSE <<hand>>
        BY <3>0, Zenon
      <3>2. pend = h \o inq /\ pend' = h \o Append(inq, m) /\ m \in Delayed
        BY <1>3, <3>1 DEF put_msg, pend
      <3>3. PICK i \in Seq(Delayed) : i = inq
        BY <1>b
      <3>4. /\ Append(i, m) = i \o <<m>> /\ <<m>> \in Seq(Delayed)
            /\ h \o i \in Seq(Delayed)
        BY <3>1, <3>2, <3>3, AppendIsConcat, ConcatProperties
      <3>5. h \o (i \o <<m>>) = (h \o i) \o <<m>>
        BY <3>1, <3>3, <3>4, ConcatAssociative
      <3>6. Append(h \o i, m) = (h \o i) \o <<m>>
        BY <3>2, <3>4, AppendIsConcat
      <3> QED
        BY <3>2, <3>3, <3>4, <3>5, <3>6
    <2>3. Channel!Accept(m)
      BY <1>3, <2>1, <2>2 DEF put_msg, Channel!Accept, pend
    <2> QED
      BY <2>3 DEF Channel!Msgs, Msgs
  <1>4. ASSUME NEW m \in Msgs, instant_msg(m)
        PROVE  Channel!Next
    <2>1. Accepted' = Accepted \cup {m}
      BY <1>4, InstantStep
    <2>2. pend' = pend /\ m \notin Delayed
      BY <1>4, DelayQueueAssumption DEF DelayQueueAssumption, instant_msg, pend
    <2>3. Channel!Accept(m)
      BY <1>4, <2>1, <2>2 DEF instant_msg, Channel!Accept, pend
    <2> QED
      BY <2>3 DEF Channel!Msgs, Msgs
  <1>5. CASE get_msg
    <2>1. Accepted' = Accepted
      BY <1>5, GetMsgStep
    <2>2. pend' = pend
      BY <1>5 DEF get_msg, pend
    <2>3. Channel!Receive
      BY <1>5, <2>1, <2>2 DEF get_msg, Channel!Receive, pend
    <2> QED
      BY <2>3
  <1>6. CASE Peek \/ Sleep \/ SyncThread
    <2>1. Accepted' = Accepted
      BY <1>6, PeekStep, SleepStep, SyncStep
    <2>2. UNCHANGED <<now, ts, inq, hand, outq, received>>
      BY <1>6 DEF Peek, Sleep, SyncThread, FreezeIn, FreezeOut, walk_queue, WalkFails, ThawIn, ThawOut
    <2> QED
      BY <2>1, <2>2
  <1>7. CASE Take
    <2>1. Accepted' = Accepted /\ hand = NoMsg /\ hand' = Head(inq) /\ inq' = Tail(inq) /\ inq # <<>>
      BY <1>7, TakeStep DEF Take
    <2>2. pend' = pend
      <3>1. pend = inq
        BY <1>0, <1>a, <2>1
      <3>2. hand' # NoMsg
        BY <1>b, <2>1, Ranges, Types DEF IInv
      <3>3. pend' = <<Head(inq)>> \o Tail(inq)
        BY <2>1, <3>2 DEF pend
      <3> QED
        BY <1>b, <2>1, <3>1, <3>3
    <2>3. UNCHANGED <<now, ts, outq, received>>
      BY <1>7 DEF Take
    <2> QED
      BY <2>1, <2>2, <2>3 DEF pend
  <1>8. CASE Put
    <2>1. Accepted' = Accepted /\ hand # NoMsg
      BY <1>8, PutStep
    <2>2. /\ UNCHANGED <<now, ts, inq, received>> /\ outq' = Append(outq, hand) /\ hand' = NoMsg
          /\ ts[hand] + Delay <= now
      BY <1>8 DEF Put, IInv, ThreadInv
    <2>3. pend # <<>> /\ Head(pend) = hand /\ Tail(pend) = inq
      BY <1>0, <1>a, <2>1
    <2>4. pend' = inq
      BY <1>b, <2>2, ConcatEmptySeq DEF pend
    <2>5. Channel!Mature
      BY <2>1, <2>2, <2>3, <2>4 DEF Channel!Mature, pend
    <2> QED
      BY <2>5
  <1> QED
    BY <1>1, <1>2, <1>3, <1>4, <1>5, <1>6, <1>7, <1>8 DEF Next, DelayThread

(* The threads and mutexes implement the channel: no message becomes ready *)
(* before its delay is over, the order is kept, none is lost and none is   *)
(* delivered twice.  (That each is delivered in the end, the fairness of   *)
(* the channel, is left to the model checker.)                             *)
THEOREM QueueRefinesChannel == Spec => Channel!Init /\ [][Channel!Next]_(Channel!vars)
  <1>1. IInv /\ IInv' /\ [Next]_vars => [Channel!Next]_(Channel!vars)
    <2> SUFFICES ASSUME IInv, IInv', [Next]_vars PROVE [Channel!Next]_(Channel!vars)
      OBVIOUS
    <2>1. CASE Next
      BY <2>1, StepRefines
    <2>2. CASE UNCHANGED vars
      BY <2>2 DEF vars, Channel!vars, Accepted
    <2> QED
      BY <2>1, <2>2
  <1> QED
    BY <1>1, InitRefines, InvariantHolds, PTL DEF Spec
=============================================================================
