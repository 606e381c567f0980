------------------------ MODULE RingBufferQueueProofs ------------------------
(***************************************************************************)
(* The ring buffer queue, for every capacity, every set of records and     *)
(* every set of producers: its indices and slots stay consistent, no       *)
(* wakeup is lost, and it implements BoundedFifo.                          *)
(***************************************************************************)
EXTENDS RingBufferQueue, TLAPS, SequenceTheorems

LEMMA CapacityPositive == Capacity \in Nat /\ Capacity >= 1
  BY QueueAssumption DEF Capacity

\* The value of SlotAfter without the modulus: one wrap at most.
LEMMA SlotAfterValue ==
  ASSUME NEW h \in Slots, NEW k \in 0 .. Capacity
  PROVE  /\ SlotAfter(h, k) \in Slots
         /\ SlotAfter(h, k) = IF h + k < Capacity THEN h + k ELSE h + k - Capacity
  <1> DEFINE C == Capacity
  <1> HIDE DEF C
  <1>1. C \in Nat /\ C >= 1 /\ h \in 0 .. C - 1 /\ k \in 0 .. C
    BY CapacityPositive DEF C, Slots
  <1>2. (h + k) % C = IF h + k < C THEN h + k ELSE h + k - C
    BY <1>1
  <1> QED BY <1>1, <1>2 DEF C, Slots, SlotAfter

\* Two of the count slots from head on are different.
LEMMA SlotAfterInjective ==
  ASSUME NEW h \in Slots, NEW j \in 0 .. Capacity - 1, NEW k \in 0 .. Capacity - 1,
         SlotAfter(h, j) = SlotAfter(h, k)
  PROVE  j = k
  <1>1. j \in 0 .. Capacity /\ k \in 0 .. Capacity
    BY CapacityPositive
  <1>2. /\ SlotAfter(h, j) = IF h + j < Capacity THEN h + j ELSE h + j - Capacity
        /\ SlotAfter(h, k) = IF h + k < Capacity THEN h + k ELSE h + k - Capacity
    BY <1>1, SlotAfterValue
  <1>3. h \in Int /\ j \in Int /\ k \in Int /\ Capacity \in Int
        /\ 0 <= h /\ h < Capacity /\ 0 <= j /\ j < Capacity /\ 0 <= k /\ k < Capacity
    BY CapacityPositive DEF Slots
  <1>4. CASE h + j < Capacity /\ h + k < Capacity
    <2>1. h + j = h + k
      BY <1>2, <1>4
    <2> QED BY <1>3, <2>1
  <1>5. CASE h + j < Capacity /\ ~(h + k < Capacity)
    <2>1. h + j = h + k - Capacity
      BY <1>2, <1>5
    <2> QED BY <1>3, <2>1
  <1>6. CASE ~(h + j < Capacity) /\ h + k < Capacity
    <2>1. h + j - Capacity = h + k
      BY <1>2, <1>6
    <2> QED BY <1>3, <2>1
  <1>7. CASE ~(h + j < Capacity) /\ ~(h + k < Capacity)
    <2>1. h + j - Capacity = h + k - Capacity
      BY <1>2, <1>7
    <2> QED BY <1>3, <2>1
  <1> QED BY <1>4, <1>5, <1>6, <1>7

\* Advancing in two moves.
LEMMA SlotAfterAdd ==
  ASSUME NEW h \in Slots, NEW j \in 0 .. Capacity, NEW k \in 0 .. Capacity,
         j + k <= Capacity
  PROVE  SlotAfter(SlotAfter(h, j), k) = SlotAfter(h, j + k)
  <1>1. j + k \in 0 .. Capacity
    BY CapacityPositive
  <1>2. /\ SlotAfter(h, j) \in Slots
        /\ SlotAfter(h, j) = IF h + j < Capacity THEN h + j ELSE h + j - Capacity
        /\ SlotAfter(h, j + k) =
             IF h + (j + k) < Capacity THEN h + (j + k) ELSE h + (j + k) - Capacity
    BY <1>1, SlotAfterValue
  <1>3. SlotAfter(SlotAfter(h, j), k) =
          IF SlotAfter(h, j) + k < Capacity THEN SlotAfter(h, j) + k
                                            ELSE SlotAfter(h, j) + k - Capacity
    BY <1>2, SlotAfterValue
  <1> QED BY <1>1, <1>2, <1>3, CapacityPositive DEF Slots
-----------------------------------------------------------------------------
\* RingConsistent and the type of the ring, as a predicate on rings.
WellFormed(q) ==
  /\ q \in Rings
  /\ q.tail = SlotAfter(q.head, q.count)
  /\ \A i \in Slots :
       q.buffer[i] # NoRecord
         <=> \E k \in 0 .. q.count - 1 : i = SlotAfter(q.head, k)

\* A well-formed ring holds count records, and nothing else.
LEMMA ContentsType ==
  ASSUME NEW q, WellFormed(q)
  PROVE  Contents(q) \in Seq(Records) /\ Len(Contents(q)) = q.count
  <1>1. q.count \in Nat /\ q.count <= Capacity /\ q.head \in Slots
    BY CapacityPositive DEF WellFormed, Rings
  <1>2. ASSUME NEW k \in 1 .. q.count
        PROVE  q.buffer[SlotAfter(q.head, k - 1)] \in Records
    <2>1. k - 1 \in 0 .. q.count - 1 /\ k - 1 \in 0 .. Capacity
      BY <1>1, CapacityPositive
    <2>2. SlotAfter(q.head, k - 1) \in Slots
      BY <1>1, <2>1, SlotAfterValue
    <2>3. q.buffer[SlotAfter(q.head, k - 1)] # NoRecord
      BY <2>1, <2>2 DEF WellFormed
    <2> QED BY <2>2, <2>3 DEF WellFormed, Rings
  <1> QED BY <1>1, <1>2 DEF Contents

\* push_unlocked_ appends.
LEMMA PushAppends ==
  ASSUME NEW q, WellFormed(q), ~Full(q), NEW r \in Records
  PROVE  /\ WellFormed(PushUnlocked(q, r))
         /\ Contents(PushUnlocked(q, r)) = Append(Contents(q), r)
  <1> DEFINE p == PushUnlocked(q, r)
  <1>1. /\ q.count \in 0 .. Capacity - 1 /\ q.head \in Slots /\ q.tail \in Slots
        /\ q.buffer \in [Slots -> Records \cup {NoRecord}]
        /\ q.tail = SlotAfter(q.head, q.count)
    BY CapacityPositive DEF WellFormed, Rings, Full
  <1>2. /\ p.count = q.count + 1 /\ p.head = q.head
        /\ p.tail = SlotAfter(q.tail, 1)
        /\ p.buffer = [q.buffer EXCEPT ![q.tail] = r]
    BY DEF PushUnlocked
  <1>3. 1 \in 0 .. Capacity /\ q.count \in 0 .. Capacity /\ q.count + 1 \in 0 .. Capacity
    BY <1>1, CapacityPositive
  <1>4. p.tail = SlotAfter(p.head, p.count)
    BY <1>1, <1>2, <1>3, SlotAfterAdd
  <1>5. p \in Rings
    <2>1. SlotAfter(q.tail, 1) \in Slots
      BY <1>1, <1>3, SlotAfterValue
    <2> QED BY <1>1, <1>3, <2>1 DEF PushUnlocked, Rings
  <1>6. ASSUME NEW i \in Slots
        PROVE  p.buffer[i] # NoRecord
                 <=> \E k \in 0 .. p.count - 1 : i = SlotAfter(p.head, k)
    <2>1. CASE i = q.tail
      <3>1. p.buffer[i] = r /\ r # NoRecord
        BY <1>1, <1>2, <2>1, QueueAssumption
      <3>2. q.count \in 0 .. p.count - 1
        BY <1>1, <1>2
      <3> QED BY <1>1, <1>2, <2>1, <3>1, <3>2
    <2>2. CASE i # q.tail
      <3>1. p.buffer[i] = q.buffer[i]
        BY <1>1, <1>2, <2>2
      <3>2. q.buffer[i] # NoRecord <=> \E k \in 0 .. q.count - 1 : i = SlotAfter(q.head, k)
        BY DEF WellFormed
      <3>3. \A k \in 0 .. p.count - 1 : k \in 0 .. q.count - 1 \/ k = q.count
        BY <1>1, <1>2
      <3>4. \A k \in 0 .. q.count - 1 : k \in 0 .. p.count - 1
        BY <1>1, <1>2
      <3> QED BY <1>1, <1>2, <2>2, <3>1, <3>2, <3>3, <3>4
    <2> QED BY <2>1, <2>2
  <1>7. Contents(p) = Append(Contents(q), r)
    <2>1. Contents(q) \in Seq(Records) /\ Len(Contents(q)) = q.count
      BY ContentsType
    <2>2. ASSUME NEW k \in 1 .. q.count + 1
          PROVE  p.buffer[SlotAfter(q.head, k - 1)]
                   = IF k <= q.count THEN q.buffer[SlotAfter(q.head, k - 1)] ELSE r
      <3>1. k - 1 \in 0 .. Capacity - 1 /\ k - 1 \in 0 .. Capacity
            /\ q.count \in 0 .. Capacity - 1
        BY <1>1, CapacityPositive
      <3>2. SlotAfter(q.head, k - 1) \in Slots
        BY <1>1, <3>1, SlotAfterValue
      <3>3. SlotAfter(q.head, k - 1) = q.tail => k - 1 = q.count
        BY <1>1, <3>1, SlotAfterInjective
      <3>4. CASE k <= q.count
        <4>1. SlotAfter(q.head, k - 1) # q.tail
          BY <1>1, <3>3, <3>4
        <4> QED BY <1>1, <1>2, <3>2, <3>4, <4>1
      <3>5. CASE k = q.count + 1
        <4>1. k - 1 = q.count
          BY <1>1, <3>5
        <4>2. p.buffer[q.tail] = r
          BY <1>1, <1>2
        <4> QED BY <1>1, <3>5, <4>1, <4>2
      <3> QED BY <1>1, <3>4, <3>5
    <2>3. WellFormed(p)
      BY <1>4, <1>5, <1>6 DEF WellFormed
    <2>4. Contents(p) \in Seq(Records) /\ Len(Contents(p)) = q.count + 1
      BY <1>2, <2>3, ContentsType
    <2>5. /\ Append(Contents(q), r) \in Seq(Records)
          /\ Len(Append(Contents(q), r)) = q.count + 1
          /\ \A k \in 1 .. q.count : Append(Contents(q), r)[k] = Contents(q)[k]
          /\ Append(Contents(q), r)[q.count + 1] = r
      BY <2>1, AppendProperties
    <2>6. ASSUME NEW k \in 1 .. q.count + 1
          PROVE  Contents(p)[k] = Append(Contents(q), r)[k]
      <3>1. Contents(p)[k] = p.buffer[SlotAfter(q.head, k - 1)]
        BY <1>2 DEF Contents
      <3>2. k \in 1 .. q.count => Contents(q)[k] = q.buffer[SlotAfter(q.head, k - 1)]
        BY DEF Contents
      <3>3. k \in 1 .. q.count \/ k = q.count + 1
        BY <1>1
      <3> QED BY <1>1, <2>2, <2>5, <3>1, <3>2, <3>3
    <2> QED BY <2>4, <2>5, <2>6, SeqEqual
  <1> QED BY <1>4, <1>5, <1>6, <1>7 DEF WellFormed

\* dequeue_batch's loop takes a prefix.
LEMMA PopBatchTakes ==
  ASSUME NEW q, WellFormed(q), NEW n \in 1 .. q.count
  PROVE  /\ WellFormed(PopBatch(q, n))
         /\ Contents(PopBatch(q, n)) = SubSeq(Contents(q), n + 1, q.count)
  <1> DEFINE p == PopBatch(q, n)
  <1>1. /\ q.count \in 0 .. Capacity /\ q.head \in Slots /\ q.tail \in Slots
        /\ q.buffer \in [Slots -> Records \cup {NoRecord}]
        /\ q.tail = SlotAfter(q.head, q.count)
    BY DEF WellFormed, Rings
  <1>2. /\ p.count = q.count - n /\ p.head = SlotAfter(q.head, n) /\ p.tail = q.tail
        /\ p.buffer = [i \in Slots |->
                         IF \E k \in 0 .. n - 1 : i = SlotAfter(q.head, k)
                         THEN NoRecord ELSE q.buffer[i]]
    BY DEF PopBatch
  <1>3. /\ n \in 0 .. Capacity /\ p.count \in 0 .. Capacity /\ n + p.count = q.count
        /\ n + p.count <= Capacity
    BY <1>1, <1>2, CapacityPositive
  <1>4. p.head \in Slots /\ p.tail = SlotAfter(p.head, p.count)
    BY <1>1, <1>2, <1>3, SlotAfterValue, SlotAfterAdd
  <1>5. p \in Rings
    <2>1. SlotAfter(q.head, n) \in Slots /\ q.count - n \in 0 .. Capacity
      BY <1>2, <1>3, <1>4
    <2> QED BY <1>1, <2>1 DEF PopBatch, Rings
  <1>6. ASSUME NEW j \in 0 .. p.count
        PROVE  SlotAfter(p.head, j) = SlotAfter(q.head, n + j)
    <2>1. j \in 0 .. Capacity /\ n + j <= Capacity
      BY <1>1, <1>3, CapacityPositive
    <2> QED BY <1>1, <1>2, <1>3, <2>1, SlotAfterAdd
  <1>7. ASSUME NEW i \in Slots
        PROVE  p.buffer[i] # NoRecord
                 <=> \E j \in 0 .. p.count - 1 : i = SlotAfter(p.head, j)
    <2>1. q.buffer[i] # NoRecord <=> \E k \in 0 .. q.count - 1 : i = SlotAfter(q.head, k)
      BY DEF WellFormed
    <2>2. p.buffer[i] # NoRecord
            <=> /\ \A k \in 0 .. n - 1 : i # SlotAfter(q.head, k)
                /\ q.buffer[i] # NoRecord
      BY <1>2
    <2>3. ASSUME p.buffer[i] # NoRecord
          PROVE  \E j \in 0 .. p.count - 1 : i = SlotAfter(p.head, j)
      <3>1. PICK k \in 0 .. q.count - 1 : i = SlotAfter(q.head, k)
        BY <2>1, <2>2, <2>3
      <3>2. k \notin 0 .. n - 1
        BY <2>2, <2>3, <3>1
      <3>3. k - n \in 0 .. p.count - 1 /\ k - n \in 0 .. p.count /\ n + (k - n) = k
        BY <1>1, <1>2, <3>2
      <3>4. i = SlotAfter(p.head, k - n)
        BY <1>6, <3>1, <3>3
      <3> QED BY <3>3, <3>4
    <2>4. ASSUME NEW j \in 0 .. p.count - 1, i = SlotAfter(p.head, j)
          PROVE  p.buffer[i] # NoRecord
      <3>1. /\ j \in 0 .. p.count /\ n + j \in 0 .. q.count - 1
            /\ n + j \in 0 .. Capacity - 1
        BY <1>1, <1>3, CapacityPositive
      <3>2. i = SlotAfter(q.head, n + j)
        BY <1>6, <2>4, <3>1
      <3>3. ASSUME NEW k \in 0 .. n - 1, i = SlotAfter(q.head, k)
            PROVE  FALSE
        <4>1. k \in 0 .. Capacity - 1
          BY <1>3, CapacityPositive
        <4>2. k = n + j
          BY <1>1, <3>1, <3>2, <3>3, <4>1, SlotAfterInjective
        <4> QED BY <4>2, <3>1, <1>3
      <3> QED BY <2>1, <2>2, <3>1, <3>2, <3>3
    <2> QED BY <2>3, <2>4
  <1>8. WellFormed(p)
    BY <1>4, <1>5, <1>7 DEF WellFormed
  <1>9. Contents(p) = SubSeq(Contents(q), n + 1, q.count)
    <2>1. Contents(q) \in Seq(Records) /\ Len(Contents(q)) = q.count
      BY ContentsType
    <2>2. Contents(p) \in Seq(Records) /\ Len(Contents(p)) = q.count - n
      BY <1>2, <1>8, ContentsType
    <2>3. \A i \in n + 1 .. q.count : Contents(q)[i] \in Records
      <3>1. \A i \in n + 1 .. q.count : i \in 1 .. q.count
        BY <1>1
      <3> QED BY <2>1, <3>1, ElementOfSeq
    <2>4. /\ SubSeq(Contents(q), n + 1, q.count) \in Seq(Records)
          /\ Len(SubSeq(Contents(q), n + 1, q.count)) = q.count - n
          /\ \A i \in 1 .. q.count - n :
               SubSeq(Contents(q), n + 1, q.count)[i] = Contents(q)[n + i]
      <3>1. n + 1 \in Int /\ q.count \in Int
        BY <1>1
      <3>2. /\ SubSeq(Contents(q), n + 1, q.count) \in Seq(Records)
            /\ Len(SubSeq(Contents(q), n + 1, q.count)) =
                 IF n + 1 <= q.count THEN q.count - (n + 1) + 1 ELSE 0
            /\ \A i \in 1 .. q.count - (n + 1) + 1 :
                 SubSeq(Contents(q), n + 1, q.count)[i] = Contents(q)[n + 1 + i - 1]
        BY <2>3, <3>1, SubSeqProperties
      <3>3. q.count - (n + 1) + 1 = q.count - n
        BY <1>1
      <3>4. \A i \in 1 .. q.count - n : n + 1 + i - 1 = n + i
        BY <1>1
      <3> QED BY <1>1, <3>2, <3>3, <3>4
    <2>5. ASSUME NEW i \in 1 .. q.count - n
          PROVE  Contents(p)[i] = SubSeq(Contents(q), n + 1, q.count)[i]
      <3>1. Contents(p)[i] = p.buffer[SlotAfter(p.head, i - 1)]
        BY <1>2 DEF Contents
      <3>2. /\ i - 1 \in 0 .. p.count - 1 /\ i - 1 \in 0 .. p.count
            /\ n + i \in 1 .. q.count /\ n + (i - 1) = (n + i) - 1
            /\ i - 1 \in 0 .. Capacity
        BY <1>1, <1>2, CapacityPositive
      <3>3. SlotAfter(p.head, i - 1) = SlotAfter(q.head, (n + i) - 1)
        BY <1>6, <3>2
      <3>4. SlotAfter(p.head, i - 1) \in Slots
        BY <1>4, <3>2, SlotAfterValue
      <3>5. p.buffer[SlotAfter(p.head, i - 1)] # NoRecord
        BY <1>7, <3>2, <3>4
      <3>6. p.buffer[SlotAfter(p.head, i - 1)] = q.buffer[SlotAfter(p.head, i - 1)]
        BY <1>2, <3>4, <3>5
      <3>7. Contents(q)[n + i] = q.buffer[SlotAfter(q.head, (n + i) - 1)]
        BY <3>2 DEF Contents
      <3> QED BY <2>4, <3>1, <3>3, <3>6, <3>7
    <2> QED BY <2>2, <2>4, <2>5, SeqEqual
  <1> QED BY <1>8, <1>9

\* Evicting the oldest record is a batch of one that nobody gets.
LEMMA PopOldestIsBatchOfOne ==
  ASSUME NEW q, WellFormed(q), q.count > 0
  PROVE  PopOldestUnlocked(q) = PopBatch(q, 1)
  <1>1. q.head \in Slots /\ q.buffer \in [Slots -> Records \cup {NoRecord}]
    BY DEF WellFormed, Rings
  <1>2. SlotAfter(q.head, 0) = q.head
    <2>1. Capacity \in Nat /\ 0 \in 0 .. Capacity /\ q.head \in 0 .. Capacity - 1
      BY <1>1, CapacityPositive DEF Slots
    <2>2. SlotAfter(q.head, 0) =
            IF q.head + 0 < Capacity THEN q.head + 0 ELSE q.head + 0 - Capacity
      BY <1>1, <2>1, SlotAfterValue
    <2> QED BY <2>1, <2>2
  <1>3. \A i \in Slots : (\E k \in 0 .. 1 - 1 : i = SlotAfter(q.head, k)) <=> i = q.head
    <2>1. 0 .. 1 - 1 = {0}
      OBVIOUS
    <2> QED BY <1>2, <2>1
  <1>4. [q.buffer EXCEPT ![q.head] = NoRecord] =
          [i \in Slots |-> IF \E k \in 0 .. 1 - 1 : i = SlotAfter(q.head, k)
                           THEN NoRecord ELSE q.buffer[i]]
    BY <1>1, <1>3
  <1> QED BY <1>4 DEF PopOldestUnlocked, PopBatch

\* Evicting the oldest record drops the head, and leaves room for one more.
LEMMA PopOldestDrops ==
  ASSUME NEW q, WellFormed(q), q.count > 0
  PROVE  /\ WellFormed(PopOldestUnlocked(q))
         /\ ~Full(PopOldestUnlocked(q))
         /\ Contents(PopOldestUnlocked(q)) = Tail(Contents(q))
  <1>1. q.count \in 1 .. Capacity /\ 1 \in 1 .. q.count
    BY CapacityPositive DEF WellFormed, Rings
  <1>2. /\ WellFormed(PopBatch(q, 1))
        /\ Contents(PopBatch(q, 1)) = SubSeq(Contents(q), 1 + 1, q.count)
    BY <1>1, PopBatchTakes
  <1>3. Contents(q) \in Seq(Records) /\ Len(Contents(q)) = q.count
    BY ContentsType
  <1>4. Contents(q) # <<>>
    BY <1>1, <1>3
  <1>5. Tail(Contents(q)) = SubSeq(Contents(q), 2, q.count)
    BY <1>3, <1>4, TailIsSubSeq
  <1>6. ~Full(PopOldestUnlocked(q))
    BY <1>1, CapacityPositive DEF Full, PopOldestUnlocked
  <1>7. PopOldestUnlocked(q) = PopBatch(q, 1) /\ 1 + 1 = 2
    BY PopOldestIsBatchOfOne
  <1> QED BY <1>2, <1>5, <1>6, <1>7
-----------------------------------------------------------------------------
(* The inductive invariant. *)

QueueInv ==
  /\ QueueTypeOK
  /\ RingConsistent
  /\ BlockedMeansFull
  /\ AsleepMeansEmpty

LEMMA WellFormedRing == QueueTypeOK /\ RingConsistent <=> QueueTypeOK /\ WellFormed(ring)
  BY DEF QueueTypeOK, RingConsistent, WellFormed

LEMMA WellFormedRingNext ==
  ASSUME WellFormed(ring')
  PROVE  ring' \in Rings /\ RingConsistent'
  BY DEF RingConsistent, WellFormed

LEMMA QueueInvInit == QueueInit => QueueInv
  <1> SUFFICES ASSUME QueueInit PROVE QueueInv
    OBVIOUS
  <1>1. 0 \in Slots /\ 0 \in 0 .. Capacity
    BY CapacityPositive DEF Slots
  <1>2. ring \in Rings
    BY <1>1 DEF QueueInit, EmptyRing, Rings
  <1>3. SlotAfter(0, 0) = 0
    BY <1>1, SlotAfterValue, CapacityPositive
  <1>4. RingConsistent
    <2>1. 0 .. ring.count - 1 = {}
      BY DEF QueueInit, EmptyRing
    <2> QED BY <1>3, <2>1 DEF QueueInit, EmptyRing, RingConsistent
  <1>5. batch \in Seq(Records)
    BY DEF QueueInit
  <1> QED BY <1>2, <1>4, <1>5 DEF QueueInit, QueueInv, QueueTypeOK, BlockedMeansFull,
                                  AsleepMeansEmpty

\* notify_one leaves nobody on cv_not_empty_, which only the consumer waits on.
LEMMA NotifyOneWakesConsumer ==
  ASSUME QueueTypeOK, NotifyOneNotEmpty
  PROVE  notEmptyWaiters' = {}
  BY DEF QueueTypeOK, NotifyOneNotEmpty

\* What dequeue_batch takes, and that the types are kept.
LEMMA BatchSizeRange ==
  ASSUME QueueTypeOK, ring.count > 0, NEW max \in Nat, max >= 1
  PROVE  BatchSize(max) \in 1 .. ring.count
  BY DEF QueueTypeOK, Rings, BatchSize

LEMMA TakenIsSequence ==
  ASSUME QueueTypeOK, RingConsistent, NEW n \in 1 .. ring.count
  PROVE  /\ SubSeq(Contents(ring), 1, n) \in Seq(Records)
         /\ Len(SubSeq(Contents(ring), 1, n)) = n
  <1>1. Contents(ring) \in Seq(Records) /\ Len(Contents(ring)) = ring.count
    BY WellFormedRing, ContentsType
  <1>2. ring.count \in Nat
    BY CapacityPositive DEF QueueTypeOK, Rings
  <1>3. \A i \in 1 .. n : i \in 1 .. Len(Contents(ring))
    BY <1>1, <1>2
  <1>4. \A i \in 1 .. n : Contents(ring)[i] \in Records
    BY <1>1, <1>3, ElementOfSeq
  <1> QED BY <1>2, <1>4, SubSeqProperties

LEMMA QueueInvStep == QueueInv /\ [QueueNext]_queueVars => QueueInv'
  <1> SUFFICES ASSUME QueueInv, [QueueNext]_queueVars PROVE QueueInv'
    OBVIOUS
  <1> USE DEF QueueInv
  <1>0. WellFormed(ring)
    BY WellFormedRing
  <1>1. ASSUME NEW r \in Records, EnqueuePush(r) PROVE QueueInv'
    <2>1. WellFormed(ring')
      BY <1>0, <1>1, PushAppends DEF EnqueuePush
    <2>2. ring' \in Rings /\ RingConsistent'
      BY <2>1, WellFormedRingNext
    <2>3. notEmptyWaiters' = {}
      BY <1>1, NotifyOneWakesConsumer DEF EnqueuePush
    <2>4. notFullWaiters = {}
      BY <1>1 DEF EnqueuePush, BlockedMeansFull
    <2> QED BY <1>1, <2>2, <2>3, <2>4 DEF EnqueuePush, QueueTypeOK, BlockedMeansFull,
                                          AsleepMeansEmpty
  <1>2. ASSUME NEW r \in Records, EnqueueDropOldest(r) PROVE QueueInv'
    <2>1. ring.count > 0
      BY <1>2, CapacityPositive DEF EnqueueDropOldest, Full, QueueTypeOK, Rings
    <2>2. WellFormed(ring')
      BY <1>0, <1>2, <2>1, PopOldestDrops, PushAppends DEF EnqueueDropOldest
    <2>3. ring' \in Rings /\ RingConsistent'
      BY <2>2, WellFormedRingNext
    <2>4. notEmptyWaiters' = {}
      BY <1>2, NotifyOneWakesConsumer DEF EnqueueDropOldest
    <2>5. ring'.count = ring.count - 1 + 1
      BY <1>2 DEF EnqueueDropOldest, PushUnlocked, PopOldestUnlocked
    <2>6. BlockedMeansFull'
      BY <1>2, <2>5 DEF EnqueueDropOldest, BlockedMeansFull, Full, QueueTypeOK, Rings
    <2> QED BY <1>2, <2>3, <2>4, <2>6 DEF EnqueueDropOldest, QueueTypeOK, AsleepMeansEmpty
  <1>3. ASSUME NEW max \in 1 .. Capacity + 1, DequeueSome(max) PROVE QueueInv'
    <2>1. BatchSize(max) \in 1 .. ring.count
      BY <1>3, BatchSizeRange, CapacityPositive DEF DequeueSome
    <2>2. WellFormed(ring')
      BY <1>0, <1>3, <2>1, PopBatchTakes DEF DequeueSome
    <2>3. ring' \in Rings /\ RingConsistent'
      BY <2>2, WellFormedRingNext
    <2>4. SubSeq(Contents(ring), 1, BatchSize(max)) \in Seq(Records)
      BY <2>1, TakenIsSequence
    <2>5. batch' \in Seq(Records)
      BY <1>3, <2>4, ConcatProperties DEF DequeueSome, QueueTypeOK
    <2>6. ring.count # 0
      BY <1>3 DEF DequeueSome, QueueTypeOK, Rings
    <2>7. notEmptyWaiters = {}
      BY <2>6 DEF AsleepMeansEmpty
    <2> QED BY <1>3, <2>3, <2>5, <2>7 DEF DequeueSome, NotifyAllNotFull, QueueTypeOK,
                                          BlockedMeansFull, AsleepMeansEmpty
  <1>4. ASSUME NEW p \in Producers, EnqueueWait(p) PROVE QueueInv'
    BY <1>4 DEF EnqueueWait, QueueTypeOK, RingConsistent, BlockedMeansFull, AsleepMeansEmpty
  <1>5. CASE UseRecord
    <2>1. batch' \in Seq(Records)
      BY <1>5 DEF UseRecord, QueueTypeOK
    <2> QED BY <1>5, <2>1 DEF UseRecord, QueueTypeOK, RingConsistent, BlockedMeansFull,
                              AsleepMeansEmpty, Full
  <1>6. CASE WaitForWorkBlocks
    <2>1. ring.count = 0
      BY <1>6 DEF WaitForWorkBlocks, HasWork, QueueTypeOK, Rings
    <2> QED BY <1>6, <2>1 DEF WaitForWorkBlocks, QueueTypeOK, RingConsistent,
                              BlockedMeansFull, AsleepMeansEmpty, Full
  <1>7. CASE WaitForWorkReturns
    BY <1>7 DEF WaitForWorkReturns, QueueTypeOK, RingConsistent, BlockedMeansFull,
                AsleepMeansEmpty, Full
  <1>8. CASE RequestStop
    BY <1>8 DEF RequestStop, QueueTypeOK, RingConsistent, BlockedMeansFull,
                AsleepMeansEmpty, Full
  <1>9. CASE KickForFlush
    BY <1>9 DEF KickForFlush, QueueTypeOK, RingConsistent, BlockedMeansFull,
                AsleepMeansEmpty, Full
  <1>10. CASE NotifyAllNotEmpty
    BY <1>10 DEF NotifyAllNotEmpty, QueueTypeOK, RingConsistent, BlockedMeansFull,
                 AsleepMeansEmpty, Full
  <1>11. CASE RequestStopWakesProducers
    BY <1>11 DEF RequestStopWakesProducers, QueueTypeOK, RingConsistent, BlockedMeansFull,
                 AsleepMeansEmpty, Full
  <1>12. ASSUME NEW t, SpuriousWakeup(t) PROVE QueueInv'
    BY <1>12 DEF SpuriousWakeup, QueueTypeOK, RingConsistent, BlockedMeansFull,
                 AsleepMeansEmpty, Full
  <1>13. CASE UNCHANGED queueVars
    BY <1>13 DEF queueVars, QueueTypeOK, RingConsistent, BlockedMeansFull, AsleepMeansEmpty,
                 Full
  <1> QED
    BY <1>1, <1>2, <1>3, <1>4, <1>5, <1>6, <1>7, <1>8, <1>9, <1>10, <1>11, <1>12, <1>13
    DEF QueueNext, ProducerStep, ConsumerStep, ControlStep, EnqueueStopped,
        EnqueueDropNewest, DequeueNone

\* The queue keeps its types, its ring stays consistent, and no thread sleeps
\* while its condition holds, whoever calls the queue and in whatever order.
THEOREM QueueInvariance == QueueSpec => []QueueInv
  <1>1. QueueInit => QueueInv
    BY QueueInvInit
  <1>2. QueueInv /\ [QueueNext]_queueVars => QueueInv'
    BY QueueInvStep
  <1> QED BY <1>1, <1>2, PTL DEF QueueSpec

\* "Slots are engaged while counted", for every capacity.
THEOREM RingStaysConsistent == QueueSpec => []RingConsistent
  <1>1. QueueInv => RingConsistent
    BY DEF QueueInv
  <1> QED BY <1>1, QueueInvariance, PTL

\* No wakeup is lost, on either condition variable.
THEOREM NoLostWakeup == QueueSpec => []NoLostWakeups
  <1>1. QueueInv => NoLostWakeups
    BY DEF QueueInv, NoLostWakeups
  <1> QED BY <1>1, QueueInvariance, PTL
-----------------------------------------------------------------------------
(* The refinement of BoundedFifo. *)

LEMMA RefinesInit == QueueInit => Fifo!FifoInit
  <1> SUFFICES ASSUME QueueInit PROVE Contents(ring) = <<>>
    BY DEF QueueInit, Fifo!FifoInit
  <1>1. ring.count = 0
    BY DEF QueueInit, EmptyRing
  <1> QED BY <1>1 DEF Contents

LEMMA RefinesStep ==
  QueueInv /\ [QueueNext]_queueVars => [Fifo!FifoNext]_(Fifo!fifoVars)
  <1> SUFFICES ASSUME QueueInv, [QueueNext]_queueVars
               PROVE  Fifo!FifoNext \/ UNCHANGED Fifo!fifoVars
    OBVIOUS
  <1>0. /\ WellFormed(ring)
        /\ ring.count \in 0 .. Capacity
        /\ Contents(ring) \in Seq(Records) /\ Len(Contents(ring)) = ring.count
    BY WellFormedRing, ContentsType DEF QueueInv, QueueTypeOK, Rings
  <1>1. ASSUME NEW r \in Records, EnqueuePush(r) PROVE Fifo!FifoNext
    <2>1. Contents(ring') = Append(Contents(ring), r)
      BY <1>0, <1>1, PushAppends DEF EnqueuePush
    <2>2. Len(Contents(ring)) < Capacity
      BY <1>0, <1>1, CapacityPositive DEF EnqueuePush, Full
    <2>3. Fifo!Accept(r)
      BY <1>1, <2>1, <2>2 DEF Fifo!Accept, EnqueuePush, Contents
    <2> QED BY <2>3 DEF Fifo!FifoNext
  <1>2. ASSUME NEW r \in Records, EnqueueDropOldest(r) PROVE Fifo!FifoNext
    <2>1. ring.count = Capacity /\ ring.count > 0
      BY <1>0, <1>2, CapacityPositive DEF EnqueueDropOldest, Full
    <2>2. Contents(ring') = Append(Tail(Contents(ring)), r)
      BY <1>0, <1>2, <2>1, PopOldestDrops, PushAppends DEF EnqueueDropOldest
    <2>3. Fifo!EvictAndAccept(r)
      BY <1>0, <1>2, <2>1, <2>2 DEF Fifo!EvictAndAccept, EnqueueDropOldest, Contents
    <2> QED BY <2>3 DEF Fifo!FifoNext
  <1>3. ASSUME NEW max \in 1 .. Capacity + 1, batch = <<>>, DequeueSome(max)
        PROVE  Fifo!FifoNext
    <2> DEFINE n == BatchSize(max)
    <2>1. n \in 1 .. ring.count
      BY <1>3, BatchSizeRange, CapacityPositive DEF DequeueSome, QueueInv
    <2>2. Contents(ring') = SubSeq(Contents(ring), n + 1, Len(Contents(ring)))
      BY <1>0, <1>3, <2>1, PopBatchTakes DEF DequeueSome
    <2>3. batch' = SubSeq(Contents(ring), 1, n)
      <3>1. SubSeq(Contents(ring), 1, n) \in Seq(Records)
        BY <2>1, TakenIsSequence DEF QueueInv
      <3> QED BY <1>3, <3>1, ConcatEmptySeq DEF DequeueSome
    <2> HIDE DEF n
    <2>4. Fifo!TakeBatch(n)
      BY <1>3, <2>2, <2>3 DEF Fifo!TakeBatch, DequeueSome, Contents
    <2> QED BY <1>0, <2>1, <2>4 DEF Fifo!FifoNext
  <1>4. CASE UseRecord
    <2>1. Fifo!UseFirst
      BY <1>4 DEF UseRecord, Fifo!UseFirst, Contents
    <2> QED BY <2>1 DEF Fifo!FifoNext
  <1>5. CASE RequestStop
    <2>1. Fifo!Close
      BY <1>5 DEF RequestStop, Fifo!Close, Contents
    <2> QED BY <2>1 DEF Fifo!FifoNext
  <1>6. ASSUME UNCHANGED <<ring, batch, stopRequested>> PROVE UNCHANGED Fifo!fifoVars
    BY <1>6 DEF Fifo!fifoVars, Contents
  <1>7. CASE \/ UNCHANGED queueVars
             \/ \E p \in Producers : EnqueueWait(p)
             \/ WaitForWorkBlocks \/ WaitForWorkReturns
             \/ KickForFlush \/ NotifyAllNotEmpty \/ RequestStopWakesProducers
             \/ \E t \in Producers \cup {Consumer} : SpuriousWakeup(t)
    BY <1>6, <1>7 DEF queueVars, EnqueueWait, WaitForWorkBlocks, WaitForWorkReturns,
                      KickForFlush, NotifyAllNotEmpty, RequestStopWakesProducers,
                      SpuriousWakeup
  <1> QED
    BY <1>1, <1>2, <1>3, <1>4, <1>5, <1>7
    DEF QueueNext, ProducerStep, ConsumerStep, ControlStep, EnqueueStopped,
        EnqueueDropNewest, DequeueNone

\* The ring buffer, with its slots, indices, policies and condition variables,
\* implements the bounded FIFO queue: records are taken once and in order.
THEOREM RingBufferImplementsFifo == QueueSpec => ImplementsFifo
  <1>1. QueueInit => Fifo!FifoInit
    BY RefinesInit
  <1>2. QueueInv /\ [QueueNext]_queueVars => [Fifo!FifoNext]_(Fifo!fifoVars)
    BY RefinesStep
  <1> QED BY <1>1, <1>2, QueueInvariance, PTL DEF QueueSpec, ImplementsFifo, Fifo!FifoSpec
=============================================================================
