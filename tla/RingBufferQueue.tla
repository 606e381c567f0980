--------------------------- MODULE RingBufferQueue ---------------------------
(***************************************************************************)
(* MutexRingBufferQueue: the bounded queue between the threads that log    *)
(* and the worker thread of AsyncSink.                                     *)
(*                                                                         *)
(* Every member function runs under the mutex m_ from its first to its     *)
(* last access of the queue's data, except where it waits on a condition   *)
(* variable, so one critical section is one action.  A condition variable  *)
(* is the set of the threads blocked on it: waiting adds a thread,         *)
(* notifying removes threads, and a removed thread evaluates the           *)
(* predicate again.  request_stop and kick_for_flush notify after they     *)
(* have released m_; each notification is therefore an action of its own.  *)
(*                                                                         *)
(* Spec lets any producer and the consumer run any critical section at any *)
(* time: it is the queue under its most general client.  AsyncSink         *)
(* restricts it to the order in which the sink really calls the queue.     *)
(***************************************************************************)
EXTENDS Naturals, Sequences

CONSTANTS CapacityArg,  \* the capacity given to the constructor
          Policy,       \* the overflow policy
          Records,      \* the log records
          Producers,    \* the threads that enqueue
          Consumer,     \* the thread that dequeues
          NoRecord      \* a disengaged slot (std::nullopt)

Policies == {"Block", "DropNewest", "DropOldest"}

ASSUME QueueAssumption ==
  /\ CapacityArg \in Nat
  /\ Policy \in Policies
  /\ NoRecord \notin Records
  /\ Consumer \notin Producers

VARIABLES ring,            \* the slots and indices: buffer_, head_, tail_, count_
          stopRequested,   \* stop_requested_
          flushKick,       \* flush_kick_
          notEmptyWaiters, \* threads blocked on cv_not_empty_
          notFullWaiters,  \* threads blocked on cv_not_full_
          batch            \* the vector dequeue_batch fills for the consumer

queueVars ==
  <<ring, stopRequested, flushKick, notEmptyWaiters, notFullWaiters, batch>>

\* The constructor turns a capacity of 0 into 1.
Capacity == IF CapacityArg = 0 THEN 1 ELSE CapacityArg

Slots == 0 .. Capacity - 1

Rings == [buffer : [Slots -> Records \cup {NoRecord}],
          head : Slots, tail : Slots, count : 0 .. Capacity]
-----------------------------------------------------------------------------
(* The ring as a value. *)

\* The slot k places after slot i.
SlotAfter(i, k) == (i + k) % Capacity

EmptyRing ==
  [buffer |-> [i \in Slots |-> NoRecord], head |-> 0, tail |-> 0, count |-> 0]

PushUnlocked(q, r) ==
  [buffer |-> [q.buffer EXCEPT ![q.tail] = r],
   head   |-> q.head,
   tail   |-> SlotAfter(q.tail, 1),
   count  |-> q.count + 1]

\* A plausible slip: the record given up is the newest one.
PopOldestUnlocked_Newest(q) ==
  LET last == SlotAfter(q.tail, Capacity - 1)
  IN  [q EXCEPT !.buffer[last] = NoRecord, !.tail = last, !.count = @ - 1]

PopOldestUnlocked(q) ==
  [buffer |-> [q.buffer EXCEPT ![q.head] = NoRecord],
   head   |-> SlotAfter(q.head, 1),
   tail   |-> q.tail,
   count  |-> q.count - 1]

\* A plausible slip: the loop forgets to reset the slots it moved from.
PopBatch_NoReset(q, n) ==
  [q EXCEPT !.head = SlotAfter(q.head, n), !.count = @ - n]

\* dequeue_batch's loop: the n oldest records moved out, their slots reset.
PopBatch(q, n) ==
  [buffer |-> [i \in Slots |->
                 IF \E k \in 0 .. n - 1 : i = SlotAfter(q.head, k)
                 THEN NoRecord ELSE q.buffer[i]],
   head   |-> SlotAfter(q.head, n),
   tail   |-> q.tail,
   count  |-> q.count - n]

\* The queued records, oldest first.
Contents(q) == [k \in 1 .. q.count |-> q.buffer[SlotAfter(q.head, k - 1)]]

\* A plausible slip: off by one at the limit.
Full_OffByOne(q) == q.count > Capacity

Full(q) == q.count >= Capacity
-----------------------------------------------------------------------------
(* enqueue, one action per way out of the critical section. *)

\* A plausible slip: the consumer is not notified.
NotifyOneNotEmpty_Missing == UNCHANGED notEmptyWaiters

\* cv_not_empty_.notify_one()
NotifyOneNotEmpty ==
  \/ notEmptyWaiters = {} /\ UNCHANGED notEmptyWaiters
  \/ \E t \in notEmptyWaiters : notEmptyWaiters' = notEmptyWaiters \ {t}

\* {false, 0}: stop was requested, before or during the wait for space.
EnqueueStopped ==
  /\ stopRequested
  /\ UNCHANGED queueVars

\* Block: cv_not_full_.wait finds no space and no stop.
EnqueueWait(p) ==
  /\ ~stopRequested
  /\ Policy = "Block" /\ Full(ring)
  /\ notFullWaiters' = notFullWaiters \cup {p}
  /\ UNCHANGED <<ring, stopRequested, flushKick, notEmptyWaiters, batch>>

\* {false, 1}
EnqueueDropNewest ==
  /\ ~stopRequested
  /\ Policy = "DropNewest" /\ Full(ring)
  /\ UNCHANGED queueVars

\* {true, 1}
EnqueueDropOldest(r) ==
  /\ ~stopRequested
  /\ Policy = "DropOldest" /\ Full(ring)
  /\ ring' = PushUnlocked(PopOldestUnlocked(ring), r)
  /\ NotifyOneNotEmpty
  /\ UNCHANGED <<stopRequested, flushKick, notFullWaiters, batch>>

\* A plausible slip: stop_requested_ is not tested again after the wait.
EnqueuePush_NoStopCheck(r) ==
  /\ ~Full(ring)
  /\ ring' = PushUnlocked(ring, r)
  /\ NotifyOneNotEmpty
  /\ UNCHANGED <<stopRequested, flushKick, notFullWaiters, batch>>

\* {true, 0}
EnqueuePush(r) ==
  /\ ~stopRequested
  /\ ~Full(ring)
  /\ ring' = PushUnlocked(ring, r)
  /\ NotifyOneNotEmpty
  /\ UNCHANGED <<stopRequested, flushKick, notFullWaiters, batch>>
-----------------------------------------------------------------------------
(* dequeue_batch *)

\* A plausible slip: the blocked producers are not notified.
NotifyAllNotFull_Missing == UNCHANGED notFullWaiters

\* cv_not_full_.notify_all()
NotifyAllNotFull == notFullWaiters' = {}

BatchSize(max) == IF ring.count < max THEN ring.count ELSE max

DequeueSome(max) ==
  /\ ring.count > 0
  /\ batch' = batch \o SubSeq(Contents(ring), 1, BatchSize(max))
  /\ ring' = PopBatch(ring, BatchSize(max))
  /\ NotifyAllNotFull
  /\ UNCHANGED <<stopRequested, flushKick, notEmptyWaiters>>

DequeueNone ==
  /\ ring.count = 0
  /\ UNCHANGED queueVars
-----------------------------------------------------------------------------
(* request_stop, kick_for_flush, wait_for_work *)

RequestStop ==
  /\ stopRequested' = TRUE
  /\ UNCHANGED <<ring, flushKick, notEmptyWaiters, notFullWaiters, batch>>

\* cv_not_empty_.notify_all(), of request_stop and of kick_for_flush
NotifyAllNotEmpty ==
  /\ notEmptyWaiters' = {}
  /\ UNCHANGED <<ring, stopRequested, flushKick, notFullWaiters, batch>>

\* cv_not_full_.notify_all(), of request_stop
RequestStopWakesProducers ==
  /\ notFullWaiters' = {}
  /\ UNCHANGED <<ring, stopRequested, flushKick, notEmptyWaiters, batch>>

\* A plausible slip: the consumer is notified, but no flag is set.
KickForFlush_NoFlag == UNCHANGED queueVars

KickForFlush ==
  /\ flushKick' = TRUE
  /\ UNCHANGED <<ring, stopRequested, notEmptyWaiters, notFullWaiters, batch>>

HasWork == stopRequested \/ ring.count > 0 \/ flushKick

WaitForWorkBlocks ==
  /\ ~HasWork
  /\ notEmptyWaiters' = notEmptyWaiters \cup {Consumer}
  /\ UNCHANGED <<ring, stopRequested, flushKick, notFullWaiters, batch>>

WaitForWorkReturns ==
  /\ HasWork
  /\ flushKick' = FALSE
  /\ UNCHANGED <<ring, stopRequested, notEmptyWaiters, notFullWaiters, batch>>
-----------------------------------------------------------------------------
(* The consumer's use of its batch, and the condition variables' freedom   *)
(* to wake a thread that nobody notified.                                  *)

UseRecord ==
  /\ batch # <<>>
  /\ batch' = Tail(batch)
  /\ UNCHANGED <<ring, stopRequested, flushKick, notEmptyWaiters, notFullWaiters>>

SpuriousWakeup(t) ==
  /\ t \in notEmptyWaiters \cup notFullWaiters
  /\ notEmptyWaiters' = notEmptyWaiters \ {t}
  /\ notFullWaiters' = notFullWaiters \ {t}
  /\ UNCHANGED <<ring, stopRequested, flushKick, batch>>
-----------------------------------------------------------------------------
QueueInit ==
  /\ ring = EmptyRing
  /\ stopRequested = FALSE
  /\ flushKick = FALSE
  /\ notEmptyWaiters = {}
  /\ notFullWaiters = {}
  /\ batch = <<>>

ProducerStep(p) ==
  /\ p \notin notFullWaiters
  /\ \/ EnqueueStopped
     \/ EnqueueWait(p)
     \/ EnqueueDropNewest
     \/ \E r \in Records : EnqueueDropOldest(r) \/ EnqueuePush(r)

ConsumerStep ==
  /\ Consumer \notin notEmptyWaiters
  /\ \/ UseRecord
     \/ batch = <<>> /\ \E max \in 1 .. Capacity + 1 : DequeueSome(max)
     \/ DequeueNone
     \/ WaitForWorkBlocks
     \/ WaitForWorkReturns

ControlStep ==
  \/ RequestStop
  \/ KickForFlush
  \/ NotifyAllNotEmpty
  \/ stopRequested /\ RequestStopWakesProducers

QueueNext ==
  \/ \E p \in Producers : ProducerStep(p)
  \/ ConsumerStep
  \/ ControlStep
  \/ \E t \in Producers \cup {Consumer} : SpuriousWakeup(t)

QueueSpec == QueueInit /\ [][QueueNext]_queueVars
-----------------------------------------------------------------------------
QueueTypeOK ==
  /\ ring \in Rings
  /\ stopRequested \in BOOLEAN
  /\ flushKick \in BOOLEAN
  /\ notEmptyWaiters \subseteq {Consumer}
  /\ notFullWaiters \subseteq Producers
  /\ batch \in Seq(Records)

\* "Slots are engaged while counted": exactly the count_ slots from head_ on
\* hold a record, and tail_ is the slot after the last of them.  A slot left
\* engaged, or an index that slips at the wrap-around, breaks it.
RingConsistent ==
  /\ ring.tail = SlotAfter(ring.head, ring.count)
  /\ \A i \in Slots :
       ring.buffer[i] # NoRecord
         <=> \E k \in 0 .. ring.count - 1 : i = SlotAfter(ring.head, k)

BlockedMeansFull == notFullWaiters # {} => Full(ring)

AsleepMeansEmpty == notEmptyWaiters # {} => ring.count = 0

\* No wakeup is lost: producers stay blocked on cv_not_full_ only while the queue
\* is full, however many of them there are and however few records a batch frees,
\* and the consumer sleeps on cv_not_empty_ only while there is nothing to dequeue.
NoLostWakeups == BlockedMeansFull /\ AsleepMeansEmpty

\* The ring buffer implements the bounded FIFO: a record is taken once, in
\* the order of acceptance, and only the oldest one is ever given up.
Fifo == INSTANCE BoundedFifo WITH
          Size <- Capacity, EvictOldest <- Policy = "DropOldest",
          fifo <- Contents(ring), taken <- batch, closed <- stopRequested

ImplementsFifo == Fifo!FifoSpec
=============================================================================
