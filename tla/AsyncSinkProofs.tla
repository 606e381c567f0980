--------------------------- MODULE AsyncSinkProofs ---------------------------
(***************************************************************************)
(* AsyncSink, for every capacity, batch size, policy, set of clients and   *)
(* set of records, with an orderly or a racing destructor.  Every step of  *)
(* the sink is a step of the queue's general client or leaves the queue    *)
(* alone, so the queue's theorems carry over; what is left to prove here   *)
(* is about the worker's loop, the flush generations and the shutdown.     *)
(***************************************************************************)
EXTENDS AsyncSink, RingBufferQueueProofs

FlushPcs == {"kick", "kickNotify", "flushTest", "flushSleep"}

\* The worker sleeps only in wait_for_work and its batch is empty outside of
\* the write loop, a client inside of
\* enqueue has its record, and the queue is stopped once destruction begins.
CallsInOrder ==
  /\ notEmptyWaiters # {} => wpc = "wait"
  /\ wpc = "write" <=> batch # <<>>
  /\ \A c \in Producers : pc[c] = "enqueue" => rec[c] \in Records
  /\ opc # "alive" => stopRequested

\* The worker leaves its main loop only when the queue is stopped and empty,
\* and after that nothing can be queued; after the last flush of the wrapped
\* sink nothing is written to it.
ExitPath ==
  /\ wpc = "exited" => final
  /\ final => /\ stopRequested
              /\ ring.count = 0
              /\ wpc \in {"drain", "flush", "load", "store", "notify", "exited"}
              /\ wpc \in {"load", "store", "notify", "exited"} => covered = Len(handed)

\* A generation that is served, or about to be stored as served, belongs to
\* a flush() whose records the wrapped sink was flushed after.
Generations ==
  /\ flushDoneGen <= flushRequestGen
  /\ want <= flushRequestGen
  /\ covered <= Len(handed)
  /\ \A c \in Producers :
       /\ asked[c].handed <= Len(handed)
       /\ pc[c] \in FlushPcs /\ flushDoneGen >= gen[c] => covered >= asked[c].handed
       /\ pc[c] \in FlushPcs /\ wpc = "store" /\ want >= gen[c]
            => covered >= asked[c].handed

SinkInv ==
  /\ TypeOK
  /\ QueueInv
  /\ CallsInOrder
  /\ ExitPath
  /\ Generations
-----------------------------------------------------------------------------
(* The sink is a client of the queue. *)

\* dequeue_batch(batch, max_batch) for a max_batch beyond the capacity takes
\* what one for the whole queue takes.
LEMMA DequeueWithinCapacity ==
  ASSUME QueueInv, DequeueSome(MaxBatch)
  PROVE  \E max \in 1 .. Capacity + 1 : DequeueSome(max)
  <1>1. MaxBatch \in Nat /\ MaxBatch >= 1
    BY SinkAssumption DEF MaxBatch
  <1>2. ring.count \in 0 .. Capacity
    BY DEF QueueInv, QueueTypeOK, Rings
  <1>3. CASE MaxBatch <= Capacity
    BY <1>1, <1>3, CapacityPositive
  <1>4. CASE MaxBatch > Capacity
    <2>1. BatchSize(Capacity + 1) = BatchSize(MaxBatch)
      BY <1>1, <1>2, <1>4, CapacityPositive DEF BatchSize
    <2>2. DequeueSome(Capacity + 1)
      BY <2>1 DEF DequeueSome
    <2> QED BY <2>2, CapacityPositive
  <1> QED BY <1>1, <1>3, <1>4, CapacityPositive

LEMMA StepIsQueueStep == SinkInv /\ [Next]_vars => [QueueNext]_queueVars
  <1> SUFFICES ASSUME SinkInv, [Next]_vars PROVE QueueNext \/ UNCHANGED queueVars
    OBVIOUS
  <1>1. ASSUME NEW c \in Producers, Enqueue(c) PROVE QueueNext
    <2>1. rec[c] \in Records
      BY <1>1 DEF SinkInv, CallsInOrder, Enqueue
    <2>2. ProducerStep(c)
      BY <1>1, <2>1 DEF Enqueue, ProducerStep
    <2> QED BY <2>2 DEF QueueNext
  <1>2. CASE WorkerWait
    BY <1>2 DEF WorkerWait, QueueNext, ConsumerStep
  <1>3. CASE WorkerDrain
    <2>1. batch = <<>> /\ notEmptyWaiters \subseteq {Consumer}
      BY <1>3 DEF WorkerDrain, SinkInv, CallsInOrder, QueueInv, QueueTypeOK
    <2>2. DequeueSome(MaxBatch) => \E max \in 1 .. Capacity + 1 : DequeueSome(max)
      BY DequeueWithinCapacity DEF SinkInv
    <2>3. Consumer \notin notEmptyWaiters
      BY <1>3 DEF WorkerDrain, SinkInv, CallsInOrder
    <2>4. DequeueSome(MaxBatch) => ConsumerStep
      BY <2>1, <2>2, <2>3 DEF ConsumerStep
    <2> QED BY <1>3, <2>4 DEF WorkerDrain, QueueNext, DequeueNone
  <1>4. CASE WorkerWrite
    <2>1. Consumer \notin notEmptyWaiters
      BY <1>4 DEF SinkInv, CallsInOrder, WorkerWrite
    <2> QED BY <1>4, <2>1 DEF WorkerWrite, QueueNext, ConsumerStep
  <1>5. ASSUME NEW c \in Producers, FlushKick(c) \/ FlushKickNotify(c) PROVE QueueNext
    BY <1>5 DEF FlushKick, FlushKickNotify, QueueNext, ControlStep
  <1>6. CASE DestroyBegin \/ DestroyWakes
    BY <1>6 DEF DestroyBegin, DestroyWakes, QueueNext, ControlStep, SinkInv, CallsInOrder
  <1>7. ASSUME NEW t \in Producers \cup {Consumer}, QueueSpuriousWakeup(t) PROVE QueueNext
    BY <1>7 DEF QueueSpuriousWakeup, QueueNext
  <1>8. ASSUME NEW c \in Producers, ClientCall(c) PROVE UNCHANGED queueVars
    BY <1>8 DEF ClientCall, CallFlush, CallWrite
  <1>9. ASSUME NEW c \in Producers,
               Account(c) \/ FlushTest(c) \/ FlushSleep(c) \/ FlushSpuriousWakeup(c)
        PROVE  UNCHANGED queueVars
    BY <1>9 DEF Account, FlushTest, FlushSleep, FlushSpuriousWakeup
  <1>10. CASE WorkerLoad \/ WorkerFlush \/ WorkerStore \/ WorkerFence \/ WorkerNotify
    BY <1>10 DEF WorkerLoad, WorkerFlush, WorkerStore, WorkerFence, WorkerNotify
  <1>11. CASE DestroyJoin \/ Finished \/ UNCHANGED vars
    BY <1>11 DEF DestroyJoin, Finished, vars
  <1> QED
    BY <1>1, <1>2, <1>3, <1>4, <1>5, <1>6, <1>7, <1>8, <1>9, <1>10, <1>11
    DEF Next, ClientStep, WorkerStep
-----------------------------------------------------------------------------
(* The inductive invariant. *)

LEMMA SinkInvInit == Init => SinkInv
  <1> SUFFICES ASSUME Init PROVE SinkInv
    OBVIOUS
  <1>1. QueueInv
    BY QueueInvInit DEF Init
  <1>2. TypeOK
    <2>1. /\ asked \in [Producers -> [accepted : Nat, handed : Nat, before : Nat]]
          /\ result \in [Producers -> EnqueueResults]
          /\ accepted \in Seq(Records) /\ handed \in Seq(Records)
      BY DEF Init, EnqueueResults, NoLoss
    <2> QED BY <1>1, <2>1 DEF Init, TypeOK, QueueInv, ClientPcs, WorkerPcs, OwnerPcs
  <1>3. CallsInOrder
    BY DEF Init, QueueInit, CallsInOrder
  <1>4. ExitPath
    BY DEF Init, ExitPath
  <1>5. Generations
    BY DEF Init, Generations, FlushPcs
  <1> QED BY <1>1, <1>2, <1>3, <1>4, <1>5 DEF SinkInv

LEMMA SinkInvStep == SinkInv /\ [Next]_vars => SinkInv'
  <1> SUFFICES ASSUME SinkInv, [Next]_vars PROVE SinkInv'
    OBVIOUS
  <1> USE DEF queueVars, flushVars, workerVars, clientVars, historyVars
  <1>0. QueueInv' /\ QueueTypeOK'
    BY StepIsQueueStep, QueueInvStep DEF SinkInv, QueueInv
  <1>1. ASSUME NEW c \in Producers, NEW r \in Records, CallWrite(c, r) PROVE SinkInv'
    <2>1. TypeOK'
      BY <1>0, <1>1 DEF CallWrite, ClientPcs, SinkInv, TypeOK
    <2>2. CallsInOrder'
      BY <1>1 DEF CallWrite, SinkInv, TypeOK, CallsInOrder
    <2>3. ExitPath'
      BY <1>1 DEF CallWrite, SinkInv, ExitPath
    <2>4. Generations'
      BY <1>1 DEF CallWrite, SinkInv, TypeOK, Generations, FlushPcs
    <2> QED BY <1>0, <2>1, <2>2, <2>3, <2>4 DEF SinkInv
  <1>2. ASSUME NEW c \in Producers, Enqueue(c) PROVE SinkInv'
    <2>0. /\ rec[c] \in Records
          /\ QueueTypeOK /\ WellFormed(ring)
      BY <1>2, WellFormedRing DEF Enqueue, SinkInv, CallsInOrder, QueueInv
    <2>1. TypeOK'
      <3>1. pc' \in [Producers -> ClientPcs]
        BY <1>2 DEF Enqueue, EnqueueReturns, SinkInv, TypeOK, ClientPcs
      <3>2. rec' \in [Producers -> Records \cup {NoRecord}]
        BY <1>2 DEF Enqueue, EnqueueReturns, SinkInv, TypeOK
      <3>3. result' \in [Producers -> EnqueueResults]
        <4>1. /\ [enqueued |-> FALSE, dropped |-> 0] \in EnqueueResults
              /\ [enqueued |-> FALSE, dropped |-> 1] \in EnqueueResults
              /\ [enqueued |-> TRUE, dropped |-> 0] \in EnqueueResults
              /\ [enqueued |-> TRUE, dropped |-> 1] \in EnqueueResults
          BY DEF EnqueueResults
        <4>2. \A e \in EnqueueResults :
                [result EXCEPT ![c] = e] \in [Producers -> EnqueueResults]
          BY DEF SinkInv, TypeOK
        <4>3. result \in [Producers -> EnqueueResults]
          BY DEF SinkInv, TypeOK
        <4> QED BY <1>2, <4>1, <4>2, <4>3, Zenon DEF Enqueue, EnqueueReturns
      <3>4. accepted' \in Seq(Records)
        <4>1. accepted \in Seq(Records) /\ Append(accepted, rec[c]) \in Seq(Records)
          BY <2>0, AppendProperties DEF SinkInv, TypeOK
        <4> QED BY <1>2, <4>1 DEF Enqueue
      <3>5. EnqueueDropOldest(rec[c]) => Head(Contents(ring)) \in Records
        <4>1. Contents(ring) \in Seq(Records) /\ Len(Contents(ring)) = ring.count
          BY <2>0, ContentsType
        <4>2. EnqueueDropOldest(rec[c]) => ring.count # 0
          BY <2>0, CapacityPositive DEF EnqueueDropOldest, Full
        <4> QED BY <4>1, <4>2, HeadTailProperties
      <3>6. evicted' \subseteq Records
        BY <1>2, <3>5 DEF Enqueue, SinkInv, TypeOK
      <3> QED BY <1>0, <1>2, <3>1, <3>2, <3>3, <3>4, <3>6 DEF Enqueue, SinkInv, TypeOK
    <2>2. CallsInOrder'
      <3>1. notEmptyWaiters' \subseteq notEmptyWaiters /\ batch' = batch
            /\ stopRequested' = stopRequested
        BY <1>2 DEF Enqueue, EnqueueStopped, EnqueueWait, EnqueueDropNewest,
                    EnqueueDropOldest, EnqueuePush, NotifyOneNotEmpty
      <3>2. \A d \in Producers : pc'[d] = "enqueue" => rec'[d] \in Records
        BY <1>2, <2>0 DEF Enqueue, EnqueueReturns, SinkInv, TypeOK, CallsInOrder
      <3> QED BY <1>2, <3>1, <3>2 DEF Enqueue, SinkInv, CallsInOrder
    <2>3. ExitPath'
      BY <1>2 DEF Enqueue, EnqueueReturns, EnqueueStopped, EnqueueWait, EnqueueDropNewest,
          EnqueueDropOldest, EnqueuePush, SinkInv, ExitPath
    <2>4. Generations'
      BY <1>2 DEF Enqueue, EnqueueReturns, EnqueueStopped, EnqueueWait, EnqueueDropNewest,
          EnqueueDropOldest, EnqueuePush, SinkInv, TypeOK, Generations, FlushPcs
    <2> QED BY <1>0, <2>1, <2>2, <2>3, <2>4 DEF SinkInv
  <1>3. ASSUME NEW c \in Producers, Account(c) PROVE SinkInv'
    <2>1. TypeOK'
      <3>1. Drops(result[c]) \in Nat /\ NoLoss \in EnqueueResults
        <4>1. result[c] \in EnqueueResults
          BY DEF SinkInv, TypeOK
        <4>2. result[c].dropped \in Nat
          BY <4>1 DEF EnqueueResults
        <4> QED BY <4>2 DEF Drops, EnqueueResults, NoLoss
      <3>2. /\ pc' \in [Producers -> ClientPcs]
            /\ result' \in [Producers -> EnqueueResults]
            /\ droppedRecords' \in Nat
        BY <1>3, <3>1 DEF Account, ClientPcs, SinkInv, TypeOK
      <3> QED BY <1>0, <1>3, <3>2 DEF Account, SinkInv, TypeOK
    <2>2. CallsInOrder'
      BY <1>3 DEF Account, SinkInv, TypeOK, CallsInOrder
    <2>3. ExitPath'
      BY <1>3 DEF Account, SinkInv, ExitPath
    <2>4. Generations'
      BY <1>3 DEF Account, SinkInv, TypeOK, Generations, FlushPcs
    <2> QED BY <1>0, <2>1, <2>2, <2>3, <2>4 DEF SinkInv
  <1>4. ASSUME NEW c \in Producers, CallFlush(c) PROVE SinkInv'
    <2>1. TypeOK'
      <3>1. QueueTypeOK'
        BY <1>0 DEF QueueInv
      <3>2. pc' \in [Producers -> ClientPcs] /\ gen' \in [Producers -> Nat]
        BY <1>4 DEF CallFlush, ClientPcs, SinkInv, TypeOK
      <3>3. asked' \in [Producers -> [accepted : Nat, handed : Nat, before : Nat]]
        <4>1. Len(accepted) \in Nat /\ Len(handed) \in Nat /\ asked[c].accepted \in Nat
          BY DEF SinkInv, TypeOK
        <4> QED BY <1>4, <4>1 DEF CallFlush, SinkInv, TypeOK
      <3>4. flushRequestGen' \in Nat
        BY <1>4 DEF CallFlush, SinkInv, TypeOK
      <3> QED BY <1>4, <3>1, <3>2, <3>3, <3>4 DEF CallFlush, SinkInv, TypeOK
    <2>2. CallsInOrder'
      BY <1>4 DEF CallFlush, SinkInv, TypeOK, CallsInOrder
    <2>3. ExitPath'
      BY <1>4 DEF CallFlush, SinkInv, ExitPath
    <2>4. Generations'
      BY <1>4 DEF CallFlush, SinkInv, TypeOK, Generations, FlushPcs
    <2> QED BY <1>0, <2>1, <2>2, <2>3, <2>4 DEF SinkInv
  <1>5. ASSUME NEW c \in Producers, FlushKick(c) PROVE SinkInv'
    <2>1. TypeOK'
      BY <1>0, <1>5 DEF FlushKick, KickForFlush, ClientPcs, SinkInv, TypeOK
    <2>2. CallsInOrder'
      BY <1>5 DEF FlushKick, KickForFlush, SinkInv, TypeOK, CallsInOrder
    <2>3. ExitPath'
      BY <1>5 DEF FlushKick, KickForFlush, SinkInv, ExitPath
    <2>4. Generations'
      BY <1>5 DEF FlushKick, KickForFlush, SinkInv, TypeOK, Generations, FlushPcs
    <2> QED BY <1>0, <2>1, <2>2, <2>3, <2>4 DEF SinkInv
  <1>6. ASSUME NEW c \in Producers, FlushKickNotify(c) PROVE SinkInv'
    <2>1. TypeOK'
      BY <1>0, <1>6 DEF FlushKickNotify, NotifyAllNotEmpty, ClientPcs, SinkInv, TypeOK
    <2>2. CallsInOrder'
      BY <1>6 DEF FlushKickNotify, NotifyAllNotEmpty, SinkInv, TypeOK, CallsInOrder
    <2>3. ExitPath'
      BY <1>6 DEF FlushKickNotify, NotifyAllNotEmpty, SinkInv, ExitPath
    <2>4. Generations'
      BY <1>6 DEF FlushKickNotify, NotifyAllNotEmpty, SinkInv, TypeOK, Generations, FlushPcs
    <2> QED BY <1>0, <2>1, <2>2, <2>3, <2>4 DEF SinkInv
  <1>7. ASSUME NEW c \in Producers, FlushTest(c) PROVE SinkInv'
    <2>1. TypeOK'
      BY <1>0, <1>7 DEF FlushTest, ClientPcs, SinkInv, TypeOK
    <2>2. CallsInOrder'
      BY <1>7 DEF FlushTest, SinkInv, TypeOK, CallsInOrder
    <2>3. ExitPath'
      BY <1>7 DEF FlushTest, SinkInv, ExitPath
    <2>4. Generations'
      BY <1>7 DEF FlushTest, SinkInv, TypeOK, Generations, FlushPcs
    <2> QED BY <1>0, <2>1, <2>2, <2>3, <2>4 DEF SinkInv
  <1>8. ASSUME NEW c \in Producers, FlushSleep(c) PROVE SinkInv'
    <2>1. TypeOK'
      BY <1>0, <1>8 DEF FlushSleep, ClientPcs, SinkInv, TypeOK
    <2>2. CallsInOrder'
      BY <1>8 DEF FlushSleep, SinkInv, TypeOK, CallsInOrder
    <2>3. ExitPath'
      BY <1>8 DEF FlushSleep, SinkInv, ExitPath
    <2>4. Generations'
      BY <1>8 DEF FlushSleep, SinkInv, TypeOK, Generations, FlushPcs
    <2> QED BY <1>0, <2>1, <2>2, <2>3, <2>4 DEF SinkInv
  <1>9. CASE WorkerWait
    <2>1. TypeOK'
      BY <1>0, <1>9 DEF WorkerWait, WaitForWorkBlocks, WaitForWorkReturns, WorkerPcs,
          SinkInv, TypeOK
    <2>2. CallsInOrder'
      <3>1. notEmptyWaiters = {}
        BY <1>9 DEF WorkerWait, SinkInv, TypeOK, QueueTypeOK
      <3> QED BY <1>9, <3>1 DEF WorkerWait, WaitForWorkBlocks, WaitForWorkReturns, SinkInv,
                                CallsInOrder
    <2>3. ExitPath'
      <3>1. ~final
        BY <1>9 DEF WorkerWait, SinkInv, ExitPath
      <3>2. CASE WaitForWorkBlocks /\ UNCHANGED <<wpc, final>>
        BY <1>9, <3>1, <3>2 DEF WorkerWait, ExitPath
      <3>3. CASE /\ WaitForWorkReturns /\ wpc' = "drain"
                 /\ final' = (stopRequested /\ ring.count = 0)
        BY <3>3 DEF WaitForWorkReturns, ExitPath
      <3> QED BY <1>9, <3>2, <3>3 DEF WorkerWait
    <2>4. Generations'
      BY <1>9 DEF WorkerWait, WaitForWorkBlocks, WaitForWorkReturns, SinkInv, TypeOK,
          Generations, FlushPcs
    <2> QED BY <1>0, <2>1, <2>2, <2>3, <2>4 DEF SinkInv
  <1>10. CASE WorkerDrain
    <2>1. TypeOK'
      BY <1>0, <1>10 DEF WorkerDrain, DequeueSome, DequeueNone, WorkerPcs, SinkInv, TypeOK
    <2>2. CallsInOrder'
      <3>1. batch = <<>>
        BY <1>10 DEF WorkerDrain, SinkInv, CallsInOrder
      <3>2. ASSUME DequeueSome(MaxBatch) PROVE batch' # <<>>
        <4>1. BatchSize(MaxBatch) \in 1 .. ring.count
          <5>1. QueueTypeOK /\ ring.count > 0
            BY <3>2 DEF DequeueSome, SinkInv, QueueInv
          <5>2. MaxBatch \in Nat /\ MaxBatch >= 1
            BY SinkAssumption DEF MaxBatch
          <5> QED BY <5>1, <5>2, BatchSizeRange
        <4>2. Len(SubSeq(Contents(ring), 1, BatchSize(MaxBatch))) = BatchSize(MaxBatch)
          <5>1. QueueTypeOK /\ RingConsistent
            BY DEF SinkInv, QueueInv
          <5> QED BY <4>1, <5>1, TakenIsSequence
        <4>3. batch' = SubSeq(Contents(ring), 1, BatchSize(MaxBatch))
          BY <3>1, <3>2, <4>1, TakenIsSequence, ConcatEmptySeq DEF DequeueSome, SinkInv,
              QueueInv
        <4>4. BatchSize(MaxBatch) # 0 /\ Len(<<>>) = 0
          BY <4>1
        <4> QED BY <4>2, <4>3, <4>4, Zenon
      <3>3. CASE DequeueSome(MaxBatch) /\ wpc' = "write"
        BY <1>10, <3>2, <3>3 DEF WorkerDrain, DequeueSome, SinkInv, CallsInOrder
      <3>4. CASE DequeueNone /\ wpc' = IF final THEN "flush" ELSE "load"
        BY <1>10, <3>1, <3>4 DEF WorkerDrain, DequeueNone, SinkInv, CallsInOrder
      <3> QED BY <1>10, <3>3, <3>4 DEF WorkerDrain
    <2>3. ExitPath'
      BY <1>10 DEF WorkerDrain, DequeueSome, DequeueNone, SinkInv, ExitPath
    <2>4. Generations'
      BY <1>10 DEF WorkerDrain, DequeueSome, DequeueNone, SinkInv, TypeOK, Generations,
          FlushPcs
    <2> QED BY <1>0, <2>1, <2>2, <2>3, <2>4 DEF SinkInv
  <1>11. CASE WorkerWrite
    <2>1. TypeOK'
      <3>1. handed' \in Seq(Records)
        <4>1. batch \in Seq(Records) /\ batch # <<>>
          BY <1>11 DEF WorkerWrite, UseRecord, SinkInv, TypeOK, QueueTypeOK
        <4>2. Head(batch) \in Records
          BY <4>1, HeadTailProperties
        <4> QED BY <1>11, <4>2, AppendProperties DEF WorkerWrite, SinkInv, TypeOK
      <3>2. sinkFailures' \in Nat
        BY <1>11 DEF WorkerWrite, WrappedCall, SinkInv, TypeOK
      <3>3. wpc' \in WorkerPcs
        BY <1>11 DEF WorkerWrite, WorkerPcs
      <3> QED BY <1>0, <1>11, <3>1, <3>2, <3>3 DEF WorkerWrite, SinkInv, TypeOK
    <2>2. CallsInOrder'
      <3>1. batch \in Seq(Records) /\ batch # <<>>
        BY <1>11 DEF WorkerWrite, UseRecord, SinkInv, TypeOK, QueueTypeOK
      <3>2. Tail(batch) \in Seq(Records) /\ Len(Tail(batch)) = Len(batch) - 1
        BY <3>1, HeadTailProperties
      <3>3. Len(batch) \in Nat
        BY <3>1, LenProperties
      <3>4. Len(batch) = 1 <=> Tail(batch) = <<>>
        <4>1. Tail(batch) # <<>> => Len(Tail(batch)) \in Nat \ {0}
          BY <3>2, EmptySeq
        <4>2. Tail(batch) = <<>> => Len(Tail(batch)) = 0
          BY EmptySeq
        <4> QED BY <3>2, <3>3, <4>1, <4>2
      <3> QED BY <1>11, <3>4 DEF WorkerWrite, UseRecord, SinkInv, CallsInOrder
    <2>3. ExitPath'
      BY <1>11 DEF WorkerWrite, WrappedCall, UseRecord, SinkInv, ExitPath
    <2>4. Generations'
      BY <1>11 DEF WorkerWrite, WrappedCall, UseRecord, SinkInv, TypeOK, Generations, FlushPcs
    <2> QED BY <1>0, <2>1, <2>2, <2>3, <2>4 DEF SinkInv
  <1>12. CASE WorkerLoad
    <2>1. TypeOK'
      BY <1>0, <1>12 DEF WorkerLoad, WorkerPcs, SinkInv, TypeOK
    <2>2. CallsInOrder'
      BY <1>12 DEF WorkerLoad, SinkInv, TypeOK, CallsInOrder
    <2>3. ExitPath'
      BY <1>12 DEF WorkerLoad, SinkInv, ExitPath
    <2>4. Generations'
      BY <1>12 DEF WorkerLoad, SinkInv, TypeOK, ExitPath, Generations, FlushPcs
    <2> QED BY <1>0, <2>1, <2>2, <2>3, <2>4 DEF SinkInv
  <1>13. CASE WorkerFlush
    <2>1. TypeOK'
      BY <1>0, <1>13 DEF WorkerFlush, WrappedCall, WorkerPcs, SinkInv, TypeOK
    <2>2. CallsInOrder'
      BY <1>13 DEF WorkerFlush, WrappedCall, SinkInv, TypeOK, CallsInOrder
    <2>3. ExitPath'
      BY <1>13 DEF WorkerFlush, WrappedCall, SinkInv, ExitPath
    <2>4. Generations'
      BY <1>13 DEF WorkerFlush, WrappedCall, SinkInv, TypeOK, Generations, FlushPcs
    <2> QED BY <1>0, <2>1, <2>2, <2>3, <2>4 DEF SinkInv
  <1>14. CASE WorkerStore
    <2>1. TypeOK'
      BY <1>0, <1>14 DEF WorkerStore, WorkerPcs, SinkInv, TypeOK
    <2>2. CallsInOrder'
      BY <1>14 DEF WorkerStore, SinkInv, TypeOK, CallsInOrder
    <2>3. ExitPath'
      BY <1>14 DEF WorkerStore, SinkInv, ExitPath
    <2>4. Generations'
      BY <1>14 DEF WorkerStore, SinkInv, TypeOK, Generations, FlushPcs
    <2> QED BY <1>0, <2>1, <2>2, <2>3, <2>4 DEF SinkInv
  <1>15. CASE WorkerFence
    <2>1. TypeOK'
      BY <1>0, <1>15 DEF WorkerFence, WorkerPcs, SinkInv, TypeOK
    <2>2. CallsInOrder'
      BY <1>15 DEF WorkerFence, SinkInv, TypeOK, CallsInOrder
    <2>3. ExitPath'
      BY <1>15 DEF WorkerFence, SinkInv, ExitPath
    <2>4. Generations'
      BY <1>15 DEF WorkerFence, SinkInv, TypeOK, Generations, FlushPcs
    <2> QED BY <1>0, <2>1, <2>2, <2>3, <2>4 DEF SinkInv
  <1>16. CASE WorkerNotify
    <2>1. TypeOK'
      BY <1>0, <1>16 DEF WorkerNotify, WorkerPcs, SinkInv, TypeOK
    <2>2. CallsInOrder'
      BY <1>16 DEF WorkerNotify, SinkInv, TypeOK, CallsInOrder
    <2>3. ExitPath'
      BY <1>16 DEF WorkerNotify, SinkInv, ExitPath
    <2>4. Generations'
      BY <1>16 DEF WorkerNotify, SinkInv, TypeOK, Generations, FlushPcs
    <2> QED BY <1>0, <2>1, <2>2, <2>3, <2>4 DEF SinkInv
  <1>17. CASE DestroyBegin
    <2>1. TypeOK'
      BY <1>0, <1>17 DEF DestroyBegin, RequestStop, OwnerPcs, SinkInv, TypeOK
    <2>2. CallsInOrder'
      BY <1>17 DEF DestroyBegin, RequestStop, SinkInv, TypeOK, CallsInOrder
    <2>3. ExitPath'
      BY <1>17 DEF DestroyBegin, RequestStop, SinkInv, ExitPath
    <2>4. Generations'
      BY <1>17 DEF DestroyBegin, RequestStop, SinkInv, TypeOK, Generations, FlushPcs
    <2> QED BY <1>0, <2>1, <2>2, <2>3, <2>4 DEF SinkInv
  <1>18. CASE DestroyWakes
    <2>1. TypeOK'
      BY <1>0, <1>18 DEF DestroyWakes, NotifyAllNotEmpty, RequestStopWakesProducers,
          KickForFlush, OwnerPcs, SinkInv, TypeOK
    <2>2. CallsInOrder'
      BY <1>18 DEF DestroyWakes, NotifyAllNotEmpty, RequestStopWakesProducers,
          KickForFlush, SinkInv, TypeOK, CallsInOrder
    <2>3. ExitPath'
      BY <1>18 DEF DestroyWakes, NotifyAllNotEmpty, RequestStopWakesProducers,
          KickForFlush, SinkInv, ExitPath
    <2>4. Generations'
      BY <1>18 DEF DestroyWakes, NotifyAllNotEmpty, RequestStopWakesProducers,
          KickForFlush, SinkInv, TypeOK, Generations, FlushPcs
    <2> QED BY <1>0, <2>1, <2>2, <2>3, <2>4 DEF SinkInv
  <1>19. CASE DestroyJoin
    <2>1. TypeOK'
      BY <1>0, <1>19 DEF DestroyJoin, OwnerPcs, SinkInv, TypeOK
    <2>2. CallsInOrder'
      BY <1>19 DEF DestroyJoin, SinkInv, TypeOK, CallsInOrder
    <2>3. ExitPath'
      BY <1>19 DEF DestroyJoin, SinkInv, ExitPath
    <2>4. Generations'
      BY <1>19 DEF DestroyJoin, SinkInv, TypeOK, Generations, FlushPcs
    <2> QED BY <1>0, <2>1, <2>2, <2>3, <2>4 DEF SinkInv
  <1>20. ASSUME NEW c \in Producers, FlushSpuriousWakeup(c) PROVE SinkInv'
    <2>1. TypeOK'
      BY <1>0, <1>20 DEF FlushSpuriousWakeup, SinkInv, TypeOK
    <2>2. CallsInOrder'
      BY <1>20 DEF FlushSpuriousWakeup, SinkInv, TypeOK, CallsInOrder
    <2>3. ExitPath'
      BY <1>20 DEF FlushSpuriousWakeup, SinkInv, ExitPath
    <2>4. Generations'
      BY <1>20 DEF FlushSpuriousWakeup, SinkInv, TypeOK, Generations, FlushPcs
    <2> QED BY <1>0, <2>1, <2>2, <2>3, <2>4 DEF SinkInv
  <1>21. ASSUME NEW t \in Producers \cup {Consumer}, QueueSpuriousWakeup(t) PROVE SinkInv'
    <2>1. TypeOK'
      BY <1>0, <1>21 DEF QueueSpuriousWakeup, SpuriousWakeup, SinkInv, TypeOK
    <2>2. CallsInOrder'
      BY <1>21 DEF QueueSpuriousWakeup, SpuriousWakeup, SinkInv, TypeOK, CallsInOrder
    <2>3. ExitPath'
      BY <1>21 DEF QueueSpuriousWakeup, SpuriousWakeup, SinkInv, ExitPath
    <2>4. Generations'
      BY <1>21 DEF QueueSpuriousWakeup, SpuriousWakeup, SinkInv, TypeOK, Generations, FlushPcs
    <2> QED BY <1>0, <2>1, <2>2, <2>3, <2>4 DEF SinkInv
  <1>22. CASE Finished \/ UNCHANGED vars
    <2>0. UNCHANGED vars
      BY <1>22 DEF Finished
    <2>1. TypeOK'
      <3>1. QueueTypeOK'
        BY <1>0 DEF QueueInv
      <3> QED BY <2>0, <3>1 DEF vars, SinkInv, TypeOK
    <2>2. CallsInOrder'
      BY <2>0 DEF vars, SinkInv, CallsInOrder
    <2>3. ExitPath'
      BY <2>0 DEF vars, SinkInv, ExitPath
    <2>4. Generations'
      BY <2>0 DEF vars, SinkInv, Generations
    <2> QED BY <1>0, <2>1, <2>2, <2>3, <2>4 DEF SinkInv
  <1> QED
    BY <1>1, <1>2, <1>3, <1>4, <1>5, <1>6, <1>7, <1>8, <1>9, <1>10, <1>11, <1>12, <1>13,
        <1>14, <1>15, <1>16, <1>17, <1>18, <1>19, <1>20, <1>21, <1>22
    DEF Next, ClientCall, ClientStep, WorkerStep

LEMMA SinkInvariance == Spec => []SinkInv
  <1>1. Init => SinkInv
    BY SinkInvInit
  <1>2. SinkInv /\ [Next]_vars => SinkInv'
    BY SinkInvStep
  <1> QED BY <1>1, <1>2, PTL DEF Spec
-----------------------------------------------------------------------------
(* The results. *)

\* Every variable of the sink keeps its type.
THEOREM SinkTypeCorrect == Spec => []TypeOK
  <1>1. SinkInv => TypeOK
    BY DEF SinkInv
  <1> QED BY <1>1, SinkInvariance, PTL

\* The sink never uses the queue other than its general client may, so that
\* the queue's theorems hold inside of the sink.
THEOREM SinkUsesQueue == Spec => QueueSpec
  <1>1. Init => QueueInit
    BY DEF Init
  <1>2. SinkInv /\ [Next]_vars => [QueueNext]_queueVars
    BY StepIsQueueStep
  <1> QED BY <1>1, <1>2, SinkInvariance, PTL DEF Spec, QueueSpec

\* The queue of the sink is a bounded FIFO queue.
COROLLARY SinkQueueIsFifo == Spec => ImplementsFifo
  BY SinkUsesQueue, RingBufferImplementsFifo, PTL

\* The worker thread ends with nothing queued and nothing unflushed.
THEOREM WorkerLeavesNothing == Spec => []NothingStranded
  <1>1. SinkInv => NothingStranded
    BY DEF SinkInv, CallsInOrder, ExitPath, NothingStranded
  <1> QED BY <1>1, SinkInvariance, PTL

\* flush() returns from its wait, with the predicate true.
LEMMA FlushReturnsFromTest ==
  ASSUME SinkInv, Next, NEW c \in Producers, FlushReturnsTo(c)
  PROVE  FlushTest(c)
  <1>1. pc' # pc
    BY DEF FlushReturnsTo, SinkInv, TypeOK
  <1>2. \E d \in Producers : ClientCall(d) \/ ClientStep(d)
    BY <1>1 DEF Next, WorkerStep, WorkerWait, WorkerDrain, WorkerWrite, WorkerLoad,
                WorkerFlush, WorkerStore, WorkerFence, WorkerNotify, DestroyBegin,
                DestroyWakes, DestroyJoin, FlushSpuriousWakeup, QueueSpuriousWakeup,
                Finished, vars, clientVars
  <1>3. PICK d \in Producers : ClientCall(d) \/ ClientStep(d)
    BY <1>2
  <1>4. d = c
    BY <1>3 DEF ClientCall, ClientStep, CallFlush, CallWrite, Enqueue, EnqueueReturns,
                Account, FlushKick, FlushKickNotify, FlushTest, FlushSleep,
                FlushReturnsTo, SinkInv, TypeOK
  <1> QED BY <1>3, <1>4 DEF ClientCall, ClientStep, CallFlush, CallWrite, Enqueue,
                Account, FlushKick, FlushKickNotify, FlushSleep, FlushReturnsTo

\* flush() returns after the wrapped sink was flushed behind every record
\* that it had been handed when flush() was called.
THEOREM FlushCovers == Spec => FlushCoversHanded
  <1>1. SinkInv /\ [Next]_vars =>
          [\A c \in Producers : FlushReturnsTo(c) => covered >= asked[c].handed]_vars
    <2> SUFFICES ASSUME SinkInv, Next, NEW c \in Producers, FlushReturnsTo(c)
                 PROVE  covered >= asked[c].handed
      OBVIOUS
    <2>1. FlushTest(c)
      BY FlushReturnsFromTest
    <2> QED BY <2>1 DEF FlushTest, Served, FlushReturnsTo, SinkInv, TypeOK, Generations,
                          FlushPcs
  <1> QED BY <1>1, SinkInvariance, PTL DEF Spec, FlushCoversHanded
=============================================================================
