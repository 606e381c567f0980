------------------------------ MODULE AsyncSink ------------------------------
(***************************************************************************)
(* AsyncSink: client threads enqueue copies of their records, one worker   *)
(* thread drains the queue into the wrapped sink, flush() waits until the  *)
(* worker has served a flush generation, and the destructor stops and      *)
(* joins the worker.                                                       *)
(*                                                                         *)
(* Each client runs one call at a time; pc names the statement it is       *)
(* about to execute.  The steps of the queue are those of RingBufferQueue. *)
(* flush_done_gen_ is stored without holding flush_m, so evaluating the    *)
(* predicate of flush_cv.wait and going to sleep are two steps, with       *)
(* flush_m held from the first to the second.                              *)
(***************************************************************************)
EXTENDS RingBufferQueue, FiniteSets

CONSTANTS MaxBatchArg,    \* AsyncOptions::max_batch
          NoThread,       \* flush_m is free
          ConcurrentStop, \* TRUE: the destructor may overlap calls in progress
          MaxFlushes,     \* bound: flush() calls in a behaviour
          MaxFailures     \* bound: exceptions thrown by the wrapped sink

ASSUME SinkAssumption ==
  /\ MaxBatchArg \in Nat
  /\ IsFiniteSet(Producers)
  /\ NoThread \notin Producers
  /\ ConcurrentStop \in BOOLEAN
  /\ MaxFlushes \in Nat
  /\ MaxFailures \in Nat

VARIABLES flushRequestGen, \* flush_request_gen_
          flushDoneGen,    \* flush_done_gen_
          droppedRecords,  \* dropped_records_count_
          sinkFailures,    \* sink_failures_count_
          flushMutex,      \* the holder of flush_m, or NoThread
          flushWaiters,    \* clients blocked on flush_cv
          wpc,             \* the worker's next statement
          final,           \* TRUE once the worker has left its main loop
          want,            \* the worker's local want
          lastSeen,        \* the worker's local last_seen_flush_gen
          pc,              \* each client's next statement
          rec,             \* the record of each client's current write()
          result,          \* the EnqueueResult of each client's current write()
          gen,             \* the local gen of each client's flush()
          opc              \* the owner's progress through the destructor

\* What happened, kept for the properties only.
VARIABLES submitted,       \* records passed to write()
          accepted,        \* records in the order the queue accepted them
          evicted,         \* accepted records given up by DropOldest
          handed,          \* records passed to the wrapped sink, in order
          covered,         \* Len(handed) at the last flush() of the wrapped sink
          asked            \* what each client could expect from its flush()

flushVars   == <<flushRequestGen, flushDoneGen, flushMutex, flushWaiters>>
workerVars  == <<wpc, final, want, lastSeen>>
clientVars  == <<pc, rec, result, gen>>
historyVars == <<submitted, accepted, evicted, handed, covered, asked>>

vars == <<queueVars, flushVars, workerVars, clientVars, opc,
          droppedRecords, sinkFailures, historyVars>>

\* The constructor turns a max_batch of 0 into 1.
MaxBatch == IF MaxBatchArg = 0 THEN 1 ELSE MaxBatchArg

EnqueueResults == [enqueued : BOOLEAN, dropped : 0 .. 1]

\* The result with nothing to count, also the value outside of write().
NoLoss == [enqueued |-> TRUE, dropped |-> 0]

AllIdle == \A c \in Producers : pc[c] = "idle"
-----------------------------------------------------------------------------
(* write() *)

CallWrite(c, r) ==
  /\ opc = "alive" /\ pc[c] = "idle"
  /\ r \in Records \ submitted
  /\ submitted' = submitted \cup {r}
  /\ rec' = [rec EXCEPT ![c] = r]
  /\ pc' = [pc EXCEPT ![c] = "enqueue"]
  /\ UNCHANGED <<queueVars, flushVars, workerVars, result, gen, opc, droppedRecords,
                 sinkFailures, accepted, evicted, handed, covered, asked>>

\* enqueue returns; only a loss leaves write() with something to count.
EnqueueReturns(c, enqueued, dropped) ==
  /\ rec' = [rec EXCEPT ![c] = NoRecord]
  /\ result' = [result EXCEPT ![c] = [enqueued |-> enqueued, dropped |-> dropped]]
  /\ pc' = [pc EXCEPT ![c] = IF enqueued /\ dropped = 0 THEN "idle" ELSE "account"]

Enqueue(c) ==
  /\ pc[c] = "enqueue" /\ c \notin notFullWaiters
  /\ \/ /\ EnqueueStopped
        /\ EnqueueReturns(c, FALSE, 0)
        /\ UNCHANGED <<accepted, evicted>>
     \/ /\ EnqueueWait(c)
        /\ UNCHANGED <<pc, rec, result, accepted, evicted>>
     \/ /\ EnqueueDropNewest
        /\ EnqueueReturns(c, FALSE, 1)
        /\ UNCHANGED <<accepted, evicted>>
     \/ /\ EnqueueDropOldest(rec[c])
        /\ EnqueueReturns(c, TRUE, 1)
        /\ accepted' = Append(accepted, rec[c])
        /\ evicted' = evicted \cup {Head(Contents(ring))}
     \/ /\ EnqueuePush(rec[c])
        /\ EnqueueReturns(c, TRUE, 0)
        /\ accepted' = Append(accepted, rec[c])
        /\ UNCHANGED evicted
  /\ UNCHANGED <<flushVars, workerVars, gen, opc, droppedRecords,
                 sinkFailures, submitted, handed, covered, asked>>

\* A plausible slip: a drop is counted only when the caller's record is lost.
Drops_OwnOnly(res) == IF res.enqueued THEN 0 ELSE 1

\* A plausible slip: a refusal is counted on top of its overflow drop.
Drops_Twice(res) == res.dropped + (IF ~res.enqueued THEN 1 ELSE 0)

\* A plausible slip: a refusal by a stopping queue is not counted.
Drops_OverflowOnly(res) == res.dropped

\* What write() adds to dropped_records_count_: the overflow drops, and one
\* for a record that a stopping queue refused.
Drops(res) ==
  IF res.dropped > 0 THEN res.dropped ELSE IF ~res.enqueued THEN 1 ELSE 0

Account(c) ==
  /\ pc[c] = "account"
  /\ droppedRecords' = droppedRecords + Drops(result[c])
  /\ result' = [result EXCEPT ![c] = NoLoss]
  /\ pc' = [pc EXCEPT ![c] = "idle"]
  /\ UNCHANGED <<queueVars, flushVars, workerVars, rec, gen, opc, sinkFailures,
                 historyVars>>
-----------------------------------------------------------------------------
(* flush() *)

CallFlush(c) ==
  /\ opc = "alive" /\ pc[c] = "idle"
  /\ flushRequestGen < MaxFlushes
  /\ flushRequestGen' = flushRequestGen + 1
  /\ gen' = [gen EXCEPT ![c] = flushRequestGen + 1]
  /\ pc' = [pc EXCEPT ![c] = "kick"]
  /\ asked' = [asked EXCEPT ![c] = [accepted |-> Len(accepted),
                                    handed   |-> Len(handed),
                                    before   |-> asked[c].accepted]]
  /\ UNCHANGED <<queueVars, flushDoneGen, flushMutex, flushWaiters, workerVars, rec, result,
                 opc, droppedRecords, sinkFailures, submitted, accepted, evicted, handed, covered>>

FlushKick(c) ==
  /\ pc[c] = "kick"
  /\ KickForFlush
  /\ pc' = [pc EXCEPT ![c] = "kickNotify"]
  /\ UNCHANGED <<flushVars, workerVars, rec, result, gen, opc, droppedRecords,
                 sinkFailures, historyVars>>

FlushKickNotify(c) ==
  /\ pc[c] = "kickNotify"
  /\ NotifyAllNotEmpty
  /\ pc' = [pc EXCEPT ![c] = "flushTest"]
  /\ UNCHANGED <<flushVars, workerVars, rec, result, gen, opc, droppedRecords,
                 sinkFailures, historyVars>>

\* A plausible slip: the previous generation is taken for the caller's.
Served_OffByOne(c) == flushDoneGen + 1 >= gen[c]

Served(c) == flushDoneGen >= gen[c]

\* Lock flush_m, at the call or after a wakeup, and evaluate the predicate.
FlushTest(c) ==
  /\ pc[c] = "flushTest" /\ c \notin flushWaiters
  /\ flushMutex = NoThread
  /\ \/ /\ Served(c)
        /\ pc' = [pc EXCEPT ![c] = "idle"]
        /\ UNCHANGED flushMutex
     \/ /\ ~Served(c)
        /\ pc' = [pc EXCEPT ![c] = "flushSleep"]
        /\ flushMutex' = c
  /\ UNCHANGED <<queueVars, flushRequestGen, flushDoneGen, flushWaiters, workerVars, rec,
                 result, gen, opc, droppedRecords, sinkFailures, historyVars>>

\* The predicate was false: block on flush_cv and release flush_m.
FlushSleep(c) ==
  /\ pc[c] = "flushSleep"
  /\ flushWaiters' = flushWaiters \cup {c}
  /\ flushMutex' = NoThread
  /\ pc' = [pc EXCEPT ![c] = "flushTest"]
  /\ UNCHANGED <<queueVars, flushRequestGen, flushDoneGen, workerVars, rec, result, gen,
                 opc, droppedRecords, sinkFailures, historyVars>>
-----------------------------------------------------------------------------
(* worker_loop_() *)

\* A plausible slip: the loop is left while there are records, not without.
WorkerWait_Inverted ==
  /\ wpc = "wait" /\ Consumer \notin notEmptyWaiters
  /\ \/ WaitForWorkBlocks /\ UNCHANGED <<wpc, final>>
     \/ /\ WaitForWorkReturns
        /\ final' = (stopRequested /\ ring.count > 0)
        /\ wpc' = "drain"
  /\ UNCHANGED <<flushVars, want, lastSeen, clientVars, opc, droppedRecords,
                 sinkFailures, historyVars>>

\* Block, or leave wait_for_work and, still holding m_, test for the break.
WorkerWait ==
  /\ wpc = "wait" /\ Consumer \notin notEmptyWaiters
  /\ \/ WaitForWorkBlocks /\ UNCHANGED <<wpc, final>>
     \/ /\ WaitForWorkReturns
        /\ final' = (stopRequested /\ ring.count = 0)
        /\ wpc' = "drain"
  /\ UNCHANGED <<flushVars, want, lastSeen, clientVars, opc, droppedRecords,
                 sinkFailures, historyVars>>

\* One dequeue_batch of either drain loop.
WorkerDrain ==
  /\ wpc = "drain"
  /\ \/ DequeueSome(MaxBatch) /\ wpc' = "write"
     \/ DequeueNone /\ wpc' = IF final THEN "flush" ELSE "load"
  /\ UNCHANGED <<flushVars, final, want, lastSeen, clientVars, opc, droppedRecords,
                 sinkFailures, historyVars>>

\* The wrapped sink returns, or throws and the exception is counted.
WrappedCall ==
  \/ UNCHANGED sinkFailures
  \/ sinkFailures < MaxFailures /\ sinkFailures' = sinkFailures + 1

\* A plausible slip: one batch is written per wakeup instead of all.
WorkerWrite_OneBatch ==
  /\ wpc = "write"
  /\ handed' = Append(handed, Head(batch))
  /\ WrappedCall
  /\ UseRecord
  /\ wpc' = IF Len(batch) = 1 THEN "load" ELSE "write"
  /\ UNCHANGED <<flushVars, final, want, lastSeen, clientVars, opc, droppedRecords,
                 submitted, accepted, evicted, covered, asked>>

WorkerWrite ==
  /\ wpc = "write"
  /\ handed' = Append(handed, Head(batch))
  /\ WrappedCall
  /\ UseRecord
  /\ wpc' = IF Len(batch) = 1 THEN "drain" ELSE "write"
  /\ UNCHANGED <<flushVars, final, want, lastSeen, clientVars, opc, droppedRecords,
                 submitted, accepted, evicted, covered, asked>>

WorkerLoad ==
  /\ wpc = "load"
  /\ want' = flushRequestGen
  /\ wpc' = IF final THEN "store"
            ELSE IF flushRequestGen # lastSeen THEN "flush" ELSE "wait"
  /\ UNCHANGED <<queueVars, flushVars, final, lastSeen, clientVars, opc, droppedRecords,
                 sinkFailures, historyVars>>

\* wrapped_->flush(): in the main loop after want is read, at the end before.
WorkerFlush ==
  /\ wpc = "flush"
  /\ covered' = Len(handed)
  /\ WrappedCall
  /\ wpc' = IF final THEN "load" ELSE "store"
  /\ UNCHANGED <<queueVars, flushVars, final, want, lastSeen, clientVars, opc,
                 droppedRecords, submitted, accepted, evicted, handed, asked>>

\* flush_done_gen_ = want.  The main loop goes on to lock and unlock flush_m;
\* the exit path notifies at once.
WorkerStore ==
  /\ wpc = "store"
  /\ flushDoneGen' = want
  /\ lastSeen' = IF final THEN lastSeen ELSE want
  /\ wpc' = IF final THEN "notify" ELSE "fence"
  /\ UNCHANGED <<queueVars, flushRequestGen, flushMutex, flushWaiters, final, want,
                 clientVars, opc, droppedRecords, sinkFailures, historyVars>>

\* A plausible slip: flush_m is not locked before the notification.
WorkerFence_NoLock ==
  /\ wpc = "fence"
  /\ wpc' = "notify"
  /\ UNCHANGED <<queueVars, flushVars, final, want, lastSeen, clientVars, opc,
                 droppedRecords, sinkFailures, historyVars>>

\* Lock and unlock flush_m.
WorkerFence ==
  /\ wpc = "fence"
  /\ flushMutex = NoThread
  /\ wpc' = "notify"
  /\ UNCHANGED <<queueVars, flushVars, final, want, lastSeen, clientVars, opc,
                 droppedRecords, sinkFailures, historyVars>>

\* flush_cv.notify_all()
WorkerNotify ==
  /\ wpc = "notify"
  /\ flushWaiters' = {}
  /\ wpc' = IF final THEN "exited" ELSE "wait"
  /\ UNCHANGED <<queueVars, flushRequestGen, flushDoneGen, flushMutex, final, want,
                 lastSeen, clientVars, opc, droppedRecords, sinkFailures, historyVars>>
-----------------------------------------------------------------------------
(* ~AsyncSink() *)

\* request_stop_: the flag of the queue is set.  An orderly owner destroys
\* the sink when no call is in progress.
DestroyBegin ==
  /\ opc = "alive"
  /\ ConcurrentStop \/ AllIdle
  /\ RequestStop
  /\ opc' = "wakeConsumer"
  /\ UNCHANGED <<flushVars, workerVars, clientVars, droppedRecords, sinkFailures,
                 historyVars>>

\* The rest of request_stop and the kick that follows it.
DestroyWakes ==
  /\ \/ opc = "wakeConsumer" /\ NotifyAllNotEmpty /\ opc' = "wakeProducers"
     \/ opc = "wakeProducers" /\ RequestStopWakesProducers /\ opc' = "kick"
     \/ opc = "kick" /\ KickForFlush /\ opc' = "kickNotify"
     \/ opc = "kickNotify" /\ NotifyAllNotEmpty /\ opc' = "join"
  /\ UNCHANGED <<flushVars, workerVars, clientVars, droppedRecords, sinkFailures,
                 historyVars>>

DestroyJoin ==
  /\ opc = "join"
  /\ wpc = "exited"
  /\ opc' = "joined"
  /\ UNCHANGED <<queueVars, flushVars, workerVars, clientVars, droppedRecords,
                 sinkFailures, historyVars>>
-----------------------------------------------------------------------------
FlushSpuriousWakeup(c) ==
  /\ c \in flushWaiters
  /\ flushWaiters' = flushWaiters \ {c}
  /\ UNCHANGED <<queueVars, flushRequestGen, flushDoneGen, flushMutex, workerVars,
                 clientVars, opc, droppedRecords, sinkFailures, historyVars>>

QueueSpuriousWakeup(t) ==
  /\ SpuriousWakeup(t)
  /\ UNCHANGED <<flushVars, workerVars, clientVars, opc, droppedRecords,
                 sinkFailures, historyVars>>

\* The sink is gone and no call is left: nothing more happens.
Finished ==
  /\ opc = "joined" /\ AllIdle
  /\ UNCHANGED vars

Init ==
  /\ QueueInit
  /\ flushRequestGen = 0
  /\ flushDoneGen = 0
  /\ droppedRecords = 0
  /\ sinkFailures = 0
  /\ flushMutex = NoThread
  /\ flushWaiters = {}
  /\ wpc = "wait"
  /\ final = FALSE
  /\ want = 0
  /\ lastSeen = 0
  /\ pc = [c \in Producers |-> "idle"]
  /\ rec = [c \in Producers |-> NoRecord]
  /\ result = [c \in Producers |-> NoLoss]
  /\ gen = [c \in Producers |-> 0]
  /\ opc = "alive"
  /\ submitted = {}
  /\ accepted = <<>>
  /\ evicted = {}
  /\ handed = <<>>
  /\ covered = 0
  /\ asked = [c \in Producers |-> [accepted |-> 0, handed |-> 0, before |-> 0]]

\* The calls a client may make, and the steps it takes inside a call.
ClientCall(c) == CallFlush(c) \/ \E r \in Records : CallWrite(c, r)

ClientStep(c) ==
  \/ Enqueue(c)
  \/ Account(c)
  \/ FlushKick(c)
  \/ FlushKickNotify(c)
  \/ FlushTest(c)
  \/ FlushSleep(c)

WorkerStep ==
  \/ WorkerWait
  \/ WorkerDrain
  \/ WorkerWrite
  \/ WorkerLoad
  \/ WorkerFlush
  \/ WorkerStore
  \/ WorkerFence
  \/ WorkerNotify

Next ==
  \/ \E c \in Producers : ClientCall(c) \/ ClientStep(c)
  \/ WorkerStep
  \/ DestroyBegin \/ DestroyWakes \/ DestroyJoin
  \/ \E c \in Producers : FlushSpuriousWakeup(c)
  \/ \E t \in Producers \cup {Consumer} : QueueSpuriousWakeup(t)
  \/ Finished

Spec == Init /\ [][Next]_vars

\* A thread that can run eventually runs, and a thread that waits for flush_m
\* eventually gets it.  Nobody has to call the sink or destroy it.
Fairness ==
  /\ WF_vars(WorkerStep)
  /\ SF_vars(WorkerFence)
  /\ WF_vars(DestroyWakes \/ DestroyJoin)
  /\ \A c \in Producers : WF_vars(ClientStep(c)) /\ SF_vars(FlushTest(c))

FairSpec == Spec /\ Fairness
-----------------------------------------------------------------------------
ClientPcs == {"idle", "enqueue", "account", "kick", "kickNotify", "flushTest", "flushSleep"}

WorkerPcs == {"wait", "drain", "write", "load", "flush", "store", "fence", "notify", "exited"}

OwnerPcs == {"alive", "wakeConsumer", "wakeProducers", "kick", "kickNotify", "join", "joined"}

TypeOK ==
  /\ QueueTypeOK
  /\ flushRequestGen \in Nat /\ flushDoneGen \in Nat
  /\ droppedRecords \in Nat /\ sinkFailures \in Nat
  /\ flushMutex \in Producers \cup {NoThread}
  /\ flushWaiters \subseteq Producers
  /\ wpc \in WorkerPcs /\ final \in BOOLEAN /\ want \in Nat /\ lastSeen \in Nat
  /\ pc \in [Producers -> ClientPcs]
  /\ rec \in [Producers -> Records \cup {NoRecord}]
  /\ result \in [Producers -> EnqueueResults]
  /\ gen \in [Producers -> Nat]
  /\ opc \in OwnerPcs
  /\ submitted \subseteq Records /\ evicted \subseteq Records
  /\ accepted \in Seq(Records) /\ handed \in Seq(Records)
  /\ covered \in Nat
  /\ asked \in [Producers -> [accepted : Nat, handed : Nat, before : Nat]]

\* The records on their way, from the first one handed over to the last one queued.
Line == handed \o batch \o Contents(ring)

\* Records that the queue accepted among its first n and did not give up.
Due(n) == { accepted[i] : i \in 1 .. n } \ evicted

\* Every accepted record is exactly once in one of three places, in the order
\* of acceptance: handed to the wrapped sink, in the worker's batch, or queued.
\* Only a DropOldest eviction takes a record out of the line, and an exception
\* of the wrapped sink never does.
FifoDelivery ==
  /\ { Line[i] : i \in 1 .. Len(Line) } = Due(Len(accepted))
  /\ \A i, j \in 1 .. Len(Line), k, m \in 1 .. Len(accepted) :
       i < j /\ Line[i] = accepted[k] /\ Line[j] = accepted[m] => k < m

\* When the worker thread ends, nothing is queued or in its batch, and the
\* wrapped sink was flushed after the last record, also when the destructor
\* raced with write() and flush().
NothingStranded ==
  wpc = "exited" => ring.count = 0 /\ batch = <<>> /\ covered = Len(handed)

\* Every record passed to write() is, in the end, handed to the wrapped sink
\* or counted by dropped_records_count_, exactly one of the two.
FinalAccounting ==
  opc = "joined" /\ AllIdle => Cardinality(submitted) = Len(handed) + droppedRecords

\* The worker never sleeps on a flush() whose caller has gone on to wait for
\* it: the kick is not lost, whichever statement of the loop it hits.
FlushNotIgnored ==
  Consumer \in notEmptyWaiters =>
    \A c \in Producers : pc[c] \in {"flushTest", "flushSleep"} => flushDoneGen >= gen[c]

FlushReturnsTo(c) == pc[c] = "flushTest" /\ pc'[c] = "idle"

Flushed == { handed[i] : i \in 1 .. covered }

\* When flush() returns, the wrapped sink was flushed after every record that
\* had been handed to it when flush() was called.
FlushCoversHanded ==
  [][\A c \in Producers : FlushReturnsTo(c) => covered >= asked[c].handed]_vars

\* When flush() returns, every record accepted before the caller's previous
\* flush() has been written and flushed: calling flush() twice drains.
SecondFlushDelivers ==
  [][\A c \in Producers : FlushReturnsTo(c) => Due(asked[c].before) \subseteq Flushed]_vars

\* docs/standalone_usage.md: "`flush()` guarantees that once it returns, all
\* queued records have been written and the wrapped sink has been flushed."
\* The records meant are those queued when flush() was called.
FlushDrainsQueue ==
  [][\A c \in Producers : FlushReturnsTo(c) => Due(asked[c].accepted) \subseteq Flushed]_vars
-----------------------------------------------------------------------------
(* Liveness, under FairSpec. *)

\* A flush() that was called returns ("Unblock any waiting flush" on exit).
FlushReturns ==
  \A c \in Producers : pc[c] = "kick" ~> pc[c] = "idle"

\* A write() returns, however often a full queue made it wait.
WriteReturns ==
  \A c \in Producers : pc[c] = "enqueue" ~> pc[c] = "idle"

\* The destructor completes once it has begun.
ShutdownCompletes == opc # "alive" ~> opc = "joined"

\* An accepted record reaches the wrapped sink without any flush() or stop.
AcceptedIsHanded ==
  \A r \in Records :
    (\E i \in 1 .. Len(accepted) : accepted[i] = r)
      ~> (r \in evicted \/ \E i \in 1 .. Len(handed) : handed[i] = r)
=============================================================================
