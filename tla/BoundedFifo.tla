----------------------------- MODULE BoundedFifo -----------------------------
(***************************************************************************)
(* What the queue behind AsyncSink promises, without slots, indices or     *)
(* condition variables: a first-in first-out sequence of at most Size      *)
(* records that a consumer takes from the front in batches.  A full queue  *)
(* either refuses a record or, when EvictOldest is set, gives up its       *)
(* oldest record for it.  A closed queue accepts nothing more, and what it *)
(* holds can still be taken.                                               *)
(***************************************************************************)
EXTENDS Naturals, Sequences

CONSTANTS Size,        \* most records the queue holds
          EvictOldest, \* TRUE when a full queue evicts its oldest record
          Records      \* the records that may be queued

VARIABLES fifo,        \* the queued records, oldest first
          taken,       \* the batch in the consumer's hands
          closed       \* TRUE once stop was requested

fifoVars == <<fifo, taken, closed>>

FifoInit ==
  /\ fifo = <<>>
  /\ taken = <<>>
  /\ closed = FALSE

Accept(r) ==
  /\ ~closed
  /\ Len(fifo) < Size
  /\ fifo' = Append(fifo, r)
  /\ UNCHANGED <<taken, closed>>

EvictAndAccept(r) ==
  /\ ~closed
  /\ EvictOldest
  /\ Len(fifo) = Size
  /\ fifo' = Append(Tail(fifo), r)
  /\ UNCHANGED <<taken, closed>>

TakeBatch(n) ==
  /\ taken = <<>>
  /\ taken' = SubSeq(fifo, 1, n)
  /\ fifo' = SubSeq(fifo, n + 1, Len(fifo))
  /\ UNCHANGED closed

UseFirst ==
  /\ taken # <<>>
  /\ taken' = Tail(taken)
  /\ UNCHANGED <<fifo, closed>>

Close ==
  /\ closed' = TRUE
  /\ UNCHANGED <<fifo, taken>>

FifoNext ==
  \/ \E r \in Records : Accept(r) \/ EvictAndAccept(r)
  \/ \E n \in 1 .. Len(fifo) : TakeBatch(n)
  \/ UseFirst
  \/ Close

FifoSpec == FifoInit /\ [][FifoNext]_fifoVars
=============================================================================
