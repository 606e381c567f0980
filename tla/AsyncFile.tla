------------------------------- MODULE AsyncFile -------------------------------
(***************************************************************************)
(* An AsyncSink that wraps a FileSink: from a client's write() to the file *)
(* on the disk.                                                            *)
(*                                                                         *)
(* The worker's calls of the wrapped sink are the FileSink's operations,   *)
(* and what the sink's sinkFailures counts is that the FileSink threw; all *)
(* other steps of the two are their own.  The line of a record is numbered *)
(* by its place in handed.  The process may die at any moment, and then    *)
(* nothing more happens.                                                   *)
(***************************************************************************)
EXTENDS AsyncSink, SequencesExt

CONSTANTS Sinks,        \* the file sink, alone on its path
          FailureKinds, \* the library calls that may fail
          MaxCrashes    \* bound: 0 or 1 deaths of the process

ASSUME AsyncFileAssumption ==
  /\ \E s \in Sinks : Sinks = {s}
  /\ MaxCrashes \in Nat

VARIABLES dir, contents, handle, buffered, bytesWritten, spc, failures, crashes, lastId,
          returned, flushed, gone, uncounted

\* What happened, kept for the properties only.
VARIABLES clean,    \* lines whose write returned since the last counted failure
          promised  \* those of them handed over before a flush() that has returned

File == INSTANCE FileSink WITH Sizes <- {2}, MaxRecords <- Cardinality(Records)

fileVars == <<dir, contents, handle, buffered, bytesWritten, spc, failures, crashes, lastId,
              returned, flushed, gone, uncounted>>
promiseVars == <<clean, promised>>
allVars == <<vars, fileVars, promiseVars>>

\* The sink counts an exception exactly when the FileSink threw one.
Linked == sinkFailures' - sinkFailures = failures' - failures

ConstructFile(s) ==
  /\ opc = "alive" /\ crashes = 0
  /\ File!Construct(s)
  /\ UNCHANGED <<vars, promiseVars>>

\* wrapped_->write(record)
WriteToFile(s) ==
  /\ WorkerWrite /\ File!Write(s, 2) /\ Linked
  /\ clean' = IF failures' = failures THEN clean \cup {lastId'} ELSE {}
  /\ UNCHANGED promised

\* wrapped_->flush()
FlushFile(s) ==
  /\ WorkerFlush /\ File!Flush(s) /\ Linked
  /\ clean' = IF failures' = failures THEN clean ELSE {}
  /\ UNCHANGED promised

\* The last pointer to the file sink goes with the AsyncSink.
DestroyFile(s) ==
  /\ opc = "joined"
  /\ File!Destroy(s)
  /\ UNCHANGED <<vars, promiseVars>>

Die(s) == File!Crash(s) /\ UNCHANGED <<vars, promiseVars>>

EndFlush(c) ==
  /\ FlushTest(c)
  /\ promised' = promised \cup
       IF FlushReturnsTo(c) THEN clean \cap 1 .. asked[c].handed ELSE {}
  /\ UNCHANGED <<fileVars, clean>>

\* The steps in which the AsyncSink does not touch the file.
OwnStep ==
  \/ \E c \in Producers :
       \/ \E r \in Records : CallWrite(c, r)
       \/ Enqueue(c) \/ Account(c)
       \/ CallFlush(c) \/ FlushKick(c) \/ FlushKickNotify(c) \/ FlushSleep(c) \/ FlushSpuriousWakeup(c)
  \/ WorkerWait \/ WorkerDrain \/ WorkerLoad \/ WorkerStore \/ WorkerFence \/ WorkerNotify
  \/ DestroyBegin \/ DestroyWakes \/ DestroyJoin
  \/ \E t \in Producers \cup {Consumer} : QueueSpuriousWakeup(t)

FileInit ==
  /\ Init
  /\ File!FileInit({})
  /\ clean = {}
  /\ promised = {}

FileNext ==
  \E s \in Sinks :
    \/ ConstructFile(s)
    \/ DestroyFile(s)
    \/ Die(s)
    \/ /\ spc[s] = "idle"
       /\ \/ WriteToFile(s)
          \/ FlushFile(s)
          \/ \E c \in Producers : EndFlush(c)
          \/ OwnStep /\ UNCHANGED <<fileVars, promiseVars>>

FileSpec == FileInit /\ [][FileNext]_allVars
-----------------------------------------------------------------------------
\* The lines of the file, then those in the stream's buffer.
Journal(s) ==
  (IF File!Base \in DOMAIN dir THEN contents[dir[File!Base]] ELSE <<>>) \o buffered[s]

\* Records whose write() threw, and records that were lost from the stream's buffer.
LostInFile == { handed[i] : i \in (DOMAIN handed \ ToSet(returned)) \cup gone }

\* The queue accepted one record before the other.
Before(a, b) == \A k, m \in DOMAIN accepted : accepted[k] = a /\ accepted[m] = b => k < m

\* From end to end: the lines of the file, the records in memory and nothing else
\* are the records that the queue accepted, each once and in the order in which it
\* accepted them, except those whose write threw or that a failed call or a crash
\* took from the buffer, whatever raced before.
FileInOrder ==
  \A s \in Sinks :
    LET whole == { i \in DOMAIN Journal(s) : Journal(s)[i].whole }
        record(i) == handed[Journal(s)[i].id]
        waiting == batch \o Contents(ring)
    IN  /\ { record(i) : i \in whole } \cup ToSet(waiting) = ToSet(accepted) \ (evicted \cup LostInFile)
        /\ \A i, j \in whole : i < j => Before(record(i), record(j))
        /\ \A i \in whole, j \in DOMAIN waiting : Before(record(i), waiting[j])
        /\ \A i, j \in DOMAIN waiting : i < j => Before(waiting[i], waiting[j])

\* A record that had been handed over when a flush() was called is on the disk once
\* that flush() has returned, and stays there when the process dies: unless a failure
\* was counted between its hand-over and the return, since one failed call may lose
\* every line that the stream still had.
FlushReachesDisk == promised \subseteq File!OnDisk

\* After an orderly shutdown the counters tell whether something is missing in the
\* file.  With every line on the disk and every counted drop one record is explained;
\* all are, unless a failure was counted, and what was written after the last counted
\* one is there in any case.  Only what fclose loses, whose result the destructor
\* ignores, is in no counter.
AllAccountedFor ==
  opc = "joined" /\ AllIdle /\ crashes = 0 /\ (\A s \in Sinks : spc[s] = "down") /\ failures = sinkFailures =>
    LET explained == Cardinality(File!OnDisk) + droppedRecords
    IN  /\ explained <= Cardinality(submitted)
        /\ sinkFailures = 0 => explained = Cardinality(submitted)
        /\ clean \subseteq File!OnDisk
=============================================================================
