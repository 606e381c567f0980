--------------------------- MODULE RotatingFileSink ---------------------------
(***************************************************************************)
(* RotatingFileSink: a FileSink whose write() first moves a full file out  *)
(* of the way: flush, close, rename to a timestamped name, reopen, prune.  *)
(*                                                                         *)
(* The mutex of a sink makes its write() one critical section for its own  *)
(* clients, but the file system is shared and the process may die at any   *)
(* statement, so every call to the file system is a step of its own.  A    *)
(* step that throws abandons the rest of write().                          *)
(***************************************************************************)
EXTENDS FileSink

CONSTANTS MaxBytes,        \* the rotation threshold
          MaxRotatedFiles, \* the retention limit, 0 for none
          MaxSeq,          \* sequence numbers run from 1 to MaxSeq - 1 (10000 in the code)
          MaxClock         \* bound: the last second of a behaviour

ASSUME RotationAssumption ==
  /\ MaxBytes \in Nat \ {0}
  /\ MaxRotatedFiles \in Nat
  /\ MaxSeq \in Nat \ {0}
  /\ MaxClock \in Nat \ {0}

VARIABLES now,     \* the system clock, in seconds
          line,    \* the formatted line of each sink's current write()
          target,  \* the rotated name chosen by each sink
          pruned,  \* history: the files that pruning removed, with their seconds
          setBack  \* history: the clock was set back

clockVars == <<now, setBack>>
vars == <<fileVars, clockVars, line, target, pruned>>

\* Somebody else's file, whose name goes on after that of a rotated file.
OtherFile == <<1, 0, 0>>

\* parse_rotation_suffix: a second and a sequence number, and nothing after them.
ParseRotationSuffix(n) == Len(n) = 2

Rotated == { n \in DOMAIN dir : ParseRotationSuffix(n) }

\* The order of pruning: timestamp, then sequence number.
Older(a, b) == a[1] < b[1] \/ (a[1] = b[1] /\ a[2] < b[2])
-----------------------------------------------------------------------------
(* write() *)

\* A plausible slip: the line about to be written is left out of the sum.
MustRotate_Late(s, size) == bytesWritten[s] >= MaxBytes

MustRotate(s, size) == bytesWritten[s] + size >= MaxBytes

CallWrite(s, size) ==
  /\ spc[s] = "idle" /\ lastId < MaxRecords
  /\ lastId' = lastId + 1
  /\ line' = [line EXCEPT ![s] = NewLine(size)]
  /\ Goto(s, IF MustRotate(s, size) THEN "flush" ELSE "write")
  /\ UNCHANGED <<dir, contents, handle, buffered, bytesWritten, failures, crashes, returned,
                 flushed, gone, uncounted, clockVars, target, pruned>>

RotateFlush(s) ==
  /\ spc[s] = "flush"
  /\ \/ FlushLocked(s) /\ Goto(s, "close")
     \/ FlushThrows(s) /\ Goto(s, "idle")
  /\ UNCHANGED <<crashes, lastId, clockVars, line, target, pruned>>

RotateClose(s) ==
  /\ spc[s] = "close"
  /\ CloseLocked(s)
  /\ Goto(s, "name")
  /\ UNCHANGED <<crashes, lastId, clockVars, line, target, pruned>>

\* A plausible slip: the timestamp is taken to be unique.
FreeNames_Any(ts) == {<<ts, 0>>}

\* A plausible slip: the search does not start at the beginning.
FreeNames_AnyFree(ts) ==
  { <<ts, seq>> : seq \in { k \in 0 .. MaxSeq - 1 : <<ts, k>> \notin DOMAIN dir } }

\* The names that the search accepts: the bare timestamp before any sequence
\* number, and the least free number before a greater one.
FreeNames(ts) ==
  { <<ts, seq>> : seq \in { k \in 0 .. MaxSeq - 1 :
      /\ <<ts, k>> \notin DOMAIN dir
      /\ \A j \in 0 .. k - 1 : <<ts, j>> \in DOMAIN dir } }

\* make_timestamp_utc and the search for a name that no file has.
RotateName(s) ==
  /\ spc[s] = "name"
  /\ \/ \E n \in FreeNames(now) : target' = [target EXCEPT ![s] = n] /\ Goto(s, "rename")
     \/ FreeNames(now) = {} /\ Goto(s, "idle") /\ UNCHANGED target
  /\ UNCHANGED <<dir, contents, handle, buffered, bytesWritten, failures, crashes, lastId,
                 returned, flushed, gone, uncounted, clockVars, line, pruned>>

\* rename_or_throw: an existing target is replaced, a missing source is an error.
RotateRename(s) ==
  /\ spc[s] = "rename"
  /\ \/ /\ Base \in DOMAIN dir
        /\ dir' = [n \in (DOMAIN dir \ {Base}) \cup {target[s]} |->
                     IF n = target[s] THEN dir[Base] ELSE dir[n]]
        /\ Goto(s, "reopen") /\ UNCHANGED failures
     \/ /\ Base \notin DOMAIN dir
        /\ Goto(s, "idle") /\ UNCHANGED <<dir, failures>>
     \/ Fails("rename") /\ Goto(s, "idle") /\ UNCHANGED dir
  /\ UNCHANGED <<contents, handle, buffered, bytesWritten, crashes, lastId, returned,
                 flushed, gone, uncounted, clockVars, line, target, pruned>>

\* reopen_locked; the stream is closed already.
RotateReopen(s) ==
  /\ spc[s] = "reopen"
  /\ \/ OpenLocked(s) /\ Goto(s, "prune")
     \/ OpenFails(s) /\ Goto(s, "idle")
  /\ UNCHANGED <<crashes, lastId, clockVars, line, target, pruned>>

\* A plausible slip: each rotation removes the one file it added.
ToDelete_One(listed) ==
  IF MaxRotatedFiles > 0 /\ Cardinality(listed) > MaxRotatedFiles THEN 1 ELSE 0

\* How many of the listed files are too many.
ToDelete(listed) ==
  IF MaxRotatedFiles > 0 /\ Cardinality(listed) > MaxRotatedFiles
  THEN Cardinality(listed) - MaxRotatedFiles
  ELSE 0

\* A plausible slip: the sort order is reversed.
Candidates_Reversed(listed) ==
  CHOOSE D \in SUBSET listed :
    Cardinality(D) = ToDelete(listed) /\ \A a \in D, b \in listed \ D : Older(b, a)

\* The files to delete: the first of the listed ones in the order of pruning.
Candidates(listed) ==
  CHOOSE D \in SUBSET listed :
    Cardinality(D) = ToDelete(listed) /\ \A a \in D, b \in listed \ D : Older(a, b)

\* The calls of a pruning that fail: one that ends the listing early, and removals.
PruneErrors(listed, removed) ==
  (IF listed = Rotated THEN 0 ELSE 1) + Cardinality(Candidates(listed) \ removed)

\* prune_old_rotations_locked: after an error in the listing it goes on with what
\* it has, or with nothing if the iterator throws; a removal that fails is ignored.
RotatePrune(s) ==
  /\ spc[s] = "prune"
  /\ \E listed \in SUBSET Rotated : \E removed \in SUBSET Candidates(listed) :
       /\ listed # Rotated => MaxRotatedFiles > 0 /\ "list" \in FailureKinds
       /\ removed # Candidates(listed) => "remove" \in FailureKinds
       /\ failures' = failures + PruneErrors(listed, removed)
       /\ failures' <= MaxFailures
       /\ dir' = [n \in DOMAIN dir \ removed |-> dir[n]]
       /\ pruned' = pruned \cup { <<dir[n], n[1]>> : n \in removed }
  /\ Goto(s, "write")
  /\ UNCHANGED <<contents, handle, buffered, bytesWritten, crashes, lastId, returned,
                 flushed, gone, uncounted, clockVars, line, target>>

WriteLine(s) ==
  /\ spc[s] = "write"
  /\ WriteLineLocked(s, line[s]) \/ WriteLineThrows(s, line[s])
  /\ Goto(s, "idle")
  /\ UNCHANGED <<crashes, lastId, clockVars, line, target, pruned>>
-----------------------------------------------------------------------------
\* system_clock may be set, forwards and back.
SetClock(t) ==
  /\ now' = t
  /\ setBack' = (setBack \/ t < now)
  /\ UNCHANGED <<fileVars, line, target, pruned>>

Init ==
  /\ FileInit({OtherFile})
  /\ now = 1
  /\ line = [s \in Sinks |-> [id |-> 0, bytes |-> 0, whole |-> FALSE]]
  /\ target = [s \in Sinks |-> Base]
  /\ pruned = {}
  /\ setBack = FALSE

Next ==
  \/ \E s \in Sinks :
       \/ \E size \in Sizes : CallWrite(s, size)
       \/ RotateFlush(s)
       \/ RotateClose(s)
       \/ RotateName(s)
       \/ RotateRename(s)
       \/ RotateReopen(s)
       \/ RotatePrune(s)
       \/ WriteLine(s)
       \/ (Construct(s) \/ Flush(s) \/ Destroy(s) \/ Crash(s))
          /\ UNCHANGED <<clockVars, line, target, pruned>>
  \/ \E t \in 1 .. MaxClock \ {now} : SetClock(t)

Spec == Init /\ [][Next]_vars
-----------------------------------------------------------------------------
Pruned == UNION { Whole(contents[p[1]]) : p \in pruned }

\* Rotation loses nothing: a record whose write() returned can be read from a
\* file, or is in the buffer, or went with a pruned file, or was lost from the
\* buffer, which takes a crash or a call on the stream that failed.  Holds for a
\* sink that has its path for itself.
RotationLosesNothing ==
  /\ ToSet(returned) \subseteq
       OnDisk \cup Pruned \cup gone \cup UNION { Whole(buffered[s]) : s \in Sinks }
  /\ gone # {} => failures + crashes > 0

\* A flushed record survives a crash at any statement of a rotation.
FlushedSurvives == flushed \subseteq OnDisk \cup Pruned

\* The lines of all files in the order of their creation, then the buffer, are
\* the records whose write() returned and that are not gone, each once and in the
\* order in which they were written; a torn line keeps its place among them.
LogInOrder ==
  \A s \in Sinks :
    LET log == Append(contents, buffered[s])
    IN  /\ UNION { Whole(log[i]) : i \in DOMAIN log } = ToSet(returned) \ gone
        /\ \A i, j \in DOMAIN log : \A k \in DOMAIN log[i], m \in DOMAIN log[j] :
             i < j \/ (i = j /\ k < m) => log[i][k].id < log[j][m].id
        /\ \A i, j \in DOMAIN returned : i < j => returned[i] < returned[j]

\* "Rotation occurs before writing the line that would cause the file to reach
\* or exceed max_bytes": a file stays below the threshold, unless it holds one
\* line only or torn lines that were not counted, or its size could not be told
\* when it was opened.
SizeBounded ==
  \A i \in DOMAIN contents :
    LET mine == { s \in Sinks : handle[s] = i }
        lines == contents[i] \o (IF mine = {} THEN <<>> ELSE buffered[CHOOSE s \in mine : TRUE])
    IN  \/ i \in uncounted
        \/ Len(lines) <= 1
        \/ Bytes(lines) < MaxBytes
        \/ \E k \in DOMAIN lines : ~lines[k].whole

\* The order of the rotated names is the order in which the files were written,
\* which is what pruning by name relies on: unless the clock was set back, and but
\* for the files of one second from which a name was freed by pruning.
NamesSortByAge ==
  \A a, b \in Rotated :
    ~setBack /\ Older(a, b) /\ (a[1] = b[1] => \A p \in pruned : p[2] # a[1]) => dir[a] < dir[b]

KeepsNewest ==
  \A s \in Sinks : spc[s] = "prune" /\ spc'[s] = "write" /\ failures' = failures =>
    \A p \in pruned' \ pruned, n \in Rotated' : p[1] < dir'[n]

\* "prune oldest rotated files": when neither the listing nor a removal fails,
\* what a pruning keeps is younger than what it removes.
PruneKeepsNewest == [][KeepsNewest]_vars

\* Pruning does keep the newest while the clock is not set back and every rotated
\* file is of a second of its own.
PruneKeepsNewestOfDistinctSeconds ==
  [][~setBack /\ (\A a, b \in Rotated : a[1] = b[1] => a = b) => KeepsNewest]_vars

\* However many files earlier crashes, listings that broke off or failed removals
\* left behind, the next rotation whose listing and removals succeed is back within
\* the retention limit.
RetentionRestored ==
  [][\A s \in Sinks :
       MaxRotatedFiles > 0 /\ spc[s] = "prune" /\ spc'[s] = "write" /\ failures' = failures
         => Cardinality(Rotated') <= MaxRotatedFiles]_vars

\* docs/standalone_usage.md: "collision-safe naming for same-second rotations".
\* A rotation never replaces a rotated file, also when names are used up, were left
\* behind by a crash or come back with the clock; and neither rotating nor pruning
\* touches a file of somebody else.  Holds for a sink that has its path for itself.
NoOverwrite ==
  [][\A n \in DOMAIN dir \ {Base} :
       /\ n \in DOMAIN dir' => dir'[n] = dir[n]
       /\ n \notin DOMAIN dir' => \E p \in pruned' : p[1] = dir[n] /\ n # OtherFile]_vars
=============================================================================
