------------------------------- MODULE FileSink -------------------------------
(***************************************************************************)
(* FileSink: lines appended to a file through a stdio stream.              *)
(*                                                                         *)
(* The file system is a directory of names and the contents behind them.   *)
(* A file is its index in contents, in the order of creation, so that a    *)
(* file without a name, still open or gone, keeps its content in the       *)
(* model.  A name is <<>> for the path of the sink and <<second, seq>> for *)
(* a rotated file.  A line is abstracted to the record it stands for and   *)
(* the bytes it takes; it is whole unless an error tore it.                *)
(*                                                                         *)
(* A sink is a process of its own: several sinks share the directory and   *)
(* nothing else.  What fwrite has accepted stays in the stream's buffer    *)
(* until fflush or fclose; when the process dies, any prefix of the buffer *)
(* has reached the file.  When a call on the stream fails, a prefix has    *)
(* reached the file too, and the C library keeps or discards the rest.     *)
(*                                                                         *)
(* The locked helpers are the building blocks of RotatingFileSink too;     *)
(* AsyncFile puts the plain sink behind an AsyncSink.                      *)
(***************************************************************************)
EXTENDS Naturals, SequencesExt, FiniteSetsExt

CONSTANTS Sinks,        \* the sinks that have the same path
          Sizes,        \* the sizes of a line with its newline
          FailureKinds, \* the library calls that may fail
          MaxFailures,  \* bound: failed calls in a behaviour
          MaxRecords,   \* bound: records written in a behaviour
          MaxCrashes    \* bound: process crashes in a behaviour

ASSUME FileAssumption ==
  /\ Sizes \subseteq Nat \ {0}
  /\ FailureKinds \subseteq {"fopen", "fseek", "fwrite", "fflush", "fclose",
                             "rename", "list", "remove"}
  /\ MaxFailures \in Nat /\ MaxRecords \in Nat /\ MaxCrashes \in Nat

VARIABLES dir,          \* the directory: names to files
          contents,     \* the lines of every file
          handle,       \* file_ of each sink: a file, or NoFile
          buffered,     \* lines in each stream's buffer
          bytesWritten, \* bytes_written_ of each sink
          spc,          \* each sink's next statement
          failures,     \* failed library calls so far
          crashes,      \* crashes so far
          lastId        \* the number of the last record

\* What happened, kept for the properties only.
VARIABLES returned,     \* records whose write() returned, in order
          flushed,      \* records that a flush pushed out without error
          gone,         \* records lost from a buffer, by a failed call or a crash
          uncounted     \* files that a stream was opened on without their size

fileVars == <<dir, contents, handle, buffered, bytesWritten, spc, failures, crashes,
              lastId, returned, flushed, gone, uncounted>>

Base == <<>>

NoFile == 0

\* The bytes that the lines take.
Bytes(lines) ==
  LET upTo[k \in 0 .. Len(lines)] == IF k = 0 THEN 0 ELSE upTo[k - 1] + lines[k].bytes
  IN  upTo[Len(lines)]

\* The records whose lines are whole.
Whole(lines) == { lines[i].id : i \in { j \in DOMAIN lines : lines[j].whole } }

\* A library call of this kind fails.
Fails(kind) ==
  /\ kind \in FailureKinds
  /\ failures < MaxFailures
  /\ failures' = failures + 1

Goto(s, label) == spc' = [spc EXCEPT ![s] = label]
-----------------------------------------------------------------------------
(* The locked helpers. *)

\* file_size_or_zero: append mode leaves the position at the end.  Nobody hears
\* of an fseek or ftell that fails, and the count starts at 0.
SizeAtOpen(s, file) ==
  \/ /\ bytesWritten' = [bytesWritten EXCEPT ![s] = Bytes(contents[file])]
     /\ UNCHANGED <<failures, uncounted>>
  \/ /\ Fails("fseek")
     /\ bytesWritten' = [bytesWritten EXCEPT ![s] = 0]
     /\ uncounted' = uncounted \cup {file}

\* A plausible slip: the mode is "wb".
OpenLocked_Truncates(s) ==
  LET file == IF Base \in DOMAIN dir THEN dir[Base] ELSE Len(contents) + 1
  IN  /\ contents' = [i \in DOMAIN contents \cup {file} |->
                         IF i = file THEN <<>> ELSE contents[i]]
      /\ dir' = [n \in DOMAIN dir \cup {Base} |-> IF n = Base THEN file ELSE dir[n]]
      /\ handle' = [handle EXCEPT ![s] = file]
      /\ bytesWritten' = [bytesWritten EXCEPT ![s] = 0]
      /\ UNCHANGED <<buffered, failures, returned, flushed, gone, uncounted>>

\* open_locked_or_throw: append mode, created if missing.  The size of a new
\* file is 0 in any case.
OpenLocked(s) ==
  /\ \/ /\ Base \in DOMAIN dir
        /\ handle' = [handle EXCEPT ![s] = dir[Base]]
        /\ SizeAtOpen(s, dir[Base])
        /\ UNCHANGED <<dir, contents>>
     \/ /\ Base \notin DOMAIN dir
        /\ contents' = Append(contents, <<>>)
        /\ dir' = [n \in DOMAIN dir \cup {Base} |->
                     IF n = Base THEN Len(contents) + 1 ELSE dir[n]]
        /\ handle' = [handle EXCEPT ![s] = Len(contents) + 1]
        /\ bytesWritten' = [bytesWritten EXCEPT ![s] = 0]
        /\ UNCHANGED <<failures, uncounted>>
  /\ UNCHANGED <<buffered, returned, flushed, gone>>

OpenFails(s) ==
  /\ Fails("fopen")
  /\ handle' = [handle EXCEPT ![s] = NoFile]
  /\ UNCHANGED <<dir, contents, buffered, bytesWritten, returned, flushed, gone, uncounted>>

\* The first k buffered lines reach the file.
Spill(s, k) ==
  contents' = [contents EXCEPT ![handle[s]] = @ \o SubSeq(buffered[s], 1, k)]

\* A call on the stream fails while it has these lines to write: the first k have
\* reached the file, those up to m are still in the buffer, and the rest is lost.
StreamFails(s, lines) ==
  /\ handle[s] # NoFile
  /\ \E m \in 0 .. Len(lines) : \E k \in 0 .. m :
       /\ contents' = [contents EXCEPT ![handle[s]] = @ \o SubSeq(lines, 1, k)]
       /\ buffered' = [buffered EXCEPT ![s] = SubSeq(lines, k + 1, m)]
       /\ gone' = gone \cup (Whole(lines) \ Whole(SubSeq(lines, 1, m)))
  /\ UNCHANGED <<dir, handle, returned, flushed, uncounted>>

\* There is no stream to write to.
NoStream(s) ==
  /\ handle[s] = NoFile
  /\ UNCHANGED <<dir, contents, handle, buffered, bytesWritten, failures, returned, flushed,
                 gone, uncounted>>

\* write_line_locked: the line and its newline, if it has none, are two calls.
WriteLineLocked(s, line) ==
  /\ handle[s] # NoFile
  /\ buffered' = [buffered EXCEPT ![s] = Append(@, line)]
  /\ bytesWritten' = [bytesWritten EXCEPT ![s] = @ + line.bytes]
  /\ returned' = Append(returned, line.id)
  /\ UNCHANGED <<dir, contents, handle, failures, flushed, gone, uncounted>>

\* A call fails with the first n bytes of the line taken, or there is no stream.
\* They count only when just the newline is missing and was to be written on its own.
WriteLineThrows(s, line) ==
  \/ /\ Fails("fwrite")
     /\ \E n \in 0 .. line.bytes - 1 :
          /\ StreamFails(s, IF n = 0 THEN buffered[s]
                            ELSE Append(buffered[s], [line EXCEPT !.bytes = n, !.whole = FALSE]))
          /\ \E counted \in {0} \cup ({n} \cap {line.bytes - 1}) :
               bytesWritten' = [bytesWritten EXCEPT ![s] = @ + counted]
  \/ NoStream(s)

\* A plausible slip: the stream's buffer is not flushed, only the file.
FlushLocked_NoFflush(s) ==
  /\ handle[s] # NoFile
  /\ flushed' = flushed \cup Whole(buffered[s])
  /\ UNCHANGED <<dir, contents, buffered, handle, bytesWritten, failures, returned, gone,
                 uncounted>>

\* flush_locked
FlushLocked(s) ==
  /\ handle[s] # NoFile
  /\ Spill(s, Len(buffered[s]))
  /\ buffered' = [buffered EXCEPT ![s] = <<>>]
  /\ flushed' = flushed \cup Whole(buffered[s])
  /\ UNCHANGED <<dir, handle, bytesWritten, failures, returned, gone, uncounted>>

\* fflush or fsync fails, or there is no stream.
FlushThrows(s) ==
  \/ Fails("fflush") /\ StreamFails(s, buffered[s]) /\ UNCHANGED bytesWritten
  \/ NoStream(s)

\* The stream goes away with the first k of its buffered lines written.
DropStream(s, k) ==
  /\ IF handle[s] = NoFile THEN UNCHANGED contents ELSE Spill(s, k)
  /\ gone' = gone \cup (Whole(buffered[s]) \ Whole(SubSeq(buffered[s], 1, k)))
  /\ handle' = [handle EXCEPT ![s] = NoFile]
  /\ buffered' = [buffered EXCEPT ![s] = <<>>]
  /\ bytesWritten' = [bytesWritten EXCEPT ![s] = 0]
  /\ UNCHANGED <<dir, returned, flushed, uncounted>>

\* close_locked_noexcept: what fclose reports is ignored.
CloseLocked(s) ==
  \/ DropStream(s, Len(buffered[s])) /\ UNCHANGED failures
  \/ /\ handle[s] # NoFile /\ Fails("fclose")
     /\ \E k \in 0 .. Len(buffered[s]) : DropStream(s, k)
-----------------------------------------------------------------------------
(* The operations. *)

\* The constructor.
Construct(s) ==
  /\ spc[s] = "down"
  /\ \/ OpenLocked(s) /\ Goto(s, "idle")
     \/ OpenFails(s) /\ UNCHANGED spc
  /\ UNCHANGED <<crashes, lastId>>

\* The record that a write() is called with.
NewLine(size) == [id |-> lastId + 1, bytes |-> size, whole |-> TRUE]

Write(s, size) ==
  /\ spc[s] = "idle" /\ lastId < MaxRecords
  /\ lastId' = lastId + 1
  /\ WriteLineLocked(s, NewLine(size)) \/ WriteLineThrows(s, NewLine(size))
  /\ UNCHANGED <<spc, crashes>>

Flush(s) ==
  /\ spc[s] = "idle"
  /\ FlushLocked(s) \/ FlushThrows(s)
  /\ UNCHANGED <<spc, crashes, lastId>>

\* The destructor.
Destroy(s) ==
  /\ spc[s] = "idle"
  /\ CloseLocked(s)
  /\ Goto(s, "down")
  /\ UNCHANGED <<crashes, lastId>>

\* The process dies, at any statement.
Crash(s) ==
  /\ spc[s] # "down" /\ crashes < MaxCrashes
  /\ crashes' = crashes + 1
  /\ \E k \in 0 .. Len(buffered[s]) : DropStream(s, k)
  /\ Goto(s, "down")
  /\ UNCHANGED <<failures, lastId>>

\* The program starts in a directory with these files.
FileInit(others) ==
  /\ dir = [n \in others |-> 1]
  /\ contents = [i \in 1 .. Cardinality(others) |-> <<>>]
  /\ handle = [s \in Sinks |-> NoFile]
  /\ buffered = [s \in Sinks |-> <<>>]
  /\ bytesWritten = [s \in Sinks |-> 0]
  /\ spc = [s \in Sinks |-> "down"]
  /\ failures = 0
  /\ crashes = 0
  /\ lastId = 0
  /\ returned = <<>>
  /\ flushed = {}
  /\ gone = {}
  /\ uncounted = {}
-----------------------------------------------------------------------------
\* The records that can be read from a file with a name.
OnDisk == UNION { Whole(contents[dir[n]]) : n \in DOMAIN dir }
=============================================================================
