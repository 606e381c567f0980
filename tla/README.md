# A TLA+ model of sim-logger

sim-logger is a C++17 logging library for simulations: a tree of named loggers
that inherit their configuration, sinks that write records to files and
consoles, and a wrapper that moves the writing to a thread of its own; a C API
and macros lead into it. This directory holds a model of all of its parts that
keep state, TLC configurations that check it on small instances, and proofs,
checked by TLAPS, for arbitrary ones.

## 1. Inventory

| Component | State | Operations | Interacts with |
|---|---|---|---|
| `MutexRingBufferQueue` | ring buffer (`buffer_`, `head_`, `tail_`, `count_`), stop and kick flags, two condition variables, one mutex | `enqueue` with three overflow policies, `dequeue_batch`, `wait_for_work`, `kick_for_flush`, `request_stop` | producers and the worker of `AsyncSink` |
| `AsyncSink` | two flush generations, two counters, `flush_m` and `flush_cv`, the worker's locals | `write`, `flush`, `worker_loop_`, destructor | the queue; the wrapped sink, which may throw |
| `FileSink` | stream, byte count | open, `write`, `flush`, close | stdio, the file system |
| `RotatingFileSink` | base path, limits | `write` with rotation and pruning | `FileSink`'s locked helpers, the file system, the clock |
| `ConsoleSink` | a stream that the process shares, colour mode, a mutex | `write`, `flush` | `PatternFormatter`, stdio |
| `PatternFormatter` | the pattern | constructor with its check for `{met}`, `format` | all sinks with text |
| `Logger` | level, sinks, immediate flush, each with an override flag; weak parent; two counters; a mutex each | setters, the `effective_*` climbs, `log` | parents, sinks |
| `LoggerRegistry` | the map of names to loggers | `get_logger`, `clear` | creates loggers and links them |
| global time source | one process-wide pointer, one snapshot per thread | set, get, reference | macros, C API |
| log macros, C API | handles | forward to registry, `log` and `flush` | registry, logger, global time |
| `TestSink`, time sources, `Level`, `LogRecord` | a vector; a value; none | trivial | - |

What is hard here: producers, the worker, flushers and the destructor of
`AsyncSink` share a queue, two condition variables and atomics that are stored
outside the mutex of the condition variable waiting for them; rotation is a
sequence of file system calls any of which may fail or be the last before a
crash, in a directory that others may use, with names taken from a clock that
may be set; resolving a setting walks over loggers that are being reconfigured
or expire, and keeps the mutexes of all of them; `get_logger` recurses without
holding the mutex; a logging call reads from a time source that another thread
may replace; a line on the console is several writes. `PROJECT.json` lists the
hazards at their lines.

What makes the components correct: the queue is a bounded FIFO and loses no
wakeup; every record given to `AsyncSink` is delivered once, in order, or
counted as dropped, a `flush` covers what it promises and returns, shutdown
leaves nothing behind; files keep what was written and flushed through
rotations, failures and crashes, files stay below the limit, pruning takes the
oldest; a setting is that of one moment; every sink gets the record; one
logger per name, linked to the right parent; no source is read after its end;
lines on a console stay whole and end in the terminal's own colour.

## 2. Modules

| Module | Models | Notes |
|---|---|---|
| `BoundedFifo` | what `IQueue` promises | the abstract specification of the queue |
| `RingBufferQueue` | `mutex_ring_buffer_queue.hpp` | `QueueSpec` lets every operation happen at any time and is what the proofs are about; `ImplementsFifo` is the refinement; TLC checks the queue inside `AsyncSink` |
| `AsyncSink` | `async_sink.cpp` | extends the queue: its steps are conjoined with the program counters of clients, worker and owner; the wrapped sink returns or throws |
| `FileSink` | `file_sink.cpp` | the directory, the contents of files, streams with buffers, crashes |
| `AsyncFile` | an `AsyncSink` around a `FileSink` | the composition: the worker's calls are the file sink's operations, an exception of the one is a failure counted by the other, and the process may die |
| `RotatingFileSink` | `rotating_file_sink.cpp` | extends `FileSink`; every file system call of a rotation is a step |
| `PatternFormatter` | `pattern_formatter.cpp` | the two scanners as functions of pattern and record |
| `ConsoleSink` | `console_sink.cpp` | extends the formatter; every `fwrite` is a step, and several sinks share a stream |
| `Logger` | `logger.cpp` | the climbs take the mutexes one by one; loggers expire once the registry is cleared and nobody uses them |
| `CApi` | `c_api.cpp`, `global_time.cpp`, `log_string` of `log_macros.hpp` | extends `Logger`: the ways into it, with handles, the global time source and `sim_logger_flush` |
| `LoggerRegistry` | `logger_registry.cpp` | activations of `get_logger` as a stack per thread |
| `RingBufferQueueProofs`, `AsyncSinkProofs`, `AsyncSinkDeliveryProofs`, `AsyncFileProofs`, `RotatingFileSinkProofs`, `CApiProofs`, `LoggerRegistryProofs`, `ConsoleSinkProofs` | | theorems about the modules they are named after, `CApiProofs` also about `Logger` |
| `MCAsyncSink`, `MCAsyncFile`, `MCCApi`, `MCConsoleSink`, `MCLoggerRegistry` | | values of constants and symmetry for TLC |

How steps were chosen. A critical section under a mutex is one step; every
atomic access, every statement between critical sections that others can
observe, every notification outside a mutex and every file system call is one
of its own. A wait on a condition variable is a test under the mutex that
either goes on or puts the thread into a set of waiters; notifications and
spurious wakeups take it out again and it tests anew. For the queue, whose
predicates change only under its mutex, the test and the sleep are one step;
for `flush_cv`, whose predicate is an atomic stored without `flush_m`, they are
two steps with `flush_m` held in between. A climb of `Logger` holds mutexes over
several steps, so there the owners of the mutexes are state.

Correspondence of state: variables carry the names of members in camel case
(`flushDoneGen` for `flush_done_gen_`); `ring` bundles the four members of the
buffer; `pc`, `wpc`, `opc` and `spc` are positions in the code of clients,
worker, owner and file sink. In `Logger` the three settings are fields of
`value` and `overridden`, because the code for them has the same shape.
History variables (marked in each module) record what happened for the
properties and influence no step.

The definitions named `X_Something` before a definition `X` are plausible
slips in the code. Each property is known to be violated when one of them takes
the place of `X`; `PROJECT.json` says which.

### Abstractions

* Records are model values or numbers; a line in a file is a record and its
  size; a logger name is a sequence of dots and words; a pattern is a sequence
  of braces, words and other runs of characters; a rotated name is a second and
  a sequence number, and a file of somebody else (`OtherFile`) has a name that
  starts like one and goes on.
* Generations and counters are unbounded naturals; the 64-bit counters of the
  code do not wrap in practice.
* stdio, for files: what `fwrite` accepted is in the buffer until `fflush` or
  `fclose`. When the process dies, any prefix of the buffer has reached the file.
  A failed call on a stream has written a prefix of what it had, keeps a part in
  the buffer and loses the rest (`StreamFails`): C leaves this open, and common
  libraries discard what they could not write. Losses are counted in lines: a
  write that stops inside a line accepted earlier has lost that line, and the
  fragment in the file is left out. A failed `fsync` is one outcome of a failing
  flush; loss of power, and with it what `fsync` is for, is left out.
* The size of a file at open is best effort in the code: when `fseek` or `ftell`
  fails the count starts at 0, and the file is remembered in `uncounted`.
* stdio, for the console: an `fwrite` is atomic with respect to others on the
  same stream, as stdio's own lock makes it. The stream has no buffer in the
  model, so `ConsoleSink::flush()` has nothing to do there.
* The search for a rotated name sees the directory at one moment and as it is:
  `file_exists` discards its `error_code`, so that a name whose `stat` fails would
  look free, but `stat` does not fail in the model.
* The listing and the removals of a pruning are one step. A listing that breaks
  off has found any part of the rotated files, and any subset of the removals may
  fail.
* `parse_rotation_suffix` takes any row of digits behind the timestamp for a
  sequence number, also one that the sink never writes (10000 and above, leading
  zeros), and the number wraps. A file of somebody else with such a name would be
  pruned like a rotated one; `OtherFile` is not of that shape.
* The clock may be set forwards and back between any two statements.
* The constructor checks of `RotatingFileSink` (empty path, limit zero) are
  assumptions on the constants.
* A time source is alive or not; the three times of a record are read in one
  step and have no values. Applications move their pointer into
  `set_global_time_source()` and keep none, which is the case in which the
  snapshot matters.
* What printf and the macros make of their arguments is left out: a logging
  call is a level and a handle.

## 3. What the runs check

Passing runs:

| Run | Checks | Shows |
|---|---|---|
| `sink_block` | `TypeOK`, `NoLostWakeups`, `FlushNotIgnored`, `FifoDelivery`, `NothingStranded`, `FinalAccounting`, `FlushCoversHanded`, `SecondFlushDelivers` | producers that block, a destructor that may overlap calls: no lost wakeup in the queue, the worker never sleeps on a flush, order and exactly-once delivery, and what a flush covers: everything handed over before it, and everything accepted before the caller's previous flush |
| `sink_drop_oldest` | `RingConsistent`, `FinalAccounting`, `ImplementsFifo` | evictions while indices wrap; the ring inside the sink is a FIFO, and evicted records are counted |
| `async_file` | `FileInOrder`, `FlushReachesDisk`, `AllAccountedFor` | from a client's `write` to the disk, with capacity and batch size zero (which the code turns into one), refusals, a failing file call and the death of the process: the file is in the order of acceptance and misses only what a failed call or a crash took, a flush is durable for what was handed over before it and since the last counted failure, and the counters tell whether something is missing |
| `sink_liveness` | `FlushReturns`, `WriteReturns`, `ShutdownCompletes`, `AcceptedIsHanded` | every call and the destructor come to an end |
| `rotate` | `RotationLosesNothing`, `FlushedSurvives`, `LogInOrder`, `SizeBounded`, `NamesSortByAge`, `NoOverwrite`, `PruneKeepsNewestOfDistinctSeconds`, `RetentionRestored` | any two failures, of eight kinds of calls, and a crash anywhere in a rotation: nothing is lost without one, or out of order; names used up, a clock that is set, a file of somebody else |
| `c_api` | `NobodyStuck`, `EverySinkTried`, `FailuresCounted`, `SourceStaysAlive`, `SnapshotIsEffective`, `FlushReachesSinks` | two threads log and flush on a parent and a child while a setting, the registry or the time source changes and a sink or an allocation throws |
| `registry` | `OneLoggerPerName`, `HierarchyComplete`, `RecursionTerminates` | two threads, names well-formed and not, a `clear()` in between |
| `console` | `FormatLosesNothing`, `TokensAreRendered`, `LinesIntact`, `ColourEnds`, `LinesTerminated` | all patterns of up to five symbols; two threads on two sinks of one stream with a failing `fwrite` |

Runs that end in a violation, each of a sentence in the repository:

| Run | Property | The sentence, and what the code does |
|---|---|---|
| `sink_flush_window` | `FlushDrainsQueue` | "once it returns, all queued records have been written": not a record enqueued between the worker's last empty dequeue and its read of the generation |
| `sink_flush_at_stop` | `FlushReturns` | "Unblock any waiting flush": the exit path notifies without the lock of `flush_m`, so a flush about to sleep is missed |
| `rotate_same_second` | `PruneKeepsNewest` | "prune oldest rotated files": a name freed by pruning is reused within its second and sorts first |
| `logger_filtered` | `FilteredAreCounted` | "number of records dropped (typically due to filtering)": filtered records are counted nowhere |

`FlushReturns` passes in `sink_liveness`, where the owner destroys the sink only
when no call is in progress, and fails in `sink_flush_at_stop`, where the
destructor overlaps a flush. What `flush` does guarantee is stated by
`FlushCoversHanded` and `SecondFlushDelivers`. What pruning does guarantee is
`PruneKeepsNewestOfDistinctSeconds`; a clock that is set back makes it take
younger files, hence `setBack` in the two properties on age.

The model also shows that the worker's final drain never finds a record: it
leaves its main loop only when stopped and empty, and a stopped queue accepts
nothing.

How much a failure costs: one failed `fflush` or `fwrite` may take every line
that the stream still had, and is counted once. The counters therefore tell
whether something is missing, and not how much: `AllAccountedFor` is an equation
as long as no failure was counted, and otherwise says that what was written after
the last counted failure is in the file. Likewise `FlushReachesDisk` promises
nothing for a record when a failure was counted between its hand-over and the
return of the `flush`, even if that `flush` itself met none. What `fclose` loses
in the destructor of `FileSink`, which ignores its result, is in no counter at
all and is left out of `AllAccountedFor`.

The code departs from its documentation, or from what a reader may expect, in
five more places, which the models reproduce and no run states:

* `clear_level_override()` and `clear_immediate_flush_override()` speak of "the
  local default" (`logger.hpp:62`, `130`), but a logger without a parent keeps
  the value last set (`ClearLevelOverride`).
* `clear()` between the recursion of `get_logger` to the parent and the
  insertion of the child leaves a registered child whose parent is not
  registered and expires; hence the condition in `HierarchyComplete`.
* Two sinks on one path (the tests have such a pair) may choose the same rotated
  name, since the check for a file and the rename are two calls; hence the
  condition of `NoOverwrite` and `RotationLosesNothing`.
* `docs/standalone_usage.md:45` and `47` list the tokens `{sim_time}` and
  `{wall_time_ns}`; the formatter knows `{sim}` and `{wall_ns}`, and the listed
  ones are unknown tokens that it leaves as they are.
* Two console sinks on one stream have two mutexes, so their lines and colours
  interleave; `LinesIntact` is about the lines of one sink.

### Bounds

Two clients suffice for a race between two calls; the worker and the owner add
two more threads. Three records against a capacity of one or two fill the
queue, block or evict, and leave one to follow; batches smaller than the queue
make the worker drain several times. A capacity of zero is what `async_file` has;
its lines take two bytes, so that a write can tear one. Files hold one or two
lines before the threshold (lines of one or two bytes against a limit of three),
so four records make several rotations; a single line that exceeds the limit is
left to the proof of `SizeBounded`. Two failures let an error be
followed by an error in its recovery, and two seconds with two names each can be
used up and come back. One change of configuration among two calls of `log` is
enough to fall into either's climb, and the settings start from values that it
changes. Three calls of `write` on two consoles let one of them be preceded and
followed by others on the same sink. Patterns of up to five symbols contain a
token inside, before and after another and every way to leave one open.

`MaxFlushes`, `MaxFailures`, `MaxRecords`, `MaxCrashes`, `MaxClock`,
`MaxChanges`, `MaxCalls`, `MaxClears` and `ConsolePatterns` bound the behaviours
and stand for nothing in the code; `MaxSeq` is 10000 in the code. Runs that
switch the deadlock check off are those in which these bounds end a behaviour.

### Fairness

`AsyncSink`: weak fairness for the worker, for each client inside a call and
for the owner inside the destructor, because threads that can run are
scheduled; strong fairness for the two steps that need `flush_m`, because a
mutex that is released again and again is eventually obtained. Nobody is
obliged to call anything or to destroy the sink. A worker that is always kept
busy by producers postpones a flush for ever; the bounded supply of records
hides this, see the hazards.

The other specifications state no fairness. That calls of `Logger` do not block
each other for ever is checked as the invariant `NobodyStuck`: no circle of
climbs, and no mutex left locked.

## 4. What is proved

Every theorem holds for every value of the constants that satisfies the named
assumptions: `QueueAssumption`, `SinkAssumption`, `AsyncFileAssumption`,
`FileAssumption`, `RotationAssumption`, `TreeAssumption`, `CApiAssumption`,
`RegistryAssumption` and `ConsoleAssumption`. They say that limits are natural
numbers, that threads, loggers and sources are not confused with the markers for
none of them, and

* that a sink has finitely many producers (`SinkAssumption`), since what was
  submitted and dropped is counted;
* that there are finitely many loggers, and that a parent is created before its
  children (`TreeAssumption`), which is how `get_logger` sets the only parent a
  logger ever has;
* that the composition `AsyncFile` has one file sink, alone on its path
  (`AsyncFileAssumption`), since an `AsyncSink` wraps one sink;
* that a pattern is a sequence of the symbols that the scanners tell apart
  (`ConsoleAssumption`).

Two hypotheses are written into theorems. `OnlySink` says that a rotating sink
has its path for itself; with two sinks on a path the properties that need it
are false, see section 3. `MessagesArePlain` says that no message holds an escape
code of `write()`: a line may be nothing but its message, and then nothing in
`write()` would reset the colour.

### The queue and AsyncSink

`RingBufferQueueProofs`: `RingStaysConsistent`, `NoLostWakeup`
(`NoLostWakeups`) and `RingBufferImplementsFifo`. The inductive invariant
`QueueInv` joins the type invariant, the consistency of the ring (the slots from
head to tail are engaged and no others, which ties `tail` to `head` and `count`
modulo the capacity) and the two facts about waiters. The refinement proof shows,
action by action, that the sequence read from the ring changes as `BoundedFifo`
says; the arithmetic of wrapping indices is in lemmas on `SlotAfter`.

`AsyncSinkProofs`: `SinkTypeCorrect`, `SinkUsesQueue`, `SinkQueueIsFifo`,
`WorkerLeavesNothing` (`NothingStranded`) and `FlushCovers`
(`FlushCoversHanded`). `SinkUsesQueue` shows that each step of the sink is a
step of the queue, so the queue's theorems carry over. `SinkInv` adds to the
types: where a thread can be in its call (`CallsInOrder`), what holds on the exit
path once the worker has left its loop (`ExitPath`: stopped, empty), and the
order of the generations and what the last flush of the wrapped sink covered
(`Generations`).

`AsyncSinkDeliveryProofs`: `SinkDeliversInOrder` (`FifoDelivery`),
`SinkAccountsForAll` (`FinalAccounting`), `FlushIsNotIgnored`
(`FlushNotIgnored`) and `TwoFlushesDrain` (`SecondFlushDelivers`).
`DeliveryInv` joins `FifoDelivery` and `Fresh`: a record is accepted at most
once, since it is submitted once and the client that has it gives it away when
the queue accepts it. `Accounting` is an equation: the records submitted are
those in the line (handed over, in the batch or queued), those counted as
dropped, and one for each client of `InWrite`, whose record is not queued or
whose loss is not counted yet. `Kicks` says that a kick is remembered until the
worker has read the generation that it is for. `TwoFlushes` follows a record
that was accepted before a flush to the moment at which the caller's next flush
ends.

### AsyncSink around FileSink

`AsyncFileProofs`: `FileIsBehindSink`, `FlushedIsOnDisk` (`FlushReachesDisk`),
`CountersExplainLosses` (`AllAccountedFor`) and `FileKeepsOrder`
(`FileInOrder`). `FileIsBehindSink` shows that each step of the composition is a
step of the `AsyncSink`, so that `SinkInv` and `FinalAccounting` hold of it. The
operations of the file sink are first reduced to what they do to the set of
lines in the file and in the buffer: `Appends`, `Breaks` (which is `Tears` for a
write and `SyncFails` for a flush: what was in the buffer is written, kept or
gone), `Syncs` and `GoesDown`. The invariant is about these sets.

* `SavedInv`: a line whose write returned is in the file, in the buffer or gone.
* `CleanInv`: the lines of `clean`, written since the last counted failure, are in
  the file or the buffer; only a crash or the destructor's `fclose` may lose one.
* `DiskInv`: from the moment at which the worker has flushed the file for a caller
  (`FlushedFor`: its generation is served, about to be stored as served, or the
  worker is past its last flush), the clean lines handed over before the call
  (`Promise`) are on the disk. That needs the converse of a fact of `SinkInv`: the
  queue is stopped only once the destructor has begun, so no new caller meets a
  worker past its last flush.
* `CountInv`: a line that was numbered is a written one or a counted failure, and
  lines are gone only if a failure or a crash was there to lose them.
* `OrderInv`: the numbers of the lines in the file and the buffer rise, up to the
  last number given out, and no line that is there is gone. The two together stand
  (`Stands`), grow by a line (`OneMore`), or are cut off, perhaps behind a torn
  line (`CutsOff`).

A line's number is the place of its record among those handed over, so with
`FifoDelivery` of the sink the lines, the batch and the ring stand in the order of
acceptance.

### RotatingFileSink

`RotatingFileSinkProofs`: `PruningRestoresRetention` (`RetentionRestored`), for
any number of sinks; and under `OnlySink`: `FlushedRecordsSurvive`
(`FlushedSurvives`), `RotationKeepsAll` (`RotationLosesNothing`),
`RotationOverwritesNothing` (`NoOverwrite`), `RotatedNamesSortByAge`
(`NamesSortByAge`), `PruningKeepsNewest` (`PruneKeepsNewestOfDistinctSeconds`),
`LogKeepsOrder` (`LogInOrder`) and `FilesStayBelowThreshold` (`SizeBounded`).
The steps are first reduced to what they do to the files and the stream
(`StepKind`); a failed call is a `Drains`, which splits what the stream had into
written, kept and lost. `Shape` has the types; `Own` says that the stream is that of the file at the path
and is closed while a rotation moves the file; `Chosen`, that the name a rotation
has chosen stays free until the rename and is the least free one of its second.
`LossesAreBlamed` shows that no step loses a line without a failed call or a crash.
For the age of files `AgeInv` adds to `NamesSortByAge` that the file at the path
is the newest (`BaseIsNewest`), that no name is of a later second until the clock
is set back (`NamesArePast`), and that the sequence numbers of a second from
which nothing was pruned have no gap (`NoGaps`).

For the order of the log, `LogInv` says that the file at the path is the one
created last (`PathIsLast`), so that what leaves the buffer is put behind all
other lines; that a `write()` on its way has the last number given out
(`Numbered`); and, of the files, the buffer and the numbers used before that one
(`LogOK`), that the numbers rise within and across them and that what is there
and what is gone make up the calls that returned, without overlap. For the size,
`SizeInv` speaks of every prefix, since a failed call or a crash may end a file
anywhere: in a file that is not in `uncounted`, a prefix of whole lines is one line
or is below the threshold (`Fits`). The stream's part (`StreamFits`) is that
`bytes_written_` is at least the size of every such prefix of file and buffer
together (`Counted`; it is more once a failed call has lost lines), that a rotation
reaches its pruning with an empty file, and that a `write()` that is about to write
has such a file or room in the old one. That `reopen` finds no file at the path is
needed for the former, and only a sink alone on its path is sure of it.

### Logger and C API

`CApiProofs`: `ClimbsNeverDeadlock` (`NobodyStuck`), `ClimbReadsOneMoment`
(`SnapshotIsEffective`), `LogTriesEverySink` (`EverySinkTried`),
`EveryFailureCounted` (`FailuresCounted`), `SnapshotKeepsSource`
(`SourceStaysAlive`) and `FlushReachesEverySink` (`FlushReachesSinks`).
`LogInv` has the types, with the place of a record in `trail` and of a client in
its call. `ClimbInv` says that whoever holds a mutex climbs and stands on a logger
nearer to the root, and that a climb holds all the loggers from where it began to
where it stands, none of which has a setting of its own. A circle of waiting
climbs would therefore lead to a logger nearer to the root than itself, and what
a climb returns is what the whole tree would return at that moment. `ServeInv`
relates what was tried for a record to the sinks that its call has left; `CountInv`
equates each logger's counter with the exceptions in the trails; `SourceInv` says
that a call that has yet to read the times reads them from its thread's snapshot;
and `FlushInv`, that a sink with records of the caller of `sim_logger_flush` is
still ahead in the list that it found.

### LoggerRegistry

`LoggerRegistryProofs`: `RegistryHasOneLoggerPerName` (`OneLoggerPerName`),
`RegistryRecursionTerminates` (`RecursionTerminates`) and
`RegistryHierarchyIsComplete` (`HierarchyComplete`). `StacksOK` says that every
activation but the innermost waits for the logger of its parent's name, which
the next one looks for, and that names get smaller on the way in: a parent's
name is the root's or shorter. `AnswersCurrent` says that what was answered
since the last `clear()` is still registered; `ParentsOK`, that registered
loggers, and those about to be registered, have the registered logger of their
parent's name as parent, unless a `clear()` came between.

### ConsoleSink

`ConsoleSinkProofs`: `FormatKeepsPattern` (`FormatLosesNothing`) and
`ScannersFindSameFields` (`TokensAreRendered`), for patterns of any length;
`SinkLinesStayIntact` (`LinesIntact`), `FinishedLinesAreTerminated`
(`LinesTerminated`) and `ColoursAreReset` (`ColourEnds`).

Each scanner is a function of the position that goes on behind what it has found.
The proofs first show that such a function exists and satisfies its equation
(`FormatScan`, `ExtractScan`), and then look at the last position at which a claim
about the rest of the pattern fails: the scan goes on from a later one, where it
holds. `FormatIsIdentity` is the claim that the rest comes back unchanged,
`ScansAgree` that both scanners find the same fields in it.

`CallsOK` says that calls have different numbers, that a thread
writes only with the mutex of its sink, and that nothing of a call is written
before it has it. `LinesInv` adds that after the first piece of a line in
progress its sink has written nothing else; `EndsInv`, that the newline of a
line in progress is still to come or only the reset is left; `ColourInv`, that a
colour on the stream is reset, was left by a call that threw, or is that of a
call that has the reset yet to write. That no line is itself an escape code
follows from `MessagesArePlain`, since a line consists of symbols of the pattern
and of the fields.

### Only model-checked

Liveness (`FlushReturns`, `WriteReturns`, `ShutdownCompletes`,
`AcceptedIsHanded`), which needs fairness and `ENABLED`. Every invariant and every
other action property of a passing run is stated by a theorem.

The prover cannot instantiate the library's theorems on induction. Where a proof
needs induction over numbers or sequences (the two scanners, the sum `Bytes` of a
file's lines, the choice of the oldest files), it takes the least or the greatest
counterexample of a set of numbers, which exists by well-foundedness.

## 5. What is not modelled

Not modelled: `TestSink` (a vector behind a mutex, for tests); time sources
(reads of a clock, and settable values for tests); names of levels and their
parsing (a table); the preprocessor dispatch of the macros and printf
formatting; the layout of numbers in `PatternFormatter`; `ConsoleSink::flush()`,
for want of a buffer to flush; the counter `rotations_performed_`, on which
nothing depends; durability against loss of power; calls on a sink that is
already destroyed, which are undefined behaviour.

Possible extensions: the values of the three times of a record, to state what a
time source that advances between the reads does to a line; durability against
loss of power, to state what `fsync` adds; an unbounded supply of records for
`AsyncSink`, to state that a busy worker postpones a flush.
