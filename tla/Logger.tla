-------------------------------- MODULE Logger --------------------------------
(***************************************************************************)
(* Logger: a tree of loggers that inherit level, sinks and immediate flush *)
(* from their parents, and log(), which resolves the three one after the   *)
(* other and then feeds every effective sink.                              *)
(*                                                                         *)
(* Every logger has its own mutex.  effective_level() and its two siblings *)
(* call the parent's method while they hold their own mutex, so a climb    *)
(* towards the root takes the mutexes one by one and keeps them all.  The  *)
(* setters hold one mutex and are single steps.                            *)
(*                                                                         *)
(* Parents are weak pointers.  The registry owns the loggers until it is   *)
(* cleared; from then on a logger lives as long as a client has it or a    *)
(* climb stands on it, and its children go on without a parent after that. *)
(***************************************************************************)
EXTENDS Integers, SequencesExt, FiniteSetsExt

CONSTANTS Loggers,      \* the loggers of the tree
          NoLogger,     \* the null pointer
          parent,       \* parent_ of each logger, set before it is published
          Clients,      \* the threads that log
          Nobody,       \* the owner of a free mutex
          Sinks,        \* the sinks
          SinkLists,    \* the lists that set_sinks() is called with
          RootSinks,    \* the sinks of the root logger when the clients start
          Levels,       \* the levels, as integers
          MaxRecords,   \* bound: calls of log() in a behaviour
          MaxChanges,   \* bound: configuration changes in a behaviour
          MaxFailures   \* bound: sink exceptions and failed allocations

ASSUME TreeAssumption ==
  /\ NoLogger \notin Loggers /\ Nobody \notin Clients
  /\ parent \in [Loggers -> Loggers \cup {NoLogger}]
  /\ IsFiniteSet(Loggers)
  /\ \E depth \in [Loggers -> 0 .. Cardinality(Loggers) - 1] :  \* a parent is there before its child
       \A l \in Loggers : parent[l] # NoLogger => depth[parent[l]] < depth[l]
  /\ SinkLists \subseteq Seq(Sinks) /\ RootSinks \in Seq(Sinks)
  /\ Levels \subseteq 0 .. 4
  /\ MaxRecords \in Nat /\ MaxChanges \in Nat /\ MaxFailures \in Nat

VARIABLES value,      \* level_, sinks_ and immediate_flush_ of each logger
          overridden, \* level_overridden_, sinks_overridden_, ...
          registered, \* the registry has not been cleared
          handle,     \* the logger that each client has a pointer to
          owner,      \* the owner of each logger's mutex_
          pc,         \* each client's place in its call
          call,       \* the call: its record's number and level, the logger whose
                      \* mutex a climb needs next, the sinks still to be served
                      \* and do_flush
          failed,     \* sink_failures_count_ of each logger
          dropped,    \* dropped_records_count_ of each logger
          lastId,     \* the number of the last record
          changes,    \* configuration changes so far
          failures    \* exceptions so far

\* What happened, kept for the properties only.
VARIABLES trail,      \* of each record: its logger, the sinks that log() found, what
                      \* they did, and whether it was below the level
          unflushed   \* of each sink: the clients whose records were not flushed since

configVars == <<value, overridden, registered, changes>>
historyVars == <<trail, unflushed>>
loggerVars == <<configVars, handle, owner, pc, call, failed, dropped, lastId, failures, historyVars>>

\* Level::Info
Info == 1

Kinds == {"level", "sinks", "flush"}

\* The places in which a climb is under way, and the setting that it looks up:
\* effective_sinks() is called outside log() too.
SettingOf(label) == IF label = "sinks_only" THEN "sinks" ELSE label
Climbing(c) == pc[c] \in Kinds \cup {"sinks_only"}

\* The loggers that somebody owns.
Alive ==
  IF registered THEN Loggers
  ELSE ({ handle[c] : c \in Clients } \cup { call[c].at : c \in { b \in Clients : Climbing(b) } }
        \cup { l \in Loggers : owner[l] # Nobody }) \ {NoLogger}

\* parent_.lock()
Up(l) == IF parent[l] \in Alive THEN parent[l] ELSE NoLogger

\* What a logger returns when it asks no parent.
Local(k, l) == IF k = "sinks" /\ ~overridden[l][k] THEN <<>> ELSE value[l][k]

Throws == failures < MaxFailures /\ failures' = failures + 1

Goto(c, label) == pc' = [pc EXCEPT ![c] = label]

NoCall == [id |-> 0, level |-> Info, at |-> NoLogger, sinks |-> <<>>, flush |-> FALSE]

\* The call is over.
Leave(c) == Goto(c, "idle") /\ call' = [call EXCEPT ![c] = NoCall]
-----------------------------------------------------------------------------
(* Configuration. *)

Changed == changes < MaxChanges /\ changes' = changes + 1

Configure(l, k, v, o) ==
  /\ l \in Alive /\ owner[l] = Nobody /\ Changed
  /\ value' = [value EXCEPT ![l][k] = v]
  /\ overridden' = [overridden EXCEPT ![l][k] = o]
  /\ UNCHANGED <<registered, handle, owner, pc, call, failed, dropped, lastId, failures, historyVars>>

SetLevel(l, v) == Configure(l, "level", v, TRUE)

\* The level itself stays as it was last set.
ClearLevelOverride(l) == Configure(l, "level", value[l]["level"], FALSE)

AddSink(l, s) == Configure(l, "sinks", Append(value[l]["sinks"], s), TRUE)

SetSinks(l, list) == Configure(l, "sinks", list, TRUE)

ClearSinkOverride(l) == Configure(l, "sinks", <<>>, FALSE)

SetImmediateFlush(l, b) == Configure(l, "flush", b, TRUE)

ClearImmediateFlushOverride(l) == Configure(l, "flush", value[l]["flush"], FALSE)

\* LoggerRegistry::clear().  Loggers that are created afterwards are another tree.
ClearRegistry ==
  /\ registered /\ Changed
  /\ registered' = FALSE
  /\ UNCHANGED <<value, overridden, handle, owner, pc, call, failed, dropped, lastId, failures,
                 historyVars>>

Change(l) ==
  \/ \E v \in Levels : SetLevel(l, v)
  \/ ClearLevelOverride(l)
  \/ \E s \in Sinks : AddSink(l, s)
  \/ \E list \in SinkLists : SetSinks(l, list)
  \/ ClearSinkOverride(l)
  \/ \E b \in BOOLEAN : SetImmediateFlush(l, b)
  \/ ClearImmediateFlushOverride(l)
-----------------------------------------------------------------------------
(* log(): the caller has a pointer to the logger until it returns. *)

BeginLog(c, v) ==
  /\ lastId' = lastId + 1
  /\ call' = [call EXCEPT ![c] = [NoCall EXCEPT !.id = lastId + 1, !.level = v, !.at = handle[c]]]
  /\ Goto(c, "level")
  /\ trail' = Append(trail, [logger |-> handle[c], list |-> <<>>, events |-> <<>>,
                             filtered |-> FALSE])
  /\ UNCHANGED <<configVars, handle, owner, failed, dropped, failures, unflushed>>

\* The setting that the climb looks up is inherited here.
Inherits(c) == ~overridden[call[c].at][SettingOf(pc[c])] /\ Up(call[c].at) # NoLogger

\* A plausible slip: the mutex is released before the parent is asked.
ClimbUp_Unlocked(c) ==
  /\ Climbing(c) /\ owner[call[c].at] = Nobody /\ Inherits(c)
  /\ call' = [call EXCEPT ![c].at = Up(@)]
  /\ UNCHANGED <<configVars, handle, owner, pc, failed, dropped, lastId, failures, historyVars>>

\* One level of effective_level(), effective_sinks() or
\* effective_immediate_flush(): the mutex is held over the parent's call.
ClimbUp(c) ==
  /\ Climbing(c) /\ owner[call[c].at] = Nobody /\ Inherits(c)
  /\ owner' = [owner EXCEPT ![call[c].at] = c]
  /\ call' = [call EXCEPT ![c].at = Up(@)]
  /\ UNCHANGED <<configVars, handle, pc, failed, dropped, lastId, failures, historyVars>>

\* A plausible slip: an exception leaves the mutexes locked.
Unwind_Leaks(c) == UNCHANGED owner

\* Every mutex of the climb is released.
Unwind(c) == owner' = [l \in Loggers |-> IF owner[l] = c THEN Nobody ELSE owner[l]]

\* The last level of a climb, whose mutex is free, and the return of the value.
ClimbEnds(c, label) ==
  /\ pc[c] = label /\ owner[call[c].at] = Nobody /\ ~Inherits(c)
  /\ Unwind(c)

\* A record below the level is ignored, and counted nowhere.
ResolveLevel(c) ==
  /\ ClimbEnds(c, "level")
  /\ \/ /\ call[c].level >= Local("level", call[c].at)
        /\ Goto(c, "sinks")
        /\ call' = [call EXCEPT ![c].at = handle[c]]
        /\ UNCHANGED trail
     \/ /\ call[c].level < Local("level", call[c].at)
        /\ trail' = [trail EXCEPT ![call[c].id].filtered = TRUE]
        /\ Leave(c)
  /\ UNCHANGED <<configVars, handle, failed, dropped, lastId, failures, unflushed>>

\* The list is copied, which may throw: then the record is dropped.
ResolveSinks(c) ==
  /\ ClimbEnds(c, "sinks")
  /\ \/ LET list == Local("sinks", call[c].at) IN
        /\ call' = [call EXCEPT ![c].at = handle[c], ![c].sinks = list]
        /\ trail' = [trail EXCEPT ![call[c].id].list = list]
        /\ Goto(c, "flush")
        /\ UNCHANGED <<dropped, failures>>
     \/ /\ Throws
        /\ dropped' = [dropped EXCEPT ![handle[c]] = @ + 1]
        /\ Leave(c)
        /\ UNCHANGED trail
  /\ UNCHANGED <<configVars, handle, failed, lastId, unflushed>>

ResolveFlush(c) ==
  /\ ClimbEnds(c, "flush")
  /\ call' = [call EXCEPT ![c].at = handle[c], ![c].flush = Local("flush", call[c].at)]
  /\ Goto(c, "write")
  /\ UNCHANGED <<configVars, handle, failed, dropped, lastId, failures, historyVars>>

\* What the first sink of the list has done with the record.
Happens(c, what) ==
  LET s == Head(call[c].sinks) IN
  /\ trail' = [trail EXCEPT ![call[c].id].events = Append(@, <<what, s>>)]
  /\ unflushed' = [unflushed EXCEPT ![s] = CASE what = "written" -> @ \cup {c}
                                             [] what = "flushed" -> {}
                                             [] OTHER            -> @]

NextSink(c) == call' = [call EXCEPT ![c].sinks = Tail(@)] /\ Goto(c, "write")

\* A plausible slip: the try block encloses the loop.
SinkThrows_EndsLoop(c, what) ==
  /\ Throws
  /\ failed' = [failed EXCEPT ![handle[c]] = @ + 1]
  /\ Happens(c, what)
  /\ call' = [call EXCEPT ![c].sinks = <<>>] /\ Goto(c, "write")

\* A plausible slip: an exception is swallowed without a count.
SinkThrows_Uncounted(c, what) ==
  /\ Throws
  /\ UNCHANGED failed
  /\ Happens(c, what)
  /\ NextSink(c)

\* The exception of one sink is counted and the loop goes on.
SinkThrows(c, what) ==
  /\ Throws
  /\ failed' = [failed EXCEPT ![handle[c]] = @ + 1]
  /\ Happens(c, what)
  /\ NextSink(c)

\* sink->write(record)
WriteSink(c) ==
  /\ pc[c] = "write" /\ call[c].sinks # <<>>
  /\ \/ /\ Happens(c, "written")
        /\ IF call[c].flush THEN Goto(c, "flush_sink") /\ UNCHANGED call ELSE NextSink(c)
        /\ UNCHANGED <<failed, failures>>
     \/ SinkThrows(c, "write_failed")
  /\ UNCHANGED <<configVars, handle, owner, dropped, lastId>>

\* sink->flush()
FlushSink(c) ==
  /\ pc[c] = "flush_sink"
  /\ \/ /\ Happens(c, "flushed")
        /\ NextSink(c)
        /\ UNCHANGED <<failed, failures>>
     \/ SinkThrows(c, "flush_failed")
  /\ UNCHANGED <<configVars, handle, owner, dropped, lastId>>

Return(c) ==
  /\ pc[c] = "write" /\ call[c].sinks = <<>>
  /\ Leave(c)
  /\ UNCHANGED <<configVars, handle, owner, failed, dropped, lastId, failures, historyVars>>

LogStep(c) ==
  \/ ClimbUp(c)
  \/ ResolveLevel(c)
  \/ ResolveSinks(c)
  \/ ResolveFlush(c)
  \/ WriteSink(c)
  \/ FlushSink(c)
  \/ Return(c)

\* The application has given the root logger its sinks before it starts its threads.
LoggerInit ==
  /\ value = [l \in Loggers |-> [level |-> Info, flush |-> FALSE,
                                 sinks |-> IF parent[l] = NoLogger THEN RootSinks ELSE <<>>]]
  /\ overridden = [l \in Loggers |-> [k \in Kinds |-> k = "sinks" /\ parent[l] = NoLogger]]
  /\ registered = TRUE
  /\ handle = [c \in Clients |-> NoLogger]
  /\ owner = [l \in Loggers |-> Nobody]
  /\ pc = [c \in Clients |-> "idle"]
  /\ call = [c \in Clients |-> NoCall]
  /\ failed = [l \in Loggers |-> 0]
  /\ dropped = [l \in Loggers |-> 0]
  /\ lastId = 0 /\ changes = 0 /\ failures = 0
  /\ trail = <<>>
  /\ unflushed = [s \in Sinks |-> {}]
-----------------------------------------------------------------------------
\* The setting k of l is, at this moment, the one that m has: m is the nearest of
\* l and its ancestors that overrides it, or the last one alive.
TakesFrom(k, l, m) ==
  \E n \in 1 .. Cardinality(Loggers) : \E path \in [1 .. n -> Loggers] :
    /\ path[1] = l /\ path[n] = m
    /\ \A i \in 1 .. n - 1 : ~overridden[path[i]][k] /\ Up(path[i]) = path[i + 1]
    /\ overridden[m][k] \/ Up(m) = NoLogger

\* Although a climb visits one logger after the other while others are being
\* reconfigured, the value it returns is the one the logger had at a single
\* moment, that of its last step: filtering, sinks and flushing follow it.
SnapshotIsEffective ==
  [][\A c \in Clients :
       /\ pc[c] = "level" /\ pc'[c] # "level" =>
            \E m \in Loggers : /\ TakesFrom("level", handle[c], m)
                               /\ (pc'[c] = "sinks") <=> call[c].level >= Local("level", m)
       /\ pc[c] = "sinks" /\ pc'[c] = "flush" =>
            \E m \in Loggers : /\ TakesFrom("sinks", handle[c], m)
                               /\ call'[c].sinks = Local("sinks", m)
       /\ pc[c] = "flush" /\ pc'[c] = "write" =>
            \E m \in Loggers : /\ TakesFrom("flush", handle[c], m)
                               /\ call'[c].flush = Local("flush", m)]_loggerVars

\* The events of a record that are of one of these kinds, by their places.
Events(id, kinds) == { i \in 1 .. Len(trail[id].events) : trail[id].events[i][1] \in kinds }

\* Those in which write() was called.
Tries(id) == Events(id, {"written", "write_failed"})

\* log() offers the record to every sink it found, each once and in order,
\* whatever the ones before did.
EverySinkTried ==
  \A id \in 1 .. lastId :
    LET list == trail[id].list IN
    /\ \A i \in Tries(id) :
         LET k == Cardinality({ j \in Tries(id) : j <= i })
         IN  k <= Len(list) /\ trail[id].events[i][2] = list[k]
    /\ (\A c \in Clients : call[c].id # id) => Cardinality(Tries(id)) = Len(list)

\* The exceptions of sinks under calls to l, as pairs of record and event.
Raised(l) ==
  UNION { {id} \X Events(id, {"write_failed", "flush_failed"}) :
            id \in { i \in 1 .. lastId : trail[i].logger = l } }

\* Every exception of a sink, from write() or from the immediate flush, is in
\* the count of the logger that was called, also when two threads meet there.
FailuresCounted == \A l \in Loggers : failed[l] = Cardinality(Raised(l))

\* logger.hpp: dropped_records_count() is the "number of records dropped (typically
\* due to filtering)".
FilteredAreCounted ==
  \A l \in Loggers :
    dropped[l] >= Cardinality({ id \in 1 .. lastId : trail[id].logger = l /\ trail[id].filtered })

\* Climbs that meet on the same loggers never wait for each other in a circle, and
\* no mutex stays locked behind a climb that returned or threw: some thread inside a
\* call can always go on.
NobodyStuck ==
  /\ \A l \in Loggers : owner[l] # Nobody => Climbing(owner[l])
  /\ (\E c \in Clients : pc[c] # "idle") =>
       \E c \in Clients : pc[c] # "idle" /\ (Climbing(c) => owner[call[c].at] = Nobody)
=============================================================================
