--------------------------------- MODULE CApi ---------------------------------
(***************************************************************************)
(* The ways into the library, the C API and the logging macros, and the    *)
(* global time source that both of them read.                              *)
(*                                                                         *)
(* A logging call takes a snapshot of the global source, reads three times *)
(* from it, and hands the record to Logger::log().  The source may be      *)
(* replaced meanwhile; an application that moves its pointer into          *)
(* set_global_time_source() keeps none, so a source lives as long as it is *)
(* installed or in the snapshot of a thread.                               *)
(*                                                                         *)
(* What printf formatting yields is of no interest to Logger: message,     *)
(* file, line and function are left out.                                   *)
(***************************************************************************)
EXTENDS Logger

CONSTANTS CLevels,   \* the values that C code passes as levels
          Fallback,  \* the process's DummyTimeSource
          Sources,   \* the sources that the application makes
          NoSource,  \* the null pointer
          MaxFlushes \* bound: calls of sim_logger_flush() in a behaviour

ASSUME CApiAssumption ==
  /\ CLevels \subseteq Nat
  /\ Fallback \notin Sources /\ NoSource \notin Sources \cup {Fallback}
  /\ MaxFlushes \in Nat

VARIABLES installed, \* GlobalTimeState::installed
          tls,       \* tls_snapshot of each thread
          ts,        \* the reference that a logging call reads from
          flushes,   \* calls of sim_logger_flush() so far
          reached    \* of each such call: the sinks found that did not throw

timeVars == <<installed, tls, ts>>
flushVars == <<flushes, reached>>
vars == <<loggerVars, timeVars, flushVars>>

LiveSources == ({Fallback, installed} \cup { tls[c] : c \in Clients }) \ {NoSource}

\* to_cpp_level: a value that is no level is taken for Info.
ToCppLevel(v) == IF v \in 0 .. 4 THEN v ELSE Info
-----------------------------------------------------------------------------
\* sim_logger_get
Get(c, l) ==
  /\ pc[c] = "idle" /\ handle[c] = NoLogger /\ registered
  /\ handle' = [handle EXCEPT ![c] = l]
  /\ UNCHANGED <<configVars, owner, pc, call, failed, dropped, lastId, failures, historyVars,
                 timeVars, flushVars>>

\* sim_logger_release
Release(c) ==
  /\ pc[c] = "idle" /\ handle[c] # NoLogger
  /\ handle' = [handle EXCEPT ![c] = NoLogger]
  /\ UNCHANGED <<configVars, owner, pc, call, failed, dropped, lastId, failures, historyVars,
                 timeVars, flushVars>>

\* set_global_time_source, with a source that is new or with nullptr.
SetGlobalTimeSource(source) ==
  /\ source # installed /\ Changed
  /\ source = NoSource \/ source \notin LiveSources \cup { ts[c] : c \in Clients }
  /\ installed' = source
  /\ UNCHANGED <<value, overridden, registered, handle, owner, pc, call, failed, dropped, lastId,
                 failures, historyVars, tls, ts, flushVars>>

\* A plausible slip: the reference is taken from the shared pointer that the
\* accessor returns, and the pointer is not kept.
GlobalTimeSourceRef_NoSnapshot(c) ==
  /\ ts' = [ts EXCEPT ![c] = IF installed = NoSource THEN Fallback ELSE installed]
  /\ UNCHANGED tls

\* global_time_source_ref
GlobalTimeSourceRef(c) ==
  /\ ts' = [ts EXCEPT ![c] = IF installed = NoSource THEN Fallback ELSE installed]
  /\ tls' = [tls EXCEPT ![c] = ts'[c]]

\* The start of a logging call, up to the reference to the source.
Stamp(c, v) ==
  /\ pc[c] = "idle" /\ lastId + Cardinality({ b \in Clients : pc[b] = "stamp" }) < MaxRecords
  /\ handle[c] # NoLogger
  /\ GlobalTimeSourceRef(c)
  /\ call' = [call EXCEPT ![c].level = v]
  /\ Goto(c, "stamp")
  /\ UNCHANGED <<configVars, handle, owner, failed, dropped, lastId, failures, historyVars,
                 installed, flushVars>>

\* sim_logger_log
SimLoggerLog(c, v) == Stamp(c, ToCppLevel(v))

\* log_string, which all the macros end in.
LogString(c, v) == Stamp(c, v)

\* The three times are read, and the record is complete.
LogRecord(c) ==
  /\ pc[c] = "stamp"
  /\ BeginLog(c, call[c].level)
  /\ ts' = [ts EXCEPT ![c] = NoSource]
  /\ UNCHANGED <<installed, tls, flushVars>>
-----------------------------------------------------------------------------
(* sim_logger_flush *)

SimLoggerFlush(c) ==
  /\ pc[c] = "idle" /\ handle[c] # NoLogger
  /\ flushes < MaxFlushes /\ flushes' = flushes + 1
  /\ call' = [call EXCEPT ![c].at = handle[c]]
  /\ Goto(c, "sinks_only")
  /\ UNCHANGED <<configVars, handle, owner, failed, dropped, lastId, failures, historyVars,
                 timeVars, reached>>

\* effective_sinks() returns, or the copy of the list throws and nothing is flushed.
FlushFindsSinks(c) ==
  /\ ClimbEnds(c, "sinks_only")
  /\ \/ /\ call' = [call EXCEPT ![c].at = NoLogger, ![c].sinks = Local("sinks", call[c].at)]
        /\ reached' = [reached EXCEPT ![c] = ToSet(Local("sinks", call[c].at))]
        /\ Goto(c, "flush_all")
        /\ UNCHANGED failures
     \/ Throws /\ Leave(c) /\ UNCHANGED reached
  /\ UNCHANGED <<configVars, handle, failed, dropped, lastId, historyVars, timeVars, flushes>>

\* A plausible slip: one try block for the whole loop.
FlushAll_EndsLoop(c) ==
  /\ pc[c] = "flush_all" /\ call[c].sinks # <<>>
  /\ LET s == Head(call[c].sinks) IN
       \/ /\ unflushed' = [unflushed EXCEPT ![s] = {}]
          /\ call' = [call EXCEPT ![c].sinks = Tail(@)]
          /\ UNCHANGED <<failures, reached>>
       \/ /\ Throws
          /\ call' = [call EXCEPT ![c].sinks = <<>>]
          /\ reached' = [reached EXCEPT ![c] = @ \ {s}]
          /\ UNCHANGED unflushed
  /\ UNCHANGED <<configVars, handle, owner, pc, failed, dropped, lastId, trail, timeVars, flushes>>

\* s->flush(): an exception is swallowed, and counted nowhere.
FlushAll(c) ==
  /\ pc[c] = "flush_all" /\ call[c].sinks # <<>>
  /\ LET s == Head(call[c].sinks) IN
       \/ unflushed' = [unflushed EXCEPT ![s] = {}] /\ UNCHANGED <<failures, reached>>
       \/ Throws /\ reached' = [reached EXCEPT ![c] = @ \ {s}] /\ UNCHANGED unflushed
  /\ call' = [call EXCEPT ![c].sinks = Tail(@)]
  /\ UNCHANGED <<configVars, handle, owner, pc, failed, dropped, lastId, trail, timeVars, flushes>>

FlushReturns(c) ==
  /\ pc[c] = "flush_all" /\ call[c].sinks = <<>>
  /\ Leave(c)
  /\ reached' = [reached EXCEPT ![c] = {}]
  /\ UNCHANGED <<configVars, handle, owner, failed, dropped, lastId, failures, historyVars, timeVars,
                 flushes>>
-----------------------------------------------------------------------------
Init ==
  /\ LoggerInit
  /\ installed \in Sources \cup {NoSource}
  /\ tls = [c \in Clients |-> NoSource]
  /\ ts = [c \in Clients |-> NoSource]
  /\ flushes = 0
  /\ reached = [c \in Clients |-> {}]

Next ==
  \/ (ClearRegistry \/ \E l \in Loggers : Change(l)) /\ UNCHANGED <<timeVars, flushVars>>
  \/ \E source \in Sources \cup {NoSource} : SetGlobalTimeSource(source)
  \/ \E c \in Clients :
       \/ \E l \in Loggers : Get(c, l)
       \/ Release(c)
       \/ \E v \in CLevels : SimLoggerLog(c, v)
       \/ \E v \in Levels : LogString(c, v)
       \/ LogRecord(c)
       \/ LogStep(c) /\ UNCHANGED <<timeVars, flushVars>>
       \/ SimLoggerFlush(c)
       \/ FlushFindsSinks(c)
       \/ FlushAll(c)
       \/ FlushReturns(c)

Spec == Init /\ [][Next]_vars
-----------------------------------------------------------------------------
\* "This uses a thread-local snapshot to keep the underlying shared_ptr alive for the
\* caller thread": whoever replaces the global source meanwhile, and whatever other
\* threads log, the source that a record's times are read from still lives.
SourceStaysAlive == \A c \in Clients : pc[c] = "stamp" => ts[c] \in LiveSources

\* When sim_logger_flush() returns, no sink that it found, and that did not throw
\* itself, has records of the calling thread that were never flushed, although an
\* exception of one sink may have come before the turn of another.
FlushReachesSinks ==
  [][\A c \in Clients : pc[c] = "flush_all" /\ pc'[c] = "idle" =>
       \A s \in reached[c] : c \notin unflushed[s]]_vars
=============================================================================
