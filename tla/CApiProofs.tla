------------------------------ MODULE CApiProofs ------------------------------
(***************************************************************************)
(* The loggers and the ways into them, for every tree of loggers, every    *)
(* set of clients and every configuration: climbs do not deadlock and read *)
(* one moment's configuration, every sink gets every record and every      *)
(* exception is counted, sim_logger_flush() reaches the sinks, and the     *)
(* time source of a record outlives its use.                               *)
(***************************************************************************)
EXTENDS CApi, TLAPS, FiniteSetTheorems, SequenceTheorems, WellFoundedInduction

Labels == Kinds \cup {"idle", "stamp", "sinks_only", "write", "flush_sink", "flush_all"}

EventKinds == {"written", "write_failed", "flushed", "flush_failed"}

Calls == [id : Nat, level : Nat, at : Loggers \cup {NoLogger}, sinks : Seq(Sinks), flush : BOOLEAN]

Trails == [logger : Loggers, list : Seq(Sinks), events : Seq(EventKinds \X Sinks),
           filtered : BOOLEAN]

ConfigTypes ==
  /\ value \in [Loggers -> [level : Nat, flush : BOOLEAN, sinks : Seq(Sinks)]]
  /\ overridden \in [Loggers -> [Kinds -> BOOLEAN]]

\* A client inside a call has a logger, and its climb stands on one.
CallTypes ==
  /\ handle \in [Clients -> Loggers \cup {NoLogger}]
  /\ owner \in [Loggers -> Clients \cup {Nobody}]
  /\ pc \in [Clients -> Labels]
  /\ call \in [Clients -> Calls]
  /\ lastId \in Nat
  /\ \A c \in Clients : pc[c] # "idle" => handle[c] \in Loggers
  /\ \A c \in Clients : Climbing(c) => call[c].at \in Loggers
  /\ \A c \in Clients : pc[c] = "flush_sink" => call[c].sinks # <<>>

\* A record's number is its place in the trail, and one client at most works on it.
TrailTypes ==
  /\ trail \in Seq(Trails) /\ Len(trail) = lastId
  /\ failed \in [Loggers -> Nat]
  /\ \A c \in Clients :
       /\ call[c].id <= lastId
       /\ pc[c] \in Kinds \cup {"write", "flush_sink"} =>
            call[c].id >= 1 /\ trail[call[c].id].logger = handle[c]
       /\ pc[c] \notin Kinds \cup {"write", "flush_sink"} => call[c].id = 0
       /\ \A d \in Clients : call[c].id = call[d].id /\ call[c].id # 0 => c = d

LogInv == ConfigTypes /\ CallTypes /\ TrailTypes
-----------------------------------------------------------------------------
(* What the actions are made of. *)

\* A change of the configuration is Configure with a value of the right type.
LEMMA ChangeConfigures ==
  ASSUME ConfigTypes, NEW l \in Loggers, Change(l)
  PROVE  \E o \in BOOLEAN :
           \/ \E v \in Nat : Configure(l, "level", v, o)
           \/ \E v \in BOOLEAN : Configure(l, "flush", v, o)
           \/ \E v \in Seq(Sinks) : Configure(l, "sinks", v, o)
  <1>1. /\ value[l]["level"] \in Nat /\ value[l]["flush"] \in BOOLEAN
        /\ value[l]["sinks"] \in Seq(Sinks)
    BY DEF ConfigTypes
  <1>2. \A s \in Sinks : Append(value[l]["sinks"], s) \in Seq(Sinks)
    BY <1>1, AppendProperties
  <1>3. (\A v \in Levels : v \in Nat) /\ (\A list \in SinkLists : list \in Seq(Sinks))
        /\ <<>> \in Seq(Sinks) /\ TRUE \in BOOLEAN /\ FALSE \in BOOLEAN
    BY TreeAssumption
  <1> QED
    BY <1>1, <1>2, <1>3, Zenon
    DEF Change, SetLevel, ClearLevelOverride, AddSink, SetSinks, ClearSinkOverride,
        SetImmediateFlush, ClearImmediateFlushOverride

LEMMA LocalType ==
  ASSUME ConfigTypes, NEW l \in Loggers
  PROVE  /\ Local("sinks", l) \in Seq(Sinks)
         /\ Local("flush", l) \in BOOLEAN
         /\ Local("level", l) \in Nat
  BY DEF ConfigTypes, Local

LEMMA UpType ==
  ASSUME NEW l \in Loggers, Up(l) # NoLogger
  PROVE  Up(l) = parent[l] /\ Up(l) \in Loggers
  BY TreeAssumption DEF Up

LEMMA LogInvInit == Init => LogInv
  <1> SUFFICES ASSUME Init PROVE LogInv
    OBVIOUS
  <1>1. ConfigTypes
    <2>1. RootSinks \in Seq(Sinks) /\ <<>> \in Seq(Sinks) /\ Info \in Nat
      BY TreeAssumption DEF Info
    <2>2. value \in [Loggers -> [level : Nat, flush : BOOLEAN, sinks : Seq(Sinks)]]
      BY <2>1 DEF Init, LoggerInit
    <2>3. overridden \in [Loggers -> [Kinds -> BOOLEAN]]
      BY DEF Init, LoggerInit
    <2> QED BY <2>2, <2>3 DEF ConfigTypes
  <1>2. CallTypes
    <2>1. NoCall \in Calls
      BY DEF NoCall, Calls, Info
    <2> QED BY <2>1 DEF Init, LoggerInit, CallTypes, Labels, Climbing, Kinds
  <1>3. TrailTypes
    <2>1. trail \in Seq(Trails) /\ Len(trail) = 0
      BY DEF Init, LoggerInit
    <2> QED BY <2>1 DEF Init, LoggerInit, TrailTypes, NoCall, Kinds
  <1> QED BY <1>1, <1>2, <1>3 DEF LogInv

LEMMA ConfigTypesStep == ConfigTypes /\ [Next]_vars => ConfigTypes'
  <1> SUFFICES ASSUME ConfigTypes, [Next]_vars PROVE ConfigTypes'
    OBVIOUS
  <1> USE DEF loggerVars, configVars
  <1>1. ASSUME NEW l \in Loggers, Change(l) PROVE ConfigTypes'
    <2>1. ASSUME NEW o \in BOOLEAN, NEW v \in Nat, Configure(l, "level", v, o)
          PROVE  ConfigTypes'
      BY <2>1 DEF Configure, ConfigTypes, Kinds
    <2>2. ASSUME NEW o \in BOOLEAN, NEW v \in BOOLEAN, Configure(l, "flush", v, o)
          PROVE  ConfigTypes'
      BY <2>2 DEF Configure, ConfigTypes, Kinds
    <2>3. ASSUME NEW o \in BOOLEAN, NEW v \in Seq(Sinks), Configure(l, "sinks", v, o)
          PROVE  ConfigTypes'
      BY <2>3 DEF Configure, ConfigTypes, Kinds
    <2> QED BY <1>1, <2>1, <2>2, <2>3, ChangeConfigures
  <1>2. CASE UNCHANGED <<value, overridden>>
    BY <1>2 DEF ConfigTypes
  <1>3. CASE ~\E l \in Loggers : Change(l)
    <2>1. UNCHANGED <<value, overridden>>
      BY <1>3, ZenonT(30) DEF Next, ClearRegistry, SetGlobalTimeSource, Get, Release, SimLoggerLog,
           LogString, Stamp, LogRecord, BeginLog, LogStep, ClimbUp, ResolveLevel,
           ResolveSinks, ResolveFlush, WriteSink, FlushSink, Return, SimLoggerFlush,
           FlushFindsSinks, FlushAll, FlushReturns, vars
    <2> QED BY <1>2, <2>1
  <1> QED BY <1>1, <1>3

LEMMA CallTypesStep == ConfigTypes /\ CallTypes /\ [Next]_vars => CallTypes'
  <1> SUFFICES ASSUME ConfigTypes, CallTypes, [Next]_vars PROVE CallTypes'
    OBVIOUS
  <1> USE DEF loggerVars, configVars, historyVars, Goto
  <1>0. NoCall \in Calls
    BY DEF NoCall, Calls, Info
  \* Most steps are of one client, which has its logger throughout.
  <1>1. ASSUME NEW c \in Clients, NEW p \in Labels, NEW e \in Calls,
               pc' = [pc EXCEPT ![c] = p], call' = [call EXCEPT ![c] = e],
               p \in Kinds \cup {"sinks_only"} => e.at \in Loggers,
               p = "flush_sink" => e.sinks # <<>>,
               handle' = handle, p # "idle" => handle[c] \in Loggers,
               owner' \in [Loggers -> Clients \cup {Nobody}], lastId' \in Nat
        PROVE  CallTypes'
    <2>1. pc' \in [Clients -> Labels] /\ call' \in [Clients -> Calls]
      BY <1>1 DEF CallTypes
    <2>2. \A d \in Clients : d # c => pc'[d] = pc[d] /\ call'[d] = call[d]
      BY <1>1 DEF CallTypes
    <2>3. pc'[c] = p /\ call'[c] = e
      BY <1>1 DEF CallTypes
    <2> QED BY <1>1, <2>1, <2>2, <2>3 DEF CallTypes, Climbing
  <1>2. ASSUME NEW c \in Clients, Unwind(c) PROVE owner' \in [Loggers -> Clients \cup {Nobody}]
    BY <1>2 DEF Unwind, CallTypes
  <1>3. ASSUME NEW c \in Clients
        PROVE  /\ pc[c] \in Labels /\ call[c] \in Calls
               /\ owner \in [Loggers -> Clients \cup {Nobody}] /\ lastId \in Nat
               /\ pc[c] # "idle" => handle[c] \in Loggers
               /\ handle[c] # NoLogger => handle[c] \in Loggers
               /\ Climbing(c) => call[c].at \in Loggers
               /\ pc[c] = "flush_sink" => call[c].sinks # <<>>
    BY DEF CallTypes
  <1>4. CASE UNCHANGED <<handle, owner, pc, call, lastId>>
    BY <1>4 DEF CallTypes, Climbing
  <1>5. ASSUME NEW c \in Clients, (\E l \in Loggers : Get(c, l)) \/ Release(c)
        PROVE  CallTypes'
    BY <1>5 DEF Get, Release, CallTypes, Climbing
  <1>6. ASSUME NEW c \in Clients, NEW v \in Nat, Stamp(c, v) PROVE CallTypes'
    <2>1. [call[c] EXCEPT !.level = v] \in Calls
      BY <1>3 DEF Calls
    <2> QED BY <1>1, <1>3, <1>6, <2>1 DEF Stamp, Labels, Kinds
  <1>7. ASSUME NEW c \in Clients, LogRecord(c) PROVE CallTypes'
    <2> DEFINE e == [NoCall EXCEPT !.id = lastId + 1, !.level = call[c].level, !.at = handle[c]]
    <2>1. e \in Calls /\ e.at = handle[c] /\ handle[c] \in Loggers
      <3>1. handle[c] \in Loggers /\ lastId + 1 \in Nat /\ call[c].level \in Nat
        BY <1>3, <1>7 DEF LogRecord, Calls
      <3> DEFINE e1 == [NoCall EXCEPT !.id = lastId + 1]
                 e2 == [e1 EXCEPT !.level = call[c].level]
      <3>2. e1 \in Calls
        BY <1>0, <3>1 DEF Calls
      <3>3. e2 \in Calls
        BY <3>1, <3>2 DEF Calls
      <3>4. e = [e2 EXCEPT !.at = handle[c]]
        OBVIOUS
      <3> HIDE DEF e, e2
      <3> QED BY <3>1, <3>3, <3>4 DEF Calls
    <2>2. lastId' \in Nat /\ call' = [call EXCEPT ![c] = e]
      BY <1>3, <1>7 DEF LogRecord, BeginLog
    <2> HIDE DEF e
    <2> QED BY <1>1, <1>3, <1>7, <2>1, <2>2 DEF LogRecord, BeginLog, Labels, Kinds
  <1>8. ASSUME NEW c \in Clients, ClimbUp(c) PROVE CallTypes'
    <2> DEFINE e == [call[c] EXCEPT !.at = Up(call[c].at)]
    <2>1. call[c].at \in Loggers /\ Up(call[c].at) \in Loggers
      BY <1>3, <1>8, UpType DEF ClimbUp, Inherits
    <2>2. e \in Calls /\ e.at \in Loggers
      BY <1>3, <2>1 DEF Calls
    <2>3. call' = [call EXCEPT ![c] = e] /\ pc' = [pc EXCEPT ![c] = pc[c]]
      BY <1>8 DEF ClimbUp, CallTypes
    <2>4. owner' \in [Loggers -> Clients \cup {Nobody}]
      BY <1>8, <2>1 DEF ClimbUp, CallTypes
    <2>5. pc[c] \notin {"idle", "flush_sink"}
      BY <1>8 DEF ClimbUp, Climbing, Kinds
    <2> HIDE DEF e
    <2> QED BY <1>1, <1>3, <1>8, <2>2, <2>3, <2>4, <2>5 DEF ClimbUp
  <1>9. ASSUME NEW c \in Clients, ResolveLevel(c) PROVE CallTypes'
    <2>1. [call[c] EXCEPT !.at = handle[c]] \in Calls /\ handle[c] \in Loggers
          /\ [call[c] EXCEPT !.at = handle[c]].at = handle[c]
      BY <1>3, <1>9 DEF ResolveLevel, ClimbEnds, Calls
    <2>2. owner' \in [Loggers -> Clients \cup {Nobody}]
      BY <1>2, <1>9 DEF ResolveLevel, ClimbEnds
    <2> QED BY <1>0, <1>1, <1>3, <1>9, <2>1, <2>2 DEF ResolveLevel, Leave, Labels, Kinds
  <1>10. ASSUME NEW c \in Clients, ResolveSinks(c) PROVE CallTypes'
    <2> DEFINE e == [call[c] EXCEPT !.at = handle[c], !.sinks = Local("sinks", call[c].at)]
    <2>0. call[c].at \in Loggers /\ handle[c] \in Loggers
      BY <1>3, <1>10 DEF ResolveSinks, ClimbEnds, Climbing, Kinds
    <2>1. e \in Calls /\ e.at = handle[c]
      BY <1>3, <2>0, LocalType DEF Calls
    <2>2. owner' \in [Loggers -> Clients \cup {Nobody}]
      BY <1>2, <1>10 DEF ResolveSinks, ClimbEnds
    <2>3. \/ call' = [call EXCEPT ![c] = e] /\ pc' = [pc EXCEPT ![c] = "flush"]
          \/ call' = [call EXCEPT ![c] = NoCall] /\ pc' = [pc EXCEPT ![c] = "idle"]
      BY <1>10 DEF ResolveSinks, Leave
    <2>4. UNCHANGED <<handle, lastId>> /\ "flush" \in Labels /\ "idle" \in Labels
          /\ "idle" \notin Kinds \cup {"sinks_only"}
      BY <1>10 DEF ResolveSinks, Labels, Kinds
    <2> HIDE DEF e
    <2> QED BY <1>0, <1>1, <1>3, <2>0, <2>1, <2>2, <2>3, <2>4
  <1>11. ASSUME NEW c \in Clients, ResolveFlush(c) PROVE CallTypes'
    <2> DEFINE e == [call[c] EXCEPT !.at = handle[c], !.flush = Local("flush", call[c].at)]
    <2>0. call[c].at \in Loggers /\ handle[c] \in Loggers
      BY <1>3, <1>11 DEF ResolveFlush, ClimbEnds, Climbing, Kinds
    <2>1. e \in Calls /\ e.at = handle[c]
      BY <1>3, <2>0, LocalType DEF Calls
    <2>2. owner' \in [Loggers -> Clients \cup {Nobody}]
      BY <1>2, <1>11 DEF ResolveFlush, ClimbEnds
    <2>3. call' = [call EXCEPT ![c] = e] /\ pc' = [pc EXCEPT ![c] = "write"]
      BY <1>11 DEF ResolveFlush
    <2>4. UNCHANGED <<handle, lastId>> /\ "write" \in Labels
      BY <1>11 DEF ResolveFlush, Labels
    <2> HIDE DEF e
    <2> QED BY <1>1, <1>3, <2>0, <2>1, <2>2, <2>3, <2>4
  <1>12. ASSUME NEW c \in Clients, WriteSink(c) \/ FlushSink(c) \/ FlushAll(c)
         PROVE  CallTypes'
    <2> DEFINE e == [call[c] EXCEPT !.sinks = Tail(call[c].sinks)]
    <2>0. /\ UNCHANGED <<handle, owner, lastId>> /\ handle[c] \in Loggers
          /\ pc[c] \in {"write", "flush_sink", "flush_all"}
      BY <1>3, <1>12 DEF WriteSink, FlushSink, FlushAll
    <2>1. e \in Calls
      <3>1. call[c].sinks \in Seq(Sinks) /\ call[c].sinks # <<>>
        BY <1>3, <1>12 DEF WriteSink, FlushSink, FlushAll, Calls
      <3>2. Tail(call[c].sinks) \in Seq(Sinks)
        BY <3>1, HeadTailProperties
      <3> QED BY <1>3, <3>2 DEF Calls
    <2>2. \/ /\ call' = [call EXCEPT ![c] = e]
             /\ \E p \in {"write", "flush_all"} : pc' = [pc EXCEPT ![c] = p]
          \/ /\ call' = [call EXCEPT ![c] = call[c]] /\ call[c].sinks # <<>>
             /\ pc' = [pc EXCEPT ![c] = "flush_sink"]
      BY <1>12 DEF WriteSink, FlushSink, FlushAll, NextSink, SinkThrows, CallTypes
    <2>3. {"write", "flush_sink", "flush_all"} \subseteq Labels \ (Kinds \cup {"sinks_only"})
      BY DEF Labels, Kinds
    <2> HIDE DEF e
    <2> QED BY <1>1, <1>3, <2>0, <2>1, <2>2, <2>3
  <1>13. ASSUME NEW c \in Clients, Return(c) \/ FlushReturns(c) PROVE CallTypes'
    <2>1. "idle" \in Labels \ (Kinds \cup {"sinks_only"})
      BY DEF Labels, Kinds
    <2> QED BY <1>0, <1>1, <1>3, <1>13, <2>1 DEF Return, FlushReturns, Leave
  <1>14. ASSUME NEW c \in Clients, SimLoggerFlush(c) PROVE CallTypes'
    <2>1. [call[c] EXCEPT !.at = handle[c]] \in Calls /\ handle[c] \in Loggers
          /\ [call[c] EXCEPT !.at = handle[c]].at = handle[c]
      BY <1>3, <1>14 DEF SimLoggerFlush, Calls
    <2> QED BY <1>1, <1>3, <1>14, <2>1 DEF SimLoggerFlush, Labels
  <1>15. ASSUME NEW c \in Clients, FlushFindsSinks(c) PROVE CallTypes'
    <2> DEFINE e == [call[c] EXCEPT !.at = NoLogger, !.sinks = Local("sinks", call[c].at)]
    <2>0. call[c].at \in Loggers /\ handle[c] \in Loggers
      BY <1>3, <1>15 DEF FlushFindsSinks, ClimbEnds, Climbing
    <2>1. e \in Calls
      BY <1>3, <2>0, LocalType DEF Calls
    <2>2. owner' \in [Loggers -> Clients \cup {Nobody}]
      BY <1>2, <1>15 DEF FlushFindsSinks, ClimbEnds
    <2>3. \/ call' = [call EXCEPT ![c] = e] /\ pc' = [pc EXCEPT ![c] = "flush_all"]
          \/ call' = [call EXCEPT ![c] = NoCall] /\ pc' = [pc EXCEPT ![c] = "idle"]
      BY <1>15 DEF FlushFindsSinks, Leave
    <2>4. UNCHANGED <<handle, lastId>>
          /\ {"idle", "flush_all"} \subseteq Labels \ (Kinds \cup {"sinks_only"})
      BY <1>15 DEF FlushFindsSinks, Labels, Kinds
    <2> HIDE DEF e
    <2> QED BY <1>0, <1>1, <1>3, <2>0, <2>1, <2>2, <2>3, <2>4
  <1>16. CASE ClearRegistry \/ \E l \in Loggers : Change(l)
    <2>1. ASSUME NEW l, NEW k, NEW v, NEW o, Configure(l, k, v, o)
          PROVE  UNCHANGED <<handle, owner, pc, call, lastId>>
      BY <2>1 DEF Configure
    <2>2. UNCHANGED <<handle, owner, pc, call, lastId>>
      BY <1>16, <2>1, ChangeConfigures DEF ClearRegistry
    <2> QED BY <1>4, <2>2
  <1>17. CASE UNCHANGED vars \/ \E source \in Sources \cup {NoSource} : SetGlobalTimeSource(source)
    BY <1>4, <1>17 DEF vars, SetGlobalTimeSource
  <1>18. ASSUME NEW c \in Clients,
                (\E v \in CLevels : SimLoggerLog(c, v)) \/ \E v \in Levels : LogString(c, v)
         PROVE  \E v \in Nat : Stamp(c, v)
    BY <1>18, TreeAssumption, CApiAssumption DEF SimLoggerLog, LogString, ToCppLevel, Info
  <1> QED
    BY <1>5, <1>6, <1>7, <1>8, <1>9, <1>10, <1>11, <1>12, <1>13, <1>14, <1>15, <1>16, <1>17,
       <1>18
    DEF Next, LogStep
-----------------------------------------------------------------------------
(* The records. *)

\* The client is inside log(), with its record.
Working(c) == pc[c] \in Kinds \cup {"write", "flush_sink"}

\* Nothing happens to a record, its call or the counts.
Quiet ==
  /\ UNCHANGED <<lastId, trail, failed>>
  /\ \A c \in Clients :
       /\ Working(c)' <=> Working(c)
       /\ call'[c].id = call[c].id
       /\ Working(c) => pc'[c] = pc[c] /\ handle'[c] = handle[c]
                        /\ call'[c].sinks = call[c].sinks /\ call'[c].flush = call[c].flush

\* The steps of log() that return from a climb or serve a sink.
RecordStep(c) ==
  \/ LogRecord(c) \/ ResolveLevel(c) \/ ResolveSinks(c) \/ ResolveFlush(c)
  \/ WriteSink(c) \/ FlushSink(c) \/ Return(c)

\* Every step is quiet or one of these.
LEMMA StepsOfRecords ==
  ASSUME LogInv, [Next]_vars
  PROVE  Quiet \/ \E c \in Clients : RecordStep(c)
  <1> USE DEF loggerVars, configVars, historyVars, Goto
  <1>1. ASSUME UNCHANGED <<handle, pc, call, failed, lastId, trail>> PROVE Quiet
    BY <1>1 DEF Quiet, Working
  <1>2. ASSUME NEW c \in Clients, NEW p \in Labels, NEW e \in Calls,
               ~Working(c), p \notin Kinds \cup {"write", "flush_sink"}, e.id = 0,
               pc' = [pc EXCEPT ![c] = p], call' = [call EXCEPT ![c] = e],
               UNCHANGED <<handle, failed, lastId, trail>>
        PROVE  Quiet
    <2>1. \A d \in Clients : d # c => pc'[d] = pc[d] /\ call'[d] = call[d]
      BY <1>2 DEF LogInv, CallTypes
    <2>2. pc'[c] = p /\ call'[c] = e /\ call[c].id = 0
      BY <1>2 DEF LogInv, CallTypes, TrailTypes, Working
    <2> QED BY <1>2, <2>1, <2>2 DEF Quiet, Working
  <1>3. ASSUME NEW c \in Clients
        PROVE  /\ pc[c] \in Labels /\ call[c] \in Calls
               /\ ~Working(c) => call[c].id = 0
               /\ Climbing(c) => call[c].at \in Loggers
               /\ handle[c] # NoLogger => handle[c] \in Loggers
    BY DEF LogInv, CallTypes, TrailTypes, Working
  <1>4. NoCall \in Calls /\ NoCall.id = 0
    BY DEF NoCall, Calls, Info
  <1>5. {"idle", "stamp", "sinks_only", "flush_all"} \subseteq
          Labels \ (Kinds \cup {"write", "flush_sink"})
    BY DEF Labels, Kinds
  <1>6. ASSUME NEW c \in Clients, (\E l \in Loggers : Get(c, l)) \/ Release(c) PROVE Quiet
    <2>1. /\ UNCHANGED <<pc, call, failed, lastId, trail>> /\ ~Working(c)
          /\ \E h : handle' = [handle EXCEPT ![c] = h]
      BY <1>6 DEF Get, Release, Working, Kinds
    <2> QED BY <2>1 DEF Quiet, Working, LogInv, CallTypes
  <1>7. ASSUME NEW c \in Clients, NEW v \in Nat, Stamp(c, v) PROVE Quiet
    <2>1. [call[c] EXCEPT !.level = v] \in Calls /\ [call[c] EXCEPT !.level = v].id = call[c].id
      BY <1>3 DEF Calls
    <2>2. ~Working(c)
      BY <1>7 DEF Stamp, Working, Kinds
    <2> QED BY <1>2, <1>3, <1>5, <1>7, <2>1, <2>2 DEF Stamp
  <1>8. ASSUME NEW c \in Clients, ClimbUp(c) PROVE Quiet
    <2> DEFINE e == [call[c] EXCEPT !.at = Up(call[c].at)]
    <2>1. e.id = call[c].id /\ e.sinks = call[c].sinks /\ e.flush = call[c].flush
      BY <1>3 DEF Calls
    <2>2. call' = [call EXCEPT ![c] = e] /\ UNCHANGED <<pc, handle, failed, lastId, trail>>
      BY <1>8 DEF ClimbUp
    <2> HIDE DEF e
    <2> QED BY <2>1, <2>2 DEF Quiet, Working, LogInv, CallTypes
  <1>9. ASSUME NEW c \in Clients, SimLoggerFlush(c) PROVE Quiet
    <2>1. /\ [call[c] EXCEPT !.at = handle[c]] \in Calls
          /\ [call[c] EXCEPT !.at = handle[c]].id = call[c].id
      BY <1>3, <1>9 DEF SimLoggerFlush, Calls
    <2>2. ~Working(c)
      BY <1>9 DEF SimLoggerFlush, Working, Kinds
    <2> QED BY <1>2, <1>3, <1>5, <1>9, <2>1, <2>2 DEF SimLoggerFlush
  <1>10. ASSUME NEW c \in Clients, FlushFindsSinks(c) PROVE Quiet
    <2> DEFINE e == [call[c] EXCEPT !.at = NoLogger, !.sinks = Local("sinks", call[c].at)]
    <2>1. ~Working(c) /\ call[c].at \in Loggers
      BY <1>3, <1>10 DEF FlushFindsSinks, ClimbEnds, Working, Kinds, Climbing
    <2>2. e \in Calls /\ e.id = call[c].id
      BY <1>3, <2>1, LocalType DEF LogInv, Calls
    <2>3. \/ call' = [call EXCEPT ![c] = e] /\ pc' = [pc EXCEPT ![c] = "flush_all"]
          \/ call' = [call EXCEPT ![c] = NoCall] /\ pc' = [pc EXCEPT ![c] = "idle"]
      BY <1>10 DEF FlushFindsSinks, Leave
    <2>4. UNCHANGED <<handle, failed, lastId, trail>>
      BY <1>10 DEF FlushFindsSinks
    <2> HIDE DEF e
    <2> QED BY <1>2, <1>3, <1>4, <1>5, <2>1, <2>2, <2>3, <2>4
  <1>11. ASSUME NEW c \in Clients, FlushAll(c) PROVE Quiet
    <2> DEFINE e == [call[c] EXCEPT !.sinks = Tail(call[c].sinks)]
    <2>1. ~Working(c) /\ call[c].sinks \in Seq(Sinks) /\ call[c].sinks # <<>>
      BY <1>3, <1>11 DEF FlushAll, Working, Kinds, Calls
    <2>2. e \in Calls /\ e.id = call[c].id
      BY <1>3, <2>1, HeadTailProperties DEF Calls
    <2>3. call' = [call EXCEPT ![c] = e] /\ pc' = [pc EXCEPT ![c] = "flush_all"]
      BY <1>11 DEF FlushAll, LogInv, CallTypes
    <2>4. UNCHANGED <<handle, failed, lastId, trail>>
      BY <1>11 DEF FlushAll
    <2> HIDE DEF e
    <2> QED BY <1>2, <1>3, <1>5, <2>1, <2>2, <2>3, <2>4
  <1>12. ASSUME NEW c \in Clients, FlushReturns(c) PROVE Quiet
    <2>1. ~Working(c)
      BY <1>12 DEF FlushReturns, Working, Kinds
    <2> QED BY <1>2, <1>4, <1>5, <1>12, <2>1 DEF FlushReturns, Leave
  <1>13. CASE ClearRegistry \/ \E l \in Loggers : Change(l)
    <2>1. ASSUME NEW l, NEW k, NEW v, NEW o, Configure(l, k, v, o)
          PROVE  UNCHANGED <<handle, pc, call, failed, lastId, trail>>
      BY <2>1 DEF Configure
    <2>2. UNCHANGED <<handle, pc, call, failed, lastId, trail>>
      BY <1>13, <2>1, ChangeConfigures DEF LogInv, ClearRegistry
    <2> QED BY <1>1, <2>2
  <1>14. CASE UNCHANGED vars \/ \E source \in Sources \cup {NoSource} : SetGlobalTimeSource(source)
    BY <1>1, <1>14 DEF vars, SetGlobalTimeSource
  <1>15. ASSUME NEW c \in Clients,
                (\E v \in CLevels : SimLoggerLog(c, v)) \/ \E v \in Levels : LogString(c, v)
         PROVE  \E v \in Nat : Stamp(c, v)
    BY <1>15, TreeAssumption, CApiAssumption DEF SimLoggerLog, LogString, ToCppLevel, Info
  <1> QED
    BY <1>6, <1>7, <1>8, <1>9, <1>10, <1>11, <1>12, <1>13, <1>14, <1>15
    DEF Next, LogStep, RecordStep

\* A step of c inside log(): its next place p, the call e and its record's trail x.
Effect(c, p, e, x) ==
  /\ pc' = [pc EXCEPT ![c] = p] /\ call' = [call EXCEPT ![c] = e]
  /\ trail' = [trail EXCEPT ![call[c].id] = x] /\ x.logger = trail[call[c].id].logger
  /\ UNCHANGED <<handle, lastId>>

\* The call is over, or goes on with the same record.
Keeps(c, p, e) == \/ p = "idle" /\ e.id = 0
                  \/ p \in Kinds \cup {"write", "flush_sink"} /\ e.id = call[c].id

\* What is known of a client that works on a record.
LEMMA WorkingClient ==
  ASSUME LogInv, NEW c \in Clients, Working(c)
  PROVE  /\ call[c] \in Calls /\ handle[c] \in Loggers
         /\ call[c].id \in 1 .. Len(trail)
         /\ trail[call[c].id] \in Trails
         /\ trail = [trail EXCEPT ![call[c].id] = trail[call[c].id]]
         /\ trail[call[c].id].logger = handle[c]
  <1>1. call[c] \in Calls /\ handle[c] \in Loggers
    BY DEF LogInv, CallTypes, Working, Kinds
  <1>2. trail \in Seq(Trails) /\ lastId \in Nat /\ lastId = Len(trail)
    BY DEF LogInv, CallTypes, TrailTypes
  <1>3. call[c].id \in Nat
    BY <1>1 DEF Calls
  <1>4. call[c].id >= 1 /\ call[c].id <= lastId /\ trail[call[c].id].logger = handle[c]
    BY DEF LogInv, TrailTypes, Working
  <1>5. call[c].id \in 1 .. Len(trail)
    BY <1>2, <1>3, <1>4
  <1>6. trail[call[c].id] \in Trails
    BY <1>2, <1>5, ElementOfSeq
  <1>7. trail = [trail EXCEPT ![call[c].id] = trail[call[c].id]]
    BY <1>2, LenProperties
  <1> QED BY <1>1, <1>4, <1>5, <1>6, <1>7

\* The ways in which effective_level(), effective_sinks() and
\* effective_immediate_flush() return to log().
LEMMA LevelResolved ==
  ASSUME LogInv, NEW c \in Clients, ResolveLevel(c)
  PROVE  \E e \in Calls, x \in Trails :
           /\ x.list = trail[call[c].id].list /\ x.events = trail[call[c].id].events
           /\ Working(c) /\ UNCHANGED failed
           /\ \/ Effect(c, "sinks", e, x) /\ Keeps(c, "sinks", e)
              \/ Effect(c, "idle", e, x) /\ Keeps(c, "idle", e)
  <1>1. Working(c) /\ pc[c] = "level"
    BY DEF ResolveLevel, ClimbEnds, Working, Kinds
  <1>2. NoCall \in Calls /\ NoCall.id = 0
    BY DEF NoCall, Calls, Info
  <1> DEFINE e == [call[c] EXCEPT !.at = handle[c]]
             x == [trail[call[c].id] EXCEPT !.filtered = TRUE]
  <1>3. e \in Calls /\ e.id = call[c].id
    BY <1>1, WorkingClient DEF Calls
  <1>4. /\ x \in Trails /\ x.list = trail[call[c].id].list
        /\ x.events = trail[call[c].id].events /\ x.logger = trail[call[c].id].logger
    BY <1>1, WorkingClient DEF Trails
  <1>5. CASE /\ pc' = [pc EXCEPT ![c] = "sinks"] /\ call' = [call EXCEPT ![c] = e]
             /\ UNCHANGED trail
    <2> HIDE DEF e
    <2>1. Effect(c, "sinks", e, trail[call[c].id]) /\ Keeps(c, "sinks", e)
      BY <1>1, <1>3, <1>5, WorkingClient DEF Effect, Keeps, Kinds, ResolveLevel, Goto
    <2> QED BY <1>1, <1>3, <2>1, WorkingClient DEF ResolveLevel
  <1>6. CASE /\ pc' = [pc EXCEPT ![c] = "idle"] /\ call' = [call EXCEPT ![c] = NoCall]
             /\ trail' = [trail EXCEPT ![call[c].id] = x]
    <2> HIDE DEF x
    <2>1. Effect(c, "idle", NoCall, x) /\ Keeps(c, "idle", NoCall)
      BY <1>1, <1>2, <1>4, <1>6 DEF Effect, Keeps, ResolveLevel
    <2> QED BY <1>1, <1>2, <1>4, <2>1 DEF ResolveLevel
  <1> QED BY <1>5, <1>6 DEF ResolveLevel, Goto, Leave

LEMMA SinksResolved ==
  ASSUME LogInv, NEW c \in Clients, ResolveSinks(c)
  PROVE  \E e \in Calls, x \in Trails :
           /\ x.events = trail[call[c].id].events
           /\ Working(c) /\ UNCHANGED failed
           /\ \/ Effect(c, "flush", e, x) /\ Keeps(c, "flush", e) /\ e.sinks = x.list
              \/ /\ Effect(c, "idle", e, x) /\ Keeps(c, "idle", e)
                 /\ x.list = trail[call[c].id].list
  <1>1. Working(c) /\ pc[c] = "sinks" /\ call[c].at \in Loggers
    BY DEF ResolveSinks, ClimbEnds, Working, Kinds, LogInv, CallTypes, Climbing
  <1>2. NoCall \in Calls /\ NoCall.id = 0
    BY DEF NoCall, Calls, Info
  <1> DEFINE list == Local("sinks", call[c].at)
             e == [call[c] EXCEPT !.at = handle[c], !.sinks = list]
             x == [trail[call[c].id] EXCEPT !.list = list]
  <1>3. list \in Seq(Sinks)
    BY <1>1, LocalType DEF LogInv
  <1>4. \/ /\ pc' = [pc EXCEPT ![c] = "flush"] /\ call' = [call EXCEPT ![c] = e]
           /\ trail' = [trail EXCEPT ![call[c].id] = x]
        \/ /\ pc' = [pc EXCEPT ![c] = "idle"] /\ call' = [call EXCEPT ![c] = NoCall]
           /\ UNCHANGED trail
    BY DEF ResolveSinks, Goto, Leave
  <1> HIDE DEF list
  <1>5. e \in Calls /\ e.id = call[c].id /\ e.sinks = list
    BY <1>1, <1>3, WorkingClient DEF Calls
  <1>6. /\ x \in Trails /\ x.list = list
        /\ x.events = trail[call[c].id].events /\ x.logger = trail[call[c].id].logger
    BY <1>1, <1>3, WorkingClient DEF Trails
  <1> HIDE DEF e, x
  <1>7. CASE /\ pc' = [pc EXCEPT ![c] = "flush"] /\ call' = [call EXCEPT ![c] = e]
             /\ trail' = [trail EXCEPT ![call[c].id] = x]
    <2>1. Effect(c, "flush", e, x) /\ Keeps(c, "flush", e)
      BY <1>5, <1>6, <1>7 DEF Effect, Keeps, Kinds, ResolveSinks
    <2> QED BY <1>1, <1>5, <1>6, <2>1 DEF ResolveSinks
  <1>8. CASE /\ pc' = [pc EXCEPT ![c] = "idle"] /\ call' = [call EXCEPT ![c] = NoCall]
             /\ UNCHANGED trail
    <2>1. Effect(c, "idle", NoCall, trail[call[c].id]) /\ Keeps(c, "idle", NoCall)
      BY <1>1, <1>2, <1>8, WorkingClient DEF Effect, Keeps, ResolveSinks
    <2> QED BY <1>1, <1>2, <2>1, WorkingClient DEF ResolveSinks
  <1> QED BY <1>4, <1>7, <1>8

LEMMA FlushResolved ==
  ASSUME LogInv, NEW c \in Clients, ResolveFlush(c)
  PROVE  \E e \in Calls :
           /\ Effect(c, "write", e, trail[call[c].id]) /\ Keeps(c, "write", e)
           /\ e.sinks = call[c].sinks /\ Working(c) /\ UNCHANGED <<failed, trail>>
  <1>1. Working(c) /\ pc[c] = "flush" /\ call[c].at \in Loggers
    BY DEF ResolveFlush, ClimbEnds, Working, Kinds, LogInv, CallTypes, Climbing
  <1> DEFINE e == [call[c] EXCEPT !.at = handle[c], !.flush = Local("flush", call[c].at)]
  <1>2. e \in Calls /\ e.id = call[c].id /\ e.sinks = call[c].sinks
    BY <1>1, WorkingClient, LocalType DEF Calls, LogInv
  <1>3. call' = [call EXCEPT ![c] = e]
    BY DEF ResolveFlush
  <1> HIDE DEF e
  <1>4. Effect(c, "write", e, trail[call[c].id]) /\ Keeps(c, "write", e)
    BY <1>1, <1>2, <1>3, WorkingClient DEF Effect, Keeps, ResolveFlush, historyVars, Goto
  <1> QED BY <1>1, <1>2, <1>4 DEF ResolveFlush, historyVars

Failing == {"write_failed", "flush_failed"}
Trying == {"written", "write_failed"}

\* sink->write() or sink->flush() has returned or thrown.
LEMMA SinkServed ==
  ASSUME LogInv, NEW c \in Clients, WriteSink(c) \/ FlushSink(c)
  PROVE  \E what \in EventKinds, p \in {"write", "flush_sink"}, e \in Calls, x \in Trails :
           /\ Effect(c, p, e, x) /\ Keeps(c, p, e)
           /\ Working(c) /\ call[c].sinks # <<>>
           /\ x.list = trail[call[c].id].list
           /\ x.events = Append(trail[call[c].id].events, <<what, Head(call[c].sinks)>>)
           /\ what \in Trying <=> pc[c] = "write"
           /\ what \in Failing => failed' = [failed EXCEPT ![handle[c]] = @ + 1]
           /\ what \notin Failing => UNCHANGED failed
           /\ \/ p = "write" /\ e.sinks = Tail(call[c].sinks)
              \/ p = "flush_sink" /\ pc[c] = "write" /\ e.sinks = call[c].sinks
  <1>1. Working(c) /\ pc[c] \in {"write", "flush_sink"} /\ call[c].sinks # <<>>
    BY DEF WriteSink, FlushSink, Working, LogInv, CallTypes
  <1>2. UNCHANGED <<handle, lastId>>
    BY DEF WriteSink, FlushSink
  <1>3. PICK what \in EventKinds :
          /\ Happens(c, what)
          /\ what \in Trying <=> pc[c] = "write"
          /\ what \in Failing => failed' = [failed EXCEPT ![handle[c]] = @ + 1]
          /\ what \notin Failing => UNCHANGED failed
          /\ \/ NextSink(c)
             \/ pc[c] = "write" /\ Goto(c, "flush_sink") /\ UNCHANGED call
    BY DEF WriteSink, FlushSink, SinkThrows, EventKinds, Trying, Failing
  <1> DEFINE s == Head(call[c].sinks)
             events == Append(trail[call[c].id].events, <<what, s>>)
             x == [trail[call[c].id] EXCEPT !.events = events]
             e == [call[c] EXCEPT !.sinks = Tail(call[c].sinks)]
  <1>4. call[c].sinks \in Seq(Sinks) /\ trail[call[c].id].events \in Seq(EventKinds \X Sinks)
    BY <1>1, WorkingClient DEF Calls, Trails
  <1>5. s \in Sinks /\ Tail(call[c].sinks) \in Seq(Sinks)
    BY <1>1, <1>4, HeadTailProperties
  <1>6. trail' = [trail EXCEPT ![call[c].id] = x]
    BY <1>3 DEF Happens
  <1> HIDE DEF s
  <1>7. <<what, s>> \in EventKinds \X Sinks
    BY <1>5
  <1>8. events \in Seq(EventKinds \X Sinks)
    BY <1>4, <1>7, AppendProperties
  <1> HIDE DEF events
  <1>9. /\ x \in Trails /\ x.events = events /\ x.list = trail[call[c].id].list
        /\ x.logger = trail[call[c].id].logger
    BY <1>1, <1>8, WorkingClient DEF Trails
  <1>10. e \in Calls /\ e.id = call[c].id /\ e.sinks = Tail(call[c].sinks)
    BY <1>1, <1>5, WorkingClient DEF Calls
  <1>11. call[c] \in Calls
    BY <1>1, WorkingClient
  <1>12. \/ pc' = [pc EXCEPT ![c] = "write"] /\ call' = [call EXCEPT ![c] = e]
         \/ /\ pc' = [pc EXCEPT ![c] = "flush_sink"] /\ call' = [call EXCEPT ![c] = call[c]]
            /\ pc[c] = "write"
    BY <1>3 DEF NextSink, Goto, LogInv, CallTypes
  <1> HIDE DEF x, e
  <1>13. CASE pc' = [pc EXCEPT ![c] = "write"] /\ call' = [call EXCEPT ![c] = e]
    <2>1. Effect(c, "write", e, x) /\ Keeps(c, "write", e)
      BY <1>2, <1>6, <1>9, <1>10, <1>13 DEF Effect, Keeps
    <2> QED BY <1>1, <1>3, <1>9, <1>10, <2>1 DEF events, s
  <1>14. CASE /\ pc' = [pc EXCEPT ![c] = "flush_sink"] /\ call' = [call EXCEPT ![c] = call[c]]
              /\ pc[c] = "write"
    <2>1. Effect(c, "flush_sink", call[c], x) /\ Keeps(c, "flush_sink", call[c])
      BY <1>2, <1>6, <1>9, <1>11, <1>14 DEF Effect, Keeps
    <2> QED BY <1>1, <1>3, <1>9, <1>11, <1>14, <2>1 DEF events, s
  <1> QED BY <1>12, <1>13, <1>14

LEMMA Returned ==
  ASSUME LogInv, NEW c \in Clients, Return(c)
  PROVE  /\ NoCall \in Calls
         /\ Effect(c, "idle", NoCall, trail[call[c].id]) /\ Keeps(c, "idle", NoCall)
         /\ Working(c) /\ pc[c] = "write" /\ call[c].sinks = <<>>
         /\ UNCHANGED <<failed, trail>>
  <1>1. Working(c) /\ pc[c] = "write"
    BY DEF Return, Working
  <1>2. NoCall \in Calls /\ NoCall.id = 0
    BY DEF NoCall, Calls, Info
  <1> QED BY <1>1, <1>2, WorkingClient DEF Return, Effect, Keeps, Leave, Goto, historyVars

\* Every step of log() but the first is one Effect.
LEMMA RecordStepsHaveEffects ==
  ASSUME LogInv, NEW c \in Clients, RecordStep(c), ~LogRecord(c)
  PROVE  \E p \in Labels, e \in Calls, x \in Trails :
           Effect(c, p, e, x) /\ Keeps(c, p, e) /\ Working(c) /\ failed' \in [Loggers -> Nat]
  <1>1. failed \in [Loggers -> Nat] /\ {"idle", "sinks", "flush", "write", "flush_sink"} \subseteq Labels
    BY DEF LogInv, TrailTypes, Labels, Kinds
  <1>2. CASE ResolveLevel(c)
    BY <1>1, <1>2, LevelResolved
  <1>3. CASE ResolveSinks(c)
    BY <1>1, <1>3, SinksResolved
  <1>4. CASE ResolveFlush(c)
    <2>1. Working(c)
      BY <1>4, FlushResolved
    <2> QED BY <1>1, <1>4, <2>1, FlushResolved, WorkingClient
  <1>5. CASE WriteSink(c) \/ FlushSink(c)
    <2>1. PICK what \in EventKinds, p \in {"write", "flush_sink"}, e \in Calls, x \in Trails :
            /\ Effect(c, p, e, x) /\ Keeps(c, p, e) /\ Working(c)
            /\ what \in Failing => failed' = [failed EXCEPT ![handle[c]] = @ + 1]
            /\ what \notin Failing => UNCHANGED failed
      BY <1>5, SinkServed, ZenonT(30)
    <2>2. failed' \in [Loggers -> Nat]
      BY <1>1, <2>1
    <2> QED BY <1>1, <2>1, <2>2
  <1>6. CASE Return(c)
    <2>1. Working(c)
      BY <1>6, Returned
    <2> QED BY <1>1, <1>6, <2>1, Returned, WorkingClient
  <1> QED BY <1>2, <1>3, <1>4, <1>5, <1>6 DEF RecordStep

\* What an Effect leaves behind.
LEMMA AfterEffect ==
  ASSUME LogInv, NEW c \in Clients, Working(c), NEW p \in Labels, NEW e \in Calls,
         NEW x \in Trails, Effect(c, p, e, x)
  PROVE  /\ pc'[c] = p /\ call'[c] = e
         /\ \A d \in Clients : d # c => pc'[d] = pc[d] /\ call'[d] = call[d]
         /\ trail' \in Seq(Trails) /\ Len(trail') = Len(trail)
         /\ trail'[call[c].id] = x
         /\ \A j \in 1 .. Len(trail) : j # call[c].id => trail'[j] = trail[j]
  <1>1. /\ pc'[c] = p /\ call'[c] = e
        /\ \A d \in Clients : d # c => pc'[d] = pc[d] /\ call'[d] = call[d]
    BY DEF Effect, LogInv, CallTypes
  <1>2. trail \in Seq(Trails) /\ call[c].id \in 1 .. Len(trail)
    BY WorkingClient DEF LogInv, TrailTypes
  <1>3. trail' = [trail EXCEPT ![call[c].id] = x]
    BY DEF Effect
  <1> QED BY <1>1, <1>2, <1>3, ExceptSeq

LEMMA TrailTypesStep == LogInv /\ [Next]_vars => TrailTypes'
  <1> SUFFICES ASSUME LogInv, [Next]_vars PROVE TrailTypes'
    OBVIOUS
  <1>1. CASE Quiet
    <2>1. ASSUME NEW c \in Clients
          PROVE  /\ call'[c].id <= lastId'
                 /\ Working(c)' => call'[c].id >= 1 /\ trail'[call'[c].id].logger = handle'[c]
                 /\ ~Working(c)' => call'[c].id = 0
                 /\ \A d \in Clients : call'[c].id = call'[d].id /\ call'[c].id # 0 => c = d
      BY <1>1 DEF Quiet, LogInv, TrailTypes, Working
    <2> QED BY <1>1, <2>1 DEF Quiet, LogInv, TrailTypes, Working
  <1>2. ASSUME NEW c \in Clients, RecordStep(c), ~LogRecord(c) PROVE TrailTypes'
    <2>1. PICK p \in Labels, e \in Calls, x \in Trails :
            Effect(c, p, e, x) /\ Keeps(c, p, e) /\ Working(c) /\ failed' \in [Loggers -> Nat]
      BY <1>2, RecordStepsHaveEffects
    <2>2. /\ pc'[c] = p /\ call'[c] = e
          /\ \A d \in Clients : d # c => pc'[d] = pc[d] /\ call'[d] = call[d]
          /\ trail' \in Seq(Trails) /\ Len(trail') = Len(trail)
          /\ trail'[call[c].id] = x
          /\ \A j \in 1 .. Len(trail) : j # call[c].id => trail'[j] = trail[j]
      BY <2>1, AfterEffect
    <2>3. UNCHANGED <<handle, lastId>> /\ x.logger = handle[c] /\ call[c].id \in 1 .. Len(trail)
          /\ e.id \in {0, call[c].id} /\ call[c].id <= lastId
          /\ \A j \in 1 .. Len(trail) : trail'[j].logger = trail[j].logger
      BY <2>1, <2>2, WorkingClient DEF Effect, Keeps, LogInv, TrailTypes
    <2>4. ASSUME NEW d \in Clients
          PROVE  /\ call'[d].id \in {0, call[d].id} /\ call'[d].id <= lastId'
                 /\ Working(d)' => call'[d].id >= 1 /\ trail'[call'[d].id].logger = handle'[d]
                 /\ ~Working(d)' => call'[d].id = 0
      <3>1. CASE d = c
        BY <2>1, <2>2, <2>3, <3>1 DEF Keeps, LogInv, TrailTypes, CallTypes, Working, Kinds
      <3>2. CASE d # c
        <4>1. (Working(d)' <=> Working(d)) /\ call'[d] = call[d]
          BY <2>2, <3>2 DEF Working
        <4> QED BY <2>2, <2>3, <4>1, WorkingClient DEF LogInv, TrailTypes, Working
      <3> QED BY <3>1, <3>2
    <2>5. \A d, b \in Clients : call'[d].id = call'[b].id /\ call'[d].id # 0 => d = b
      BY <2>4 DEF LogInv, TrailTypes
    <2> QED BY <2>1, <2>2, <2>3, <2>4, <2>5 DEF LogInv, TrailTypes, Working
  <1>3. ASSUME NEW c \in Clients, LogRecord(c) PROVE TrailTypes'
    <2> DEFINE x == [logger |-> handle[c], list |-> <<>>, events |-> <<>>, filtered |-> FALSE]
    <2>0. lastId \in Nat /\ trail \in Seq(Trails) /\ Len(trail) = lastId /\ handle[c] \in Loggers
          /\ failed \in [Loggers -> Nat]
      BY <1>3 DEF LogInv, CallTypes, TrailTypes, LogRecord
    <2>1. x \in Trails /\ x.logger = handle[c]
      BY <2>0 DEF Trails
    <2>2. lastId' = lastId + 1 /\ trail' = Append(trail, x) /\ UNCHANGED <<handle, failed>>
      BY <1>3 DEF LogRecord, BeginLog
    <2> HIDE DEF x
    <2>3. trail' \in Seq(Trails) /\ Len(trail') = lastId' /\ trail'[lastId + 1] = x
          /\ \A j \in 1 .. lastId : trail'[j] = trail[j]
      BY <2>0, <2>1, <2>2, AppendProperties
    <2>4. pc'[c] = "level" /\ \A d \in Clients : d # c => pc'[d] = pc[d] /\ call'[d] = call[d]
      BY <1>3 DEF LogRecord, BeginLog, Goto, LogInv, CallTypes
    <2>5. call'[c].id = lastId + 1
      BY <1>3 DEF LogRecord, BeginLog, LogInv, CallTypes, NoCall
    <2>6. ASSUME NEW d \in Clients
          PROVE  /\ call'[d].id <= lastId'
                 /\ Working(d)' => call'[d].id >= 1 /\ trail'[call'[d].id].logger = handle'[d]
                 /\ ~Working(d)' => call'[d].id = 0
                 /\ d # c => call'[d].id = call[d].id /\ call[d].id <= lastId /\ call[d].id \in Nat
      <3>1. CASE d = c
        BY <2>0, <2>1, <2>2, <2>3, <2>4, <2>5, <3>1 DEF Working, Kinds
      <3>2. CASE d # c
        <4>1. (Working(d)' <=> Working(d)) /\ call'[d] = call[d]
          BY <2>4, <3>2 DEF Working
        <4>2. call[d].id \in Nat /\ call[d].id <= lastId
          BY DEF LogInv, CallTypes, TrailTypes, Calls
        <4>3. Working(d) => /\ call[d].id \in 1 .. lastId /\ trail[call[d].id].logger = handle[d]
          BY <2>0, WorkingClient
        <4> QED BY <2>0, <2>2, <2>3, <3>2, <4>1, <4>2, <4>3 DEF LogInv, TrailTypes, Working
      <3> QED BY <3>1, <3>2
    <2>7. \A d, b \in Clients : call'[d].id = call'[b].id /\ call'[d].id # 0 => d = b
      BY <2>0, <2>5, <2>6 DEF LogInv, TrailTypes
    <2> QED BY <2>0, <2>2, <2>3, <2>6, <2>7 DEF TrailTypes, Working
  <1> QED BY <1>1, <1>2, <1>3, StepsOfRecords

\* The shape of the state, in every reachable one.
LEMMA LogInvariance == Spec => []LogInv
  <1>1. LogInv /\ [Next]_vars => LogInv'
    BY ConfigTypesStep, CallTypesStep, TrailTypesStep DEF LogInv
  <1> QED BY <1>1, LogInvInit, PTL DEF Spec
-----------------------------------------------------------------------------
(* The time source. *)

\* A call that has not read the times yet reads them from its thread's snapshot.
SourceInv ==
  /\ tls \in [Clients -> Sources \cup {Fallback, NoSource}]
  /\ ts \in [Clients -> Sources \cup {Fallback, NoSource}]
  /\ installed \in Sources \cup {NoSource}
  /\ \A c \in Clients : pc[c] = "stamp" => ts[c] = tls[c] /\ ts[c] # NoSource

LEMMA SourceInvStep == LogInv /\ SourceInv /\ [Next]_vars => SourceInv'
  <1> SUFFICES ASSUME LogInv, SourceInv, [Next]_vars PROVE SourceInv'
    OBVIOUS
  <1>0. pc \in [Clients -> Labels]
    BY DEF LogInv, CallTypes
  <1>1. CASE UNCHANGED timeVars /\ \A c \in Clients : pc'[c] = "stamp" => pc[c] = "stamp"
    BY <1>1 DEF SourceInv, timeVars
  <1>2. CASE \E source \in Sources \cup {NoSource} : SetGlobalTimeSource(source)
    BY <1>2 DEF SetGlobalTimeSource, SourceInv
  <1>3. ASSUME NEW c \in Clients,
               (\E v \in CLevels : SimLoggerLog(c, v)) \/ \E v \in Levels : LogString(c, v)
        PROVE  SourceInv'
    <2> DEFINE s == IF installed = NoSource THEN Fallback ELSE installed
    <2>1. s \in Sources \cup {Fallback, NoSource} /\ s # NoSource
      BY CApiAssumption DEF SourceInv
    <2>2. /\ ts' = [ts EXCEPT ![c] = s] /\ tls' = [tls EXCEPT ![c] = ts'[c]]
          /\ installed' = installed /\ pc' = [pc EXCEPT ![c] = "stamp"]
      BY <1>3 DEF SimLoggerLog, LogString, Stamp, GlobalTimeSourceRef, Goto
    <2> HIDE DEF s
    <2> QED BY <1>0, <2>1, <2>2 DEF SourceInv
  <1>4. ASSUME NEW c \in Clients, LogRecord(c) PROVE SourceInv'
    <2>1. /\ ts' = [ts EXCEPT ![c] = NoSource] /\ UNCHANGED <<tls, installed>>
          /\ pc' = [pc EXCEPT ![c] = "level"]
      BY <1>4 DEF LogRecord, BeginLog, Goto
    <2> QED BY <1>0, <2>1 DEF SourceInv
  <1>5. ASSUME NEW l, NEW k, NEW v, NEW o, Configure(l, k, v, o) PROVE UNCHANGED pc
    BY <1>5 DEF Configure
  <1>6. CASE (ClearRegistry \/ \E l \in Loggers : Change(l)) /\ UNCHANGED <<timeVars, flushVars>>
    <2>1. UNCHANGED pc
      BY <1>5, <1>6, ChangeConfigures DEF LogInv, ClearRegistry
    <2> QED BY <1>1, <1>6, <2>1
  <1>7. ASSUME NEW c \in Clients, LogStep(c) PROVE \A d \in Clients : pc'[d] = "stamp" => pc[d] = "stamp"
    <2>1. UNCHANGED pc \/ \E p \in Labels \ {"stamp"} : pc' = [pc EXCEPT ![c] = p]
      BY <1>7 DEF LogStep, ClimbUp, ResolveLevel, ResolveSinks, ResolveFlush, WriteSink, FlushSink,
           Return, Leave, Goto, NextSink, SinkThrows, Labels, Kinds
    <2> QED BY <1>0, <2>1
  <1>8. ASSUME NEW c \in Clients, (\E l \in Loggers : Get(c, l)) \/ Release(c) \/ SimLoggerFlush(c)
                                 \/ FlushFindsSinks(c) \/ FlushAll(c) \/ FlushReturns(c)
        PROVE  UNCHANGED timeVars /\ \A d \in Clients : pc'[d] = "stamp" => pc[d] = "stamp"
    <2>1. UNCHANGED pc \/ \E p \in Labels \ {"stamp"} : pc' = [pc EXCEPT ![c] = p]
      BY <1>8 DEF Get, Release, SimLoggerFlush, FlushFindsSinks, FlushAll, FlushReturns, Leave, Goto,
           Labels
    <2>2. UNCHANGED timeVars
      BY <1>8 DEF Get, Release, SimLoggerFlush, FlushFindsSinks, FlushAll, FlushReturns
    <2> QED BY <1>0, <2>1, <2>2
  <1>9. CASE UNCHANGED vars
    BY <1>1, <1>9 DEF vars, loggerVars
  <1> QED BY <1>1, <1>2, <1>3, <1>4, <1>6, <1>7, <1>8, <1>9 DEF Next

\* global_time_source_ref(): whoever calls set_global_time_source() meanwhile, the
\* source from which sim_logger_log() or a macro reads the record's times is alive.
THEOREM SnapshotKeepsSource == Spec => []SourceStaysAlive
  <1>1. Init => SourceInv
    BY DEF Init, LoggerInit, SourceInv
  <1>2. SourceInv => SourceStaysAlive
    BY DEF SourceInv, SourceStaysAlive, LiveSources
  <1> QED BY <1>1, <1>2, SourceInvStep, LogInvariance, PTL DEF Spec
-----------------------------------------------------------------------------
(* sim_logger_flush. *)

\* A sink with records of c is still ahead in the list.
StillAhead(c, list, found, waiting) ==
  \A s \in found : c \in waiting[s] => \E i \in 1 .. Len(list) : list[i] = s

FlushInv ==
  /\ unflushed \in [Sinks -> SUBSET Clients]
  /\ reached \in [Clients -> SUBSET Sinks]
  /\ \A c \in Clients : pc[c] = "flush_all" => StillAhead(c, call[c].sinks, reached[c], unflushed)

LEMMA FlushInvStep == LogInv /\ FlushInv /\ [Next]_vars => FlushInv'
  <1> SUFFICES ASSUME LogInv, FlushInv, [Next]_vars PROVE FlushInv'
    OBVIOUS
  <1> USE DEF loggerVars, historyVars, flushVars
  <1>0. /\ pc \in [Clients -> Labels] /\ call \in [Clients -> Calls]
        /\ unflushed \in [Sinks -> SUBSET Clients] /\ reached \in [Clients -> SUBSET Sinks]
    BY DEF LogInv, CallTypes, FlushInv
  \* A client's step lets the sinks of the others wait for no more than before.
  <1>1. ASSUME NEW c \in Clients,
               unflushed' \in [Sinks -> SUBSET Clients], reached' \in [Clients -> SUBSET Sinks],
               \A d \in Clients \ {c} : /\ pc'[d] = pc[d] /\ call'[d] = call[d]
                                        /\ reached'[d] = reached[d],
               \A s \in Sinks : unflushed'[s] \subseteq unflushed[s] \cup {c},
               pc'[c] = "flush_all" => StillAhead(c, call'[c].sinks, reached'[c], unflushed')
        PROVE  FlushInv'
    <2>1. ASSUME NEW d \in Clients, pc'[d] = "flush_all", d # c
          PROVE  StillAhead(d, call'[d].sinks, reached'[d], unflushed')
      <3>1. StillAhead(d, call[d].sinks, reached[d], unflushed)
        BY <1>1, <2>1 DEF FlushInv
      <3>2. reached[d] \subseteq Sinks /\ reached'[d] = reached[d] /\ call'[d] = call[d]
        BY <1>0, <1>1, <2>1
      <3> QED BY <1>1, <2>1, <3>1, <3>2 DEF StillAhead
    <2> QED BY <1>1, <2>1 DEF FlushInv
  <1>2. CASE UNCHANGED <<pc, call, reached, unflushed>>
    BY <1>2 DEF FlushInv
  <1>3. CASE (ClearRegistry \/ \E l \in Loggers : Change(l)) /\ UNCHANGED <<timeVars, flushVars>>
    <2>1. ASSUME NEW l, NEW k, NEW v, NEW o, Configure(l, k, v, o)
          PROVE  UNCHANGED <<pc, call, unflushed>>
      BY <2>1 DEF Configure
    <2>2. UNCHANGED <<pc, call, unflushed>>
      BY <1>3, <2>1, ChangeConfigures DEF LogInv, ClearRegistry
    <2> QED BY <1>2, <1>3, <2>2
  <1>4. CASE \E source \in Sources \cup {NoSource} : SetGlobalTimeSource(source)
    BY <1>2, <1>4 DEF SetGlobalTimeSource
  \* The steps outside sim_logger_flush().
  <1>5. ASSUME NEW c \in Clients, NEW p \in Labels \ {"flush_all"}, NEW e,
               UNCHANGED reached, pc' = [pc EXCEPT ![c] = p], call' = [call EXCEPT ![c] = e],
               unflushed' \in [Sinks -> SUBSET Clients],
               \A s \in Sinks : unflushed'[s] \subseteq unflushed[s] \cup {c}
        PROVE  FlushInv'
    <2>1. \A d \in Clients \ {c} : pc'[d] = pc[d] /\ call'[d] = call[d]
      BY <1>0, <1>5
    <2>2. pc'[c] # "flush_all"
      BY <1>0, <1>5
    <2> QED BY <1>0, <1>1, <1>5, <2>1, <2>2
  <1>6. ASSUME NEW c \in Clients,
               \/ \E v \in CLevels : SimLoggerLog(c, v)
               \/ \E v \in Levels : LogString(c, v)
               \/ LogRecord(c) \/ (ResolveLevel(c) /\ UNCHANGED flushVars)
               \/ SimLoggerFlush(c)
        PROVE  FlushInv'
    <2>1. UNCHANGED <<reached, unflushed>>
      BY <1>6 DEF SimLoggerLog, LogString, Stamp, LogRecord, BeginLog, ResolveLevel, SimLoggerFlush
    <2>2. \E e : call' = [call EXCEPT ![c] = e]
      BY <1>6 DEF SimLoggerLog, LogString, Stamp, LogRecord, BeginLog, ResolveLevel, SimLoggerFlush,
           Leave
    <2>3. \E p \in Labels \ {"flush_all"} : pc' = [pc EXCEPT ![c] = p]
      BY <1>6 DEF SimLoggerLog, LogString, Stamp, LogRecord, BeginLog, ResolveLevel, SimLoggerFlush,
           Leave, Goto, Labels, Kinds
    <2> QED BY <1>0, <1>5, <2>1, <2>2, <2>3
  <1>7. ASSUME NEW c \in Clients, ResolveSinks(c) \/ ResolveFlush(c) \/ Return(c), UNCHANGED flushVars
        PROVE  FlushInv'
    <2>1. UNCHANGED <<reached, unflushed>>
      BY <1>7 DEF ResolveSinks, ResolveFlush, Return
    <2>2. \E e : call' = [call EXCEPT ![c] = e]
      BY <1>7 DEF ResolveSinks, ResolveFlush, Return, Leave
    <2>3. \E p \in Labels \ {"flush_all"} : pc' = [pc EXCEPT ![c] = p]
      BY <1>7 DEF ResolveSinks, ResolveFlush, Return, Leave, Goto, Labels, Kinds
    <2> QED BY <1>0, <1>5, <2>1, <2>2, <2>3
  <1>8. ASSUME NEW c \in Clients, ClimbUp(c), UNCHANGED flushVars PROVE FlushInv'
    <2>1. pc' = [pc EXCEPT ![c] = pc[c]] /\ pc[c] \in Labels \ {"flush_all"}
      BY <1>0, <1>8 DEF ClimbUp, Climbing, Labels, Kinds
    <2> QED BY <1>0, <1>5, <1>8, <2>1 DEF ClimbUp
  <1>9. ASSUME NEW c \in Clients, WriteSink(c) \/ FlushSink(c), UNCHANGED flushVars PROVE FlushInv'
    <2>1. PICK p \in {"write", "flush_sink"}, e \in Calls, x \in Trails : Effect(c, p, e, x)
      BY <1>9, SinkServed
    <2>2. Head(call[c].sinks) \in Sinks
      <3>1. call[c].sinks # <<>>
        BY <1>9, SinkServed
      <3> QED BY <1>0, <3>1, HeadTailProperties DEF Calls
    <2>3. PICK what \in EventKinds : Happens(c, what)
      BY <1>9 DEF WriteSink, FlushSink, SinkThrows, EventKinds
    <2>4. \E U \in {{}, unflushed[Head(call[c].sinks)], unflushed[Head(call[c].sinks)] \cup {c}} :
            unflushed' = [unflushed EXCEPT ![Head(call[c].sinks)] = U]
      BY <2>3 DEF Happens, EventKinds
    <2>5. /\ unflushed' \in [Sinks -> SUBSET Clients]
          /\ \A s \in Sinks : unflushed'[s] \subseteq unflushed[s] \cup {c}
      BY <1>0, <2>2, <2>4
    <2>6. p \in Labels \ {"flush_all"}
      BY DEF Labels
    <2> QED BY <1>5, <1>9, <2>1, <2>5, <2>6 DEF Effect
  <1>10. ASSUME NEW c \in Clients, FlushFindsSinks(c) PROVE FlushInv'
    <2>1. call[c].at \in Loggers
      BY <1>10 DEF FlushFindsSinks, ClimbEnds, LogInv, CallTypes, Climbing
    <2> DEFINE list == Local("sinks", call[c].at)
               e == [call[c] EXCEPT !.at = NoLogger, !.sinks = list]
    <2>2. list \in Seq(Sinks)
      BY <2>1, LocalType DEF LogInv
    <2>3. UNCHANGED unflushed
      BY <1>10 DEF FlushFindsSinks
    <2>4. \/ /\ pc' = [pc EXCEPT ![c] = "flush_all"] /\ call' = [call EXCEPT ![c] = e]
             /\ reached' = [reached EXCEPT ![c] = ToSet(list)]
          \/ /\ pc' = [pc EXCEPT ![c] = "idle"] /\ call' = [call EXCEPT ![c] = NoCall]
             /\ UNCHANGED reached
      BY <1>10 DEF FlushFindsSinks, Leave, Goto
    <2> HIDE DEF list
    <2>5. e.sinks = list
      BY <1>0, <2>2 DEF Calls
    <2> HIDE DEF e
    <2>6. DOMAIN list = 1 .. Len(list) /\ \A i \in 1 .. Len(list) : list[i] \in Sinks
      BY <2>2, LenProperties
    <2>7. ToSet(list) \subseteq Sinks /\ \A s \in ToSet(list) : \E i \in 1 .. Len(list) : list[i] = s
      BY <2>6 DEF ToSet
    <2>8. CASE /\ pc' = [pc EXCEPT ![c] = "flush_all"] /\ call' = [call EXCEPT ![c] = e]
               /\ reached' = [reached EXCEPT ![c] = ToSet(list)]
      <3>1. \A d \in Clients \ {c} : /\ pc'[d] = pc[d] /\ call'[d] = call[d]
                                     /\ reached'[d] = reached[d]
        BY <1>0, <2>8
      <3>2. call'[c].sinks = list /\ reached'[c] = ToSet(list)
            /\ reached' \in [Clients -> SUBSET Sinks]
        BY <1>0, <2>5, <2>7, <2>8
      <3>3. StillAhead(c, call'[c].sinks, reached'[c], unflushed')
        BY <2>7, <3>2 DEF StillAhead
      <3> QED BY <1>0, <1>1, <2>3, <3>1, <3>2, <3>3
    <2>9. CASE /\ pc' = [pc EXCEPT ![c] = "idle"] /\ call' = [call EXCEPT ![c] = NoCall]
               /\ UNCHANGED reached
      BY <1>0, <1>5, <2>3, <2>9 DEF Labels
    <2> QED BY <2>4, <2>8, <2>9
  <1>11. ASSUME NEW c \in Clients, FlushAll(c) PROVE FlushInv'
    <2> DEFINE list == call[c].sinks
               e == [call[c] EXCEPT !.sinks = Tail(list)]
    <2>1. list \in Seq(Sinks) /\ list # <<>> /\ pc[c] = "flush_all" /\ UNCHANGED pc
      BY <1>0, <1>11 DEF FlushAll, Calls
    <2>2. call' = [call EXCEPT ![c] = e]
      BY <1>11 DEF FlushAll
    <2>3. \/ unflushed' = [unflushed EXCEPT ![Head(list)] = {}] /\ UNCHANGED reached
          \/ reached' = [reached EXCEPT ![c] = @ \ {Head(list)}] /\ UNCHANGED unflushed
      BY <1>11 DEF FlushAll
    <2>4. e.sinks = Tail(list)
      BY <1>0 DEF Calls
    <2>5. StillAhead(c, list, reached[c], unflushed)
      BY <2>1 DEF FlushInv
    <2> HIDE DEF list, e
    <2>6. /\ Head(list) \in Sinks /\ Head(list) = list[1] /\ Len(list) \in Nat
          /\ Len(Tail(list)) = Len(list) - 1
          /\ \A i \in 1 .. Len(Tail(list)) : Tail(list)[i] = list[i + 1]
      BY <2>1, HeadTailProperties, LenProperties
    <2>7. \A d \in Clients \ {c} : /\ pc'[d] = pc[d] /\ call'[d] = call[d]
                                   /\ reached'[d] = reached[d]
      BY <1>0, <2>1, <2>2, <2>3
    <2>8. /\ unflushed' \in [Sinks -> SUBSET Clients]
          /\ \A s \in Sinks : unflushed'[s] \subseteq unflushed[s] \cup {c}
          /\ reached' \in [Clients -> SUBSET Sinks]
      BY <1>0, <2>3, <2>6
    <2>9. ASSUME NEW s \in reached'[c], c \in unflushed'[s]
          PROVE  \E i \in 1 .. Len(Tail(list)) : Tail(list)[i] = s
      <3>1. s # Head(list) /\ s \in reached[c] /\ c \in unflushed[s]
        BY <1>0, <2>3, <2>6, <2>8, <2>9
      <3>2. PICK i \in 1 .. Len(list) : list[i] = s
        BY <2>5, <3>1 DEF StillAhead
      <3>3. i - 1 \in 1 .. Len(Tail(list)) /\ Tail(list)[i - 1] = s
        BY <2>6, <3>1, <3>2
      <3> QED BY <3>3
    <2>10. StillAhead(c, call'[c].sinks, reached'[c], unflushed')
      BY <1>0, <2>2, <2>4, <2>9 DEF StillAhead
    <2> QED BY <1>1, <2>7, <2>8, <2>10
  <1>12. ASSUME NEW c \in Clients, FlushReturns(c) PROVE FlushInv'
    <2>1. /\ pc' = [pc EXCEPT ![c] = "idle"] /\ call' = [call EXCEPT ![c] = NoCall]
          /\ reached' = [reached EXCEPT ![c] = {}] /\ UNCHANGED unflushed
      BY <1>12 DEF FlushReturns, Leave, Goto
    <2>2. \A d \in Clients \ {c} : /\ pc'[d] = pc[d] /\ call'[d] = call[d]
                                   /\ reached'[d] = reached[d]
      BY <1>0, <2>1
    <2>3. pc'[c] # "flush_all" /\ reached' \in [Clients -> SUBSET Sinks]
      BY <1>0, <2>1
    <2> QED BY <1>0, <1>1, <2>1, <2>2, <2>3
  <1>13. ASSUME NEW c \in Clients, (\E l \in Loggers : Get(c, l)) \/ Release(c) PROVE FlushInv'
    BY <1>2, <1>13 DEF Get, Release
  <1>14. CASE UNCHANGED vars
    BY <1>2, <1>14 DEF vars
  <1>15. ASSUME NEW c \in Clients, LogStep(c), UNCHANGED <<timeVars, flushVars>> PROVE FlushInv'
    <2>1. UNCHANGED flushVars
      BY <1>15
    <2> QED BY <1>6, <1>7, <1>8, <1>9, <1>15, <2>1 DEF LogStep
  <1> QED
    BY <1>3, <1>4, <1>6, <1>10, <1>11, <1>12, <1>13, <1>14, <1>15 DEF Next

\* sim_logger_flush() returns when every sink it found has been flushed since the
\* calling thread last wrote to it, or has thrown itself.
THEOREM FlushReachesEverySink == Spec => FlushReachesSinks
  <1>1. Init => FlushInv
    BY DEF Init, LoggerInit, FlushInv
  <1>2. LogInv /\ FlushInv /\ [Next]_vars =>
          [\A c \in Clients : pc[c] = "flush_all" /\ pc'[c] = "idle" =>
             \A s \in reached[c] : c \notin unflushed[s]]_vars
    <2> SUFFICES ASSUME LogInv, FlushInv, Next, NEW c \in Clients, pc[c] = "flush_all",
                        pc'[c] = "idle", NEW s \in reached[c], c \in unflushed[s]
                 PROVE  FALSE
      OBVIOUS
    <2>1. pc \in [Clients -> Labels]
      BY DEF LogInv, CallTypes
    <2>2. FlushReturns(c)
      <3>0. pc' # pc
        OBVIOUS
      <3>1. ASSUME NEW l, NEW k, NEW v, NEW o, Configure(l, k, v, o) PROVE UNCHANGED pc
        BY <3>1 DEF Configure
      <3>2. ~(ClearRegistry \/ \E l \in Loggers : Change(l))
        BY <3>0, <3>1, ChangeConfigures DEF LogInv, ClearRegistry
      <3>3. ASSUME NEW d \in Clients, LogStep(d) PROVE FALSE
        <4>1. pc[d] # "flush_all"
          BY <3>3 DEF LogStep, ClimbUp, Climbing, ResolveLevel, ResolveSinks, ResolveFlush, ClimbEnds,
               WriteSink, FlushSink, Return, Kinds
        <4>2. UNCHANGED pc \/ \E p : pc' = [pc EXCEPT ![d] = p]
          BY <3>3 DEF LogStep, ClimbUp, ResolveLevel, ResolveSinks, ResolveFlush, WriteSink,
               FlushSink, Return, Leave, Goto, NextSink, SinkThrows
        <4> QED BY <2>1, <3>0, <4>1, <4>2
      <3>4. ASSUME NEW d \in Clients,
                   \/ \E l \in Loggers : Get(d, l)
                   \/ Release(d) \/ LogRecord(d) \/ SimLoggerFlush(d) \/ FlushFindsSinks(d)
                   \/ \E v \in CLevels : SimLoggerLog(d, v)
                   \/ \E v \in Levels : LogString(d, v)
            PROVE  FALSE
        <4>1. pc[d] # "flush_all"
          BY <3>4 DEF Get, Release, LogRecord, SimLoggerFlush, FlushFindsSinks, ClimbEnds,
               SimLoggerLog, LogString, Stamp
        <4>2. UNCHANGED pc \/ \E p : pc' = [pc EXCEPT ![d] = p]
          BY <3>4 DEF Get, Release, LogRecord, BeginLog, SimLoggerFlush, FlushFindsSinks,
               SimLoggerLog, LogString, Stamp, Leave, Goto
        <4> QED BY <2>1, <3>0, <4>1, <4>2
      <3>5. \A d \in Clients : FlushReturns(d) => d = c
        BY <2>1 DEF FlushReturns, Leave, Goto
      <3>6. ASSUME NEW source, SetGlobalTimeSource(source) PROVE FALSE
        BY <3>0, <3>6 DEF SetGlobalTimeSource
      <3>7. ASSUME NEW d \in Clients, FlushAll(d) PROVE FALSE
        BY <3>0, <3>7 DEF FlushAll
      <3> QED BY <3>2, <3>3, <3>4, <3>5, <3>6, <3>7 DEF Next
    <2>3. Len(call[c].sinks) = 0
      BY <2>2 DEF FlushReturns
    <2> QED BY <2>3 DEF FlushInv, StillAhead
  <1> QED BY <1>1, <1>2, FlushInvStep, LogInvariance, PTL DEF Spec, FlushReachesSinks
-----------------------------------------------------------------------------
(* The climbs. *)

\* The distance of a logger from the top, or a number that falls like it.
Depth ==
  CHOOSE depth \in [Loggers -> 0 .. Cardinality(Loggers) - 1] :
    \A l \in Loggers : parent[l] # NoLogger => depth[parent[l]] < depth[l]

LEMMA DepthFalls ==
  /\ Cardinality(Loggers) \in Nat
  /\ Depth \in [Loggers -> 0 .. Cardinality(Loggers) - 1]
  /\ \A l \in Loggers : parent[l] # NoLogger => Depth[parent[l]] < Depth[l]
  <1>1. Cardinality(Loggers) \in Nat
    BY TreeAssumption, FS_CardinalityType
  <1>2. \E depth \in [Loggers -> 0 .. Cardinality(Loggers) - 1] :
          \A l \in Loggers : parent[l] # NoLogger => depth[parent[l]] < depth[l]
    BY TreeAssumption
  <1> QED BY <1>1, <1>2, Zenon DEF Depth

\* The climb of c from h for the setting k stands on at: it holds the mutexes of all
\* the loggers before, and those still have no setting of their own.
Climbed(c, h, at, k, own, over) ==
  \E n \in 1 .. Cardinality(Loggers) : \E path \in [1 .. n -> Loggers] :
    /\ path[1] = h /\ path[n] = at /\ n + Depth[at] <= Cardinality(Loggers)
    /\ \A i \in 1 .. n - 1 : /\ own[path[i]] = c /\ ~over[path[i]][k]
                             /\ parent[path[i]] = path[i + 1]

\* Whoever holds a mutex climbs, and stands above it.
ClimbInv ==
  /\ \A c \in Clients : Climbing(c) =>
       Climbed(c, handle[c], call[c].at, SettingOf(pc[c]), owner, overridden)
  /\ \A l \in Loggers : owner[l] # Nobody =>
       Climbing(owner[l]) /\ Depth[call[owner[l]].at] < Depth[l]

\* What the others do does not disturb a climb.
LEMMA ClimbStands ==
  ASSUME NEW c, NEW h, NEW at, NEW k, NEW own, NEW over, NEW own2, NEW over2,
         Climbed(c, h, at, k, own, over),
         \A l \in Loggers : own[l] = c => own2[l] = c /\ over2[l] = over[l]
  PROVE  Climbed(c, h, at, k, own2, over2)
  <1>1. PICK n \in 1 .. Cardinality(Loggers) : \E path \in [1 .. n -> Loggers] :
          /\ path[1] = h /\ path[n] = at /\ n + Depth[at] <= Cardinality(Loggers)
          /\ \A i \in 1 .. n - 1 : /\ own[path[i]] = c /\ ~over[path[i]][k]
                                   /\ parent[path[i]] = path[i + 1]
    BY DEF Climbed
  <1>2. PICK path \in [1 .. n -> Loggers] :
          /\ path[1] = h /\ path[n] = at /\ n + Depth[at] <= Cardinality(Loggers)
          /\ \A i \in 1 .. n - 1 : /\ own[path[i]] = c /\ ~over[path[i]][k]
                                   /\ parent[path[i]] = path[i + 1]
    BY <1>1
  <1>3. \A i \in 1 .. n - 1 : path[i] \in Loggers
    BY DepthFalls
  <1>4. \A i \in 1 .. n - 1 : own2[path[i]] = c /\ ~over2[path[i]][k] /\ parent[path[i]] = path[i + 1]
    BY <1>2, <1>3
  <1> QED BY <1>2, <1>4 DEF Climbed

LEMMA ClimbStarts ==
  ASSUME NEW h \in Loggers, NEW c, NEW k, NEW own, NEW over
  PROVE  Climbed(c, h, h, k, own, over)
  <1> DEFINE path == [i \in 1 .. 1 |-> h]
  <1>1. Depth[h] \in 0 .. Cardinality(Loggers) - 1 /\ Cardinality(Loggers) \in Nat
    BY DepthFalls
  <1>2. 1 \in 1 .. Cardinality(Loggers) /\ 1 + Depth[h] <= Cardinality(Loggers)
    BY <1>1
  <1>3. path \in [1 .. 1 -> Loggers] /\ path[1] = h
    OBVIOUS
  <1>4. \A i \in 1 .. 1 - 1 : FALSE
    OBVIOUS
  <1> HIDE DEF path
  <1> QED BY <1>2, <1>3, <1>4 DEF Climbed

LEMMA ClimbRises ==
  ASSUME NEW c, NEW h, NEW at \in Loggers, NEW k, NEW own \in [Loggers -> Clients \cup {Nobody}],
         NEW over, Climbed(c, h, at, k, own, over), c \in Clients,
         ~over[at][k], parent[at] \in Loggers
  PROVE  Climbed(c, h, parent[at], k, [own EXCEPT ![at] = c], over)
  <1> DEFINE own2 == [own EXCEPT ![at] = c]
             up == parent[at]
  <1>1. Climbed(c, h, at, k, own2, over)
    <2>1. \A l \in Loggers : own[l] = c => own2[l] = c
      OBVIOUS
    <2> HIDE DEF own2
    <2> QED BY <2>1, ClimbStands
  <1>2. PICK n \in 1 .. Cardinality(Loggers) : \E path \in [1 .. n -> Loggers] :
          /\ path[1] = h /\ path[n] = at /\ n + Depth[at] <= Cardinality(Loggers)
          /\ \A i \in 1 .. n - 1 : /\ own2[path[i]] = c /\ ~over[path[i]][k]
                                   /\ parent[path[i]] = path[i + 1]
    BY <1>1 DEF Climbed
  <1>3. PICK path \in [1 .. n -> Loggers] :
          /\ path[1] = h /\ path[n] = at /\ n + Depth[at] <= Cardinality(Loggers)
          /\ \A i \in 1 .. n - 1 : /\ own2[path[i]] = c /\ ~over[path[i]][k]
                                   /\ parent[path[i]] = path[i + 1]
    BY <1>2
  <1>4. own2[at] = c
    OBVIOUS
  <1> DEFINE longer == [i \in 1 .. n + 1 |-> IF i <= n THEN path[i] ELSE up]
  <1> HIDE DEF own2
  <1>5. Cardinality(Loggers) \in Nat /\ Depth[at] \in Nat /\ Depth[up] \in Nat
        /\ Depth[up] < Depth[at]
    BY DepthFalls, TreeAssumption
  <1>6. n + 1 \in 1 .. Cardinality(Loggers) /\ n + 1 + Depth[up] <= Cardinality(Loggers)
    BY <1>3, <1>5
  <1>7. /\ longer \in [1 .. n + 1 -> Loggers] /\ longer[1] = h /\ longer[n + 1] = up
    BY <1>3, <1>5
  <1>8. ASSUME NEW i \in 1 .. (n + 1) - 1
        PROVE  own2[longer[i]] = c /\ ~over[longer[i]][k] /\ parent[longer[i]] = longer[i + 1]
    <2>1. CASE i = n
      BY <1>3, <1>4, <1>5, <2>1
    <2>2. CASE i # n
      BY <1>3, <1>5, <2>2
    <2> QED BY <2>1, <2>2
  <1> HIDE DEF longer, up
  <1>9. Climbed(c, h, up, k, own2, over)
    BY <1>6, <1>7, <1>8 DEF Climbed
  <1> QED BY <1>9 DEF own2, up

\* A step of c that ends its climb, if it has one, and may begin the next.
Restart(c) ==
  /\ owner' = [l \in Loggers |-> IF owner[l] = c THEN Nobody ELSE owner[l]]
  /\ \A d \in Clients \ {c} : pc'[d] = pc[d] /\ call'[d] = call[d] /\ handle'[d] = handle[d]
  /\ Climbing(c)' => handle'[c] \in Loggers /\ call'[c].at = handle'[c]
  /\ UNCHANGED overridden

LEMMA StepsOfClimbs ==
  ASSUME LogInv, ClimbInv, [Next]_vars
  PROVE  \/ UNCHANGED <<overridden, handle, owner, pc, call>>
         \/ \E l \in Loggers, o \in BOOLEAN, k \in Kinds :
              /\ owner[l] = Nobody /\ overridden' = [overridden EXCEPT ![l][k] = o]
              /\ UNCHANGED <<handle, owner, pc, call>>
         \/ \E c \in Clients : ClimbUp(c) \/ Restart(c)
  <1> USE DEF loggerVars, configVars, Goto
  <1>0. /\ pc \in [Clients -> Labels] /\ call \in [Clients -> Calls]
        /\ handle \in [Clients -> Loggers \cup {NoLogger}]
        /\ owner \in [Loggers -> Clients \cup {Nobody}]
    BY DEF LogInv, CallTypes
  <1>1. ASSUME NEW c \in Clients, ~Climbing(c) PROVE owner = [l \in Loggers |-> IF owner[l] = c THEN Nobody ELSE owner[l]]
    <2>1. \A l \in Loggers : owner[l] # c
      BY <1>1, TreeAssumption DEF ClimbInv
    <2> QED BY <1>0, <2>1
  \* A step of c outside a climb, or the last one of a climb.
  <1>2. ASSUME NEW c \in Clients, NEW p \in Labels, NEW e,
               pc' = [pc EXCEPT ![c] = p], call' = [call EXCEPT ![c] = e],
               p \in Kinds \cup {"sinks_only"} => e.at = handle[c] /\ handle[c] \in Loggers,
               UNCHANGED <<handle, overridden>>,
               Unwind(c) \/ (~Climbing(c) /\ UNCHANGED owner)
        PROVE  Restart(c)
    <2>1. \A d \in Clients \ {c} : pc'[d] = pc[d] /\ call'[d] = call[d] /\ handle'[d] = handle[d]
      BY <1>0, <1>2
    <2>2. pc'[c] = p /\ call'[c] = e
      BY <1>0, <1>2
    <2>3. owner' = [l \in Loggers |-> IF owner[l] = c THEN Nobody ELSE owner[l]]
      BY <1>1, <1>2 DEF Unwind
    <2> QED BY <1>2, <2>1, <2>2, <2>3 DEF Restart, Climbing
  <1>3. CASE \E l \in Loggers : Change(l)
    <2>1. PICK l \in Loggers : Change(l)
      BY <1>3
    <2>2. ASSUME NEW k \in Kinds, NEW v, NEW o \in BOOLEAN, Configure(l, k, v, o)
          PROVE  /\ owner[l] = Nobody /\ overridden' = [overridden EXCEPT ![l][k] = o]
                 /\ UNCHANGED <<handle, owner, pc, call>>
      BY <2>2 DEF Configure
    <2>3. \E o \in BOOLEAN, k \in Kinds :
              /\ owner[l] = Nobody /\ overridden' = [overridden EXCEPT ![l][k] = o]
              /\ UNCHANGED <<handle, owner, pc, call>>
      BY <2>1, <2>2, ChangeConfigures DEF LogInv, Kinds
    <2> QED BY <2>3
  <1>4. CASE ClearRegistry \/ \E source \in Sources \cup {NoSource} : SetGlobalTimeSource(source)
    BY <1>4 DEF ClearRegistry, SetGlobalTimeSource
  <1>5. ASSUME NEW c \in Clients, (\E l \in Loggers : Get(c, l)) \/ Release(c) PROVE Restart(c)
    <2>1. /\ UNCHANGED <<overridden, owner, pc, call>> /\ ~Climbing(c)
          /\ \E h : handle' = [handle EXCEPT ![c] = h]
      BY <1>5 DEF Get, Release, Climbing, Kinds
    <2> QED BY <1>0, <1>1, <2>1 DEF Restart, Climbing
  <1>6. ASSUME NEW c \in Clients, (\E v \in CLevels : SimLoggerLog(c, v)) \/ \E v \in Levels : LogString(c, v)
        PROVE  Restart(c)
    <2>1. /\ UNCHANGED <<overridden, owner, handle>> /\ ~Climbing(c)
          /\ (\E e : call' = [call EXCEPT ![c] = e]) /\ pc' = [pc EXCEPT ![c] = "stamp"]
      BY <1>6 DEF SimLoggerLog, LogString, Stamp, Climbing, Kinds
    <2>2. "stamp" \in Labels \ (Kinds \cup {"sinks_only"})
      BY DEF Labels, Kinds
    <2> QED BY <1>2, <2>1, <2>2
  <1>7. ASSUME NEW c \in Clients, LogRecord(c) PROVE Restart(c)
    <2> DEFINE e == [NoCall EXCEPT !.id = lastId + 1, !.level = call[c].level, !.at = handle[c]]
    <2>1. /\ UNCHANGED <<overridden, owner, handle>> /\ ~Climbing(c) /\ handle[c] \in Loggers
          /\ call' = [call EXCEPT ![c] = e] /\ pc' = [pc EXCEPT ![c] = "level"]
      BY <1>7 DEF LogRecord, BeginLog, Climbing, Kinds, LogInv, CallTypes
    <2>2. e.at = handle[c]
      BY DEF NoCall
    <2> HIDE DEF e
    <2> QED BY <1>2, <2>1, <2>2 DEF Labels, Kinds
  <1>8. ASSUME NEW c \in Clients, ResolveLevel(c) PROVE Restart(c)
    <2> DEFINE e == [call[c] EXCEPT !.at = handle[c]]
    <2>1. /\ UNCHANGED <<overridden, handle>> /\ Unwind(c) /\ handle[c] \in Loggers
          /\ \/ call' = [call EXCEPT ![c] = e] /\ pc' = [pc EXCEPT ![c] = "sinks"]
             \/ call' = [call EXCEPT ![c] = NoCall] /\ pc' = [pc EXCEPT ![c] = "idle"]
      BY <1>8 DEF ResolveLevel, ClimbEnds, Leave, LogInv, CallTypes
    <2>2. e.at = handle[c]
      BY <1>0 DEF Calls
    <2> HIDE DEF e
    <2> QED BY <1>2, <2>1, <2>2 DEF Labels, Kinds
  <1>9. ASSUME NEW c \in Clients, ResolveSinks(c) PROVE Restart(c)
    <2> DEFINE e == [call[c] EXCEPT !.at = handle[c], !.sinks = Local("sinks", call[c].at)]
    <2>1. /\ UNCHANGED <<overridden, handle>> /\ Unwind(c) /\ handle[c] \in Loggers
          /\ \/ call' = [call EXCEPT ![c] = e] /\ pc' = [pc EXCEPT ![c] = "flush"]
             \/ call' = [call EXCEPT ![c] = NoCall] /\ pc' = [pc EXCEPT ![c] = "idle"]
      BY <1>9 DEF ResolveSinks, ClimbEnds, Leave, LogInv, CallTypes
    <2>2. e.at = handle[c]
      BY <1>0 DEF Calls
    <2> HIDE DEF e
    <2> QED BY <1>2, <2>1, <2>2 DEF Labels, Kinds
  <1>10. ASSUME NEW c \in Clients, ResolveFlush(c) \/ FlushFindsSinks(c) PROVE Restart(c)
    <2>1. /\ UNCHANGED <<overridden, handle>> /\ Unwind(c)
          /\ (\E e : call' = [call EXCEPT ![c] = e])
          /\ \E p \in {"write", "flush_all", "idle"} : pc' = [pc EXCEPT ![c] = p]
      BY <1>10 DEF ResolveFlush, FlushFindsSinks, ClimbEnds, Leave
    <2>2. {"write", "flush_all", "idle"} \subseteq Labels \ (Kinds \cup {"sinks_only"})
      BY DEF Labels, Kinds
    <2> QED BY <1>2, <2>1, <2>2
  <1>11. ASSUME NEW c \in Clients, WriteSink(c) \/ FlushSink(c) \/ Return(c) \/ FlushAll(c) \/ FlushReturns(c)
         PROVE  Restart(c)
    <2>1. /\ UNCHANGED <<overridden, owner, handle>> /\ ~Climbing(c)
          /\ \E e : call' = [call EXCEPT ![c] = e]
      BY <1>0, <1>11 DEF WriteSink, FlushSink, Return, FlushAll, FlushReturns, Leave, NextSink, SinkThrows,
           Climbing, Kinds
    <2>2. \E p \in {"write", "flush_sink", "flush_all", "idle"} : pc' = [pc EXCEPT ![c] = p]
      BY <1>0, <1>11 DEF WriteSink, FlushSink, Return, FlushAll, FlushReturns, Leave, NextSink, SinkThrows
    <2>3. {"write", "flush_sink", "flush_all", "idle"} \subseteq Labels \ (Kinds \cup {"sinks_only"})
      BY DEF Labels, Kinds
    <2> QED BY <1>2, <2>1, <2>2, <2>3
  <1>12. ASSUME NEW c \in Clients, SimLoggerFlush(c) PROVE Restart(c)
    <2> DEFINE e == [call[c] EXCEPT !.at = handle[c]]
    <2>1. /\ UNCHANGED <<overridden, handle, owner>> /\ ~Climbing(c) /\ handle[c] \in Loggers
          /\ call' = [call EXCEPT ![c] = e] /\ pc' = [pc EXCEPT ![c] = "sinks_only"]
      BY <1>0, <1>12 DEF SimLoggerFlush, Climbing, Kinds
    <2>2. e.at = handle[c]
      BY <1>0 DEF Calls
    <2> HIDE DEF e
    <2> QED BY <1>2, <2>1, <2>2 DEF Labels
  <1>13. CASE UNCHANGED vars
    BY <1>13 DEF vars
  <1> QED
    BY <1>3, <1>4, <1>5, <1>6, <1>7, <1>8, <1>9, <1>10, <1>11, <1>12, <1>13 DEF Next, LogStep

LEMMA ClimbInvStep == LogInv /\ ClimbInv /\ [Next]_vars => ClimbInv'
  <1> SUFFICES ASSUME LogInv, ClimbInv, [Next]_vars PROVE ClimbInv'
    OBVIOUS
  <1>0. /\ pc \in [Clients -> Labels] /\ call \in [Clients -> Calls]
        /\ handle \in [Clients -> Loggers \cup {NoLogger}]
        /\ owner \in [Loggers -> Clients \cup {Nobody}]
        /\ overridden \in [Loggers -> [Kinds -> BOOLEAN]]
        /\ Nobody \notin Clients
    BY TreeAssumption DEF LogInv, CallTypes, ConfigTypes
  <1>1. CASE UNCHANGED <<overridden, handle, owner, pc, call>>
    BY <1>1 DEF ClimbInv, Climbing
  <1>2. ASSUME NEW l \in Loggers, NEW k \in Kinds, NEW o \in BOOLEAN, owner[l] = Nobody,
               overridden' = [overridden EXCEPT ![l][k] = o], UNCHANGED <<handle, owner, pc, call>>
        PROVE  ClimbInv'
    <2>1. ASSUME NEW c \in Clients, Climbing(c)
          PROVE  Climbed(c, handle[c], call[c].at, SettingOf(pc[c]), owner, overridden')
      <3>1. \A m \in Loggers : owner[m] = c => owner[m] = c /\ overridden'[m] = overridden[m]
        BY <1>0, <1>2
      <3>2. Climbed(c, handle[c], call[c].at, SettingOf(pc[c]), owner, overridden)
        BY <2>1 DEF ClimbInv
      <3> QED BY <3>1, <3>2, ClimbStands
    <2> QED BY <1>2, <2>1 DEF ClimbInv, Climbing
  <1>3. ASSUME NEW c \in Clients, ClimbUp(c) PROVE ClimbInv'
    <2> DEFINE at == call[c].at
               e == [call[c] EXCEPT !.at = Up(at)]
    <2>1. /\ at \in Loggers /\ Climbing(c) /\ owner[at] = Nobody
          /\ ~overridden[at][SettingOf(pc[c])]
          /\ Up(at) = parent[at] /\ parent[at] \in Loggers
      BY <1>3, UpType DEF ClimbUp, Inherits, LogInv, CallTypes
    <2>2. /\ owner' = [owner EXCEPT ![at] = c] /\ call' = [call EXCEPT ![c] = e]
          /\ UNCHANGED <<overridden, handle, pc>>
      BY <1>3 DEF ClimbUp, configVars
    <2>3. e.at = parent[at]
      BY <1>0, <2>1 DEF Calls
    <2>4. Depth[parent[at]] < Depth[at] /\ \A l \in Loggers : Depth[l] \in Nat
      BY <2>1, DepthFalls, TreeAssumption
    <2> HIDE DEF e, at
    <2>5. /\ call'[c].at = parent[at] /\ \A d \in Clients : d # c => call'[d] = call[d]
          /\ owner'[at] = c /\ \A l \in Loggers : l # at => owner'[l] = owner[l]
      BY <1>0, <2>1, <2>2, <2>3
    <2>6. ASSUME NEW d \in Clients, Climbing(d)
          PROVE  Climbed(d, handle[d], call'[d].at, SettingOf(pc[d]), owner', overridden)
      <3>1. Climbed(d, handle[d], call[d].at, SettingOf(pc[d]), owner, overridden)
        BY <2>6 DEF ClimbInv
      <3>2. CASE d = c
        <4>1. Climbed(c, handle[c], at, SettingOf(pc[c]), owner, overridden)
          BY <3>1, <3>2 DEF at
        <4>2. Climbed(c, handle[c], parent[at], SettingOf(pc[c]), [owner EXCEPT ![at] = c], overridden)
          BY <1>0, <2>1, <4>1, ClimbRises
        <4> QED BY <2>2, <2>5, <3>2, <4>2
      <3>3. CASE d # c
        <4>1. \A l \in Loggers : owner[l] = d => owner'[l] = d
          BY <1>0, <2>1, <2>5
        <4> QED BY <2>5, <3>1, <3>3, <4>1, ClimbStands
      <3> QED BY <3>2, <3>3
    <2>7. ASSUME NEW l \in Loggers, owner'[l] # Nobody
          PROVE  Climbing(owner'[l]) /\ Depth[call'[owner'[l]].at] < Depth[l]
      <3>1. CASE l = at
        BY <2>1, <2>4, <2>5, <3>1
      <3>2. CASE l # at
        <4>1. owner'[l] = owner[l] /\ Climbing(owner[l]) /\ Depth[call[owner[l]].at] < Depth[l]
              /\ owner[l] \in Clients
          BY <1>0, <2>5, <2>7, <3>2 DEF ClimbInv
        <4>2. CASE owner[l] # c
          BY <2>5, <4>1, <4>2
        <4>3. CASE owner[l] = c
          <5>1. Depth[at] < Depth[l]
            BY <4>1, <4>3 DEF at
          <5>2. Depth[parent[at]] < Depth[l]
            BY <2>1, <2>4, <5>1
          <5> QED BY <2>5, <4>1, <4>3, <5>2
        <4> QED BY <4>2, <4>3
      <3> QED BY <3>1, <3>2
    <2>8. \A d : Climbing(d)' <=> Climbing(d)
      BY <2>2 DEF Climbing
    <2> QED BY <2>2, <2>6, <2>7, <2>8 DEF ClimbInv
  <1>4. ASSUME NEW c \in Clients, Restart(c) PROVE ClimbInv'
    <2>1. \A l \in Loggers : owner'[l] = IF owner[l] = c THEN Nobody ELSE owner[l]
      BY <1>4 DEF Restart
    <2>2. \A d \in Clients \ {c} : /\ pc'[d] = pc[d] /\ call'[d] = call[d] /\ handle'[d] = handle[d]
                                   /\ (Climbing(d)' <=> Climbing(d))
      BY <1>4 DEF Restart, Climbing
    <2>3. ASSUME NEW d \in Clients, Climbing(d)'
          PROVE  Climbed(d, handle'[d], call'[d].at, SettingOf(pc'[d]), owner', overridden')
      <3>1. CASE d = c
        BY <1>4, <2>3, <3>1, ClimbStarts DEF Restart
      <3>2. CASE d # c
        <4>1. Climbed(d, handle[d], call[d].at, SettingOf(pc[d]), owner, overridden)
          BY <2>2, <2>3, <3>2 DEF ClimbInv
        <4>2. \A l \in Loggers : owner[l] = d => owner'[l] = d /\ overridden'[l] = overridden[l]
          BY <1>4, <2>1, <3>2 DEF Restart
        <4> QED BY <2>2, <3>2, <4>1, <4>2, ClimbStands
      <3> QED BY <3>1, <3>2
    <2>4. ASSUME NEW l \in Loggers, owner'[l] # Nobody
          PROVE  pc'[owner'[l]] \in Kinds \cup {"sinks_only"} /\ Depth[call'[owner'[l]].at] < Depth[l]
      <3>1. owner'[l] = owner[l] /\ owner[l] \in Clients \ {c}
        BY <1>0, <2>1, <2>4
      <3>2. Climbing(owner[l]) /\ Depth[call[owner[l]].at] < Depth[l]
        BY <2>4, <3>1 DEF ClimbInv
      <3>3. pc'[owner'[l]] = pc[owner[l]] /\ call'[owner'[l]] = call[owner[l]]
        BY <2>2, <3>1
      <3> QED BY <3>2, <3>3 DEF Climbing
    <2> QED BY <2>3, <2>4 DEF ClimbInv, Climbing
  <1> QED BY <1>1, <1>2, <1>3, <1>4, StepsOfClimbs

LEMMA ClimbInvariance == Spec => []ClimbInv
  <1>1. Init => ClimbInv
    <2> SUFFICES ASSUME Init PROVE ClimbInv
      OBVIOUS
    <2>1. (\A l \in Loggers : owner[l] = Nobody) /\ \A c \in Clients : pc[c] = "idle"
      BY DEF Init, LoggerInit
    <2> QED BY <2>1 DEF ClimbInv, Climbing, Kinds
  <1> QED BY <1>1, ClimbInvStep, LogInvariance, PTL DEF Spec

\* effective_level() and its siblings lock the parent's mutex while they hold their
\* own, from the leaves to the root: threads whose climbs meet, or that an exception
\* ends, never block each other for good.
THEOREM ClimbsNeverDeadlock == Spec => []NobodyStuck
  <1>1. LogInv /\ ClimbInv => NobodyStuck
    <2> SUFFICES ASSUME LogInv, ClimbInv, NEW b \in Clients, pc[b] # "idle"
                 PROVE  \E c \in Clients : pc[c] # "idle" /\ (Climbing(c) => owner[call[c].at] = Nobody)
      BY DEF ClimbInv, NobodyStuck
    <2>1. CASE ~Climbing(b)
      BY <2>1
    <2>2. CASE Climbing(b)
      <3> DEFINE Standing == { Depth[call[c].at] : c \in { d \in Clients : Climbing(d) } }
      <3>1. \A c \in Clients : Climbing(c) => call[c].at \in Loggers /\ Depth[call[c].at] \in Nat
        BY DepthFalls DEF LogInv, CallTypes
      <3>2. Standing \subseteq Nat /\ Standing # {}
        BY <2>2, <3>1
      <3>3. PICK n \in Standing : \A m \in Standing : ~(<<m, n>> \in OpToRel(<, Nat))
        BY <3>2, WFMin, NatLessThanWellFounded
      <3>4. PICK c \in Clients : Climbing(c) /\ Depth[call[c].at] = n
        OBVIOUS
      <3>5. \A d \in Clients : Climbing(d) => ~(Depth[call[d].at] < n)
        <4> SUFFICES ASSUME NEW d \in Clients, Climbing(d), Depth[call[d].at] < n PROVE FALSE
          OBVIOUS
        <4>1. Depth[call[d].at] \in Standing /\ Depth[call[d].at] \in Nat /\ n \in Nat
          BY <3>1, <3>2
        <4> HIDE DEF Standing
        <4> QED BY <3>3, <4>1 DEF OpToRel
      <3>6. owner[call[c].at] = Nobody
        <4> SUFFICES ASSUME owner[call[c].at] # Nobody PROVE FALSE
          OBVIOUS
        <4> DEFINE o == owner[call[c].at]
        <4>1. Climbing(o) /\ Depth[call[o].at] < n /\ o \in Clients
          BY <3>1, <3>4 DEF ClimbInv, LogInv, CallTypes
        <4> QED BY <3>5, <4>1
      <3>7. pc[c] # "idle"
        BY <3>4 DEF Climbing, Kinds
      <3> QED BY <3>6, <3>7
    <2> QED BY <2>1, <2>2
  <1> QED BY <1>1, ClimbInvariance, LogInvariance, PTL

\* Where a climb ends is where the setting comes from at that moment.
LEMMA ClimbEndsAtSource ==
  ASSUME LogInv, ClimbInv, NEW c \in Clients, NEW label \in Kinds, ClimbEnds(c, label)
  PROVE  call[c].at \in Loggers /\ TakesFrom(label, handle[c], call[c].at)
  <1>1. /\ pc[c] = label /\ Climbing(c) /\ SettingOf(pc[c]) = label /\ call[c].at \in Loggers
        /\ overridden[call[c].at][label] \/ Up(call[c].at) = NoLogger
    BY DEF ClimbEnds, Inherits, Climbing, Kinds, SettingOf, LogInv, CallTypes
  <1>2. Climbed(c, handle[c], call[c].at, label, owner, overridden)
    BY <1>1 DEF ClimbInv
  <1>3. PICK n \in 1 .. Cardinality(Loggers) : \E path \in [1 .. n -> Loggers] :
          /\ path[1] = handle[c] /\ path[n] = call[c].at
          /\ \A i \in 1 .. n - 1 : /\ owner[path[i]] = c /\ ~overridden[path[i]][label]
                                   /\ parent[path[i]] = path[i + 1]
    BY <1>2 DEF Climbed
  <1>4. PICK path \in [1 .. n -> Loggers] :
          /\ path[1] = handle[c] /\ path[n] = call[c].at
          /\ \A i \in 1 .. n - 1 : /\ owner[path[i]] = c /\ ~overridden[path[i]][label]
                                   /\ parent[path[i]] = path[i + 1]
    BY <1>3
  <1>5. ASSUME NEW i \in 1 .. n - 1 PROVE Up(path[i]) = path[i + 1]
    <2>1. i + 1 \in 1 .. n /\ path[i + 1] \in Loggers /\ path[i + 1] # NoLogger
      BY DepthFalls, TreeAssumption
    <2>2. owner[path[i + 1]] # Nobody \/ path[i + 1] = call[c].at
      <3>1. CASE i + 1 = n
        BY <1>4, <3>1
      <3>2. CASE i + 1 # n
        <4>1. i + 1 \in 1 .. n - 1
          BY <2>1, <3>2, DepthFalls
        <4> QED BY <1>4, <4>1, TreeAssumption
      <3> QED BY <3>1, <3>2
    <2>3. path[i + 1] \in Alive
      BY <1>1, <2>1, <2>2 DEF Alive
    <2> QED BY <1>4, <2>3 DEF Up
  <1>6. \A i \in 1 .. n - 1 : ~overridden[path[i]][label] /\ Up(path[i]) = path[i + 1]
    BY <1>4, <1>5
  <1> QED BY <1>1, <1>4, <1>6 DEF TakesFrom

\* log() filters, chooses its sinks and decides to flush by what effective_level(),
\* effective_sinks() and effective_immediate_flush() would have returned if the whole
\* tree had been locked, whatever the other threads reconfigure or release meanwhile.
THEOREM ClimbReadsOneMoment == Spec => SnapshotIsEffective
  <1> DEFINE Read(c) ==
       /\ pc[c] = "level" /\ pc'[c] # "level" =>
            \E m \in Loggers : /\ TakesFrom("level", handle[c], m)
                               /\ (pc'[c] = "sinks") <=> call[c].level >= Local("level", m)
       /\ pc[c] = "sinks" /\ pc'[c] = "flush" =>
            \E m \in Loggers : /\ TakesFrom("sinks", handle[c], m)
                               /\ call'[c].sinks = Local("sinks", m)
       /\ pc[c] = "flush" /\ pc'[c] = "write" =>
            \E m \in Loggers : /\ TakesFrom("flush", handle[c], m)
                               /\ call'[c].flush = Local("flush", m)
  <1>1. LogInv /\ ClimbInv /\ [Next]_vars => [\A c \in Clients : Read(c)]_loggerVars
    <2> SUFFICES ASSUME LogInv, ClimbInv, Next, NEW c \in Clients PROVE Read(c)
      BY DEF vars
    <2>0. pc \in [Clients -> Labels] /\ call \in [Clients -> Calls] /\ handle[c] \in Loggers \cup {NoLogger}
      BY DEF LogInv, CallTypes
    <2>1. ASSUME pc[c] \in Kinds, pc'[c] # pc[c]
          PROVE  ResolveLevel(c) \/ ResolveSinks(c) \/ ResolveFlush(c)
      <3>1. Working(c) /\ ~Quiet
        BY <2>1 DEF Quiet, Working
      <3>2. PICK d \in Clients : RecordStep(d)
        BY <3>1, StepsOfRecords
      <3>3. d = c
        <4>1. \E p : pc' = [pc EXCEPT ![d] = p]
          BY <3>2 DEF RecordStep, LogRecord, BeginLog, ResolveLevel, ResolveSinks, ResolveFlush,
               WriteSink, FlushSink, Return, Leave, Goto, NextSink, SinkThrows
        <4> QED BY <2>0, <2>1, <4>1
      <3> QED BY <2>1, <3>2, <3>3 DEF RecordStep, LogRecord, WriteSink, FlushSink, Return, Kinds
    <2>2. CASE ResolveLevel(c)
      <3>1. pc[c] = "level" /\ call[c].at \in Loggers /\ TakesFrom("level", handle[c], call[c].at)
        BY <2>2, ClimbEndsAtSource DEF ResolveLevel, ClimbEnds, Kinds
      <3>2. Local("level", call[c].at) \in Nat /\ call[c].level \in Nat
        BY <2>0, <3>1, LocalType DEF LogInv, Calls
      <3>3. (pc'[c] = "sinks") <=> call[c].level >= Local("level", call[c].at)
        BY <2>0, <2>2, <3>2 DEF ResolveLevel, Leave, Goto
      <3> QED BY <3>1, <3>3
    <2>3. CASE ResolveSinks(c)
      <3>1. pc[c] = "sinks" /\ call[c].at \in Loggers /\ TakesFrom("sinks", handle[c], call[c].at)
        BY <2>3, ClimbEndsAtSource DEF ResolveSinks, ClimbEnds, Kinds
      <3>2. pc'[c] = "flush" => call'[c].sinks = Local("sinks", call[c].at)
        <4> DEFINE list == Local("sinks", call[c].at)
                   e == [call[c] EXCEPT !.at = handle[c], !.sinks = list]
        <4>1. pc'[c] = "flush" => call' = [call EXCEPT ![c] = e]
          BY <2>0, <2>3 DEF ResolveSinks, Leave, Goto
        <4> HIDE DEF list
        <4>2. e.sinks = list
          BY <2>0 DEF Calls
        <4> HIDE DEF e
        <4> QED BY <2>0, <4>1, <4>2 DEF list
      <3> QED BY <3>1, <3>2
    <2>4. CASE ResolveFlush(c)
      <3>1. pc[c] = "flush" /\ call[c].at \in Loggers /\ TakesFrom("flush", handle[c], call[c].at)
        BY <2>4, ClimbEndsAtSource DEF ResolveFlush, ClimbEnds, Kinds
      <3>2. call'[c].flush = Local("flush", call[c].at)
        <4> DEFINE b == Local("flush", call[c].at)
                   e == [call[c] EXCEPT !.at = handle[c], !.flush = b]
        <4>1. call' = [call EXCEPT ![c] = e]
          BY <2>4 DEF ResolveFlush
        <4> HIDE DEF b
        <4>2. e.flush = b
          BY <2>0 DEF Calls
        <4> HIDE DEF e
        <4> QED BY <2>0, <4>1, <4>2 DEF b
      <3> QED BY <3>1, <3>2
    <2> HIDE DEF Read
    <2>5. CASE ~(ResolveLevel(c) \/ ResolveSinks(c) \/ ResolveFlush(c))
      <3>1. pc[c] \in Kinds => pc'[c] = pc[c]
        BY <2>1, <2>5
      <3> QED BY <3>1 DEF Read, Kinds
    <2> QED BY <2>2, <2>3, <2>4, <2>5
  <1> QED BY <1>1, ClimbInvariance, LogInvariance, PTL DEF Spec, SnapshotIsEffective
-----------------------------------------------------------------------------
(* Every sink is served, and every exception is counted. *)

\* The places of the events in which write() was called.
TriesIn(events) == { i \in 1 .. Len(events) : events[i][1] \in Trying }

\* The n-th call of write() went to the n-th sink of the list.
Matches(list, events) ==
  \A i \in TriesIn(events) :
    LET k == Cardinality({ j \in TriesIn(events) : j <= i })
    IN  k <= Len(list) /\ events[i][2] = list[k]

\* These are the sinks of the list after the first n.
Rest(list, n, sinks) ==
  n + Len(sinks) = Len(list) /\ \A j \in 1 .. Len(sinks) : sinks[j] = list[n + j]

\* How far a record at p has come: a sink stays first in its call until it is flushed.
Progress(p, sinks, list, events) ==
  /\ p \in {"level", "sinks"} => list = <<>> /\ events = <<>>
  /\ p = "flush" => events = <<>> /\ sinks = list
  /\ p = "write" => Rest(list, Cardinality(TriesIn(events)), sinks)
  /\ p = "flush_sink" => Rest(list, Cardinality(TriesIn(events)) - 1, sinks)

ServeInv ==
  /\ \A id \in 1 .. lastId :
       /\ Matches(trail[id].list, trail[id].events)
       /\ (\A c \in Clients : call[c].id # id) =>
            Cardinality(TriesIn(trail[id].events)) = Len(trail[id].list)
  /\ \A c \in Clients : Working(c) =>
       Progress(pc[c], call[c].sinks, trail[call[c].id].list, trail[call[c].id].events)

LEMMA NoEvents ==
  TriesIn(<<>>) = {} /\ Cardinality(TriesIn(<<>>)) = 0 /\ \A list : Matches(list, <<>>)
  <1>1. TriesIn(<<>>) = {}
    BY DEF TriesIn
  <1> QED BY <1>1, FS_EmptySet DEF Matches

LEMMA TriesFinite ==
  ASSUME NEW events \in Seq(EventKinds \X Sinks)
  PROVE  /\ IsFiniteSet(TriesIn(events)) /\ Cardinality(TriesIn(events)) \in Nat
         /\ \A i \in TriesIn(events) : i \in 1 .. Len(events)
  <1>1. Len(events) \in Nat /\ TriesIn(events) \subseteq 1 .. Len(events)
    BY LenProperties DEF TriesIn
  <1>2. IsFiniteSet(1 .. Len(events))
    BY <1>1, FS_Interval
  <1>3. IsFiniteSet(TriesIn(events))
    BY <1>1, <1>2, FS_Subset
  <1> QED BY <1>1, <1>3, FS_CardinalityType

LEMMA OneMoreEvent ==
  ASSUME NEW events \in Seq(EventKinds \X Sinks), NEW what \in EventKinds, NEW s \in Sinks,
         NEW list, Matches(list, events)
  PROVE  /\ what \notin Trying => Cardinality(TriesIn(Append(events, <<what, s>>))) =
                                   Cardinality(TriesIn(events))
         /\ what \notin Trying => Matches(list, Append(events, <<what, s>>))
         /\ what \in Trying => Cardinality(TriesIn(Append(events, <<what, s>>))) =
                                Cardinality(TriesIn(events)) + 1
         /\ what \in Trying /\ Cardinality(TriesIn(events)) + 1 <= Len(list)
              /\ list[Cardinality(TriesIn(events)) + 1] = s =>
              Matches(list, Append(events, <<what, s>>))
  <1> DEFINE more == Append(events, <<what, s>>)
             n == Cardinality(TriesIn(events))
             last == Len(events) + 1
  <1>1. <<what, s>> \in EventKinds \X Sinks
    OBVIOUS
  <1>2. /\ more \in Seq(EventKinds \X Sinks) /\ Len(more) = last /\ Len(events) \in Nat
        /\ \A i \in 1 .. Len(events) : more[i] = events[i]
        /\ more[last] = <<what, s>>
    BY <1>1, AppendProperties, LenProperties
  <1>3. more[last][1] = what /\ more[last][2] = s
    BY <1>2
  <1> HIDE DEF more
  <1>4. \A i \in TriesIn(events) : i \in 1 .. Len(events) /\ i < last
    BY <1>2, TriesFinite
  <1>5. CASE what \notin Trying
    <2>1. TriesIn(more) = TriesIn(events)
      BY <1>2, <1>3, <1>5 DEF TriesIn
    <2>2. \A i \in TriesIn(events) : more[i] = events[i]
      BY <1>2, <1>4
    <2>3. Matches(list, more)
      BY <2>1, <2>2 DEF Matches
    <2> QED BY <1>5, <2>1, <2>3 DEF more
  <1>6. CASE what \in Trying
    <2>1. TriesIn(more) = TriesIn(events) \cup {last}
      BY <1>2, <1>3, <1>6 DEF TriesIn
    <2>2. last \notin TriesIn(events)
      BY <1>2, <1>4
    <2>3. Cardinality(TriesIn(more)) = n + 1
      BY <2>1, <2>2, FS_AddElement, TriesFinite
    <2>4. ASSUME n + 1 <= Len(list), list[n + 1] = s, NEW i \in TriesIn(more)
          PROVE  LET k == Cardinality({ j \in TriesIn(more) : j <= i })
                 IN  k <= Len(list) /\ more[i][2] = list[k]
      <3>1. CASE i = last
        <4>1. \A j \in TriesIn(more) : j <= i
          BY <1>2, <1>4, <2>1, <3>1
        <4>2. { j \in TriesIn(more) : j <= i } = TriesIn(more)
          BY <4>1
        <4> QED BY <1>3, <2>3, <2>4, <3>1, <4>2
      <3>2. CASE i # last
        <4>1. i \in TriesIn(events) /\ more[i] = events[i] /\ i < last
          BY <1>2, <1>4, <2>1, <2>4, <3>2
        <4>2. { j \in TriesIn(more) : j <= i } = { j \in TriesIn(events) : j <= i }
          <5>1. last \notin { j \in TriesIn(more) : j <= i }
            BY <1>2, <1>4, <4>1
          <5> QED BY <2>1, <5>1
        <4> QED BY <4>1, <4>2 DEF Matches
      <3> QED BY <3>1, <3>2
    <2>5. n + 1 <= Len(list) /\ list[n + 1] = s => Matches(list, more)
      BY <2>4 DEF Matches
    <2> QED BY <1>6, <2>3, <2>5 DEF more
  <1> QED BY <1>5, <1>6

LEMMA ServeInvStep == LogInv /\ ServeInv /\ [Next]_vars => ServeInv'
  <1> SUFFICES ASSUME LogInv, ServeInv, [Next]_vars PROVE ServeInv'
    OBVIOUS
  <1>0. lastId = Len(trail) /\ lastId \in Nat
    BY DEF LogInv, CallTypes, TrailTypes
  <1>1. CASE Quiet
    <2>1. UNCHANGED <<lastId, trail>> /\ \A c \in Clients : call'[c].id = call[c].id
      BY <1>1 DEF Quiet
    <2>2. \A c \in Clients : Working(c)' => Working(c) /\ pc'[c] = pc[c] /\ call'[c].sinks = call[c].sinks
      BY <1>1 DEF Quiet
    <2> QED BY <2>1, <2>2 DEF ServeInv
  \* A step of c keeps the invariant if it does so for c's record.
  <1>2. ASSUME NEW c \in Clients, Working(c), NEW p \in Labels, NEW e \in Calls, NEW x \in Trails,
               Effect(c, p, e, x), Keeps(c, p, e),
               Matches(x.list, x.events),
               p = "idle" => Cardinality(TriesIn(x.events)) = Len(x.list),
               p # "idle" => Progress(p, e.sinks, x.list, x.events)
        PROVE  ServeInv'
    <2>1. /\ pc'[c] = p /\ call'[c] = e
          /\ \A d \in Clients : d # c => pc'[d] = pc[d] /\ call'[d] = call[d]
          /\ trail'[call[c].id] = x
          /\ \A j \in 1 .. lastId : j # call[c].id => trail'[j] = trail[j]
      BY <1>0, <1>2, AfterEffect
    <2>2. lastId' = lastId
      BY <1>2 DEF Effect
    <2>3. call[c].id \in 1 .. lastId /\ \A d \in Clients : d # c => call[d].id # call[c].id
      BY <1>0, <1>2, WorkingClient DEF LogInv, TrailTypes
    <2>4. ASSUME NEW id \in 1 .. lastId
          PROVE  /\ Matches(trail'[id].list, trail'[id].events)
                 /\ (\A d \in Clients : call'[d].id # id) =>
                      Cardinality(TriesIn(trail'[id].events)) = Len(trail'[id].list)
      <3>1. CASE id = call[c].id
        BY <1>2, <2>1, <3>1 DEF Keeps, Kinds
      <3>2. CASE id # call[c].id
        BY <2>1, <3>2 DEF ServeInv
      <3> QED BY <3>1, <3>2
    <2>5. ASSUME NEW d \in Clients, Working(d)'
          PROVE  Progress(pc'[d], call'[d].sinks, trail'[call'[d].id].list, trail'[call'[d].id].events)
      <3>1. CASE d = c
        <4>1. p # "idle" /\ e.id = call[c].id
          BY <1>2, <2>1, <2>5, <3>1 DEF Keeps, Working, Kinds
        <4> QED BY <1>2, <2>1, <3>1, <4>1
      <3>2. CASE d # c
        <4>1. Working(d) /\ pc'[d] = pc[d] /\ call'[d] = call[d]
          BY <2>1, <2>5, <3>2 DEF Working
        <4>2. trail'[call[d].id] = trail[call[d].id]
          BY <1>0, <2>1, <2>3, <3>2, <4>1, WorkingClient
        <4> QED BY <4>1, <4>2 DEF ServeInv
      <3> QED BY <3>1, <3>2
    <2> QED BY <2>2, <2>4, <2>5 DEF ServeInv
  <1>3. ASSUME NEW c \in Clients, Working(c)
        PROVE  /\ Matches(trail[call[c].id].list, trail[call[c].id].events)
               /\ Progress(pc[c], call[c].sinks, trail[call[c].id].list, trail[call[c].id].events)
               /\ trail[call[c].id].events \in Seq(EventKinds \X Sinks)
               /\ trail[call[c].id].list \in Seq(Sinks) /\ call[c].sinks \in Seq(Sinks)
               /\ trail[call[c].id] \in Trails
    BY <1>0, <1>3, WorkingClient DEF ServeInv, Trails, Calls
  <1>4. {"idle", "sinks", "flush", "write", "flush_sink"} \subseteq Labels
    BY DEF Labels, Kinds
  <1>5. ASSUME NEW c \in Clients, ResolveLevel(c) PROVE ServeInv'
    <2>1. PICK e \in Calls, x \in Trails :
            /\ x.list = trail[call[c].id].list /\ x.events = trail[call[c].id].events /\ Working(c)
            /\ \/ Effect(c, "sinks", e, x) /\ Keeps(c, "sinks", e)
               \/ Effect(c, "idle", e, x) /\ Keeps(c, "idle", e)
      BY <1>5, LevelResolved
    <2>2. x.list = <<>> /\ x.events = <<>>
      BY <1>3, <1>5, <2>1 DEF Progress, ResolveLevel, ClimbEnds
    <2>3. Matches(x.list, x.events) /\ Cardinality(TriesIn(x.events)) = Len(x.list)
      BY <2>2, NoEvents
    <2>4. Progress("sinks", e.sinks, x.list, x.events)
      BY <2>2 DEF Progress
    <2> QED BY <1>2, <1>4, <2>1, <2>3, <2>4
  <1>6. ASSUME NEW c \in Clients, ResolveSinks(c) PROVE ServeInv'
    <2>1. PICK e \in Calls, x \in Trails :
            /\ x.events = trail[call[c].id].events /\ Working(c)
            /\ \/ Effect(c, "flush", e, x) /\ Keeps(c, "flush", e) /\ e.sinks = x.list
               \/ /\ Effect(c, "idle", e, x) /\ Keeps(c, "idle", e)
                  /\ x.list = trail[call[c].id].list
      BY <1>6, SinksResolved
    <2>2. x.events = <<>> /\ trail[call[c].id].list = <<>>
      BY <1>3, <1>6, <2>1 DEF Progress, ResolveSinks, ClimbEnds
    <2>3. Matches(x.list, x.events) /\ Cardinality(TriesIn(x.events)) = 0
      BY <2>2, NoEvents
    <2>4. e.sinks = x.list => Progress("flush", e.sinks, x.list, x.events)
      BY <2>2 DEF Progress
    <2>5. x.list = trail[call[c].id].list => Len(x.list) = 0
      BY <2>2
    <2> QED BY <1>2, <1>4, <2>1, <2>3, <2>4, <2>5
  <1>7. ASSUME NEW c \in Clients, ResolveFlush(c) PROVE ServeInv'
    <2> DEFINE x == trail[call[c].id]
    <2>1. PICK e \in Calls :
           /\ Effect(c, "write", e, x) /\ Keeps(c, "write", e)
           /\ e.sinks = call[c].sinks /\ Working(c)
      BY <1>7, FlushResolved
    <2>2. x.events = <<>> /\ x.list = e.sinks /\ x.list \in Seq(Sinks) /\ x \in Trails
      BY <1>3, <1>7, <2>1 DEF Progress, ResolveFlush, ClimbEnds
    <2> HIDE DEF x
    <2>3. Matches(x.list, x.events) /\ Cardinality(TriesIn(x.events)) = 0
      BY <2>2, NoEvents
    <2>4. Rest(x.list, 0, e.sinks)
      BY <2>2, LenProperties DEF Rest
    <2>5. Progress("write", e.sinks, x.list, x.events)
      BY <2>3, <2>4 DEF Progress
    <2> QED BY <1>2, <1>4, <2>1, <2>2, <2>3, <2>5
  <1>8. ASSUME NEW c \in Clients, WriteSink(c) \/ FlushSink(c) PROVE ServeInv'
    <2> DEFINE list == trail[call[c].id].list
               events == trail[call[c].id].events
               sinks == call[c].sinks
               n == Cardinality(TriesIn(events))
    <2>1. PICK what \in EventKinds, p \in {"write", "flush_sink"}, e \in Calls, x \in Trails :
           /\ Effect(c, p, e, x) /\ Keeps(c, p, e)
           /\ Working(c) /\ sinks # <<>>
           /\ x.list = list
           /\ x.events = Append(events, <<what, Head(sinks)>>)
           /\ what \in Trying <=> pc[c] = "write"
           /\ \/ p = "write" /\ e.sinks = Tail(sinks)
              \/ p = "flush_sink" /\ pc[c] = "write" /\ e.sinks = sinks
      BY <1>8, SinkServed, ZenonT(30)
    <2>2. /\ Matches(list, events) /\ Progress(pc[c], sinks, list, events)
          /\ events \in Seq(EventKinds \X Sinks) /\ list \in Seq(Sinks) /\ sinks \in Seq(Sinks)
      BY <1>3, <2>1
    <2>3. pc[c] \in {"write", "flush_sink"} /\ p \in Labels /\ p # "idle"
      BY <1>4, <1>8 DEF WriteSink, FlushSink
    <2> HIDE DEF list, events, sinks
    <2>4. /\ Head(sinks) = sinks[1] /\ Head(sinks) \in Sinks /\ Len(sinks) \in Nat \ {0}
          /\ Len(Tail(sinks)) = Len(sinks) - 1 /\ Len(list) \in Nat
          /\ \A j \in 1 .. Len(Tail(sinks)) : Tail(sinks)[j] = sinks[j + 1]
      BY <2>1, <2>2, HeadTailProperties, LenProperties, EmptySeq
    <2>5. n \in Nat
      BY <2>2, TriesFinite
    <2> HIDE DEF n
    <2>6. /\ what \notin Trying => Cardinality(TriesIn(x.events)) = n /\ Matches(list, x.events)
          /\ what \in Trying => Cardinality(TriesIn(x.events)) = n + 1
          /\ what \in Trying /\ n + 1 <= Len(list) /\ list[n + 1] = Head(sinks) =>
               Matches(list, x.events)
      <3>1. n = Cardinality(TriesIn(events))
        BY DEF n
      <3> DEFINE s == Head(sinks)
                 more == Append(events, <<what, s>>)
      <3>2. /\ x.events = more /\ s \in Sinks
            /\ Matches(list, events) /\ events \in Seq(EventKinds \X Sinks)
        BY <2>1, <2>2, <2>4
      <3> HIDE DEF s
      <3>3. /\ what \notin Trying => Cardinality(TriesIn(more)) = Cardinality(TriesIn(events))
            /\ what \notin Trying => Matches(list, more)
            /\ what \in Trying => Cardinality(TriesIn(more)) = Cardinality(TriesIn(events)) + 1
            /\ what \in Trying /\ Cardinality(TriesIn(events)) + 1 <= Len(list)
                 /\ list[Cardinality(TriesIn(events)) + 1] = s => Matches(list, more)
        BY <3>2, OneMoreEvent
      <3> HIDE DEF more
      <3> QED BY <3>1, <3>2, <3>3 DEF s
    <2>7. CASE pc[c] = "write"
      <3>1. Rest(list, n, sinks)
        BY <2>2, <2>7 DEF Progress, n
      <3>2. n + 1 <= Len(list) /\ list[n + 1] = Head(sinks)
        BY <2>4, <2>5, <3>1 DEF Rest
      <3>3. Matches(list, x.events) /\ Cardinality(TriesIn(x.events)) = n + 1
        BY <2>1, <2>6, <2>7, <3>2
      <3>4. Rest(list, n + 1, Tail(sinks))
        BY <2>4, <2>5, <3>1 DEF Rest
      <3>5. Rest(list, (n + 1) - 1, sinks)
        BY <2>5, <3>1
      <3>6. Progress(p, e.sinks, list, x.events)
        BY <2>1, <3>3, <3>4, <3>5 DEF Progress
      <3> QED BY <1>2, <2>1, <2>3, <3>3, <3>6
    <2>8. CASE pc[c] = "flush_sink"
      <3>1. Rest(list, n - 1, sinks)
        BY <2>2, <2>8 DEF Progress, n
      <3>2. Matches(list, x.events) /\ Cardinality(TriesIn(x.events)) = n
        BY <2>1, <2>6, <2>8
      <3>3. Rest(list, n, Tail(sinks))
        BY <2>4, <2>5, <3>1 DEF Rest
      <3>4. Progress(p, e.sinks, list, x.events)
        BY <2>1, <2>8, <3>2, <3>3 DEF Progress
      <3> QED BY <1>2, <2>1, <2>3, <3>2, <3>4
    <2> QED BY <2>3, <2>7, <2>8
  <1>9. ASSUME NEW c \in Clients, Return(c) PROVE ServeInv'
    <2> DEFINE x == trail[call[c].id]
    <2>1. /\ NoCall \in Calls
          /\ Effect(c, "idle", NoCall, x) /\ Keeps(c, "idle", NoCall)
          /\ Working(c) /\ pc[c] = "write" /\ call[c].sinks = <<>>
      BY <1>9, Returned
    <2>2. /\ Matches(x.list, x.events) /\ Rest(x.list, Cardinality(TriesIn(x.events)), <<>>)
          /\ x \in Trails /\ Cardinality(TriesIn(x.events)) \in Nat
      BY <1>3, <2>1, TriesFinite DEF Progress
    <2>3. Cardinality(TriesIn(x.events)) = Len(x.list)
      BY <2>2 DEF Rest
    <2> HIDE DEF x
    <2> QED BY <1>2, <1>4, <2>1, <2>2, <2>3
  <1>10. ASSUME NEW c \in Clients, LogRecord(c) PROVE ServeInv'
    <2> DEFINE x == [logger |-> handle[c], list |-> <<>>, events |-> <<>>, filtered |-> FALSE]
    <2>1. /\ lastId' = lastId + 1 /\ trail' = Append(trail, x) /\ handle[c] \in Loggers
          /\ trail \in Seq(Trails) /\ ~Working(c)
      BY <1>10 DEF LogRecord, BeginLog, LogInv, TrailTypes, CallTypes, Working, Kinds
    <2>2. x \in Trails /\ x.list = <<>> /\ x.events = <<>>
      BY <2>1 DEF Trails
    <2> HIDE DEF x
    <2>3. trail'[lastId + 1] = x /\ \A j \in 1 .. lastId : trail'[j] = trail[j]
      BY <1>0, <2>1, <2>2, AppendProperties
    <2>4. pc'[c] = "level" /\ \A d \in Clients : d # c => pc'[d] = pc[d] /\ call'[d] = call[d]
      BY <1>10 DEF LogRecord, BeginLog, Goto, LogInv, CallTypes
    <2>5. call'[c].id = lastId + 1 /\ call[c].id = 0
      BY <1>10, <2>1 DEF LogRecord, BeginLog, LogInv, CallTypes, TrailTypes, NoCall, Working
    <2>6. ASSUME NEW id \in 1 .. lastId'
          PROVE  /\ Matches(trail'[id].list, trail'[id].events)
                 /\ (\A d \in Clients : call'[d].id # id) =>
                      Cardinality(TriesIn(trail'[id].events)) = Len(trail'[id].list)
      <3>1. CASE id = lastId + 1
        BY <2>2, <2>3, <2>5, <3>1, NoEvents
      <3>2. CASE id # lastId + 1
        <4>1. id \in 1 .. lastId /\ trail'[id] = trail[id]
          BY <1>0, <2>1, <2>3, <2>6, <3>2
        <4>2. (\A d \in Clients : call'[d].id # id) => \A d \in Clients : call[d].id # id
          BY <1>0, <2>4, <2>5, <4>1
        <4> QED BY <4>1, <4>2 DEF ServeInv
      <3> QED BY <3>1, <3>2
    <2>7. ASSUME NEW d \in Clients, Working(d)'
          PROVE  Progress(pc'[d], call'[d].sinks, trail'[call'[d].id].list, trail'[call'[d].id].events)
      <3>1. CASE d = c
        BY <2>2, <2>3, <2>4, <2>5, <3>1 DEF Progress
      <3>2. CASE d # c
        <4>1. Working(d) /\ pc'[d] = pc[d] /\ call'[d] = call[d]
          BY <2>4, <2>7, <3>2 DEF Working
        <4>2. trail'[call[d].id] = trail[call[d].id]
          BY <1>0, <2>3, <4>1, WorkingClient
        <4> QED BY <4>1, <4>2 DEF ServeInv
      <3> QED BY <3>1, <3>2
    <2> QED BY <2>6, <2>7 DEF ServeInv
  <1> QED BY <1>1, <1>5, <1>6, <1>7, <1>8, <1>9, <1>10, StepsOfRecords DEF RecordStep

\* log() hands the record to every sink that effective_sinks() gave it, in order and
\* once each, and returns only after the last: a sink that throws from write() or
\* from the immediate flush() takes nothing from the ones behind it.
THEOREM LogTriesEverySink == Spec => []EverySinkTried
  <1>1. Init => ServeInv
    <2> SUFFICES ASSUME Init PROVE ServeInv
      OBVIOUS
    <2>1. lastId = 0 /\ \A c \in Clients : pc[c] = "idle"
      BY DEF Init, LoggerInit
    <2> QED BY <2>1 DEF ServeInv, Working, Kinds
  <1>2. ServeInv => EverySinkTried
    <2>1. \A id : Tries(id) = TriesIn(trail[id].events)
      BY DEF Tries, Events, TriesIn, Trying
    <2> QED BY <2>1 DEF ServeInv, EverySinkTried, Matches
  <1> QED BY <1>1, <1>2, ServeInvStep, LogInvariance, PTL DEF Spec

\* The exceptions of sinks under calls to l, in the first n records of a trail.
RaisedIn(l, n, records) ==
  UNION { {id} \X { i \in 1 .. Len(records[id].events) : records[id].events[i][1] \in Failing } :
            id \in { i \in 1 .. n : records[i].logger = l } }

LEMMA RaisedElements ==
  ASSUME NEW l, NEW n, NEW records, NEW y
  PROVE  y \in RaisedIn(l, n, records) <=>
           \E id \in 1 .. n : \E i \in 1 .. Len(records[id].events) :
             /\ y = <<id, i>> /\ records[id].logger = l
             /\ records[id].events[i][1] \in Failing
  <1> DEFINE Found(id) == { i \in 1 .. Len(records[id].events) : records[id].events[i][1] \in Failing }
  <1>1. ASSUME y \in RaisedIn(l, n, records)
        PROVE  \E id \in 1 .. n : \E i \in 1 .. Len(records[id].events) :
                 /\ y = <<id, i>> /\ records[id].logger = l
                 /\ records[id].events[i][1] \in Failing
    <2>1. PICK id \in 1 .. n : records[id].logger = l /\ y \in {id} \X Found(id)
      BY <1>1 DEF RaisedIn
    <2>2. PICK i \in Found(id) : y = <<id, i>>
      <3> HIDE DEF Found
      <3> QED BY <2>1
    <2> QED BY <2>1, <2>2
  <1>2. ASSUME NEW id \in 1 .. n, NEW i \in 1 .. Len(records[id].events),
               y = <<id, i>>, records[id].logger = l, records[id].events[i][1] \in Failing
        PROVE  y \in RaisedIn(l, n, records)
    <2>1. i \in Found(id)
      BY <1>2
    <2>2. y \in {id} \X Found(id)
      <3> HIDE DEF Found
      <3> QED BY <1>2, <2>1
    <2> QED BY <1>2, <2>2 DEF RaisedIn
  <1> QED BY <1>1, <1>2

LEMMA RaisedNow ==
  ASSUME NEW l
  PROVE  Raised(l) = RaisedIn(l, lastId, trail) /\ Raised(l)' = RaisedIn(l, lastId', trail')
  BY DEF Raised, RaisedIn, Events, Failing

CountInv == \A l \in Loggers : IsFiniteSet(Raised(l)) /\ failed[l] = Cardinality(Raised(l))

LEMMA CountInvStep == LogInv /\ CountInv /\ [Next]_vars => CountInv'
  <1> SUFFICES ASSUME LogInv, CountInv, [Next]_vars PROVE CountInv'
    OBVIOUS
  <1>0. lastId = Len(trail) /\ lastId \in Nat /\ failed \in [Loggers -> Nat] /\ trail \in Seq(Trails)
    BY DEF LogInv, CallTypes, TrailTypes
  <1>1. CASE UNCHANGED failed /\ \A l \in Loggers : Raised(l)' = Raised(l)
    BY <1>1 DEF CountInv
  <1>2. CASE Quiet
    <2>1. \A l \in Loggers : Raised(l)' = Raised(l)
      BY <1>2 DEF Quiet, Raised, Events
    <2> QED BY <1>1, <1>2, <2>1 DEF Quiet
  <1>3. ASSUME lastId' = lastId, UNCHANGED failed,
               \A id \in 1 .. lastId : /\ trail'[id].logger = trail[id].logger
                                       /\ trail'[id].events = trail[id].events
        PROVE  CountInv'
    <2>1. ASSUME NEW l \in Loggers PROVE Raised(l)' = Raised(l)
      <3>1. ASSUME NEW id \in 1 .. lastId
            PROVE  /\ Events(id, {"write_failed", "flush_failed"})' = Events(id, {"write_failed", "flush_failed"})
                   /\ trail'[id].logger = trail[id].logger
        BY <1>3, <3>1 DEF Events
      <3> QED BY <1>3, <3>1 DEF Raised
    <2> QED BY <1>1, <1>3, <2>1
  <1>4. ASSUME NEW c \in Clients, Working(c), NEW p \in Labels, NEW e \in Calls, NEW x \in Trails,
               Effect(c, p, e, x), x.events = trail[call[c].id].events, UNCHANGED failed
        PROVE  CountInv'
    <2>1. /\ lastId' = lastId /\ x.logger = trail[call[c].id].logger /\ trail'[call[c].id] = x
          /\ \A id \in 1 .. lastId : id # call[c].id => trail'[id] = trail[id]
      <3>1. lastId' = lastId /\ x.logger = trail[call[c].id].logger
        BY <1>4 DEF Effect
      <3> QED BY <1>0, <1>4, <3>1, AfterEffect
    <2> QED BY <1>3, <1>4, <2>1
  <1>5. {"idle", "sinks", "flush", "write", "flush_sink"} \subseteq Labels
    BY DEF Labels, Kinds
  <1>6. ASSUME NEW c \in Clients, ResolveLevel(c) PROVE CountInv'
    BY <1>4, <1>5, <1>6, LevelResolved
  <1>7. ASSUME NEW c \in Clients, ResolveSinks(c) PROVE CountInv'
    BY <1>4, <1>5, <1>7, SinksResolved
  <1>8. ASSUME NEW c \in Clients, ResolveFlush(c) PROVE CountInv'
    <2>1. UNCHANGED <<trail, lastId, failed>>
      BY <1>8, FlushResolved DEF Effect
    <2> QED BY <1>3, <2>1
  <1>9. ASSUME NEW c \in Clients, Return(c) PROVE CountInv'
    <2>1. UNCHANGED <<trail, lastId, failed>>
      BY <1>9, Returned DEF Effect
    <2> QED BY <1>3, <2>1
  <1>10. ASSUME NEW c \in Clients, LogRecord(c) PROVE CountInv'
    <2> DEFINE x == [logger |-> handle[c], list |-> <<>>, events |-> <<>>, filtered |-> FALSE]
    <2>1. /\ lastId' = lastId + 1 /\ trail' = Append(trail, x) /\ handle[c] \in Loggers
          /\ UNCHANGED failed
      BY <1>10 DEF LogRecord, BeginLog, LogInv, CallTypes
    <2>2. x \in Trails /\ x.events = <<>>
      BY <2>1 DEF Trails
    <2> HIDE DEF x
    <2>3. trail'[lastId + 1] = x /\ \A j \in 1 .. lastId : trail'[j] = trail[j]
      BY <1>0, <2>1, <2>2, AppendProperties
    <2>4. \A j \in 1 .. lastId' : j \in 1 .. lastId \/ Len(trail'[j].events) = 0
      BY <1>0, <2>1, <2>2, <2>3
    <2>5. \A j \in 1 .. lastId : j \in 1 .. lastId'
      BY <1>0, <2>1
    <2>6. ASSUME NEW l \in Loggers, NEW y PROVE y \in Raised(l)' <=> y \in Raised(l)
      <3>1. y \in Raised(l)' <=>
              \E id \in 1 .. lastId' : \E i \in 1 .. Len(trail'[id].events) :
                /\ y = <<id, i>> /\ trail'[id].logger = l
                /\ trail'[id].events[i][1] \in Failing
        BY RaisedElements, RaisedNow
      <3>2. y \in Raised(l) <=>
              \E id \in 1 .. lastId : \E i \in 1 .. Len(trail[id].events) :
                /\ y = <<id, i>> /\ trail[id].logger = l
                /\ trail[id].events[i][1] \in Failing
        BY RaisedElements, RaisedNow
      <3> QED BY <2>3, <2>4, <2>5, <3>1, <3>2
    <2>7. \A l \in Loggers : Raised(l)' = Raised(l)
      BY <2>6
    <2> QED BY <1>1, <2>1, <2>7
  <1>11. ASSUME NEW c \in Clients, WriteSink(c) \/ FlushSink(c) PROVE CountInv'
    <2> DEFINE id == call[c].id
               n == Len(trail[id].events)
    <2>1. PICK what \in EventKinds, p \in {"write", "flush_sink"}, e \in Calls, x \in Trails :
           /\ Effect(c, p, e, x) /\ Working(c) /\ call[c].sinks # <<>>
           /\ x.events = Append(trail[call[c].id].events, <<what, Head(call[c].sinks)>>)
           /\ what \in Failing => failed' = [failed EXCEPT ![handle[c]] = @ + 1]
           /\ what \notin Failing => UNCHANGED failed
      BY <1>11, SinkServed
    <2>2. /\ id \in 1 .. lastId /\ trail[id].logger = handle[c] /\ handle[c] \in Loggers
          /\ trail[id].events \in Seq(EventKinds \X Sinks) /\ call[c].sinks \in Seq(Sinks)
      BY <1>0, <2>1, WorkingClient DEF Trails, Calls
    <2>3. /\ lastId' = lastId /\ x.logger = trail[id].logger /\ trail'[id] = x
          /\ \A j \in 1 .. lastId : j # id => trail'[j] = trail[j]
      <3>1. lastId' = lastId /\ x.logger = trail[id].logger
        BY <2>1 DEF Effect
      <3>2. p \in Labels
        BY <1>5, <2>1
      <3>3. /\ trail'[call[c].id] = x
            /\ \A j \in 1 .. Len(trail) : j # call[c].id => trail'[j] = trail[j]
        <4>1. Working(c) /\ Effect(c, p, e, x)
          BY <2>1
        <4> QED BY <1>0, <3>2, <4>1, AfterEffect
      <3> QED BY <1>0, <3>1, <3>3
    <2>4. Head(call[c].sinks) \in Sinks
      BY <2>1, <2>2, HeadTailProperties
    <2>5. <<what, Head(call[c].sinks)>> \in EventKinds \X Sinks
      BY <2>4
    <2>6. /\ Len(x.events) = n + 1 /\ n \in Nat /\ x.events[n + 1] = <<what, Head(call[c].sinks)>>
          /\ \A i \in 1 .. n : x.events[i] = trail[id].events[i]
      <3> DEFINE old == trail[call[c].id].events
                 last == <<what, Head(call[c].sinks)>>
      <3>1. old \in Seq(EventKinds \X Sinks) /\ last \in EventKinds \X Sinks /\ x.events = Append(old, last)
            /\ n = Len(old)
        BY <2>1, <2>2, <2>5
      <3> HIDE DEF old, last, n
      <3>2. /\ Len(Append(old, last)) = Len(old) + 1 /\ Append(old, last)[Len(old) + 1] = last
            /\ \A i \in 1 .. Len(old) : Append(old, last)[i] = old[i]
            /\ Len(old) \in Nat
        BY <3>1, AppendProperties, LenProperties
      <3> QED BY <3>1, <3>2 DEF old, last
    <2>7. x.events[n + 1][1] = what
      <3>1. \A z : <<what, z>>[1] = what
        OBVIOUS
      <3> QED BY <2>6, <3>1
    <2> HIDE DEF id, n
    <2>8. ASSUME NEW l, NEW y
          PROVE  y \in Raised(l)' <=>
                   y \in Raised(l) \/ (l = handle[c] /\ what \in Failing /\ y = <<id, n + 1>>)
      <3>1. y \in Raised(l)' <=>
              \E k \in 1 .. lastId : \E i \in 1 .. Len(trail'[k].events) :
                /\ y = <<k, i>> /\ trail'[k].logger = l
                /\ trail'[k].events[i][1] \in Failing
        BY <2>3, RaisedElements, RaisedNow
      <3>2. y \in Raised(l) <=>
              \E k \in 1 .. lastId : \E i \in 1 .. Len(trail[k].events) :
                /\ y = <<k, i>> /\ trail[k].logger = l
                /\ trail[k].events[i][1] \in Failing
        BY RaisedElements, RaisedNow
      <3>3. ASSUME NEW k \in 1 .. lastId
            PROVE  /\ trail'[k].logger = trail[k].logger
                   /\ \A i \in 1 .. Len(trail[k].events) : /\ i \in 1 .. Len(trail'[k].events)
                                                            /\ trail'[k].events[i] = trail[k].events[i]
                   /\ \A i \in 1 .. Len(trail'[k].events) :
                        i \in 1 .. Len(trail[k].events) \/ (k = id /\ i = n + 1)
        <4>1. CASE k = id
          BY <2>3, <2>6, <4>1 DEF n
        <4>2. CASE k # id
          BY <2>3, <4>2
        <4> QED BY <4>1, <4>2
      <3>4. n + 1 \in 1 .. Len(trail'[id].events) /\ trail'[id].events[n + 1][1] = what
        BY <2>3, <2>6, <2>7
      <3>5. ASSUME y \in Raised(l)'
            PROVE  y \in Raised(l) \/ (l = handle[c] /\ what \in Failing /\ y = <<id, n + 1>>)
        <4>1. PICK k \in 1 .. lastId : \E i \in 1 .. Len(trail'[k].events) :
                /\ y = <<k, i>> /\ trail'[k].logger = l
                /\ trail'[k].events[i][1] \in Failing
          BY <3>1, <3>5
        <4>2. PICK i \in 1 .. Len(trail'[k].events) :
                /\ y = <<k, i>> /\ trail'[k].logger = l
                /\ trail'[k].events[i][1] \in Failing
          BY <4>1
        <4>3. CASE i \in 1 .. Len(trail[k].events)
          BY <3>2, <3>3, <4>2, <4>3
        <4>4. CASE k = id /\ i = n + 1
          BY <2>2, <3>3, <3>4, <4>2, <4>4
        <4> QED BY <3>3, <4>3, <4>4
      <3>6. ASSUME y \in Raised(l) PROVE y \in Raised(l)'
        BY <3>1, <3>2, <3>3, <3>6
      <3>7. ASSUME l = handle[c], what \in Failing, y = <<id, n + 1>> PROVE y \in Raised(l)'
        BY <2>2, <3>1, <3>3, <3>4, <3>7
      <3> QED BY <3>5, <3>6, <3>7
    <2>9. ASSUME NEW l \in Loggers, l # handle[c] \/ what \notin Failing
          PROVE  Raised(l)' = Raised(l) /\ failed'[l] = failed[l]
      <3>1. Raised(l)' = Raised(l)
        <4>1. \A y : y \in Raised(l)' <=> y \in Raised(l)
          BY <2>8, <2>9
        <4> QED BY <4>1
      <3>2. failed'[l] = failed[l]
        BY <1>0, <2>1, <2>9
      <3> QED BY <3>1, <3>2
    <2>10. ASSUME NEW l \in Loggers, l = handle[c], what \in Failing
           PROVE  Raised(l)' = Raised(l) \cup {<<id, n + 1>>} /\ <<id, n + 1>> \notin Raised(l)
                  /\ failed'[l] = failed[l] + 1
      <3>1. Raised(l)' = Raised(l) \cup {<<id, n + 1>>}
        BY <2>8, <2>10
      <3>2. <<id, n + 1>> \notin Raised(l)
        <4> SUFFICES ASSUME <<id, n + 1>> \in Raised(l) PROVE FALSE
          OBVIOUS
        <4>1. \E k \in 1 .. lastId : \E i \in 1 .. Len(trail[k].events) : <<id, n + 1>> = <<k, i>>
          BY RaisedElements, RaisedNow
        <4>2. n + 1 \in 1 .. n
          BY <4>1 DEF n
        <4> QED BY <2>6, <4>2
      <3> QED BY <1>0, <2>1, <2>10, <3>1, <3>2
    <2>11. ASSUME NEW l \in Loggers
           PROVE  IsFiniteSet(Raised(l)') /\ failed'[l] = Cardinality(Raised(l)')
      <3>1. IsFiniteSet(Raised(l)) /\ failed[l] = Cardinality(Raised(l))
        BY DEF CountInv
      <3>2. CASE l # handle[c] \/ what \notin Failing
        BY <2>9, <3>1, <3>2
      <3>3. CASE l = handle[c] /\ what \in Failing
        <4>1. /\ Raised(l)' = Raised(l) \cup {<<id, n + 1>>} /\ <<id, n + 1>> \notin Raised(l)
              /\ failed'[l] = failed[l] + 1
          BY <2>10, <3>3
        <4>2. /\ IsFiniteSet(Raised(l) \cup {<<id, n + 1>>})
              /\ Cardinality(Raised(l) \cup {<<id, n + 1>>}) = Cardinality(Raised(l)) + 1
          BY <3>1, <4>1, FS_AddElement
        <4> QED BY <3>1, <4>1, <4>2
      <3> QED BY <3>2, <3>3
    <2> QED BY <2>11 DEF CountInv
  <1> QED BY <1>2, <1>6, <1>7, <1>8, <1>9, <1>10, <1>11, StepsOfRecords DEF RecordStep

\* sink_failures_count(): every exception that a sink throws under a call of log() is
\* counted by the logger that was called, however the calls of the threads interleave.
THEOREM EveryFailureCounted == Spec => []FailuresCounted
  <1>1. Init => CountInv
    <2> SUFFICES ASSUME Init, NEW l \in Loggers
                 PROVE  IsFiniteSet(Raised(l)) /\ failed[l] = Cardinality(Raised(l))
      BY DEF CountInv
    <2>1. lastId = 0 /\ failed[l] = 0
      BY DEF Init, LoggerInit
    <2>2. Raised(l) = {}
      BY <2>1 DEF Raised
    <2> QED BY <2>1, <2>2, FS_EmptySet
  <1>2. CountInv => FailuresCounted
    BY DEF CountInv, FailuresCounted
  <1> QED BY <1>1, <1>2, CountInvStep, LogInvariance, PTL DEF Spec
=============================================================================
