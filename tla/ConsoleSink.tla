------------------------------ MODULE ConsoleSink ------------------------------
(***************************************************************************)
(* ConsoleSink: coloured lines on a stream that the process shares.        *)
(*                                                                         *)
(* Each sink has a mutex of its own, and stdio locks the stream for one    *)
(* fwrite at a time; so a line is up to four steps, between which other    *)
(* sinks on the same stream (stdout is the default of all of them) may     *)
(* write.  A piece that cannot be written ends the call and leaves behind  *)
(* what it has written so far.                                             *)
(*                                                                         *)
(* Formatting comes before the mutex and reads only the record and the     *)
(* pattern: it is part of the call.                                        *)
(***************************************************************************)
EXTENDS PatternFormatter, SequencesExt, FiniteSets

CONSTANTS Threads,         \* the threads that log
          Consoles,        \* the sinks, all on one stream
          Nobody,          \* the owner of a free mutex
          Patterns,        \* the patterns that formatters are built from
          ConsolePatterns, \* bound: the ones of them that are given to sinks
          Messages,        \* the texts of messages
          RecordLevels,    \* the levels of records
          ColorModes,      \* the modes that sinks are built with
          IsTty,           \* the stream is a terminal
          MaxRecords,      \* bound: calls of write() in a behaviour
          MaxFailures      \* bound: failed calls of fwrite in a behaviour

NoPattern == <<"none">>

ASSUME ConsoleAssumption ==
  /\ Nobody \notin Threads
  /\ Patterns \subseteq Seq(Symbols) /\ ConsolePatterns \subseteq Patterns
  /\ RecordLevels \subseteq {"DEBUG", "INFO", "WARN", "ERROR", "FATAL"}
  /\ ColorModes \subseteq {"Auto", "Always", "Never"} /\ IsTty \in BOOLEAN
  /\ MaxRecords \in Nat /\ MaxFailures \in Nat

VARIABLES pattern,   \* pattern_ of the formatter that the sinks are given
          required,  \* require_met_token of its constructor
          colorMode, \* color_mode_ of each sink
          mu,        \* the owner of each sink's mutex
          pc,        \* each thread's place in write()
          call,      \* each thread's call: number, sink, level and formatted line
          todo,      \* the pieces that each thread has yet to write
          stream,    \* the pieces written, each with its call and sink
          lastCall,  \* the number of the last call
          thrown     \* the calls that a failed fwrite ended

vars == <<pattern, required, colorMode, mu, pc, call, todo, stream, lastCall, thrown>>

\* What a thread keeps of its call outside write().
NoCall == [id |-> 0, sink |-> Nobody, level |-> "INFO", line |-> <<>>]

\* should_colorize_locked
ShouldColorize(k) == colorMode[k] = "Always" \/ (colorMode[k] = "Auto" /\ IsTty)

Colors == {"gray", "yellow", "red"}

\* ansi_prefix_for; "none" is the null pointer.
AnsiPrefixFor(level) ==
  CASE level = "WARN"               -> "yellow"
    [] level \in {"ERROR", "FATAL"} -> "red"
    [] level = "DEBUG"              -> "gray"
    [] level = "INFO"               -> "none"

\* A plausible slip: an empty line is taken for a terminated one.
NeedsNewline_NotIfEmpty(line) == line # <<>> /\ Last(line) # "\n"

NeedsNewline(line) == line = <<>> \/ Last(line) # "\n"

\* A plausible slip: the colour is reset together with the newline that is added.
Pieces_ResetWithNewline(k, level, line) ==
  (IF ShouldColorize(k) /\ AnsiPrefixFor(level) # "none" THEN <<<<AnsiPrefixFor(level)>>>> ELSE <<>>)
  \o <<line>>
  \o (IF NeedsNewline(line) THEN <<<<"\n">>>> ELSE <<>>)
  \o (IF NeedsNewline(line) /\ ShouldColorize(k) THEN <<<<"reset">>>> ELSE <<>>)

\* The texts that one call gives to fwrite, in order.
Pieces(k, level, line) ==
  (IF ShouldColorize(k) /\ AnsiPrefixFor(level) # "none" THEN <<<<AnsiPrefixFor(level)>>>> ELSE <<>>)
  \o <<line>>
  \o (IF NeedsNewline(line) THEN <<<<"\n">>>> ELSE <<>>)
  \o (IF ShouldColorize(k) THEN <<<<"reset">>>> ELSE <<>>)

\* The record: no property needs the values of the other fields to differ.
Record(level, msg) ==
  [f \in Fields |-> CASE f = "level" -> <<level>> [] f = "msg" -> msg
                      [] f = "met"   -> <<"seconds">> [] OTHER -> <<"value">>]
-----------------------------------------------------------------------------
\* The constructor of the formatter; where it throws there is no formatter.
BuildFormatter(p, requireMet) ==
  /\ requireMet => MetRequirementHolds(p)
  /\ pattern' = p /\ required' = requireMet
  /\ UNCHANGED <<colorMode, mu, pc, call, todo, stream, lastCall, thrown>>

Construct(k, mode) ==
  /\ pattern \in ConsolePatterns /\ colorMode[k] = "unbuilt"
  /\ colorMode' = [colorMode EXCEPT ![k] = mode]
  /\ UNCHANGED <<pattern, required, mu, pc, call, todo, stream, lastCall, thrown>>

CallWrite(t, k, level, msg) ==
  /\ \A other \in Consoles : colorMode[other] # "unbuilt"
  /\ pc[t] = "idle" /\ lastCall < MaxRecords
  /\ lastCall' = lastCall + 1
  /\ call' = [call EXCEPT ![t] = [id |-> lastCall + 1, sink |-> k, level |-> level,
                                  line |-> Format(pattern, Record(level, msg))]]
  /\ pc' = [pc EXCEPT ![t] = "lock"]
  /\ UNCHANGED <<pattern, required, colorMode, mu, todo, stream, thrown>>

Lock(t) ==
  LET k == call[t].sink IN
  /\ pc[t] = "lock" /\ mu[k] = Nobody
  /\ mu' = [mu EXCEPT ![k] = t]
  /\ todo' = [todo EXCEPT ![t] = Pieces(k, call[t].level, call[t].line)]
  /\ pc' = [pc EXCEPT ![t] = "write"]
  /\ UNCHANGED <<pattern, required, colorMode, call, stream, lastCall, thrown>>

Written(t, text) ==
  Append(stream, [id |-> call[t].id, sink |-> call[t].sink, text |-> text])

\* A plausible slip: the lock covers the first fwrite only.
Fwrite_UnlocksEarly(t) ==
  /\ pc[t] = "write"
  /\ stream' = Written(t, Head(todo[t]))
  /\ todo' = [todo EXCEPT ![t] = Tail(@)]
  /\ mu' = [mu EXCEPT ![call[t].sink] = Nobody]
  /\ pc' = [pc EXCEPT ![t] = IF Len(todo[t]) = 1 THEN "idle" ELSE @]
  /\ UNCHANGED <<pattern, required, colorMode, call, lastCall, thrown>>

\* One write_all_or_throw that succeeds; the lock guard goes with the last one.
Fwrite(t) ==
  /\ pc[t] = "write"
  /\ stream' = Written(t, Head(todo[t]))
  /\ todo' = [todo EXCEPT ![t] = Tail(@)]
  /\ IF Len(todo[t]) = 1
       THEN /\ mu' = [mu EXCEPT ![call[t].sink] = Nobody]
            /\ pc' = [pc EXCEPT ![t] = "idle"]
            /\ call' = [call EXCEPT ![t] = NoCall]
       ELSE UNCHANGED <<mu, pc, call>>
  /\ UNCHANGED <<pattern, required, colorMode, lastCall, thrown>>

\* One that writes less than it was given (a part, or nothing at all), and throws.
FwriteFails(t, isPart) ==
  /\ pc[t] = "write" /\ Cardinality(thrown) < MaxFailures /\ Head(todo[t]) # <<>>
  /\ stream' = IF isPart THEN Written(t, <<"part">>) ELSE stream
  /\ todo' = [todo EXCEPT ![t] = <<>>]
  /\ thrown' = thrown \cup {call[t].id}
  /\ mu' = [mu EXCEPT ![call[t].sink] = Nobody]
  /\ pc' = [pc EXCEPT ![t] = "idle"]
  /\ call' = [call EXCEPT ![t] = NoCall]
  /\ UNCHANGED <<pattern, required, colorMode, lastCall>>
-----------------------------------------------------------------------------
Init ==
  /\ pattern = NoPattern /\ required = FALSE
  /\ colorMode = [k \in Consoles |-> "unbuilt"]
  /\ mu = [k \in Consoles |-> Nobody]
  /\ pc = [t \in Threads |-> "idle"]
  /\ call = [t \in Threads |-> NoCall]
  /\ todo = [t \in Threads |-> <<>>]
  /\ stream = <<>> /\ lastCall = 0 /\ thrown = {}

Next ==
  \/ /\ pattern = NoPattern
     /\ \E p \in Patterns, requireMet \in BOOLEAN : BuildFormatter(p, requireMet)
  \/ \E k \in Consoles, mode \in ColorModes : Construct(k, mode)
  \/ \E t \in Threads :
       \/ \E k \in Consoles, level \in RecordLevels, msg \in Messages : CallWrite(t, k, level, msg)
       \/ Lock(t)
       \/ Fwrite(t)
       \/ \E isPart \in BOOLEAN : FwriteFails(t, isPart)

Spec == Init /\ [][Next]_vars
-----------------------------------------------------------------------------
Completed == 1 .. lastCall \ (thrown \cup {call[t].id : t \in Threads})

\* format() loses nothing: with a record that gives each field's token as its
\* value, every pattern comes back unchanged, whatever braces it opens, nests or
\* leaves open.
FormatLosesNothing ==
  pattern # NoPattern => Format(pattern, [f \in Fields |-> <<"{", f, "}">>]) = pattern

\* The two scanners agree: format() renders exactly the known fields that
\* extract_tokens() has found, so every line of a formatter that was built with
\* require_met_token has the mission elapsed time.
TokensAreRendered ==
  LET contains(f) ==
        "shown" \in ToSet(Format(pattern, [g \in Fields |-> IF g = f THEN <<"shown">> ELSE <<>>]))
  IN  pattern # NoPattern =>
        /\ \A f \in Fields : <<f>> \in ExtractTokens(pattern) <=> contains(f)
        /\ required => contains("met")

\* write() "serializes output via an internal mutex": between two pieces of one
\* line there is no piece of another line of the same sink.
LinesIntact ==
  \A j \in DOMAIN stream : \A i \in 1 .. j - 1 : stream[i].id = stream[j].id =>
    \A k \in i + 1 .. j - 1 : stream[k].sink = stream[i].sink => stream[k].id = stream[i].id

\* While nobody writes, the terminal is left in a colour only by a write() that a
\* failed fwrite ended between its prefix and its reset: on every other path the
\* reset of a line comes after its colour, and after the colours of the lines of
\* other sinks that got in between.
ColourEnds ==
  LET codes == {i \in DOMAIN stream : \E c \in Colors \cup {"reset"} : stream[i].text = <<c>>}
      last  == CHOOSE i \in codes : \A j \in codes : j <= i
  IN  (\A t \in Threads : pc[t] = "idle") /\ codes # {} =>
        stream[last].text = <<"reset">> \/ stream[last].id \in thrown

\* A line that write() has finished ends with a newline, an empty one and one whose
\* message has a newline of its own included.
LinesTerminated ==
  \A id \in Completed : \E i \in DOMAIN stream :
    /\ stream[i].id = id /\ stream[i].text # <<>> /\ Last(stream[i].text) = "\n"
    /\ \A j \in i + 1 .. Len(stream) : stream[j].id = id => stream[j].text = <<"reset">>
=============================================================================
