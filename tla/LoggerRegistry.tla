---------------------------- MODULE LoggerRegistry ----------------------------
(***************************************************************************)
(* LoggerRegistry: the map of named loggers and get_logger(), which        *)
(* creates the missing ancestors of a logger first.                        *)
(*                                                                         *)
(* get_logger() holds the mutex for its lookup and for its insertion, not  *)
(* in between: other threads, and clear(), run while it recurses to the    *)
(* parent.  What a thread does between two critical sections touches only  *)
(* its own variables and is part of the step that follows.                 *)
(*                                                                         *)
(* A name is a sequence of dots and dot-free words; a logger is its index  *)
(* in created.                                                             *)
(***************************************************************************)
EXTENDS Naturals, SequencesExt, FiniteSetsExt

CONSTANTS Clients,   \* the threads
          Requested, \* the names that get_logger() is called with
          MaxCalls,  \* bound: calls of get_logger() by clients in a behaviour
          MaxClears  \* bound: calls of clear() in a behaviour

ASSUME RegistryAssumption ==
  /\ \A n \in Requested : n \in Seq(STRING)
  /\ MaxCalls \in Nat /\ MaxClears \in Nat

VARIABLES loggers, \* loggers_: names to loggers
          created, \* the loggers that were ever registered, with name and parent_
          stack,   \* each client's activations of get_logger(), the innermost last
          calls,   \* calls so far
          clears   \* calls of clear() so far

\* History: what every call returned and after how many calls of clear(), and
\* whether clear() was ever called while a get_logger() was in progress.
VARIABLES answers, disturbed

vars == <<loggers, created, stack, calls, clears, answers, disturbed>>

NoLogger == 0

Root == <<"root">>

NoName == <<>>

\* A plausible slip: a name that ends in a dot is its own parent.
ParentNameFor_KeepsDot(name) ==
  LET dots == { i \in DOMAIN name : name[i] = "." }
  IN  CASE name \in {NoName, Root}             -> NoName
        [] dots = {} \/ Max(dots \cup {1}) = 1 -> Root
        [] Max(dots) = Len(name)               -> name
        [] OTHER                               -> SubSeq(name, 1, Max(dots) - 1)

\* The length that is left when the trailing dots are gone, a leading dot excepted.
StrippedLen(name) ==
  CHOOSE k \in 0 .. Len(name) :
    /\ k < 2 \/ name[k] # "."
    /\ \A j \in k + 1 .. Len(name) : j >= 2 /\ name[j] = "."

\* parent_name_for: what precedes the last dot once trailing dots are gone.
ParentNameFor(name) ==
  LET k == StrippedLen(name)
      dots == { i \in 1 .. k : name[i] = "." }
  IN  IF SubSeq(name, 1, k) \in {NoName, Root} THEN NoName
      ELSE IF dots \subseteq {1} THEN Root
      ELSE SubSeq(name, 1, Max(dots) - 1)

Frame(name) == [name |-> name, parent |-> NoLogger, at |-> "find"]

Top(c) == Last(stack[c])

\* The innermost activation returns logger l to its caller.
ReturnLogger(c, l) ==
  LET rest == Front(stack[c])
  IN  IF rest = <<>>
      THEN /\ stack' = [stack EXCEPT ![c] = <<>>]
           /\ answers' = answers \cup {[name |-> Top(c).name, logger |-> l, clears |-> clears]}
      ELSE /\ stack' = [stack EXCEPT ![c] =
                Append(Front(rest), [Last(rest) EXCEPT !.parent = l, !.at = "insert"])]
           /\ UNCHANGED answers
-----------------------------------------------------------------------------
GetLogger(c, name) ==
  /\ stack[c] = <<>> /\ calls < MaxCalls
  /\ calls' = calls + 1
  /\ stack' = [stack EXCEPT ![c] = <<Frame(name)>>]
  /\ UNCHANGED <<loggers, created, clears, answers, disturbed>>

\* The lookup, and the recursion to the parent when there is one.
Find(c) ==
  /\ stack[c] # <<>> /\ Top(c).at = "find"
  /\ LET name == Top(c).name
         up == ParentNameFor(name)
     IN  \/ /\ name \in DOMAIN loggers
            /\ ReturnLogger(c, loggers[name])
         \/ /\ name \notin DOMAIN loggers /\ up # NoName
            /\ stack' = [stack EXCEPT ![c] = Append(@, Frame(up))]
            /\ UNCHANGED answers
         \/ /\ name \notin DOMAIN loggers /\ up = NoName
            /\ stack' = [stack EXCEPT ![c] = Append(Front(@), [Last(@) EXCEPT !.at = "insert"])]
            /\ UNCHANGED answers
  /\ UNCHANGED <<loggers, created, calls, clears, disturbed>>

Register(c) ==
  /\ created' = Append(created, [name |-> Top(c).name, parent |-> Top(c).parent])
  /\ loggers' = [n \in DOMAIN loggers \cup {Top(c).name} |->
                   IF n = Top(c).name THEN Len(created) + 1 ELSE loggers[n]]
  /\ ReturnLogger(c, Len(created) + 1)

\* A plausible slip: an entry that appeared meanwhile is replaced.
Insert_Overwrites(c) ==
  /\ stack[c] # <<>> /\ Top(c).at = "insert"
  /\ Register(c)
  /\ UNCHANGED <<calls, clears, disturbed>>

\* The candidate is created and inserted, unless somebody else was faster.
Insert(c) ==
  /\ stack[c] # <<>> /\ Top(c).at = "insert"
  /\ \/ /\ Top(c).name \in DOMAIN loggers
        /\ ReturnLogger(c, loggers[Top(c).name])
        /\ UNCHANGED <<loggers, created>>
     \/ /\ Top(c).name \notin DOMAIN loggers
        /\ Register(c)
  /\ UNCHANGED <<calls, clears, disturbed>>

Clear ==
  /\ clears < MaxClears
  /\ clears' = clears + 1
  /\ loggers' = [n \in {} |-> NoLogger]
  /\ disturbed' = (disturbed \/ \E c \in Clients : stack[c] # <<>>)
  /\ UNCHANGED <<created, stack, calls, answers>>

Init ==
  /\ loggers = [n \in {} |-> NoLogger]
  /\ created = <<>>
  /\ stack = [c \in Clients |-> <<>>]
  /\ calls = 0
  /\ clears = 0
  /\ answers = {}
  /\ disturbed = FALSE

Next ==
  \/ \E c \in Clients :
       \/ \E name \in Requested : GetLogger(c, name)
       \/ Find(c)
       \/ Insert(c)
  \/ Clear

Spec == Init /\ [][Next]_vars
-----------------------------------------------------------------------------
\* "Returned shared_ptr instances are stable (cached)": all calls for a name
\* between two calls of clear() return the same logger, also when several
\* threads create it at the same time.
OneLoggerPerName ==
  \A a, b \in answers : a.name = b.name /\ a.clears = b.clears => a.logger = b.logger

\* The name of the parent: all words but the last where single dots separate words.
ExpectedParent(name) ==
  LET words == Len(name) % 2 = 1 /\ \A i \in DOMAIN name : name[i] = "." <=> i % 2 = 0
  IN  IF ~words \/ name = Root THEN ParentNameFor(name)
      ELSE IF Len(name) = 1 THEN Root ELSE SubSeq(name, 1, Len(name) - 2)

\* "Parent loggers are created as needed": the parent of a registered logger
\* is the logger that is registered under the parent's name, so that a
\* configuration reached through the registry takes effect below it.  Holds
\* unless clear() hit a call between its lookup and its insertion.
HierarchyComplete ==
  ~disturbed => \A n \in DOMAIN loggers :
    LET up == ExpectedParent(n)
    IN  IF up = NoName
        THEN created[loggers[n]].parent = NoLogger
        ELSE up \in DOMAIN loggers /\ created[loggers[n]].parent = loggers[up]

\* However a name is made up, the recursion of get_logger() never comes back
\* to a name that it is working on.
RecursionTerminates ==
  \A c \in Clients : \A i, j \in DOMAIN stack[c] :
    i # j => stack[c][i].name # stack[c][j].name
=============================================================================
