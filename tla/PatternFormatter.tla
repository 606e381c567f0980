--------------------------- MODULE PatternFormatter ---------------------------
(***************************************************************************)
(* PatternFormatter: the token scanner of the constructor and of format(). *)
(*                                                                         *)
(* Text is a sequence of symbols: a brace, a newline, a run of characters  *)
(* that may stand in a token's name, or a run of others.  The two scans    *)
(* walk over a pattern in the same way and disagree only in what they make *)
(* of a token; each is a function of the position it continues from.       *)
(***************************************************************************)
EXTENDS Naturals, Sequences

\* The tokens that format() knows.
Fields == {"level", "sim", "met", "wall_ns", "thread", "file", "line", "function",
           "logger", "msg"}

\* The symbols that std::isalnum or an underscore make up.
WordSymbols == Fields \cup {"word"}

\* The symbols of a pattern; "-" stands for any run of other characters.
Symbols == WordSymbols \cup {"{", "}", "\n", "-"}

\* The place of the first '}' after i, or the place after the end.
CloseAfter(p, i) ==
  CHOOSE j \in i + 1 .. Len(p) + 1 :
    /\ j = Len(p) + 1 \/ p[j] = "}"
    /\ \A k \in i + 1 .. j - 1 : p[k] # "}"

\* What stands between the brace at i and the one that closes it.
TokenAt(p, i) == SubSeq(p, i + 1, CloseAfter(p, i) - 1)

IsName(token) == token # <<>> /\ \A k \in DOMAIN token : token[k] \in WordSymbols

\* A plausible slip: after a token that is no name the scan goes on inside it.
ExtractTokens_Inside(p) ==
  LET from[i \in 1 .. Len(p) + 1] ==
        IF i > Len(p) THEN {}
        ELSE IF p[i] # "{" THEN from[i + 1]
        ELSE IF CloseAfter(p, i) > Len(p) THEN {}
        ELSE IF IsName(TokenAt(p, i)) THEN {TokenAt(p, i)} \cup from[CloseAfter(p, i) + 1]
        ELSE from[i + 1]
  IN  from[1]

\* extract_tokens: the scan ends at a brace that nothing closes.
ExtractTokens(p) ==
  LET from[i \in 1 .. Len(p) + 1] ==
        IF i > Len(p) THEN {}
        ELSE IF p[i] # "{" THEN from[i + 1]
        ELSE IF CloseAfter(p, i) > Len(p) THEN {}
        ELSE (IF IsName(TokenAt(p, i)) THEN {TokenAt(p, i)} ELSE {})
             \cup from[CloseAfter(p, i) + 1]
  IN  from[1]

\* The text of a token: the field of the record r, or the token as it stands.
Rendered(token, r) ==
  IF \E f \in Fields : token = <<f>> THEN r[token[1]] ELSE <<"{">> \o token \o <<"}">>

\* A plausible slip: the rest after a brace that nothing closes is left out.
Format_DropsRest(p, r) ==
  LET from[i \in 1 .. Len(p) + 1] ==
        IF i > Len(p) THEN <<>>
        ELSE IF p[i] # "{" THEN <<p[i]>> \o from[i + 1]
        ELSE IF CloseAfter(p, i) > Len(p) THEN <<>>
        ELSE Rendered(TokenAt(p, i), r) \o from[CloseAfter(p, i) + 1]
  IN  from[1]

\* format(): what is not a token is copied, the rest after a brace that nothing
\* closes included.
Format(p, r) ==
  LET from[i \in 1 .. Len(p) + 1] ==
        IF i > Len(p) THEN <<>>
        ELSE IF p[i] # "{" THEN <<p[i]>> \o from[i + 1]
        ELSE IF CloseAfter(p, i) > Len(p) THEN SubSeq(p, i, Len(p))
        ELSE Rendered(TokenAt(p, i), r) \o from[CloseAfter(p, i) + 1]
  IN  from[1]

\* The constructor with require_met_token does not throw.
MetRequirementHolds(p) == <<"met">> \in ExtractTokens(p)
=============================================================================
