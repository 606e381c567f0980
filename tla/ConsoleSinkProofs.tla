-------------------------- MODULE ConsoleSinkProofs --------------------------
(***************************************************************************)
(* Console sinks, for any number of threads and of sinks on one stream:    *)
(* the lines of a sink stay in one piece, they end with a newline, and     *)
(* the colour of the terminal is reset.                                    *)
(*                                                                         *)
(* The formatter, for patterns of any length: format() loses nothing of a  *)
(* pattern, and its scan and that of the constructor find the same tokens. *)
(* Both scans are recursive functions of the position that go on behind    *)
(* what they have found, so the induction is on the distance from the end. *)
(***************************************************************************)
EXTENDS ConsoleSink, TLAPS, SequenceTheorems, WellFoundedInduction
-----------------------------------------------------------------------------
(* Numbers and sequences. *)

LEMMA LeastNumber ==
  ASSUME NEW T \in SUBSET Nat, T # {}
  PROVE  \E n \in T : \A m \in T : n <= m
  <1>1. PICK n \in T : \A m \in T : ~(<<m, n>> \in OpToRel(<, Nat))
    BY WFMin, NatLessThanWellFounded
  <1>2. ASSUME NEW m \in T PROVE n <= m
    <2>1. ~(m < n)
      BY <1>1 DEF OpToRel
    <2> QED BY <2>1
  <1> QED BY <1>2

LEMMA GreatestNumber ==
  ASSUME NEW b \in Nat, NEW T \in SUBSET (0 .. b), T # {}
  PROVE  \E n \in T : \A m \in T : n >= m
  <1> DEFINE D == { b - x : x \in T }
  <1>1. PICK d \in D : \A m \in D : d <= m
    <2>1. \A x \in T : b - x \in Nat
      OBVIOUS
    <2>2. D \in SUBSET Nat
      BY <2>1
    <2>3. D # {}
      OBVIOUS
    <2> HIDE DEF D
    <2> QED BY <2>2, <2>3, LeastNumber
  <1>2. PICK n \in T : d = b - n
    OBVIOUS
  <1>3. ASSUME NEW m \in T PROVE n >= m
    <2>1. b - m \in D
      OBVIOUS
    <2>2. b - n <= b - m /\ n \in 0 .. b /\ m \in 0 .. b
      BY <1>1, <1>2, <2>1
    <2> QED BY <2>2
  <1> QED BY <1>3

\* Induction from the end of a text: the last position of a set has no later one.
LEMMA LastPosition ==
  ASSUME NEW b \in Nat, NEW T \in SUBSET (1 .. b), T # {}
  PROVE  \E n \in T : \A m \in n + 1 .. b : m \notin T
  <1>1. T \in SUBSET (0 .. b)
    OBVIOUS
  <1>2. PICK n \in T : \A m \in T : n >= m
    BY <1>1, GreatestNumber
  <1>3. \A m \in n + 1 .. b : ~(n >= m)
    OBVIOUS
  <1> QED BY <1>2, <1>3

LEMMA ConcatIs ==
  ASSUME NEW S, NEW a \in Seq(S), NEW b \in Seq(S)
  PROVE  /\ a \o b \in Seq(S) /\ Len(a) \in Nat /\ Len(b) \in Nat /\ Len(a \o b) = Len(a) + Len(b)
         /\ \A i \in 1 .. Len(a) : (a \o b)[i] = a[i]
         /\ \A i \in 1 .. Len(b) : (a \o b)[Len(a) + i] = b[i]
  <1>1. /\ a \o b \in Seq(S) /\ Len(a) \in Nat /\ Len(b) \in Nat /\ Len(a \o b) = Len(a) + Len(b)
        /\ \A i \in 1 .. Len(a) + Len(b) : (a \o b)[i] = IF i <= Len(a) THEN a[i] ELSE b[i - Len(a)]
    BY ConcatProperties, LenProperties
  <1>2. \A i \in 1 .. Len(a) : i \in 1 .. Len(a) + Len(b) /\ i <= Len(a)
    BY <1>1
  <1>3. \A i \in 1 .. Len(b) : /\ Len(a) + i \in 1 .. Len(a) + Len(b) /\ ~(Len(a) + i <= Len(a))
                               /\ (Len(a) + i) - Len(a) = i
    BY <1>1
  <1>4. ASSUME NEW i \in 1 .. Len(b) PROVE (a \o b)[Len(a) + i] = b[i]
    BY <1>1, <1>3
  <1> QED BY <1>1, <1>2, <1>4

-----------------------------------------------------------------------------
(* The formatter: what the two scans make of a pattern. *)

LEMMA CloseAfterIs ==
  ASSUME NEW V, NEW p \in Seq(V), NEW i \in 1 .. Len(p)
  PROVE  /\ CloseAfter(p, i) \in i + 1 .. Len(p) + 1
         /\ CloseAfter(p, i) = Len(p) + 1 \/ p[CloseAfter(p, i)] = "}"
  <1> DEFINE T == { j \in Nat : j \in i + 1 .. Len(p) + 1 /\ (j = Len(p) + 1 \/ p[j] = "}") }
  <1>1. Len(p) \in Nat
    OBVIOUS
  <1>2. Len(p) + 1 \in T
    BY <1>1
  <1>3. PICK n \in T : \A m \in T : n <= m
    BY <1>2, LeastNumber
  <1>4. n \in i + 1 .. Len(p) + 1 /\ (n = Len(p) + 1 \/ p[n] = "}")
    BY <1>3, Zenon
  <1>5. \A k \in i + 1 .. n - 1 : k \in i + 1 .. Len(p) + 1 /\ k \in Nat /\ ~(n <= k)
    <2> HIDE DEF T
    <2>1. n \in i + 1 .. Len(p) + 1
      BY <1>4
    <2>2. ASSUME NEW a \in Nat, NEW b \in Nat, NEW c \in a + 1 .. b
          PROVE  \A k \in a + 1 .. c - 1 : k \in a + 1 .. b /\ k \in Nat /\ ~(c <= k)
      OBVIOUS
    <2>3. i \in Nat /\ Len(p) + 1 \in Nat
      BY ONLY <1>1, i \in 1 .. Len(p)
    <2> QED BY ONLY <2>1, <2>2, <2>3
  <1>6. \A k \in i + 1 .. n - 1 : p[k] # "}"
    BY <1>3, <1>5
  <1> DEFINE Closes(j) == (j = Len(p) + 1 \/ p[j] = "}") /\ \A k \in i + 1 .. j - 1 : p[k] # "}"
  <1>7. CloseAfter(p, i) = CHOOSE j \in i + 1 .. Len(p) + 1 : Closes(j)
    BY DEF CloseAfter
  <1>8. Closes(n)
    BY <1>4, <1>6
  <1>9. CloseAfter(p, i) \in i + 1 .. Len(p) + 1 /\ Closes(CloseAfter(p, i))
    <2> HIDE DEF Closes
    <2> QED BY <1>4, <1>7, <1>8
  <1> QED BY <1>9

\* The scan of format() from each position, as its definition has it.
FormatStep(p, r, i, rest) ==
  IF i > Len(p) THEN <<>>
  ELSE IF p[i] # "{" THEN <<p[i]>> \o rest[i + 1]
  ELSE IF CloseAfter(p, i) > Len(p) THEN SubSeq(p, i, Len(p))
  ELSE Rendered(TokenAt(p, i), r) \o rest[CloseAfter(p, i) + 1]

LEMMA FormatScan ==
  ASSUME NEW V, NEW p \in Seq(V), NEW r
  PROVE  \E f : /\ Format(p, r) = f[1]
                /\ \A i \in 1 .. Len(p) + 1 : f[i] = FormatStep(p, r, i, f)
  <1> DEFINE N == Len(p) + 1
             F == CHOOSE f : f = [i \in 1 .. N |-> FormatStep(p, r, i, f)]
             Right(f, k) == \A i \in k .. N : f[i] = FormatStep(p, r, i, f)
             T == { k \in 1 .. N : ~ \E f : Right(f, k) }
  <1>1. N \in Nat /\ N >= 1
    OBVIOUS
  <1>2. ASSUME NEW f, NEW g, NEW i \in 1 .. N, \A j \in i + 1 .. N : f[j] = g[j]
        PROVE  FormatStep(p, r, i, f) = FormatStep(p, r, i, g)
    <2>1. CASE i > Len(p)
      BY <2>1 DEF FormatStep
    <2>2. CASE i \in 1 .. Len(p)
      <3>1. CloseAfter(p, i) \in i + 1 .. Len(p) + 1
        BY <2>2, CloseAfterIs
      <3>2. i + 1 \in i + 1 .. N
        BY <2>2
      <3>3. ~(CloseAfter(p, i) > Len(p)) => CloseAfter(p, i) + 1 \in i + 1 .. N
        BY <2>2, <3>1
      <3>4. f[i + 1] = g[i + 1]
        BY ONLY <1>2, <3>2
      <3>5. ~(CloseAfter(p, i) > Len(p)) => f[CloseAfter(p, i) + 1] = g[CloseAfter(p, i) + 1]
        BY ONLY <1>2, <3>3
      <3> QED BY ONLY <3>4, <3>5, Zenon DEF FormatStep
    <2> QED BY <2>1, <2>2
  <1>3. ASSUME T # {} PROVE FALSE
    <2>1. PICK k \in T : \A m \in k + 1 .. N : m \notin T
      <3>1. T \in SUBSET (1 .. N)
        OBVIOUS
      <3> HIDE DEF T, N
      <3> QED BY ONLY <1>1, <1>3, <3>1, LastPosition
    <2>2. PICK g : \A i \in k + 1 .. N : g[i] = FormatStep(p, r, i, g)
      <3>1. CASE k = N
        BY <1>1, <3>1
      <3>2. CASE k # N
        <4>1. k + 1 \in 1 .. N /\ k + 1 \in k + 1 .. N
          BY <1>1, <2>1, <3>2
        <4> QED BY <2>1, <4>1
      <3> QED BY <3>1, <3>2
    <2> DEFINE h == [i \in 1 .. N |-> IF i = k THEN FormatStep(p, r, k, g) ELSE g[i]]
    <2>3. \A i \in 1 .. N : i # k => h[i] = g[i]
      OBVIOUS
    <2>4. k \in 1 .. N /\ h[k] = FormatStep(p, r, k, g)
      OBVIOUS
    <2> HIDE DEF h
    <2>5. ASSUME NEW i \in k .. N PROVE h[i] = FormatStep(p, r, i, h)
      <3>1. i \in 1 .. N /\ \A j \in i + 1 .. N : j \in 1 .. N /\ j # k
        BY <2>4, <2>5, <1>1
      <3>2. FormatStep(p, r, i, h) = FormatStep(p, r, i, g)
        BY <1>2, <2>3, <3>1
      <3>3. i # k => i \in k + 1 .. N
        BY <2>4, <2>5, <1>1
      <3> QED BY <2>2, <2>3, <2>4, <3>1, <3>2, <3>3
    <2> QED BY <2>1, <2>5
  <1>4. PICK g : Right(g, 1)
    BY <1>1, <1>3
  <1> DEFINE h == [i \in 1 .. N |-> g[i]]
  <1>5. h = [i \in 1 .. N |-> FormatStep(p, r, i, h)]
    <2>1. \A i \in 1 .. N : h[i] = g[i]
      OBVIOUS
    <2> HIDE DEF h
    <2>2. ASSUME NEW i \in 1 .. N PROVE g[i] = FormatStep(p, r, i, h)
      <3>1. \A j \in i + 1 .. N : j \in 1 .. N
        BY <1>1
      <3> QED BY <1>2, <1>4, <2>1, <3>1
    <2> USE DEF h
    <2> QED BY <2>2
  <1>6. F = [i \in 1 .. N |-> FormatStep(p, r, i, F)]
    <2> HIDE DEF h
    <2> QED BY <1>5
  <1>7. Format(p, r) = F[1]
    BY DEF Format, FormatStep
  <1> HIDE DEF F
  <1> QED BY <1>6, <1>7

\* The scan of extract_tokens() from each position.
ExtractStep(p, i, rest) ==
  IF i > Len(p) THEN {}
  ELSE IF p[i] # "{" THEN rest[i + 1]
  ELSE IF CloseAfter(p, i) > Len(p) THEN {}
  ELSE (IF IsName(TokenAt(p, i)) THEN {TokenAt(p, i)} ELSE {}) \cup rest[CloseAfter(p, i) + 1]

LEMMA ExtractScan ==
  ASSUME NEW V, NEW p \in Seq(V)
  PROVE  \E f : /\ ExtractTokens(p) = f[1]
                /\ \A i \in 1 .. Len(p) + 1 : f[i] = ExtractStep(p, i, f)
  <1> DEFINE N == Len(p) + 1
             F == CHOOSE f : f = [i \in 1 .. N |-> ExtractStep(p, i, f)]
             Right(f, k) == \A i \in k .. N : f[i] = ExtractStep(p, i, f)
             T == { k \in 1 .. N : ~ \E f : Right(f, k) }
  <1>1. N \in Nat /\ N >= 1
    OBVIOUS
  <1>2. ASSUME NEW f, NEW g, NEW i \in 1 .. N, \A j \in i + 1 .. N : f[j] = g[j]
        PROVE  ExtractStep(p, i, f) = ExtractStep(p, i, g)
    <2>1. CASE i > Len(p)
      BY <2>1 DEF ExtractStep
    <2>2. CASE i \in 1 .. Len(p)
      <3>1. CloseAfter(p, i) \in i + 1 .. Len(p) + 1
        BY <2>2, CloseAfterIs
      <3>2. i + 1 \in i + 1 .. N
        BY <2>2
      <3>3. ~(CloseAfter(p, i) > Len(p)) => CloseAfter(p, i) + 1 \in i + 1 .. N
        BY <2>2, <3>1
      <3>4. f[i + 1] = g[i + 1]
        BY ONLY <1>2, <3>2
      <3>5. ~(CloseAfter(p, i) > Len(p)) => f[CloseAfter(p, i) + 1] = g[CloseAfter(p, i) + 1]
        BY ONLY <1>2, <3>3
      <3> QED BY ONLY <3>4, <3>5, Zenon DEF ExtractStep
    <2> QED BY <2>1, <2>2
  <1>3. ASSUME T # {} PROVE FALSE
    <2>1. PICK k \in T : \A m \in k + 1 .. N : m \notin T
      <3>1. T \in SUBSET (1 .. N)
        OBVIOUS
      <3> HIDE DEF T, N
      <3> QED BY ONLY <1>1, <1>3, <3>1, LastPosition
    <2>2. PICK g : \A i \in k + 1 .. N : g[i] = ExtractStep(p, i, g)
      <3>1. CASE k = N
        BY <1>1, <3>1
      <3>2. CASE k # N
        <4>1. k + 1 \in 1 .. N /\ k + 1 \in k + 1 .. N
          BY <1>1, <2>1, <3>2
        <4> QED BY <2>1, <4>1
      <3> QED BY <3>1, <3>2
    <2> DEFINE h == [i \in 1 .. N |-> IF i = k THEN ExtractStep(p, k, g) ELSE g[i]]
    <2>3. \A i \in 1 .. N : i # k => h[i] = g[i]
      OBVIOUS
    <2>4. k \in 1 .. N /\ h[k] = ExtractStep(p, k, g)
      OBVIOUS
    <2> HIDE DEF h
    <2>5. ASSUME NEW i \in k .. N PROVE h[i] = ExtractStep(p, i, h)
      <3>1. i \in 1 .. N /\ \A j \in i + 1 .. N : j \in 1 .. N /\ j # k
        BY <2>4, <2>5, <1>1
      <3>2. ExtractStep(p, i, h) = ExtractStep(p, i, g)
        BY <1>2, <2>3, <3>1
      <3>3. i # k => i \in k + 1 .. N
        BY <2>4, <2>5, <1>1
      <3> QED BY <2>2, <2>3, <2>4, <3>1, <3>2, <3>3
    <2> QED BY <2>1, <2>5
  <1>4. PICK g : Right(g, 1)
    BY <1>1, <1>3
  <1> DEFINE h == [i \in 1 .. N |-> g[i]]
  <1>5. h = [i \in 1 .. N |-> ExtractStep(p, i, h)]
    <2>1. \A i \in 1 .. N : h[i] = g[i]
      OBVIOUS
    <2> HIDE DEF h
    <2>2. ASSUME NEW i \in 1 .. N PROVE g[i] = ExtractStep(p, i, h)
      <3>1. \A j \in i + 1 .. N : j \in 1 .. N
        BY <1>1
      <3> QED BY <1>2, <1>4, <2>1, <3>1
    <2> USE DEF h
    <2> QED BY <2>2
  <1>6. F = [i \in 1 .. N |-> ExtractStep(p, i, F)]
    <2> HIDE DEF h
    <2> QED BY <1>5
  <1>7. ExtractTokens(p) = F[1]
    BY DEF ExtractTokens, ExtractStep
  <1> HIDE DEF F
  <1> QED BY <1>6, <1>7

\* What a scan finds at a position: a symbol to copy, a brace that nothing closes,
\* or a token.
Plain(p, i) == i \in 1 .. Len(p) /\ p[i] # "{"
Unclosed(p, i) == i \in 1 .. Len(p) /\ p[i] = "{" /\ CloseAfter(p, i) > Len(p)
Closed(p, i) == i \in 1 .. Len(p) /\ p[i] = "{" /\ ~(CloseAfter(p, i) > Len(p))

LEMMA ScanCases ==
  ASSUME NEW V, NEW p \in Seq(V), NEW i \in 1 .. Len(p) + 1
  PROVE  i = Len(p) + 1 \/ Plain(p, i) \/ Unclosed(p, i) \/ Closed(p, i)
  <1>1. i = Len(p) + 1 \/ i \in 1 .. Len(p)
    OBVIOUS
  <1> QED BY <1>1, Zenon DEF Plain, Unclosed, Closed

\* The scan goes on behind what it has found.
LEMMA ScanGoesOn ==
  ASSUME NEW V, NEW p \in Seq(V), NEW i \in 1 .. Len(p)
  PROVE  /\ i + 1 \in i + 1 .. Len(p) + 1
         /\ Closed(p, i) => /\ CloseAfter(p, i) \in i + 1 .. Len(p) /\ p[CloseAfter(p, i)] = "}"
                            /\ CloseAfter(p, i) + 1 \in i + 1 .. Len(p) + 1
  <1>1. i + 1 \in i + 1 .. Len(p) + 1
    OBVIOUS
  <1>2. ASSUME Closed(p, i)
        PROVE  /\ CloseAfter(p, i) \in i + 1 .. Len(p) /\ p[CloseAfter(p, i)] = "}"
               /\ CloseAfter(p, i) + 1 \in i + 1 .. Len(p) + 1
    <2> DEFINE c == CloseAfter(p, i)
    <2>1. c \in i + 1 .. Len(p) + 1 /\ ~(c > Len(p)) /\ Len(p) \in Nat
      BY <1>2, CloseAfterIs, LenProperties DEF Closed
    <2>2. c = Len(p) + 1 \/ p[c] = "}"
      BY CloseAfterIs
    <2> HIDE DEF c
    <2>3. c \in i + 1 .. Len(p) /\ c + 1 \in i + 1 .. Len(p) + 1 /\ c # Len(p) + 1
      BY <2>1
    <2>4. p[c] = "}"
      BY <2>2, <2>3
    <2> QED BY <2>3, <2>4 DEF c
  <1> QED BY <1>1, <1>2

LEMMA FormatAtEnd ==
  ASSUME NEW p, Len(p) \in Nat, NEW r, NEW i, NEW f, i = Len(p) + 1
  PROVE  FormatStep(p, r, i, f) = <<>>
  <1>1. i > Len(p)
    OBVIOUS
  <1> QED BY <1>1, Zenon DEF FormatStep

LEMMA FormatAtPlain ==
  ASSUME NEW p, Len(p) \in Nat, NEW r, NEW i, NEW f, Plain(p, i)
  PROVE  FormatStep(p, r, i, f) = <<p[i]>> \o f[i + 1]
  <1>1. i \in 1 .. Len(p) => ~(i > Len(p))
    OBVIOUS
  <1> QED BY <1>1, Zenon DEF FormatStep, Plain

LEMMA FormatAtUnclosed ==
  ASSUME NEW p, Len(p) \in Nat, NEW r, NEW i, NEW f, Unclosed(p, i)
  PROVE  FormatStep(p, r, i, f) = SubSeq(p, i, Len(p))
  <1>1. i \in 1 .. Len(p) => ~(i > Len(p))
    OBVIOUS
  <1> QED BY <1>1, Zenon DEF FormatStep, Unclosed

LEMMA FormatAtClosed ==
  ASSUME NEW p, Len(p) \in Nat, NEW r, NEW i, NEW f, Closed(p, i)
  PROVE  FormatStep(p, r, i, f) = Rendered(TokenAt(p, i), r) \o f[CloseAfter(p, i) + 1]
  <1>1. i \in 1 .. Len(p) => ~(i > Len(p))
    OBVIOUS
  <1> QED BY <1>1, Zenon DEF FormatStep, Closed

LEMMA ExtractAtEnd ==
  ASSUME NEW p, Len(p) \in Nat, NEW i, NEW f, i = Len(p) + 1
  PROVE  ExtractStep(p, i, f) = {}
  <1>1. i > Len(p)
    OBVIOUS
  <1> QED BY <1>1, Zenon DEF ExtractStep

LEMMA ExtractAtPlain ==
  ASSUME NEW p, Len(p) \in Nat, NEW i, NEW f, Plain(p, i)
  PROVE  ExtractStep(p, i, f) = f[i + 1]
  <1>1. i \in 1 .. Len(p) => ~(i > Len(p))
    OBVIOUS
  <1> QED BY <1>1, Zenon DEF ExtractStep, Plain

LEMMA ExtractAtUnclosed ==
  ASSUME NEW p, Len(p) \in Nat, NEW i, NEW f, Unclosed(p, i)
  PROVE  ExtractStep(p, i, f) = {}
  <1>1. i \in 1 .. Len(p) => ~(i > Len(p))
    OBVIOUS
  <1> QED BY <1>1, Zenon DEF ExtractStep, Unclosed

LEMMA ExtractAtClosed ==
  ASSUME NEW p, Len(p) \in Nat, NEW i, NEW f, Closed(p, i)
  PROVE  ExtractStep(p, i, f) = (IF IsName(TokenAt(p, i)) THEN {TokenAt(p, i)} ELSE {}) \cup f[CloseAfter(p, i) + 1]
  <1>1. i \in 1 .. Len(p) => ~(i > Len(p))
    OBVIOUS
  <1> QED BY <1>1, Zenon DEF ExtractStep, Closed

\* The parts of a text that a scan puts together again.
LEMMA TextParts ==
  ASSUME NEW V, NEW p \in Seq(V), NEW i \in 1 .. Len(p)
  PROVE  /\ <<p[i]>> \o SubSeq(p, i + 1, Len(p)) = SubSeq(p, i, Len(p))
         /\ \A c \in i + 1 .. Len(p) :
              /\ SubSeq(p, i + 1, c - 1) \in Seq(V)
              /\ (<<p[i]>> \o SubSeq(p, i + 1, c - 1) \o <<p[c]>>) \o SubSeq(p, c + 1, Len(p))
                   = SubSeq(p, i, Len(p))
  <1>0. Len(p) \in Nat /\ Len(p) \in i .. Len(p)
    OBVIOUS
  <1>1. <<p[i]>> \o SubSeq(p, i + 1, Len(p)) = SubSeq(p, i, Len(p))
    BY <1>0, SubSeqRecursiveFirst
  <1>2. ASSUME NEW c \in i + 1 .. Len(p)
        PROVE  /\ SubSeq(p, i + 1, c - 1) \in Seq(V)
               /\ (<<p[i]>> \o SubSeq(p, i + 1, c - 1) \o <<p[c]>>) \o SubSeq(p, c + 1, Len(p))
                     = SubSeq(p, i, Len(p))
    <2>1. /\ i + 1 \in Int /\ c - 1 \in Int /\ \A k \in i + 1 .. c - 1 : k \in 1 .. Len(p)
          /\ c - 1 \in i .. Len(p) /\ c \in i .. Len(p) /\ c \in i - 1 .. Len(p)
          /\ Len(p) \in c .. Len(p) /\ i \in 1 .. Len(p) + 1
      BY <1>0
    <2>2. \A k \in 1 .. Len(p) : p[k] \in V
      OBVIOUS
    <2>3. SubSeq(p, i + 1, c - 1) \in Seq(V)
      BY <2>1, <2>2, SubSeqProperties
    <2>4. <<p[i]>> \o SubSeq(p, i + 1, c - 1) = SubSeq(p, i, c - 1)
      BY <2>1, SubSeqRecursiveFirst
    <2>5. SubSeq(p, i, c - 1) \o <<p[c]>> = SubSeq(p, i, c)
      BY <2>1, SubSeqRecursiveSecond
    <2>6. SubSeq(p, i, c) \o SubSeq(p, c + 1, Len(p)) = SubSeq(p, i, Len(p))
      BY <2>1, ConcatAdjacentSubSeq
    <2> QED BY <2>3, <2>4, <2>5, <2>6
  <1> QED BY <1>1, <1>2

LEMMA OneSymbol ==
  ASSUME NEW W, NEW x \in W
  PROVE  <<x>> \in Seq(W)
  OBVIOUS

LEMMA ThreeSymbols ==
  ASSUME NEW x, NEW y, NEW z
  PROVE  <<x>> \o <<y>> \o <<z>> = <<x, y, z>>
  <1> DEFINE W == {x, y, z}
             u == <<x>> \o <<y>>
             v == u \o <<z>>
  <1>1. /\ <<x>> \in Seq(W) /\ <<y>> \in Seq(W) /\ <<z>> \in Seq(W) /\ <<x, y, z>> \in Seq(W)
        /\ Len(<<x>>) = 1 /\ Len(<<y>>) = 1 /\ Len(<<z>>) = 1 /\ Len(<<x, y, z>>) = 3
    OBVIOUS
  <1> HIDE DEF W
  <1>2. u \in Seq(W) /\ Len(u) = 2 /\ \A i \in 1 .. 2 : u[i] = IF i <= 1 THEN <<x>>[i] ELSE <<y>>[i - 1]
    BY <1>1, ConcatProperties
  <1> HIDE DEF u
  <1>3. v \in Seq(W) /\ Len(v) = 3 /\ \A i \in 1 .. 3 : v[i] = IF i <= 2 THEN u[i] ELSE <<z>>[i - 2]
    BY <1>1, <1>2, ConcatProperties
  <1> HIDE DEF v
  <1>4. v[1] = x /\ v[2] = y /\ v[3] = z
    BY <1>2, <1>3
  <1>5. \A i \in 1 .. 3 : v[i] = <<x, y, z>>[i]
    BY <1>4
  <1>6. v = <<x, y, z>>
    BY <1>1, <1>3, <1>5, SeqEqual
  <1> QED BY <1>6 DEF u, v

Identity == [f \in Fields |-> <<"{", f, "}">>]

LEMMA IdentityRendered ==
  ASSUME NEW V, NEW token \in Seq(V)
  PROVE  Rendered(token, Identity) = <<"{">> \o token \o <<"}">>
  <1>1. CASE \E f \in Fields : token = <<f>>
    <2>1. PICK f \in Fields : token = <<f>>
      BY <1>1
    <2>2. Rendered(token, Identity) = Identity[f]
      BY <1>1, <2>1 DEF Rendered
    <2>3. Identity[f] = <<"{", f, "}">>
      BY DEF Identity
    <2>4. <<"{">> \o <<f>> \o <<"}">> = <<"{", f, "}">>
      BY ThreeSymbols
    <2> QED BY <2>1, <2>2, <2>3, <2>4
  <1>2. CASE ~ \E f \in Fields : token = <<f>>
    BY <1>2 DEF Rendered
  <1> QED BY <1>1, <1>2

LEMMA FormatIsIdentity ==
  ASSUME NEW V, NEW p \in Seq(V)
  PROVE  Format(p, Identity) = p
  <1> DEFINE N == Len(p)
  <1>1. PICK f : /\ Format(p, Identity) = f[1]
                 /\ \A i \in 1 .. N + 1 : f[i] = FormatStep(p, Identity, i, f)
    BY FormatScan
  <1>2. N \in Nat /\ N + 1 \in Nat
    OBVIOUS
  <1> DEFINE T == { i \in 1 .. N + 1 : f[i] # SubSeq(p, i, N) }
  <1>3. ASSUME T # {} PROVE FALSE
    <2>1. PICK i \in T : \A j \in i + 1 .. N + 1 : j \notin T
      <3>1. T \in SUBSET (1 .. N + 1)
        OBVIOUS
      <3> HIDE DEF T, N
      <3> QED BY <1>2, <1>3, <3>1, LastPosition
    <2>2. i \in 1 .. N + 1 /\ f[i] # SubSeq(p, i, N)
      OBVIOUS
    <2>3. \A j \in i + 1 .. N + 1 : f[j] = SubSeq(p, j, N)
      <3>1. \A j \in i + 1 .. N + 1 : j \in 1 .. N + 1
        BY <1>2, <2>2
      <3> QED BY <2>1, <3>1
    <2> HIDE DEF T
    <2>4. f[i] = FormatStep(p, Identity, i, f)
      BY <1>1, <2>2
    <2>5. CASE i = N + 1
      <3>1. f[i] = <<>>
        BY <1>2, <2>2, <2>4, <2>5, FormatAtEnd
      <3>2. SubSeq(p, i, N) = <<>>
        BY <1>2, <2>5, SubSeqEmpty
      <3> QED BY <2>2, <3>1, <3>2
    <2>6. CASE Plain(p, i)
      <3>1. f[i] = <<p[i]>> \o f[i + 1]
        BY <1>2, <2>2, <2>4, <2>6, FormatAtPlain
      <3>2. i \in 1 .. N
        BY <2>6 DEF Plain
      <3>3. f[i + 1] = SubSeq(p, i + 1, N)
        BY <2>3, <3>2, ScanGoesOn
      <3> QED BY <2>2, <3>1, <3>2, <3>3, TextParts
    <2>7. CASE Unclosed(p, i)
      BY <1>2, <2>2, <2>4, <2>7, FormatAtUnclosed
    <2>8. CASE Closed(p, i)
      <3> DEFINE c == CloseAfter(p, i)
      <3>1. f[i] = Rendered(TokenAt(p, i), Identity) \o f[c + 1]
        BY <1>2, <2>2, <2>4, <2>8, FormatAtClosed
      <3>2. i \in 1 .. N /\ p[i] = "{"
        BY <2>8 DEF Closed
      <3>3. c \in i + 1 .. N /\ p[c] = "}" /\ c + 1 \in i + 1 .. N + 1
        BY <2>8, <3>2, ScanGoesOn
      <3>4. f[c + 1] = SubSeq(p, c + 1, N)
        BY <2>3, <3>3
      <3>5. /\ TokenAt(p, i) \in Seq(V)
            /\ (<<p[i]>> \o TokenAt(p, i) \o <<p[c]>>) \o SubSeq(p, c + 1, N) = SubSeq(p, i, N)
        BY <3>2, <3>3, TextParts DEF TokenAt
      <3>6. Rendered(TokenAt(p, i), Identity) = <<"{">> \o TokenAt(p, i) \o <<"}">>
        BY <3>5, IdentityRendered
      <3> QED BY <2>2, <3>1, <3>2, <3>3, <3>4, <3>5, <3>6
    <2> QED BY <2>2, <2>5, <2>6, <2>7, <2>8, ScanCases
  <1>4. 1 \in 1 .. N + 1 /\ SubSeq(p, 1, N) = p
    BY <1>2, SubSeqFull
  <1> QED BY <1>1, <1>3, <1>4

\* The symbols that format() puts out are those of the pattern and of the record.
LEMMA RenderedType ==
  ASSUME NEW W, NEW p \in Seq(W), NEW r \in [Fields -> Seq(W)], NEW i, Closed(p, i)
  PROVE  /\ "{" \in W /\ "}" \in W /\ TokenAt(p, i) \in Seq(W)
         /\ Rendered(TokenAt(p, i), r) \in Seq(W)
  <1> DEFINE token == TokenAt(p, i)
  <1>1. i \in 1 .. Len(p) /\ p[i] = "{"
    BY DEF Closed
  <1>2. CloseAfter(p, i) \in i + 1 .. Len(p) /\ p[CloseAfter(p, i)] = "}"
    BY <1>1, ScanGoesOn
  <1>3. \A k \in 1 .. Len(p) : p[k] \in W
    OBVIOUS
  <1>4. CloseAfter(p, i) \in 1 .. Len(p)
    <2>1. \A c \in i + 1 .. Len(p) : c \in 1 .. Len(p)
      <3>1. i \in 1 .. Len(p) /\ Len(p) \in Nat
        BY <1>1, LenProperties
      <3> QED BY <3>1
    <2> QED BY <1>2, <2>1
  <1>5. "{" \in W /\ "}" \in W
    BY <1>1, <1>2, <1>3, <1>4
  <1>6. token \in Seq(W)
    BY <1>1, <1>2, TextParts DEF TokenAt
  <1> HIDE DEF token
  <1>7. Rendered(token, r) \in Seq(W)
    <2>1. CASE \E g \in Fields : token = <<g>>
      <3>1. PICK g \in Fields : token = <<g>>
        BY <2>1
      <3>2. token[1] = g
        BY <3>1
      <3>3. Rendered(token, r) = r[g]
        BY ONLY <2>1, <3>2, Zenon DEF Rendered
      <3> QED BY ONLY <3>1, <3>3, r \in [Fields -> Seq(W)]
    <2>2. CASE ~ \E g \in Fields : token = <<g>>
      <3>1. Rendered(token, r) = <<"{">> \o token \o <<"}">>
        BY <2>2 DEF Rendered
      <3>2. <<"{">> \in Seq(W) /\ <<"}">> \in Seq(W)
        BY <1>5, OneSymbol
      <3>3. <<"{">> \o token \in Seq(W)
        BY <1>6, <3>2, ConcatProperties
      <3>4. \A a, b \in Seq(W) : a \o b \in Seq(W)
        BY ONLY ConcatProperties
      <3>5. (<<"{">> \o token) \o <<"}">> \in Seq(W)
        BY ONLY <3>2, <3>3, <3>4, Zenon
      <3> QED BY ONLY <3>1, <3>5
    <2> QED BY <2>1, <2>2
  <1> QED BY <1>5, <1>6, <1>7 DEF token

LEMMA FormatTypes ==
  ASSUME NEW W, NEW p \in Seq(W), NEW r \in [Fields -> Seq(W)], NEW f,
         \A i \in 1 .. Len(p) + 1 : f[i] = FormatStep(p, r, i, f)
  PROVE  \A i \in 1 .. Len(p) + 1 : f[i] \in Seq(W)
  <1> DEFINE N == Len(p)
             T == { i \in 1 .. N + 1 : f[i] \notin Seq(W) }
  <1>1. N \in Nat /\ N + 1 \in Nat
    OBVIOUS
  <1>2. ASSUME T # {} PROVE FALSE
    <2>1. PICK i \in T : \A j \in i + 1 .. N + 1 : j \notin T
      <3>1. T \in SUBSET (1 .. N + 1)
        OBVIOUS
      <3> HIDE DEF T, N
      <3> QED BY <1>1, <1>2, <3>1, LastPosition
    <2>2. i \in 1 .. N + 1 /\ f[i] \notin Seq(W)
      OBVIOUS
    <2>3. \A j \in i + 1 .. N + 1 : f[j] \in Seq(W)
      <3>1. \A j \in i + 1 .. N + 1 : j \in 1 .. N + 1
        BY <1>1, <2>2
      <3> QED BY <2>1, <3>1
    <2> HIDE DEF T
    <2>4. f[i] = FormatStep(p, r, i, f)
      BY <2>2
    <2>5. \A k \in 1 .. N : p[k] \in W
      OBVIOUS
    <2>6. CASE i = N + 1
      <3>1. f[i] = <<>>
        BY <1>1, <2>2, <2>4, <2>6, FormatAtEnd
      <3> QED BY <2>2, <3>1
    <2>7. CASE Plain(p, i)
      <3>1. i \in 1 .. N
        BY <2>7 DEF Plain
      <3>2. f[i] = <<p[i]>> \o f[i + 1]
        BY <1>1, <2>4, <2>7, FormatAtPlain
      <3>3. f[i + 1] \in Seq(W)
        BY <2>3, <3>1, ScanGoesOn
      <3>4. <<p[i]>> \in Seq(W)
        BY <2>5, <3>1, OneSymbol
      <3> QED BY <2>2, <3>2, <3>3, <3>4, ConcatProperties
    <2>8. CASE Unclosed(p, i)
      <3>1. f[i] = SubSeq(p, i, N) /\ i \in 1 .. N
        BY <1>1, <2>2, <2>4, <2>8, FormatAtUnclosed DEF Unclosed
      <3>2. \A k \in i .. N : k \in 1 .. N
        BY <1>1, <3>1
      <3> QED BY <1>1, <2>2, <2>5, <3>1, <3>2, SubSeqProperties
    <2>9. CASE Closed(p, i)
      <3>1. f[i] = Rendered(TokenAt(p, i), r) \o f[CloseAfter(p, i) + 1] /\ i \in 1 .. N
        BY <1>1, <2>2, <2>4, <2>9, FormatAtClosed DEF Closed
      <3>2. f[CloseAfter(p, i) + 1] \in Seq(W)
        BY <2>3, <2>9, <3>1, ScanGoesOn
      <3>3. Rendered(TokenAt(p, i), r) \in Seq(W)
        BY <2>9, RenderedType
      <3> QED BY <2>2, <3>1, <3>2, <3>3, ConcatProperties
    <2> QED BY <2>2, <2>6, <2>7, <2>8, <2>9, ScanCases
  <1> QED BY <1>2

LEMMA FormatType ==
  ASSUME NEW W, NEW p \in Seq(W), NEW r \in [Fields -> Seq(W)]
  PROVE  Format(p, r) \in Seq(W)
  <1>1. PICK f : /\ Format(p, r) = f[1]
                 /\ \A i \in 1 .. Len(p) + 1 : f[i] = FormatStep(p, r, i, f)
    BY FormatScan
  <1>2. 1 \in 1 .. Len(p) + 1
    OBVIOUS
  <1> QED BY <1>1, <1>2, FormatTypes

Shows(text) == \E k \in 1 .. Len(text) : text[k] = "shown"

\* The record that shows where one field is rendered.
Showing(f) == [g \in Fields |-> IF g = f THEN <<"shown">> ELSE <<>>]

LEMMA ShowsOfConcat ==
  ASSUME NEW W, NEW a \in Seq(W), NEW b \in Seq(W)
  PROVE  Shows(a \o b) <=> Shows(a) \/ Shows(b)
  <1>1. /\ Len(a) \in Nat /\ Len(b) \in Nat /\ Len(a \o b) = Len(a) + Len(b)
        /\ \A k \in 1 .. Len(a) : (a \o b)[k] = a[k]
        /\ \A k \in 1 .. Len(b) : (a \o b)[Len(a) + k] = b[k]
    BY ConcatIs
  <1>2. /\ \A k \in 1 .. Len(a) : k \in 1 .. Len(a) + Len(b)
        /\ \A k \in 1 .. Len(b) : Len(a) + k \in 1 .. Len(a) + Len(b)
        /\ \A k \in 1 .. Len(a) + Len(b) :
             k \in 1 .. Len(a) \/ \E m \in 1 .. Len(b) : k = Len(a) + m
    <2>1. \A k \in 1 .. Len(a) + Len(b) :
            k \in 1 .. Len(a) \/ (k - Len(a) \in 1 .. Len(b) /\ k = Len(a) + (k - Len(a)))
      BY <1>1
    <2>2. /\ \A k \in 1 .. Len(a) : k \in 1 .. Len(a) + Len(b)
          /\ \A k \in 1 .. Len(b) : Len(a) + k \in 1 .. Len(a) + Len(b)
      BY <1>1
    <2> QED BY <2>1, <2>2, Zenon
  <1>3. Shows(a) \/ Shows(b) => Shows(a \o b)
    BY <1>1, <1>2 DEF Shows
  <1>4. ASSUME Shows(a \o b) PROVE Shows(a) \/ Shows(b)
    <2>1. PICK k \in 1 .. Len(a) + Len(b) : (a \o b)[k] = "shown"
      BY <1>1, <1>4 DEF Shows
    <2> QED BY <1>1, <1>2, <2>1 DEF Shows
  <1> QED BY <1>3, <1>4

\* A text without the symbol, and what is cut from it.
LEMMA NothingShown ==
  /\ ~Shows(<<>>)
  /\ \A x \in Symbols : ~Shows(<<x>>)
  /\ \A text \in Seq(Symbols) : ~Shows(text)
  <1>1. "shown" \notin Symbols
    BY DEF Symbols, WordSymbols, Fields
  <1>2. ~Shows(<<>>)
    BY DEF Shows
  <1>3. ASSUME NEW text \in Seq(Symbols) PROVE ~Shows(text)
    <2>1. \A k \in 1 .. Len(text) : text[k] \in Symbols
      OBVIOUS
    <2> QED BY <1>1, <2>1, Zenon DEF Shows
  <1>4. \A x \in Symbols : ~Shows(<<x>>)
    BY <1>3, OneSymbol
  <1> QED BY <1>2, <1>3, <1>4

\* At a token: it is shown where it is the field's, and nowhere else.
LEMMA ShownAtToken ==
  ASSUME NEW p \in Seq(Symbols), NEW f \in Fields, NEW i, Closed(p, i)
  PROVE  /\ Shows(Rendered(TokenAt(p, i), Showing(f))) <=> TokenAt(p, i) = <<f>>
         /\ TokenAt(p, i) = <<f>> => IsName(TokenAt(p, i))
  <1> DEFINE token == TokenAt(p, i)
  <1>1. "{" \in Symbols /\ "}" \in Symbols /\ token \in Seq(Symbols)
    <2>1. [g \in Fields |-> <<>>] \in [Fields -> Seq(Symbols)]
      OBVIOUS
    <2> QED BY <2>1, RenderedType
  <1> HIDE DEF token
  <1>2. ASSUME NEW g \in Fields, token = <<g>>
        PROVE  Shows(Rendered(token, Showing(f))) <=> g = f
    <2>1. Rendered(token, Showing(f)) = Showing(f)[g]
      <3>1. token[1] = g
        BY <1>2
      <3> QED BY <1>2, <3>1 DEF Rendered
    <2>2. Showing(f)[g] = IF g = f THEN <<"shown">> ELSE <<>>
      BY DEF Showing
    <2>3. Shows(<<"shown">>)
      BY DEF Shows
    <2> QED BY <2>1, <2>2, <2>3, NothingShown
  <1>3. ASSUME \A g \in Fields : token # <<g>>
        PROVE  ~Shows(Rendered(token, Showing(f)))
    <2>1. Rendered(token, Showing(f)) = <<"{">> \o token \o <<"}">>
      BY <1>3 DEF Rendered
    <2>2. <<"{">> \in Seq(Symbols) /\ <<"}">> \in Seq(Symbols)
      BY <1>1, OneSymbol
    <2>3. <<"{">> \o token \in Seq(Symbols)
      BY <1>1, <2>2, ConcatProperties
    <2>4. <<"{">> \o token \o <<"}">> \in Seq(Symbols)
      BY <2>2, <2>3, ConcatProperties
    <2> QED BY <2>1, <2>4, NothingShown
  <1>4. \A g : <<g>> = <<f>> <=> g = f
    OBVIOUS
  <1>5. Shows(Rendered(token, Showing(f))) <=> token = <<f>>
    <2>1. CASE \E g \in Fields : token = <<g>>
      BY <1>2, <1>4, <2>1
    <2>2. CASE \A g \in Fields : token # <<g>>
      BY <1>3, <2>2
    <2> QED BY <2>1, <2>2
  <1>6. token = <<f>> => IsName(token)
    <2>1. <<f>> # <<>> /\ DOMAIN <<f>> = {1} /\ <<f>>[1] = f
      OBVIOUS
    <2>2. f \in WordSymbols
      BY DEF WordSymbols
    <2> QED BY <2>1, <2>2 DEF IsName
  <1> QED BY <1>5, <1>6 DEF token

LEMMA ShowingType ==
  ASSUME NEW p \in Seq(Symbols), NEW f
  PROVE  /\ p \in Seq(Symbols \cup {"shown"})
         /\ Showing(f) \in [Fields -> Seq(Symbols \cup {"shown"})]
  <1>1. <<"shown">> \in Seq(Symbols \cup {"shown"}) /\ <<>> \in Seq(Symbols \cup {"shown"})
    BY OneSymbol
  <1>2. Showing(f) \in [Fields -> Seq(Symbols \cup {"shown"})]
    BY <1>1 DEF Showing
  <1> QED BY <1>2

\* The two scans agree from every position on.
LEMMA ScansAgree ==
  ASSUME NEW p \in Seq(Symbols), NEW f \in Fields
  PROVE  <<f>> \in ExtractTokens(p) <=> Shows(Format(p, Showing(f)))
  <1> DEFINE N == Len(p)
             W == Symbols \cup {"shown"}
  <1>1. p \in Seq(W) /\ Showing(f) \in [Fields -> Seq(W)]
    BY ShowingType
  <1> HIDE DEF W
  <1>2. PICK s : /\ Format(p, Showing(f)) = s[1]
                 /\ \A i \in 1 .. N + 1 : s[i] = FormatStep(p, Showing(f), i, s)
    BY FormatScan
  <1>3. PICK t : /\ ExtractTokens(p) = t[1]
                 /\ \A i \in 1 .. N + 1 : t[i] = ExtractStep(p, i, t)
    BY ExtractScan
  <1>4. \A i \in 1 .. N + 1 : s[i] \in Seq(W)
    BY <1>1, <1>2, FormatTypes
  <1>5. N \in Nat /\ N + 1 \in Nat
    OBVIOUS
  <1> DEFINE T == { i \in 1 .. N + 1 : ~(<<f>> \in t[i] <=> Shows(s[i])) }
  <1>6. ASSUME T # {} PROVE FALSE
    <2>1. PICK i \in T : \A j \in i + 1 .. N + 1 : j \notin T
      <3>1. T \in SUBSET (1 .. N + 1)
        OBVIOUS
      <3> HIDE DEF T, N
      <3> QED BY <1>5, <1>6, <3>1, LastPosition
    <2>2. i \in 1 .. N + 1 /\ ~(<<f>> \in t[i] <=> Shows(s[i]))
      OBVIOUS
    <2>3. \A j \in i + 1 .. N + 1 : (<<f>> \in t[j] <=> Shows(s[j])) /\ s[j] \in Seq(W)
      <3>1. \A j \in i + 1 .. N + 1 : j \in 1 .. N + 1
        BY <1>5, <2>2
      <3>2. \A j \in i + 1 .. N + 1 : s[j] \in Seq(W)
        BY ONLY <1>4, <3>1
      <3>3. \A j \in i + 1 .. N + 1 : <<f>> \in t[j] <=> Shows(s[j])
        BY <2>1, <3>1
      <3> QED BY ONLY <3>2, <3>3
    <2> HIDE DEF T
    <2>4. s[i] = FormatStep(p, Showing(f), i, s) /\ t[i] = ExtractStep(p, i, t)
      BY <1>2, <1>3, <2>2
    <2>5. CASE i = N + 1
      <3>1. s[i] = <<>> /\ t[i] = {}
        BY <1>5, <2>4, <2>5, FormatAtEnd, ExtractAtEnd
      <3> QED BY <2>2, <3>1, NothingShown
    <2>6. CASE Plain(p, i)
      <3>0. s[i] = <<p[i]>> \o s[i + 1]
        <4>1. FormatStep(p, Showing(f), i, s) = <<p[i]>> \o s[i + 1]
          BY ONLY <1>5, <2>6, FormatAtPlain
        <4> QED BY ONLY <2>4, <4>1
      <3>1. t[i] = t[i + 1]
        BY <1>5, <2>4, <2>6, ExtractAtPlain
      <3>2. i \in 1 .. N
        BY <2>6 DEF Plain
      <3>3. p[i] \in Symbols
        BY <3>2
      <3>4. <<p[i]>> \in Seq(W) /\ ~Shows(<<p[i]>>)
        BY <3>3, OneSymbol, NothingShown DEF W
      <3>5. i + 1 \in i + 1 .. N + 1
        BY <3>2, ScanGoesOn
      <3>6. Shows(s[i]) <=> Shows(s[i + 1])
        <4>1. s[i + 1] \in Seq(W)
          BY <2>3, <3>5
        <4>2. Shows(<<p[i]>> \o s[i + 1]) <=> Shows(<<p[i]>>) \/ Shows(s[i + 1])
          BY <3>4, <4>1, ShowsOfConcat
        <4> QED BY <3>0, <3>4, <4>2
      <3> QED BY <2>2, <2>3, <3>1, <3>5, <3>6
    <2>7. CASE Unclosed(p, i)
      <3>1. s[i] = SubSeq(p, i, N) /\ t[i] = {}
        BY <1>5, <2>4, <2>7, FormatAtUnclosed, ExtractAtUnclosed
      <3>2. i \in 1 .. N
        BY <2>7 DEF Unclosed
      <3>3. \A k \in i .. N : k \in 1 .. N
        BY <1>5, <3>2
      <3>4. \A k \in 1 .. N : p[k] \in Symbols
        OBVIOUS
      <3>5. SubSeq(p, i, N) \in Seq(Symbols)
        BY <1>5, <3>2, <3>3, <3>4, SubSeqProperties
      <3> QED BY <2>2, <3>1, <3>5, NothingShown
    <2>8. CASE Closed(p, i)
      <3> DEFINE c == CloseAfter(p, i)
                 token == TokenAt(p, i)
                 text == Rendered(token, Showing(f))
      <3>1. /\ s[i] = text \o s[c + 1]
            /\ t[i] = (IF IsName(token) THEN {token} ELSE {}) \cup t[c + 1]
        BY <1>5, <2>4, <2>8, FormatAtClosed, ExtractAtClosed
      <3>2. i \in 1 .. N
        BY <2>8 DEF Closed
      <3>3. c + 1 \in i + 1 .. N + 1
        BY <2>8, <3>2, ScanGoesOn
      <3>4. text \in Seq(W)
        BY <1>1, <2>8, RenderedType
      <3>5. (Shows(text) <=> token = <<f>>) /\ (token = <<f>> => IsName(token))
        BY <2>8, ShownAtToken
      <3>6. (<<f>> \in t[c + 1] <=> Shows(s[c + 1])) /\ s[c + 1] \in Seq(W)
        BY <2>3, <3>3
      <3> HIDE DEF c, token, text
      <3>7. Shows(s[i]) <=> token = <<f>> \/ Shows(s[c + 1])
        BY <3>1, <3>4, <3>5, <3>6, ShowsOfConcat
      <3>8. <<f>> \in t[i] <=> token = <<f>> \/ <<f>> \in t[c + 1]
        BY <3>1, <3>5, Zenon
      <3> QED BY <2>2, <3>6, <3>7, <3>8
    <2> QED BY <2>2, <2>5, <2>6, <2>7, <2>8, ScanCases
  <1>7. 1 \in 1 .. N + 1
    BY <1>5
  <1> QED BY <1>2, <1>3, <1>6, <1>7

FormatterInv == pattern \in Patterns \cup {NoPattern} /\ (required => MetRequirementHolds(pattern))

LEMMA FormatterInvariance == Spec => []FormatterInv
  <1>1. Init => FormatterInv
    BY DEF Init, FormatterInv
  <1>2. FormatterInv /\ [Next]_vars => FormatterInv'
    <2> SUFFICES ASSUME FormatterInv, [Next]_vars PROVE FormatterInv'
      OBVIOUS
    <2>1. CASE \E p \in Patterns, requireMet \in BOOLEAN : BuildFormatter(p, requireMet)
      BY <2>1 DEF FormatterInv, BuildFormatter
    <2>2. CASE UNCHANGED <<pattern, required>>
      BY <2>2 DEF FormatterInv
    <2>3. [Next]_vars => \/ \E p \in Patterns, requireMet \in BOOLEAN : BuildFormatter(p, requireMet)
                         \/ UNCHANGED <<pattern, required>>
      BY DEF Next, vars, Construct, CallWrite, Lock, Fwrite, FwriteFails
    <2> QED BY <2>1, <2>2, <2>3
  <1> QED BY <1>1, <1>2, PTL DEF Spec

\* Nothing of a pattern is lost by format(), however long the pattern and whatever
\* braces it opens, nests or leaves open: with every field rendered as its token,
\* format() gives the pattern back.
THEOREM FormatKeepsPattern == Spec => []FormatLosesNothing
  <1>1. ASSUME FormatterInv PROVE FormatLosesNothing
    <2> SUFFICES ASSUME pattern # NoPattern
                 PROVE  Format(pattern, [f \in Fields |-> <<"{", f, "}">>]) = pattern
      BY DEF FormatLosesNothing
    <2>1. pattern \in Seq(Symbols)
      BY <1>1, ConsoleAssumption DEF FormatterInv
    <2> QED BY <2>1, FormatIsIdentity DEF Identity
  <1> QED BY <1>1, FormatterInvariance, PTL

\* For patterns of any length the constructor's scan and that of format() find the
\* same known fields, so a formatter that was built with require_met_token has the
\* mission elapsed time in every line.
THEOREM ScannersFindSameFields == Spec => []TokensAreRendered
  <1>1. ASSUME FormatterInv PROVE TokensAreRendered
    <2> DEFINE contains(f) ==
          "shown" \in ToSet(Format(pattern, [g \in Fields |-> IF g = f THEN <<"shown">> ELSE <<>>]))
    <2> SUFFICES ASSUME pattern # NoPattern
                 PROVE  /\ \A f \in Fields : <<f>> \in ExtractTokens(pattern) <=> contains(f)
                        /\ required => contains("met")
      BY DEF TokensAreRendered
    <2>1. pattern \in Seq(Symbols)
      BY <1>1, ConsoleAssumption DEF FormatterInv
    <2>2. ASSUME NEW f \in Fields PROVE <<f>> \in ExtractTokens(pattern) <=> contains(f)
      <3> DEFINE text == Format(pattern, Showing(f))
      <3>1. text \in Seq(Symbols \cup {"shown"})
        BY <2>1, ShowingType, FormatType
      <3>2. contains(f) <=> "shown" \in ToSet(text)
        BY DEF Showing
      <3> HIDE DEF text
      <3>3. DOMAIN text = 1 .. Len(text)
        BY <3>1, LenProperties
      <3>4. "shown" \in ToSet(text) <=> Shows(text)
        BY <3>3 DEF ToSet, Shows
      <3>5. <<f>> \in ExtractTokens(pattern) <=> Shows(text)
        BY <2>1, ScansAgree DEF text
      <3> QED BY <3>2, <3>4, <3>5
    <2>3. required => <<"met">> \in ExtractTokens(pattern)
      BY <1>1 DEF FormatterInv, MetRequirementHolds
    <2>4. "met" \in Fields
      BY DEF Fields
    <2> HIDE DEF contains
    <2> QED BY <2>2, <2>3, <2>4
  <1> QED BY <1>1, FormatterInvariance, PTL
-----------------------------------------------------------------------------
(* Texts and the pieces of a line. *)

LineTexts(patterns) ==
  { Format(p, Record(level, msg)) : p \in patterns, level \in RecordLevels, msg \in Messages }

ColorTexts == { <<c>> : c \in Colors }

Texts == LineTexts(ConsolePatterns) \cup ColorTexts \cup {<<"part">>, <<"\n">>, <<"reset">>, <<>>}

Entries == [id : Nat, sink : Consoles, text : Texts]

Calls == [id : Nat, sink : Consoles \cup {Nobody}, level : RecordLevels \cup {"INFO"}, line : Texts]

Terminated(text) == text # <<>> /\ Last(text) = "\n"

\* The newline is among these pieces, and only the reset comes after it.
NewlineDue(pieces) ==
  \E m \in 1 .. Len(pieces) :
    /\ Terminated(pieces[m])
    /\ \A i \in m + 1 .. Len(pieces) : pieces[i] = <<"reset">>

\* A colour among these pieces is reset by the last of them.
ResetDue(pieces) == pieces # <<>> /\ pieces[Len(pieces)] = <<"reset">>

LEMMA AnsiPrefixIs ==
  ASSUME NEW level \in RecordLevels \cup {"INFO"}
  PROVE  AnsiPrefixFor(level) = "none" \/ AnsiPrefixFor(level) \in Colors
  BY ConsoleAssumption DEF AnsiPrefixFor, Colors

\* The pieces of a line: the prefix, the line with its newline, the reset.
LEMMA PiecesAre ==
  ASSUME NEW k, NEW level \in RecordLevels \cup {"INFO"}, NEW line \in Texts
  PROVE  /\ Pieces(k, level, line) \in Seq(Texts) /\ Pieces(k, level, line) # <<>>
         /\ NewlineDue(Pieces(k, level, line))
         /\ line \notin ColorTexts => \A i \in 1 .. Len(Pieces(k, level, line)) :
              Pieces(k, level, line)[i] \in ColorTexts => ResetDue(Pieces(k, level, line))
  <1> DEFINE A == IF ShouldColorize(k) /\ AnsiPrefixFor(level) # "none"
                  THEN <<<<AnsiPrefixFor(level)>>>> ELSE <<>>
             N == IF NeedsNewline(line) THEN <<<<"\n">>>> ELSE <<>>
             R == IF ShouldColorize(k) THEN <<<<"reset">>>> ELSE <<>>
             B == <<line>>
             P == Pieces(k, level, line)
  <1>1. /\ <<"\n">> \in Texts /\ <<"reset">> \in Texts
        /\ AnsiPrefixFor(level) # "none" => <<AnsiPrefixFor(level)>> \in Texts
    BY AnsiPrefixIs DEF Texts, ColorTexts
  <1>2. /\ A \in Seq(Texts) /\ N \in Seq(Texts) /\ R \in Seq(Texts) /\ B \in Seq(Texts)
    BY <1>1
  <1>3. P = ((A \o B) \o N) \o R
    BY DEF Pieces
  <1>4. /\ Len(A) \in {0, 1} /\ Len(B) = 1 /\ B[1] = line
        /\ Len(A) = 1 => ShouldColorize(k)
        /\ Len(N) = (IF NeedsNewline(line) THEN 1 ELSE 0) /\ (NeedsNewline(line) => N[1] = <<"\n">>)
        /\ Len(R) = (IF ShouldColorize(k) THEN 1 ELSE 0) /\ (ShouldColorize(k) => R[1] = <<"reset">>)
    OBVIOUS
  <1>5. NeedsNewline(line) \/ Terminated(line)
    BY DEF NeedsNewline, Terminated
  <1>6. Terminated(<<"\n">>)
    BY DEF Terminated, Last
  <1>7. \A c \in Colors : c # "\n" /\ c # "reset"
    BY DEF Colors
  <1>8. <<"\n">> \notin ColorTexts /\ <<"reset">> \notin ColorTexts
    BY <1>7 DEF ColorTexts
  <1> HIDE DEF A, N, R, B, P
  <1> DEFINE AB == A \o B
             ABN == AB \o N
  <1>9. /\ AB \in Seq(Texts) /\ Len(AB) = Len(A) + 1 /\ AB[Len(A) + 1] = line
        /\ \A i \in 1 .. Len(A) : AB[i] = A[i]
    BY <1>2, <1>4, ConcatIs
  <1> HIDE DEF AB
  <1>10. /\ ABN \in Seq(Texts) /\ Len(ABN) = Len(AB) + Len(N)
         /\ \A i \in 1 .. Len(AB) : ABN[i] = AB[i]
         /\ \A i \in 1 .. Len(N) : ABN[Len(AB) + i] = N[i]
    <2>1. AB \in Seq(Texts) /\ N \in Seq(Texts)
      BY <1>2, <1>9
    <2> QED BY ONLY <2>1, ConcatIs
  <1> HIDE DEF ABN
  <1>11. /\ P \in Seq(Texts) /\ Len(P) = Len(ABN) + Len(R)
         /\ \A i \in 1 .. Len(ABN) : P[i] = ABN[i]
         /\ \A i \in 1 .. Len(R) : P[Len(ABN) + i] = R[i]
    BY <1>2, <1>3, <1>10, ConcatIs DEF AB, ABN
  <1>12. Len(ABN) \in 1 .. Len(P) /\ P # <<>> /\ Len(P) \in Nat
    <2>1. Len(ABN) >= 1 /\ Len(P) >= Len(ABN) /\ Len(ABN) \in Nat /\ Len(P) \in Nat
      BY <1>4, <1>9, <1>10, <1>11
    <2>2. P # <<>>
      BY <1>11, <2>1, EmptySeq
    <2> QED BY <2>1, <2>2
  <1>13. NewlineDue(P)
    <2>1. Terminated(P[Len(ABN)])
      <3>1. CASE NeedsNewline(line)
        <4>1. Len(N) = 1 /\ 1 \in 1 .. Len(N) /\ Len(ABN) = Len(AB) + 1
          BY <1>4, <1>10, <3>1
        <4>2. ABN[Len(ABN)] = <<"\n">>
          BY <1>4, <1>10, <3>1, <4>1
        <4>3. Len(ABN) \in 1 .. Len(ABN)
          BY <1>12
        <4> QED BY <1>6, <1>11, <4>2, <4>3
      <3>2. CASE ~NeedsNewline(line)
        <4>1. Len(ABN) = Len(AB) /\ Len(AB) \in 1 .. Len(AB) /\ Len(AB) = Len(A) + 1
          BY <1>4, <1>9, <1>10, <3>2
        <4>2. ABN[Len(ABN)] = line
          BY <1>9, <1>10, <4>1
        <4>3. Len(ABN) \in 1 .. Len(ABN)
          BY <1>12
        <4> QED BY <1>5, <1>11, <3>2, <4>2, <4>3
      <3> QED BY <3>1, <3>2
    <2>2. ASSUME NEW i \in Len(ABN) + 1 .. Len(P) PROVE P[i] = <<"reset">>
      <3>1. ShouldColorize(k) /\ i = Len(ABN) + 1 /\ 1 \in 1 .. Len(R)
        BY <1>4, <1>11, <1>12
      <3> QED BY <1>4, <1>11, <3>1
    <2> QED BY <1>12, <2>1, <2>2 DEF NewlineDue
  <1>14. ASSUME line \notin ColorTexts, NEW i \in 1 .. Len(P), P[i] \in ColorTexts PROVE ResetDue(P)
    <2>1. ShouldColorize(k)
      <3>1. SUFFICES ASSUME ~ShouldColorize(k) PROVE FALSE
        OBVIOUS
      <3>2. Len(A) = 0 /\ Len(R) = 0
        BY <1>4, <3>1
      <3>3. Len(P) = 1 + Len(N) /\ Len(AB) = 1 /\ Len(ABN) = Len(P)
        BY <1>4, <1>9, <1>10, <1>11, <3>2
      <3>4. i = 1 \/ (NeedsNewline(line) /\ i = Len(AB) + 1 /\ 1 \in 1 .. Len(N))
        BY <1>4, <3>3
      <3>5. P[1] = line
        <4>1. 1 \in 1 .. Len(AB) /\ 1 \in 1 .. Len(ABN) /\ 1 = Len(A) + 1
          BY <1>12, <3>2, <3>3
        <4> QED BY <1>9, <1>10, <1>11, <4>1
      <3>6. (NeedsNewline(line) /\ i = Len(AB) + 1 /\ 1 \in 1 .. Len(N)) => P[i] = <<"\n">>
        BY <1>4, <1>10, <1>11, <3>3
      <3> QED BY <1>8, <1>14, <3>4, <3>5, <3>6
    <2>2. Len(P) = Len(ABN) + 1 /\ 1 \in 1 .. Len(R) /\ R[1] = <<"reset">>
      BY <1>4, <1>11, <2>1
    <2> QED BY <1>11, <1>12, <2>2 DEF ResetDue
  <1> QED BY <1>11, <1>12, <1>13, <1>14 DEF P
-----------------------------------------------------------------------------
(* The calls and the stream. *)

ConsoleTypes ==
  /\ pattern \in Patterns \cup {NoPattern}
  /\ (\E k \in Consoles : colorMode[k] # "unbuilt") => pattern \in ConsolePatterns
  /\ colorMode \in [Consoles -> ColorModes \cup {"unbuilt"}]
  /\ mu \in [Consoles -> Threads \cup {Nobody}]
  /\ pc \in [Threads -> {"idle", "lock", "write"}]
  /\ call \in [Threads -> Calls]
  /\ todo \in [Threads -> Seq(Texts)]
  /\ stream \in Seq(Entries)
  /\ lastCall \in Nat
  /\ \A t \in Threads : pc[t] # "idle" => call[t].line \in LineTexts(ConsolePatterns)

\* A call has a number of its own, and no piece of it is written before it has the
\* mutex of its sink.
CallsOK ==
  /\ \A t \in Threads : pc[t] # "idle" => call[t].id \in 1 .. lastCall /\ call[t].sink \in Consoles
  /\ \A t \in Threads : pc[t] = "idle" => call[t].id = 0
  /\ \A t, u \in Threads : t # u /\ pc[t] # "idle" => call[t].id # call[u].id
  /\ \A i \in 1 .. Len(stream) : stream[i].id \in 1 .. lastCall
  /\ \A t \in Threads : pc[t] = "lock" => \A i \in 1 .. Len(stream) : stream[i].id # call[t].id
  /\ \A t \in Threads : pc[t] = "write" => mu[call[t].sink] = t /\ todo[t] # <<>>

ConsoleInv == ConsoleTypes /\ CallsOK

LEMMA ConsoleAtStart ==
  ASSUME Init
  PROVE  ConsoleInv
  <1>1. /\ pattern = NoPattern /\ colorMode = [k \in Consoles |-> "unbuilt"]
        /\ mu = [k \in Consoles |-> Nobody] /\ pc = [t \in Threads |-> "idle"]
        /\ call = [t \in Threads |-> NoCall] /\ todo = [t \in Threads |-> <<>>]
        /\ stream = <<>> /\ lastCall = 0
    BY DEF Init
  <1>2. NoCall \in Calls /\ NoCall.id = 0
    BY DEF NoCall, Calls, Texts
  <1>3. ConsoleTypes
    BY <1>1, <1>2 DEF ConsoleTypes
  <1>4. CallsOK
    BY <1>1, <1>2 DEF CallsOK
  <1> QED BY <1>3, <1>4 DEF ConsoleInv

\* The kinds of steps.
Settles == UNCHANGED <<mu, pc, call, todo, stream, lastCall, thrown>>

Begins(t) ==
  /\ pc[t] = "idle" /\ lastCall' = lastCall + 1
  /\ pc' = [pc EXCEPT ![t] = "lock"]
  /\ \E e \in Calls :
       /\ call' = [call EXCEPT ![t] = e]
       /\ e.id = lastCall + 1 /\ e.sink \in Consoles /\ e.line \in LineTexts(ConsolePatterns)
  /\ UNCHANGED <<mu, todo, stream, thrown>>

Locks(t) ==
  /\ pc[t] = "lock" /\ mu[call[t].sink] = Nobody
  /\ mu' = [mu EXCEPT ![call[t].sink] = t]
  /\ pc' = [pc EXCEPT ![t] = "write"]
  /\ \E pieces \in Seq(Texts) :
       /\ todo' = [todo EXCEPT ![t] = pieces]
       /\ pieces # <<>> /\ NewlineDue(pieces)
       /\ call[t].line \notin ColorTexts =>
            \A i \in 1 .. Len(pieces) : pieces[i] \in ColorTexts => ResetDue(pieces)
  /\ UNCHANGED <<call, stream, lastCall, thrown>>

\* A piece is written and the call goes on.
Writes(t) ==
  /\ pc[t] = "write" /\ Len(todo[t]) > 1
  /\ stream' = Written(t, Head(todo[t]))
  /\ todo' = [todo EXCEPT ![t] = Tail(todo[t])]
  /\ UNCHANGED <<mu, pc, call, lastCall, thrown>>

Leaves(t) ==
  /\ pc[t] = "write"
  /\ mu' = [mu EXCEPT ![call[t].sink] = Nobody]
  /\ pc' = [pc EXCEPT ![t] = "idle"]
  /\ call' = [call EXCEPT ![t] = NoCall]
  /\ todo' = [todo EXCEPT ![t] = <<>>]
  /\ UNCHANGED lastCall

\* The last piece is written.
Finishes(t) ==
  /\ Leaves(t) /\ Len(todo[t]) = 1
  /\ stream' = Written(t, Head(todo[t]))
  /\ UNCHANGED thrown

\* A piece is not written, or not all of it.
Breaks(t) ==
  /\ Leaves(t)
  /\ stream' = stream \/ stream' = Written(t, <<"part">>)
  /\ thrown' = thrown \cup {call[t].id}

ConsoleStep ==
  \/ Settles
  \/ \E t \in Threads : Begins(t) \/ Locks(t) \/ Writes(t) \/ Finishes(t) \/ Breaks(t)

LEMMA StepsOfConsoles ==
  ASSUME ConsoleInv, [Next]_vars
  PROVE  ConsoleStep
  <1>0. /\ call \in [Threads -> Calls] /\ todo \in [Threads -> Seq(Texts)] /\ lastCall \in Nat
        /\ pattern \in Patterns \cup {NoPattern}
    BY DEF ConsoleInv, ConsoleTypes
  <1>1. CASE UNCHANGED vars
    BY <1>1 DEF vars, ConsoleStep, Settles
  <1>2. ASSUME NEW p, NEW requireMet, BuildFormatter(p, requireMet) PROVE ConsoleStep
    BY <1>2 DEF BuildFormatter, ConsoleStep, Settles
  <1>3. ASSUME NEW k, NEW mode, Construct(k, mode) PROVE ConsoleStep
    BY <1>3 DEF Construct, ConsoleStep, Settles
  <1>4. ASSUME NEW t \in Threads, NEW k \in Consoles, NEW level \in RecordLevels, NEW msg \in Messages,
               CallWrite(t, k, level, msg)
        PROVE  ConsoleStep
    <2> DEFINE ln == Format(pattern, Record(level, msg))
               e == [id |-> lastCall + 1, sink |-> k, level |-> level, line |-> ln]
    <2>1. pattern \in ConsolePatterns
      BY <1>4 DEF CallWrite, ConsoleInv, ConsoleTypes
    <2>2. ln \in LineTexts(ConsolePatterns)
      BY <2>1 DEF LineTexts
    <2>3. ln \in Texts
      BY <2>2 DEF Texts
    <2>4. call' = [call EXCEPT ![t] = e]
      BY <1>4 DEF CallWrite
    <2> HIDE DEF ln
    <2>5. e \in Calls /\ e.id = lastCall + 1 /\ e.sink \in Consoles /\ e.line = ln
      BY <1>0, <2>3 DEF Calls
    <2> HIDE DEF e
    <2>6. Begins(t)
      BY <1>4, <2>2, <2>4, <2>5 DEF CallWrite, Begins
    <2> QED BY <2>6 DEF ConsoleStep
  <1>5. ASSUME NEW t \in Threads, Lock(t) PROVE ConsoleStep
    <2>1. call[t].level \in RecordLevels \cup {"INFO"} /\ call[t].line \in Texts
      BY <1>0 DEF Calls
    <2> DEFINE pieces == Pieces(call[t].sink, call[t].level, call[t].line)
    <2>2. /\ pieces \in Seq(Texts) /\ pieces # <<>> /\ NewlineDue(pieces)
          /\ call[t].line \notin ColorTexts =>
               \A i \in 1 .. Len(pieces) : pieces[i] \in ColorTexts => ResetDue(pieces)
      BY <2>1, PiecesAre
    <2>3. todo' = [todo EXCEPT ![t] = pieces]
      BY <1>5 DEF Lock
    <2> HIDE DEF pieces
    <2>4. Locks(t)
      BY <1>5, <2>2, <2>3 DEF Lock, Locks
    <2> QED BY <2>4 DEF ConsoleStep
  <1>6. ASSUME NEW t \in Threads, Fwrite(t) PROVE ConsoleStep
    <2>1. /\ pc[t] = "write" /\ stream' = Written(t, Head(todo[t]))
          /\ todo' = [todo EXCEPT ![t] = Tail(todo[t])]
          /\ UNCHANGED <<lastCall, thrown>>
      BY <1>6 DEF Fwrite
    <2>2. todo[t] \in Seq(Texts) /\ todo[t] # <<>>
      BY <1>0, <2>1 DEF ConsoleInv, CallsOK
    <2>3. Len(todo[t]) \in Nat \ {0} /\ (Len(todo[t]) = 1 => Tail(todo[t]) = <<>>)
      <3>1. Len(todo[t]) \in Nat \ {0} /\ Tail(todo[t]) \in Seq(Texts)
            /\ Len(Tail(todo[t])) = Len(todo[t]) - 1
        BY <2>2, EmptySeq, HeadTailProperties
      <3>2. Tail(todo[t]) # <<>> => Len(Tail(todo[t])) \in Nat \ {0}
        BY <3>1, EmptySeq
      <3>3. Len(todo[t]) = 1 => Len(Tail(todo[t])) = 0
        BY <3>1
      <3> QED BY <3>1, <3>2, <3>3
    <2>4. CASE Len(todo[t]) = 1
      <3>1. Finishes(t)
        BY <1>6, <2>1, <2>3, <2>4 DEF Fwrite, Finishes, Leaves
      <3> QED BY <3>1 DEF ConsoleStep
    <2>5. CASE Len(todo[t]) # 1
      <3>1. Len(todo[t]) > 1
        <4>1. \A n \in Nat \ {0} : n # 1 => n > 1
          OBVIOUS
        <4> QED BY <2>3, <2>5, <4>1, Zenon
      <3>2. UNCHANGED <<mu, pc, call>>
        BY <1>6, <2>5 DEF Fwrite
      <3>3. Writes(t)
        BY <2>1, <3>1, <3>2 DEF Writes
      <3> QED BY <3>3 DEF ConsoleStep
    <2> QED BY <2>4, <2>5
  <1>7. ASSUME NEW t \in Threads, NEW isPart, FwriteFails(t, isPart) PROVE ConsoleStep
    <2>1. Breaks(t)
      BY <1>7 DEF FwriteFails, Breaks, Leaves
    <2> QED BY <2>1 DEF ConsoleStep
  <1> QED BY <1>1, <1>2, <1>3, <1>4, <1>5, <1>6, <1>7 DEF Next

\* A piece joins the stream.
LEMMA WrittenIs ==
  ASSUME ConsoleInv, NEW t \in Threads, pc[t] = "write", NEW text \in Texts
  PROVE  /\ Written(t, text) \in Seq(Entries) /\ Len(stream) \in Nat
         /\ Len(Written(t, text)) = Len(stream) + 1
         /\ \A i \in 1 .. Len(stream) : Written(t, text)[i] = stream[i]
         /\ Written(t, text)[Len(stream) + 1].id = call[t].id
         /\ Written(t, text)[Len(stream) + 1].sink = call[t].sink
         /\ Written(t, text)[Len(stream) + 1].text = text
  <1> DEFINE e == [id |-> call[t].id, sink |-> call[t].sink, text |-> text]
  <1>1. call[t] \in Calls /\ call[t].sink \in Consoles /\ stream \in Seq(Entries)
    BY DEF ConsoleInv, ConsoleTypes, CallsOK
  <1>2. e \in Entries /\ e.id = call[t].id /\ e.sink = call[t].sink /\ e.text = text
    BY <1>1 DEF Entries, Calls
  <1> HIDE DEF e
  <1>3. /\ Append(stream, e) \in Seq(Entries) /\ Len(stream) \in Nat
        /\ Len(Append(stream, e)) = Len(stream) + 1
        /\ \A i \in 1 .. Len(stream) : Append(stream, e)[i] = stream[i]
        /\ Append(stream, e)[Len(stream) + 1] = e
    BY <1>1, <1>2, LenProperties, AppendProperties
  <1>4. Written(t, text) = Append(stream, e)
    BY DEF Written, e
  <1> QED BY <1>2, <1>3, <1>4

\* What the steps that write do to the stream.
Extends(t, out) ==
  /\ out \in Seq(Entries) /\ Len(stream) \in Nat /\ Len(out) = Len(stream) + 1
  /\ \A i \in 1 .. Len(stream) : out[i] = stream[i]
  /\ out[Len(stream) + 1].id = call[t].id
  /\ out[Len(stream) + 1].sink = call[t].sink

LEMMA StreamOfSteps ==
  ASSUME ConsoleInv, NEW t \in Threads, Writes(t) \/ Finishes(t) \/ Breaks(t)
  PROVE  /\ pc[t] = "write"
         /\ stream' = stream \/ Extends(t, stream')
         /\ (Writes(t) \/ Finishes(t)) =>
              /\ Extends(t, stream') /\ stream'[Len(stream) + 1].text = todo[t][1]
              /\ todo[t] \in Seq(Texts) /\ todo[t] # <<>> /\ Len(todo[t]) \in Nat \ {0}
         /\ Breaks(t) => \A i \in 1 .. Len(stream') :
              (i \in 1 .. Len(stream) /\ stream'[i] = stream[i]) \/ stream'[i].text = <<"part">>
  <1>1. pc[t] = "write" /\ todo[t] \in Seq(Texts) /\ todo[t] # <<>> /\ stream \in Seq(Entries)
    BY DEF Writes, Finishes, Breaks, Leaves, ConsoleInv, ConsoleTypes, CallsOK
  <1>2. Len(todo[t]) \in Nat \ {0} /\ Head(todo[t]) = todo[t][1] /\ Head(todo[t]) \in Texts
    BY <1>1, EmptySeq, HeadTailProperties
  <1>3. CASE Writes(t) \/ Finishes(t)
    <2>1. stream' = Written(t, Head(todo[t]))
      BY <1>3 DEF Writes, Finishes
    <2>2. Extends(t, stream') /\ stream'[Len(stream) + 1].text = Head(todo[t])
      BY <1>1, <1>2, <2>1, WrittenIs DEF Extends
    <2>3. ~Breaks(t) \/ \A i \in 1 .. Len(stream') :
              (i \in 1 .. Len(stream) /\ stream'[i] = stream[i]) \/ stream'[i].text = <<"part">>
      <3>1. ASSUME Breaks(t), stream' = Written(t, <<"part">>)
            PROVE  \A i \in 1 .. Len(stream') :
              (i \in 1 .. Len(stream) /\ stream'[i] = stream[i]) \/ stream'[i].text = <<"part">>
        <4>1. <<"part">> \in Texts
          BY DEF Texts
        <4> QED BY <1>1, <3>1, <4>1, WrittenIs
      <3>2. ASSUME Breaks(t), stream' = stream
            PROVE  \A i \in 1 .. Len(stream') : i \in 1 .. Len(stream) /\ stream'[i] = stream[i]
        BY <3>2
      <3> QED BY <3>1, <3>2 DEF Breaks
    <2> QED BY <1>1, <1>2, <2>2, <2>3
  <1>4. CASE Breaks(t) /\ ~Writes(t) /\ ~Finishes(t)
    <2>0. <<"part">> \in Texts
      BY DEF Texts
    <2>1. CASE stream' = stream
      BY <1>1, <1>4, <2>1
    <2>2. CASE stream' = Written(t, <<"part">>)
      <3>1. Extends(t, stream') /\ stream'[Len(stream) + 1].text = <<"part">>
        BY <1>1, <2>0, <2>2, WrittenIs DEF Extends
      <3>2. \A i \in 1 .. Len(stream') :
              (i \in 1 .. Len(stream) /\ stream'[i] = stream[i]) \/ stream'[i].text = <<"part">>
        <4>1. \A i \in 1 .. Len(stream') : i \in 1 .. Len(stream) \/ i = Len(stream) + 1
          BY <3>1 DEF Extends
        <4> QED BY <3>1, <4>1 DEF Extends
      <3> QED BY <1>1, <1>4, <3>1, <3>2
    <2> QED BY <1>4, <2>1, <2>2 DEF Breaks
  <1> QED BY <1>3, <1>4

\* The settings of formatter and sinks.
LEMMA SettingsStep ==
  ASSUME ConsoleTypes, [Next]_vars
  PROVE  /\ pattern' \in Patterns \cup {NoPattern}
         /\ (\E k \in Consoles : colorMode'[k] # "unbuilt") => pattern' \in ConsolePatterns
         /\ colorMode' \in [Consoles -> ColorModes \cup {"unbuilt"}]
  <1>0. /\ pattern \in Patterns \cup {NoPattern}
        /\ (\E k \in Consoles : colorMode[k] # "unbuilt") => pattern \in ConsolePatterns
        /\ colorMode \in [Consoles -> ColorModes \cup {"unbuilt"}]
    BY DEF ConsoleTypes
  <1>1. CASE UNCHANGED <<pattern, colorMode>>
    BY <1>0, <1>1
  <1>2. ASSUME pattern = NoPattern, NEW p \in Patterns, NEW requireMet, BuildFormatter(p, requireMet)
        PROVE  /\ pattern' \in Patterns /\ UNCHANGED colorMode
               /\ \A k \in Consoles : colorMode'[k] = "unbuilt"
    <2>1. NoPattern \notin ConsolePatterns
      <3>1. "none" \notin Symbols
        BY DEF Symbols, WordSymbols, Fields
      <3>2. <<"none">> \notin Seq(Symbols)
        BY <3>1
      <3> QED BY <3>2, ConsoleAssumption DEF NoPattern
    <2> QED BY <1>0, <1>2, <2>1 DEF BuildFormatter
  <1>3. ASSUME NEW k \in Consoles, NEW mode \in ColorModes, Construct(k, mode)
        PROVE  /\ pattern' \in ConsolePatterns /\ UNCHANGED pattern
               /\ colorMode' \in [Consoles -> ColorModes \cup {"unbuilt"}]
    BY <1>0, <1>3 DEF Construct
  <1>4. ASSUME NEW t \in Threads,
               \/ \E k \in Consoles, level \in RecordLevels, msg \in Messages : CallWrite(t, k, level, msg)
               \/ Lock(t)
               \/ Fwrite(t)
               \/ \E isPart \in BOOLEAN : FwriteFails(t, isPart)
        PROVE  UNCHANGED <<pattern, colorMode>>
    BY <1>4 DEF CallWrite, Lock, Fwrite, FwriteFails
  <1>5. UNCHANGED vars => UNCHANGED <<pattern, colorMode>>
    BY DEF vars
  <1> QED BY <1>0, <1>1, <1>2, <1>3, <1>4, <1>5 DEF Next

LEMMA TypesStep ==
  ASSUME ConsoleInv, ConsoleStep
  PROVE  /\ mu' \in [Consoles -> Threads \cup {Nobody}]
         /\ pc' \in [Threads -> {"idle", "lock", "write"}]
         /\ call' \in [Threads -> Calls]
         /\ todo' \in [Threads -> Seq(Texts)]
         /\ stream' \in Seq(Entries)
         /\ lastCall' \in Nat
         /\ \A t \in Threads : pc'[t] # "idle" => call'[t].line \in LineTexts(ConsolePatterns)
  <1>0. /\ mu \in [Consoles -> Threads \cup {Nobody}]
        /\ pc \in [Threads -> {"idle", "lock", "write"}]
        /\ call \in [Threads -> Calls]
        /\ todo \in [Threads -> Seq(Texts)]
        /\ stream \in Seq(Entries)
        /\ lastCall \in Nat
        /\ \A t \in Threads : pc[t] # "idle" => call[t].line \in LineTexts(ConsolePatterns)
    BY DEF ConsoleInv, ConsoleTypes
  <1> DEFINE Goal == /\ mu' \in [Consoles -> Threads \cup {Nobody}]
                     /\ pc' \in [Threads -> {"idle", "lock", "write"}]
                     /\ call' \in [Threads -> Calls]
                     /\ todo' \in [Threads -> Seq(Texts)]
                     /\ stream' \in Seq(Entries)
                     /\ lastCall' \in Nat
                     /\ \A t \in Threads : pc'[t] # "idle" => call'[t].line \in LineTexts(ConsolePatterns)
  <1>1. ASSUME Settles PROVE Goal
    BY <1>0, <1>1 DEF Settles
  <1>2. ASSUME NEW t \in Threads, Begins(t) PROVE Goal
    <2>1. PICK e \in Calls : call' = [call EXCEPT ![t] = e] /\ e.line \in LineTexts(ConsolePatterns)
      BY <1>2 DEF Begins
    <2>2. UNCHANGED <<mu, todo, stream>> /\ lastCall' = lastCall + 1 /\ pc' = [pc EXCEPT ![t] = "lock"]
      BY <1>2 DEF Begins
    <2>3. ASSUME NEW u \in Threads, pc'[u] # "idle" PROVE call'[u].line \in LineTexts(ConsolePatterns)
      BY <1>0, <2>1, <2>2, <2>3
    <2>4. call' \in [Threads -> Calls]
      BY <1>0, <2>1
    <2>5. pc' \in [Threads -> {"idle", "lock", "write"}]
      BY <1>0, <2>2
    <2>6. /\ mu' \in [Consoles -> Threads \cup {Nobody}] /\ todo' \in [Threads -> Seq(Texts)]
          /\ stream' \in Seq(Entries) /\ lastCall' \in Nat
      BY <1>0, <2>2
    <2> QED BY <2>3, <2>4, <2>5, <2>6
  <1>3. ASSUME NEW t \in Threads, Locks(t) PROVE Goal
    <2>1. PICK pieces \in Seq(Texts) : todo' = [todo EXCEPT ![t] = pieces]
      BY <1>3 DEF Locks
    <2>2. /\ UNCHANGED <<call, stream, lastCall>> /\ pc[t] = "lock"
          /\ mu' = [mu EXCEPT ![call[t].sink] = t] /\ pc' = [pc EXCEPT ![t] = "write"]
      BY <1>3 DEF Locks
    <2>3. mu' \in [Consoles -> Threads \cup {Nobody}] /\ todo' \in [Threads -> Seq(Texts)]
      BY <1>0, <2>1, <2>2
    <2>4. ASSUME NEW u \in Threads, pc'[u] # "idle" PROVE call'[u].line \in LineTexts(ConsolePatterns)
      BY <1>0, <2>2, <2>4
    <2>5. pc' \in [Threads -> {"idle", "lock", "write"}]
      BY <1>0, <2>2
    <2>6. call' \in [Threads -> Calls] /\ stream' \in Seq(Entries) /\ lastCall' \in Nat
      BY <1>0, <2>2
    <2> QED BY <2>3, <2>4, <2>5, <2>6
  <1>4. ASSUME NEW t \in Threads, Writes(t) PROVE Goal
    <2>1. UNCHANGED <<mu, pc, call, lastCall>> /\ todo' = [todo EXCEPT ![t] = Tail(todo[t])]
      BY <1>4 DEF Writes
    <2>2. stream' \in Seq(Entries) /\ todo[t] \in Seq(Texts) /\ todo[t] # <<>>
      BY <1>4, StreamOfSteps DEF Extends
    <2>3. Tail(todo[t]) \in Seq(Texts)
      BY <2>2, HeadTailProperties
    <2>4. todo' \in [Threads -> Seq(Texts)]
      BY <1>0, <2>1, <2>3
    <2> QED BY <1>0, <2>1, <2>2, <2>4
  <1>5. ASSUME NEW t \in Threads, Finishes(t) \/ Breaks(t) PROVE Goal
    <2>1. /\ mu' = [mu EXCEPT ![call[t].sink] = Nobody]
          /\ pc' = [pc EXCEPT ![t] = "idle"]
          /\ call' = [call EXCEPT ![t] = NoCall]
          /\ todo' = [todo EXCEPT ![t] = <<>>]
          /\ UNCHANGED lastCall
      BY <1>5 DEF Finishes, Breaks, Leaves
    <2>2. stream' \in Seq(Entries)
      BY <1>0, <1>5, StreamOfSteps DEF Extends
    <2>3. NoCall \in Calls
      BY DEF NoCall, Calls, Texts
    <2>4. mu' \in [Consoles -> Threads \cup {Nobody}] /\ todo' \in [Threads -> Seq(Texts)]
      <3>1. mu' \in [Consoles -> Threads \cup {Nobody}]
        BY <1>0, <2>1
      <3>2. <<>> \in Seq(Texts)
        OBVIOUS
      <3>3. todo' \in [Threads -> Seq(Texts)]
        BY <1>0, <2>1, <3>2
      <3> QED BY <3>1, <3>3
    <2>5. call' \in [Threads -> Calls] /\ pc' \in [Threads -> {"idle", "lock", "write"}]
      BY <1>0, <2>1, <2>3
    <2>6. ASSUME NEW u \in Threads, pc'[u] # "idle" PROVE call'[u].line \in LineTexts(ConsolePatterns)
      BY <1>0, <2>1, <2>6
    <2> QED BY <1>0, <2>1, <2>2, <2>4, <2>5, <2>6
  <1> HIDE DEF Goal
  <1>6. Goal
    BY <1>1, <1>2, <1>3, <1>4, <1>5 DEF ConsoleStep
  <1> QED BY <1>6 DEF Goal

LEMMA CallsStep ==
  ASSUME ConsoleInv, ConsoleStep
  PROVE  CallsOK'
  <1>0. /\ mu \in [Consoles -> Threads \cup {Nobody}]
        /\ pc \in [Threads -> {"idle", "lock", "write"}]
        /\ call \in [Threads -> Calls] /\ todo \in [Threads -> Seq(Texts)]
        /\ lastCall \in Nat /\ stream \in Seq(Entries)
    BY DEF ConsoleInv, ConsoleTypes
  <1>a. \A t \in Threads : pc[t] # "idle" => call[t].id \in 1 .. lastCall /\ call[t].sink \in Consoles
    BY DEF ConsoleInv, CallsOK
  <1>b. \A t \in Threads : pc[t] = "idle" => call[t].id = 0
    BY DEF ConsoleInv, CallsOK
  <1>c. \A t, u \in Threads : t # u /\ pc[t] # "idle" => call[t].id # call[u].id
    BY DEF ConsoleInv, CallsOK
  <1>d. \A i \in 1 .. Len(stream) : stream[i].id \in 1 .. lastCall
    BY DEF ConsoleInv, CallsOK
  <1>e. \A t \in Threads : pc[t] = "lock" => \A i \in 1 .. Len(stream) : stream[i].id # call[t].id
    BY DEF ConsoleInv, CallsOK
  <1>f. \A t \in Threads : pc[t] = "write" => mu[call[t].sink] = t /\ todo[t] # <<>>
    BY DEF ConsoleInv, CallsOK
  <1>1. ASSUME Settles PROVE CallsOK'
    BY <1>1, <1>a, <1>b, <1>c, <1>d, <1>e, <1>f DEF Settles, CallsOK
  <1>2. ASSUME NEW t \in Threads, Begins(t) PROVE CallsOK'
    <2>1. PICK e \in Calls : call' = [call EXCEPT ![t] = e] /\ e.id = lastCall + 1 /\ e.sink \in Consoles
      BY <1>2 DEF Begins
    <2>2. /\ UNCHANGED <<mu, todo, stream>> /\ lastCall' = lastCall + 1 /\ pc[t] = "idle"
          /\ pc' = [pc EXCEPT ![t] = "lock"]
      BY <1>2 DEF Begins
    <2>3. /\ pc'[t] = "lock" /\ call'[t] = e
          /\ \A u \in Threads \ {t} : pc'[u] = pc[u] /\ call'[u] = call[u]
      BY <1>0, <2>1, <2>2
    <2>4. \A u \in Threads : call[u].id # lastCall + 1
      BY <1>0, <1>a, <1>b
    <2>5. \A u \in Threads : pc'[u] # "idle" => call'[u].id \in 1 .. lastCall' /\ call'[u].sink \in Consoles
      <3>1. lastCall + 1 \in 1 .. lastCall + 1 /\ \A x \in 1 .. lastCall : x \in 1 .. lastCall + 1
        BY <1>0
      <3> QED BY <1>a, <2>1, <2>2, <2>3, <3>1
    <2>6. \A u \in Threads : pc'[u] = "idle" => call'[u].id = 0
      BY <1>b, <2>3
    <2>7. \A u, v \in Threads : u # v /\ pc'[u] # "idle" => call'[u].id # call'[v].id
      BY <1>c, <2>1, <2>3, <2>4
    <2>8. \A i \in 1 .. Len(stream) : stream[i].id \in 1 .. lastCall + 1 /\ stream[i].id # lastCall + 1
      BY <1>0, <1>d
    <2>9. \A u \in Threads : pc'[u] = "lock" => \A i \in 1 .. Len(stream) : stream[i].id # call'[u].id
      BY <1>e, <2>1, <2>3, <2>8
    <2>10. \A u \in Threads : pc'[u] = "write" => mu[call'[u].sink] = u /\ todo[u] # <<>>
      BY <1>f, <2>3
    <2> QED BY <2>2, <2>5, <2>6, <2>7, <2>8, <2>9, <2>10 DEF CallsOK
  <1>3. ASSUME NEW t \in Threads, Locks(t) PROVE CallsOK'
    <2>1. PICK pieces \in Seq(Texts) : todo' = [todo EXCEPT ![t] = pieces] /\ pieces # <<>>
      BY <1>3 DEF Locks
    <2>2. /\ UNCHANGED <<call, stream, lastCall>> /\ pc[t] = "lock" /\ mu[call[t].sink] = Nobody
          /\ mu' = [mu EXCEPT ![call[t].sink] = t] /\ pc' = [pc EXCEPT ![t] = "write"]
      BY <1>3 DEF Locks
    <2>3. /\ pc'[t] = "write" /\ todo'[t] = pieces
          /\ \A u \in Threads \ {t} : pc'[u] = pc[u] /\ todo'[u] = todo[u]
      BY <1>0, <2>1, <2>2
    <2>4. call[t].sink \in Consoles
      BY <1>a, <2>2
    <2>5. \A u \in Threads : pc'[u] = "write" => mu'[call[u].sink] = u /\ todo'[u] # <<>>
      <3>1. ASSUME NEW u \in Threads \ {t}, pc[u] = "write" PROVE mu'[call[u].sink] = u
        <4>1. mu[call[u].sink] = u /\ call[u].sink \in Consoles /\ u # Nobody
          BY <1>a, <1>f, <3>1, ConsoleAssumption
        <4>2. call[u].sink # call[t].sink
          BY <2>2, <4>1
        <4> QED BY <1>0, <2>2, <4>1, <4>2
      <3>2. mu'[call[t].sink] = t
        BY <1>0, <2>2, <2>4
      <3> QED BY <1>f, <2>1, <2>3, <3>1, <3>2
    <2>6. \A u \in Threads : pc'[u] # "idle" => pc[u] # "idle"
      BY <2>2, <2>3
    <2>7. \A u \in Threads : pc'[u] = "idle" => pc[u] = "idle"
      BY <2>2, <2>3
    <2>8. \A u \in Threads : pc'[u] = "lock" => pc[u] = "lock"
      BY <2>2, <2>3
    <2> QED BY <1>a, <1>b, <1>c, <1>d, <1>e, <2>2, <2>5, <2>6, <2>7, <2>8 DEF CallsOK
  <1>4. ASSUME NEW t \in Threads, pc[t] = "write", stream' = stream \/ Extends(t, stream'),
               UNCHANGED lastCall
        PROVE  /\ \A i \in 1 .. Len(stream') : stream'[i].id \in 1 .. lastCall'
               /\ \A u \in Threads : pc[u] = "lock" =>
                    \A i \in 1 .. Len(stream') : stream'[i].id # call[u].id
    <2>1. CASE stream' = stream
      BY <1>4, <1>d, <1>e, <2>1
    <2>2. CASE Extends(t, stream')
      <3>1. /\ Len(stream) \in Nat /\ Len(stream') = Len(stream) + 1
            /\ \A i \in 1 .. Len(stream) : stream'[i] = stream[i]
            /\ stream'[Len(stream) + 1].id = call[t].id
        BY <2>2 DEF Extends
      <3>2. \A i \in 1 .. Len(stream') : i \in 1 .. Len(stream) \/ i = Len(stream) + 1
        BY <3>1
      <3>3. call[t].id \in 1 .. lastCall /\ \A u \in Threads : pc[u] = "lock" => call[t].id # call[u].id
        BY <1>4, <1>a, <1>c
      <3> QED BY <1>4, <1>d, <1>e, <3>1, <3>2, <3>3
    <2> QED BY <1>4, <2>1, <2>2
  <1>5. ASSUME NEW t \in Threads, Writes(t) PROVE CallsOK'
    <2>1. UNCHANGED <<mu, pc, call, lastCall>> /\ todo' = [todo EXCEPT ![t] = Tail(todo[t])] /\ Len(todo[t]) > 1
      BY <1>5 DEF Writes
    <2>2. /\ pc[t] = "write" /\ Extends(t, stream')
          /\ todo[t] \in Seq(Texts) /\ todo[t] # <<>> /\ Len(todo[t]) \in Nat \ {0}
      BY <1>5, StreamOfSteps
    <2>3. Tail(todo[t]) # <<>>
      <3>1. Tail(todo[t]) \in Seq(Texts) /\ Len(Tail(todo[t])) = Len(todo[t]) - 1
        BY <2>2, HeadTailProperties
      <3>2. Len(Tail(todo[t])) # 0
        <4>1. \A n \in Nat \ {0} : n > 1 => n - 1 # 0
          OBVIOUS
        <4>2. Len(todo[t]) - 1 # 0
          BY <2>1, <2>2, <4>1, Zenon
        <4> QED BY <3>1, <4>2
      <3> QED BY <3>2, EmptySeq
    <2>4. \A u \in Threads : pc'[u] = "write" => mu'[call'[u].sink] = u /\ todo'[u] # <<>>
      BY <1>0, <1>f, <2>1, <2>3
    <2>5. /\ \A i \in 1 .. Len(stream') : stream'[i].id \in 1 .. lastCall'
          /\ \A u \in Threads : pc[u] = "lock" => \A i \in 1 .. Len(stream') : stream'[i].id # call[u].id
      BY <1>4, <2>1, <2>2
    <2> QED BY <1>a, <1>b, <1>c, <2>1, <2>4, <2>5 DEF CallsOK
  <1>6. ASSUME NEW t \in Threads, Finishes(t) \/ Breaks(t) PROVE CallsOK'
    <2>1. /\ mu' = [mu EXCEPT ![call[t].sink] = Nobody]
          /\ pc' = [pc EXCEPT ![t] = "idle"]
          /\ call' = [call EXCEPT ![t] = NoCall]
          /\ todo' = [todo EXCEPT ![t] = <<>>]
          /\ UNCHANGED lastCall
      BY <1>6 DEF Finishes, Breaks, Leaves
    <2>2. pc[t] = "write" /\ (stream' = stream \/ Extends(t, stream'))
      BY <1>6, StreamOfSteps
    <2>3. /\ \A i \in 1 .. Len(stream') : stream'[i].id \in 1 .. lastCall'
          /\ \A u \in Threads : pc[u] = "lock" => \A i \in 1 .. Len(stream') : stream'[i].id # call[u].id
      BY <1>4, <2>1, <2>2
    <2>4. /\ pc'[t] = "idle" /\ call'[t].id = 0
          /\ \A u \in Threads \ {t} : pc'[u] = pc[u] /\ call'[u] = call[u] /\ todo'[u] = todo[u]
      BY <1>0, <2>1 DEF NoCall
    <2>5. \A u \in Threads : pc'[u] = "write" => mu'[call'[u].sink] = u /\ todo'[u] # <<>>
      <3>1. ASSUME NEW u \in Threads \ {t}, pc[u] = "write" PROVE mu'[call[u].sink] = u
        <4>1. mu[call[u].sink] = u /\ call[u].sink \in Consoles /\ mu[call[t].sink] = t
          BY <1>a, <1>f, <2>2, <3>1
        <4>2. call[u].sink # call[t].sink
          BY <4>1
        <4> QED BY <1>0, <2>1, <4>1, <4>2
      <3> QED BY <1>f, <2>4, <3>1
    <2>6. \A u \in Threads : pc'[u] # "idle" => call'[u].id \in 1 .. lastCall' /\ call'[u].sink \in Consoles
      BY <1>a, <2>1, <2>4
    <2>7. \A u \in Threads : pc'[u] = "idle" => call'[u].id = 0
      BY <1>b, <2>4
    <2>8. \A u, v \in Threads : u # v /\ pc'[u] # "idle" => call'[u].id # call'[v].id
      <3>1. ASSUME NEW u \in Threads, NEW v \in Threads, u # v, pc'[u] # "idle"
            PROVE  call'[u].id # call'[v].id
        <4>1. u # t /\ pc[u] # "idle" /\ call'[u] = call[u] /\ call[u].id \in 1 .. lastCall
          BY <1>a, <2>4, <3>1
        <4>2. CASE v = t
          BY <1>0, <2>4, <4>1, <4>2
        <4>3. CASE v # t
          BY <1>c, <2>4, <3>1, <4>1, <4>3
        <4> QED BY <4>2, <4>3
      <3> QED BY <3>1
    <2>9. \A u \in Threads : pc'[u] = "lock" => \A i \in 1 .. Len(stream') : stream'[i].id # call'[u].id
      BY <2>3, <2>4
    <2> QED BY <2>3, <2>5, <2>6, <2>7, <2>8, <2>9 DEF CallsOK
  <1> QED BY <1>1, <1>2, <1>3, <1>5, <1>6 DEF ConsoleStep

LEMMA ConsoleInvStep ==
  ASSUME ConsoleInv, [Next]_vars
  PROVE  ConsoleInv' /\ ConsoleStep
  <1>1. ConsoleStep
    BY StepsOfConsoles
  <1>2. CallsOK'
    BY <1>1, CallsStep
  <1>3. ConsoleTypes'
    <2>1. ConsoleTypes
      BY DEF ConsoleInv
    <2> QED BY <1>1, <2>1, TypesStep, SettingsStep DEF ConsoleTypes
  <1> QED BY <1>1, <1>2, <1>3 DEF ConsoleInv
-----------------------------------------------------------------------------
(* The pieces of a line stay together. *)

\* Once a line has begun, its sink writes nothing else.
LineOpen(id, sink, out) ==
  \A i \in 1 .. Len(out) : out[i].id = id =>
    /\ out[i].sink = sink
    /\ \A k \in i + 1 .. Len(out) : out[k].sink = sink => out[k].id = id

Intact(out) ==
  \A j \in 1 .. Len(out) : \A i \in 1 .. j - 1 : out[i].id = out[j].id =>
    \A k \in i + 1 .. j - 1 : out[k].sink = out[i].sink => out[k].id = out[i].id

LinesOpen == \A t \in Threads : pc[t] = "write" => LineOpen(call[t].id, call[t].sink, stream)

LinesInv == LinesOpen /\ Intact(stream)

\* The threads that write have different sinks and different calls.
LEMMA WritersDiffer ==
  ASSUME ConsoleInv, NEW t \in Threads, NEW u \in Threads, t # u, pc[t] = "write", pc[u] = "write"
  PROVE  call[t].id # call[u].id /\ call[t].sink # call[u].sink
  <1>1. mu[call[t].sink] = t /\ mu[call[u].sink] = u /\ call[t].id # call[u].id
    BY DEF ConsoleInv, CallsOK
  <1> QED BY <1>1

\* A piece of an open line.
LEMMA OpenLineGrows ==
  ASSUME ConsoleInv, NEW t \in Threads, NEW out, Extends(t, out),
         NEW id, NEW sink, LineOpen(id, sink, stream),
         (id = call[t].id /\ sink = call[t].sink) \/ (id # call[t].id /\ sink # call[t].sink)
  PROVE  LineOpen(id, sink, out)
  <1>1. /\ Len(stream) \in Nat /\ Len(out) = Len(stream) + 1
        /\ \A i \in 1 .. Len(stream) : out[i] = stream[i]
        /\ out[Len(stream) + 1].id = call[t].id /\ out[Len(stream) + 1].sink = call[t].sink
    BY DEF Extends
  <1>2. \A i \in 1 .. Len(out) : i \in 1 .. Len(stream) \/ i = Len(stream) + 1
    BY <1>1
  <1>3. SUFFICES ASSUME NEW i \in 1 .. Len(out), out[i].id = id
                 PROVE  /\ out[i].sink = sink
                        /\ \A k \in i + 1 .. Len(out) : out[k].sink = sink => out[k].id = id
    BY DEF LineOpen
  <1>4. CASE i \in 1 .. Len(stream)
    <2>1. /\ out[i].sink = sink
          /\ \A k \in i + 1 .. Len(stream) : stream[k].sink = sink => stream[k].id = id
      BY <1>1, <1>3, <1>4 DEF LineOpen
    <2>2. \A k \in i + 1 .. Len(out) : (k \in i + 1 .. Len(stream) /\ k \in 1 .. Len(stream)) \/ k = Len(stream) + 1
      BY <1>1, <1>4
    <2> QED BY <1>1, <2>1, <2>2
  <1>5. CASE i = Len(stream) + 1
    <2>1. i + 1 .. Len(out) = {}
      BY <1>1, <1>5
    <2> QED BY <1>1, <1>3, <1>5, <2>1
  <1> QED BY <1>2, <1>4, <1>5

LEMMA IntactGrows ==
  ASSUME ConsoleInv, NEW t \in Threads, NEW out, Extends(t, out),
         Intact(stream), LineOpen(call[t].id, call[t].sink, stream)
  PROVE  Intact(out)
  <1>1. /\ Len(stream) \in Nat /\ Len(out) = Len(stream) + 1
        /\ \A i \in 1 .. Len(stream) : out[i] = stream[i]
        /\ out[Len(stream) + 1].id = call[t].id /\ out[Len(stream) + 1].sink = call[t].sink
    BY DEF Extends
  <1>2. SUFFICES ASSUME NEW j \in 1 .. Len(out), NEW i \in 1 .. j - 1, out[i].id = out[j].id,
                        NEW k \in i + 1 .. j - 1, out[k].sink = out[i].sink
                 PROVE  out[k].id = out[i].id
    BY DEF Intact
  <1>3. i \in 1 .. Len(stream) /\ k \in 1 .. Len(stream) /\ k \in i + 1 .. Len(stream)
    BY <1>1
  <1>4. out[i] = stream[i] /\ out[k] = stream[k]
    BY <1>1, <1>3
  <1>5. CASE j \in 1 .. Len(stream)
    <2>1. out[j] = stream[j]
      BY <1>1, <1>5
    <2> QED BY <1>2, <1>4, <1>5, <2>1 DEF Intact
  <1>6. CASE j = Len(stream) + 1
    <2>1. stream[i].id = call[t].id
      BY <1>1, <1>2, <1>4, <1>6
    <2>2. stream[i].sink = call[t].sink /\ (stream[k].sink = call[t].sink => stream[k].id = call[t].id)
      BY <1>3, <2>1 DEF LineOpen
    <2> QED BY <1>2, <1>4, <2>1, <2>2
  <1>7. j \in 1 .. Len(stream) \/ j = Len(stream) + 1
    BY <1>1
  <1> QED BY <1>5, <1>6, <1>7

LEMMA LinesInvStep ==
  ASSUME ConsoleInv, LinesInv, ConsoleStep
  PROVE  LinesInv'
  <1>0. /\ pc \in [Threads -> {"idle", "lock", "write"}] /\ call \in [Threads -> Calls]
        /\ LinesOpen /\ Intact(stream)
    BY DEF ConsoleInv, ConsoleTypes, LinesInv
  <1>1. CASE Settles
    BY <1>0, <1>1 DEF Settles, LinesInv, LinesOpen
  <1>2. ASSUME NEW t \in Threads, Begins(t) PROVE LinesInv'
    <2>1. PICK e \in Calls : call' = [call EXCEPT ![t] = e]
      BY <1>2 DEF Begins
    <2>2. UNCHANGED stream /\ pc' = [pc EXCEPT ![t] = "lock"]
      BY <1>2 DEF Begins
    <2>3. \A u \in Threads : pc'[u] = "write" => pc[u] = "write" /\ call'[u] = call[u]
      BY <1>0, <2>1, <2>2
    <2> QED BY <1>0, <2>2, <2>3 DEF LinesInv, LinesOpen
  <1>3. ASSUME NEW t \in Threads, Locks(t) PROVE LinesInv'
    <2>1. UNCHANGED <<call, stream>> /\ pc[t] = "lock" /\ pc' = [pc EXCEPT ![t] = "write"]
      BY <1>3 DEF Locks
    <2>2. \A i \in 1 .. Len(stream) : stream[i].id # call[t].id
      BY <2>1 DEF ConsoleInv, CallsOK
    <2>3. LineOpen(call[t].id, call[t].sink, stream)
      BY <2>2 DEF LineOpen
    <2>4. \A u \in Threads : pc'[u] = "write" => pc[u] = "write" \/ u = t
      BY <1>0, <2>1
    <2> QED BY <1>0, <2>1, <2>3, <2>4 DEF LinesInv, LinesOpen
  <1>4. ASSUME NEW t \in Threads, Writes(t) \/ Finishes(t) \/ Breaks(t) PROVE LinesInv'
    <2>1. pc[t] = "write" /\ (stream' = stream \/ Extends(t, stream'))
      BY <1>4, StreamOfSteps
    <2>2. \A u \in Threads : pc'[u] = "write" => pc[u] = "write" /\ call'[u] = call[u]
      BY <1>0, <1>4 DEF Writes, Finishes, Breaks, Leaves
    <2>3. LineOpen(call[t].id, call[t].sink, stream)
      BY <1>0, <2>1 DEF LinesOpen
    <2>4. Intact(stream')
      BY <1>0, <2>1, <2>3, IntactGrows
    <2>5. ASSUME NEW u \in Threads, pc'[u] = "write"
          PROVE  LineOpen(call'[u].id, call'[u].sink, stream')
      <3>1. pc[u] = "write" /\ call'[u] = call[u] /\ LineOpen(call[u].id, call[u].sink, stream)
        BY <1>0, <2>2, <2>5 DEF LinesOpen
      <3>2. \/ call[u].id = call[t].id /\ call[u].sink = call[t].sink
            \/ call[u].id # call[t].id /\ call[u].sink # call[t].sink
        BY <2>1, <3>1, WritersDiffer
      <3> QED BY <2>1, <3>1, <3>2, OpenLineGrows
    <2> QED BY <2>4, <2>5 DEF LinesInv, LinesOpen
  <1> QED BY <1>1, <1>2, <1>3, <1>4 DEF ConsoleStep

\* The lines of a sink stay in one piece: between two pieces of a call of write()
\* the stream has no piece of another call on the same sink, however many threads
\* log, whatever other sinks write to the stream in between, and whichever fwrite
\* fails.
THEOREM SinkLinesStayIntact == Spec => []LinesIntact
  <1>1. Init => ConsoleInv /\ LinesInv
    <2>1. ASSUME Init PROVE LinesInv
      BY <2>1 DEF Init, LinesInv, LinesOpen, Intact
    <2> QED BY <2>1, ConsoleAtStart
  <1>2. ConsoleInv /\ LinesInv /\ [Next]_vars => (ConsoleInv /\ LinesInv)'
    BY ConsoleInvStep, LinesInvStep
  <1>3. ConsoleInv /\ LinesInv => LinesIntact
    <2>1. ASSUME ConsoleInv PROVE DOMAIN stream = 1 .. Len(stream)
      BY <2>1 DEF ConsoleInv, ConsoleTypes
    <2> QED BY <2>1 DEF LinesInv, Intact, LinesIntact
  <1> QED BY <1>1, <1>2, <1>3, PTL DEF Spec
-----------------------------------------------------------------------------
(* Lines end with a newline. *)

\* The pieces that are written of a call end with a newline, but for the reset.
Ended(id, out) ==
  \E i \in 1 .. Len(out) :
    /\ out[i].id = id /\ Terminated(out[i].text)
    /\ \A j \in i + 1 .. Len(out) : out[j].id = id => out[j].text = <<"reset">>

OnlyResets(pieces) == \A i \in 1 .. Len(pieces) : pieces[i] = <<"reset">>

\* The newline of a line is still to come, or it is written and nothing but the
\* reset is left.
EndsInv ==
  /\ \A t \in Threads : pc[t] = "write" =>
       NewlineDue(todo[t]) \/ (Ended(call[t].id, stream) /\ OnlyResets(todo[t]))
  /\ \A id \in Completed : Ended(id, stream)

\* The rest of the pieces.
LEMMA TailIs ==
  ASSUME NEW S, NEW s \in Seq(S), Len(s) > 1
  PROVE  /\ Len(s) \in Nat /\ Tail(s) \in Seq(S) /\ Len(Tail(s)) = Len(s) - 1
         /\ \A i \in 1 .. Len(s) - 1 : Tail(s)[i] = s[i + 1] /\ i + 1 \in 1 .. Len(s)
  <1>1. Len(s) \in Nat
    BY LenProperties
  <1>2. s # <<>>
    BY EmptySeq
  <1>3. Tail(s) \in Seq(S) /\ Len(Tail(s)) = Len(s) - 1
    BY <1>2, HeadTailProperties
  <1>4. \A i \in 1 .. Len(Tail(s)) : Tail(s)[i] = s[i + 1]
    BY <1>2, HeadTailProperties
  <1>5. \A i \in 1 .. Len(s) - 1 : i + 1 \in 1 .. Len(s)
    BY <1>1
  <1> QED BY <1>1, <1>3, <1>4, <1>5

\* A piece of another call, or a reset, leaves an ended line ended.
LEMMA EndedStays ==
  ASSUME NEW t \in Threads, NEW out, Extends(t, out), NEW id, Ended(id, stream),
         id # call[t].id \/ out[Len(stream) + 1].text = <<"reset">>
  PROVE  Ended(id, out)
  <1>1. /\ Len(stream) \in Nat /\ Len(out) = Len(stream) + 1
        /\ \A i \in 1 .. Len(stream) : out[i] = stream[i]
        /\ out[Len(stream) + 1].id = call[t].id
    BY DEF Extends
  <1>2. PICK i \in 1 .. Len(stream) :
          /\ stream[i].id = id /\ Terminated(stream[i].text)
          /\ \A j \in i + 1 .. Len(stream) : stream[j].id = id => stream[j].text = <<"reset">>
    BY DEF Ended
  <1>3. i \in 1 .. Len(out) /\ out[i] = stream[i]
    BY <1>1
  <1>4. \A j \in i + 1 .. Len(out) : (j \in i + 1 .. Len(stream) /\ j \in 1 .. Len(stream)) \/ j = Len(stream) + 1
    BY <1>1
  <1>5. \A j \in i + 1 .. Len(out) : out[j].id = id => out[j].text = <<"reset">>
    BY <1>1, <1>2, <1>4
  <1> QED BY <1>2, <1>3, <1>5 DEF Ended

\* The piece that is the newline ends the line.
LEMMA NewlineEnds ==
  ASSUME NEW t \in Threads, NEW out, Extends(t, out), Terminated(out[Len(stream) + 1].text)
  PROVE  Ended(call[t].id, out)
  <1>1. /\ Len(stream) \in Nat /\ Len(out) = Len(stream) + 1 /\ out[Len(stream) + 1].id = call[t].id
    BY DEF Extends
  <1>2. Len(stream) + 1 \in 1 .. Len(out) /\ (Len(stream) + 1) + 1 .. Len(out) = {}
    BY <1>1
  <1> QED BY <1>1, <1>2 DEF Ended

\* What one piece does to the line that it belongs to.
LEMMA PieceOfLine ==
  ASSUME NEW t \in Threads, NEW out, Extends(t, out), NEW pieces \in Seq(Texts), pieces # <<>>,
         out[Len(stream) + 1].text = pieces[1],
         NewlineDue(pieces) \/ (Ended(call[t].id, stream) /\ OnlyResets(pieces))
  PROVE  /\ Len(pieces) > 1 => NewlineDue(Tail(pieces)) \/ (Ended(call[t].id, out) /\ OnlyResets(Tail(pieces)))
         /\ Len(pieces) = 1 => Ended(call[t].id, out)
  <1>0. Len(pieces) \in Nat /\ Len(pieces) # 0
    BY EmptySeq, LenProperties
  <1>1. CASE OnlyResets(pieces) /\ Ended(call[t].id, stream)
    <2>1. 1 \in 1 .. Len(pieces)
      BY <1>0
    <2>2. Ended(call[t].id, out)
      BY <1>1, <2>1, EndedStays DEF OnlyResets
    <2>3. ASSUME Len(pieces) > 1 PROVE OnlyResets(Tail(pieces))
      <3>1. /\ Len(Tail(pieces)) = Len(pieces) - 1
            /\ \A i \in 1 .. Len(pieces) - 1 : Tail(pieces)[i] = pieces[i + 1] /\ i + 1 \in 1 .. Len(pieces)
        BY <2>3, TailIs
      <3> QED BY <1>1, <3>1 DEF OnlyResets
    <2> QED BY <2>2, <2>3
  <1>2. CASE NewlineDue(pieces)
    <2>1. PICK m \in 1 .. Len(pieces) : /\ Terminated(pieces[m])
                                        /\ \A i \in m + 1 .. Len(pieces) : pieces[i] = <<"reset">>
      BY <1>2 DEF NewlineDue
    <2>2. ASSUME m = 1 PROVE Ended(call[t].id, out)
      BY <2>1, <2>2, NewlineEnds
    <2>3. Len(pieces) = 1 => m = 1
      BY <1>0
    <2>4. ASSUME Len(pieces) > 1, m = 1 PROVE OnlyResets(Tail(pieces))
      <3>1. /\ Len(Tail(pieces)) = Len(pieces) - 1
            /\ \A i \in 1 .. Len(pieces) - 1 : Tail(pieces)[i] = pieces[i + 1]
        BY <2>4, TailIs
      <3>2. \A i \in 1 .. Len(pieces) - 1 : i + 1 \in m + 1 .. Len(pieces)
        BY <1>0, <2>4
      <3> QED BY <2>1, <3>1, <3>2 DEF OnlyResets
    <2>5. ASSUME Len(pieces) > 1, m # 1 PROVE NewlineDue(Tail(pieces))
      <3>1. /\ Len(Tail(pieces)) = Len(pieces) - 1
            /\ \A i \in 1 .. Len(pieces) - 1 : Tail(pieces)[i] = pieces[i + 1]
        BY <2>5, TailIs
      <3>2. m - 1 \in 1 .. Len(pieces) - 1 /\ (m - 1) + 1 = m
        BY <1>0, <2>5
      <3>3. \A i \in (m - 1) + 1 .. Len(pieces) - 1 : i \in 1 .. Len(pieces) - 1 /\ i + 1 \in m + 1 .. Len(pieces)
        BY <1>0, <3>2
      <3>4. Terminated(Tail(pieces)[m - 1])
        BY <2>1, <3>1, <3>2
      <3>5. \A i \in (m - 1) + 1 .. Len(pieces) - 1 : Tail(pieces)[i] = <<"reset">>
        BY <2>1, <3>1, <3>3
      <3>6. \E x \in 1 .. Len(Tail(pieces)) :
              /\ Terminated(Tail(pieces)[x])
              /\ \A i \in x + 1 .. Len(Tail(pieces)) : Tail(pieces)[i] = <<"reset">>
        BY <3>1, <3>2, <3>4, <3>5
      <3> QED BY <3>6 DEF NewlineDue
    <2> QED BY <2>2, <2>3, <2>4, <2>5
  <1> QED BY <1>1, <1>2

LEMMA EndsInvStep ==
  ASSUME ConsoleInv, EndsInv, ConsoleStep
  PROVE  EndsInv'
  <1>0. /\ pc \in [Threads -> {"idle", "lock", "write"}] /\ call \in [Threads -> Calls]
        /\ todo \in [Threads -> Seq(Texts)] /\ lastCall \in Nat
    BY DEF ConsoleInv, ConsoleTypes
  <1>a. \A u \in Threads : pc[u] = "write" =>
          NewlineDue(todo[u]) \/ (Ended(call[u].id, stream) /\ OnlyResets(todo[u]))
    BY DEF EndsInv
  <1>b. \A id \in 1 .. lastCall \ (thrown \cup {call[u].id : u \in Threads}) : Ended(id, stream)
    BY DEF EndsInv, Completed
  <1>c. \A u \in Threads : pc[u] = "idle" => call[u].id = 0
    BY DEF ConsoleInv, CallsOK
  <1>d. \A u \in Threads : pc[u] # "idle" => call[u].id \in 1 .. lastCall
    BY DEF ConsoleInv, CallsOK
  <1>1. ASSUME Settles PROVE EndsInv'
    BY <1>1 DEF Settles, EndsInv, Completed
  <1>2. ASSUME NEW t \in Threads, Begins(t) PROVE EndsInv'
    <2>1. PICK e \in Calls : call' = [call EXCEPT ![t] = e] /\ e.id = lastCall + 1
      BY <1>2 DEF Begins
    <2>2. /\ UNCHANGED <<todo, stream, thrown>> /\ lastCall' = lastCall + 1 /\ pc[t] = "idle"
          /\ pc' = [pc EXCEPT ![t] = "lock"]
      BY <1>2 DEF Begins
    <2>3. \A u \in Threads : pc'[u] = "write" => pc[u] = "write" /\ call'[u] = call[u]
      BY <1>0, <2>1, <2>2
    <2>4. ASSUME NEW id \in 1 .. lastCall + 1, id \notin thrown, \A u \in Threads : id # call'[u].id
          PROVE  Ended(id, stream)
      <3>1. id # lastCall + 1 /\ \A u \in Threads \ {t} : id # call[u].id
        BY <1>0, <2>1, <2>4
      <3>2. id \in 1 .. lastCall /\ id # 0
        BY <1>0, <3>1
      <3>3. \A u \in Threads : id # call[u].id
        BY <1>c, <2>2, <3>1, <3>2
      <3> QED BY <1>b, <2>4, <3>2, <3>3
    <2>5. \A id \in Completed' : Ended(id, stream)
      BY <2>2, <2>4 DEF Completed
    <2> QED BY <1>a, <2>2, <2>3, <2>5 DEF EndsInv
  <1>3. ASSUME NEW t \in Threads, Locks(t) PROVE EndsInv'
    <2>1. PICK pieces \in Seq(Texts) : todo' = [todo EXCEPT ![t] = pieces] /\ NewlineDue(pieces)
      BY <1>3 DEF Locks
    <2>2. UNCHANGED <<call, stream, lastCall, thrown>> /\ pc' = [pc EXCEPT ![t] = "write"]
      BY <1>3 DEF Locks
    <2>3. \A u \in Threads : u # t => (pc'[u] = pc[u] /\ todo'[u] = todo[u])
      BY <1>0, <2>1, <2>2
    <2>4. NewlineDue(todo'[t])
      BY <1>0, <2>1
    <2>5. Completed' = Completed
      BY <2>2 DEF Completed
    <2> QED BY <1>a, <2>2, <2>3, <2>4, <2>5 DEF EndsInv
  <1>4. ASSUME NEW t \in Threads, Writes(t) \/ Finishes(t) \/ Breaks(t)
        PROVE  /\ pc[t] = "write"
               /\ \A id : id # call[t].id /\ Ended(id, stream) => Ended(id, stream')
    <2>1. pc[t] = "write" /\ (stream' = stream \/ Extends(t, stream'))
      BY <1>4, StreamOfSteps
    <2> QED BY <2>1, EndedStays
  <1>5. ASSUME NEW t \in Threads, NEW u \in Threads, u # t, Writes(t) \/ Finishes(t) \/ Breaks(t),
               pc[u] = "write"
        PROVE  NewlineDue(todo[u]) \/ (Ended(call[u].id, stream') /\ OnlyResets(todo[u]))
    BY <1>4, <1>5, <1>a, WritersDiffer
  <1>6. ASSUME NEW t \in Threads, Writes(t) PROVE EndsInv'
    <2>1. /\ UNCHANGED <<pc, call, lastCall, thrown>> /\ Len(todo[t]) > 1
          /\ todo' = [todo EXCEPT ![t] = Tail(todo[t])]
      BY <1>6 DEF Writes
    <2>2. /\ pc[t] = "write" /\ Extends(t, stream') /\ stream'[Len(stream) + 1].text = todo[t][1]
          /\ todo[t] \in Seq(Texts) /\ todo[t] # <<>>
      BY <1>6, StreamOfSteps
    <2>3. NewlineDue(Tail(todo[t])) \/ (Ended(call[t].id, stream') /\ OnlyResets(Tail(todo[t])))
      <3>1. NewlineDue(todo[t]) \/ (Ended(call[t].id, stream) /\ OnlyResets(todo[t]))
        BY <1>a, <2>2
      <3> QED BY <2>1, <2>2, <3>1, PieceOfLine
    <2>4. todo'[t] = Tail(todo[t]) /\ \A u \in Threads \ {t} : todo'[u] = todo[u]
      BY <1>0, <2>1
    <2>5. \A u \in Threads : pc'[u] = "write" =>
            NewlineDue(todo'[u]) \/ (Ended(call'[u].id, stream') /\ OnlyResets(todo'[u]))
      BY <1>5, <1>6, <2>1, <2>3, <2>4
    <2>6. ASSUME NEW id \in Completed' PROVE Ended(id, stream')
      <3>1. id \in Completed
        BY <2>1 DEF Completed
      <3>2. id # call[t].id /\ Ended(id, stream)
        BY <1>b, <3>1 DEF Completed
      <3> QED BY <1>4, <1>6, <3>2
    <2> QED BY <2>5, <2>6 DEF EndsInv
  <1>7. ASSUME NEW t \in Threads, Finishes(t) \/ Breaks(t) PROVE EndsInv'
    <2>1. /\ pc' = [pc EXCEPT ![t] = "idle"] /\ call' = [call EXCEPT ![t] = NoCall]
          /\ todo' = [todo EXCEPT ![t] = <<>>] /\ UNCHANGED lastCall
      BY <1>7 DEF Finishes, Breaks, Leaves
    <2>2. /\ pc'[t] = "idle"
          /\ \A u \in Threads \ {t} : pc'[u] = pc[u] /\ call'[u] = call[u] /\ todo'[u] = todo[u]
      BY <1>0, <2>1
    <2>3. \A u \in Threads : pc'[u] = "write" =>
            NewlineDue(todo'[u]) \/ (Ended(call'[u].id, stream') /\ OnlyResets(todo'[u]))
      BY <1>5, <1>7, <2>2
    <2>4. Breaks(t) => thrown' = thrown \cup {call[t].id}
      BY DEF Breaks
    <2>5. Finishes(t) => thrown' = thrown /\ Ended(call[t].id, stream')
      <3>1. ASSUME Finishes(t) PROVE thrown' = thrown /\ Ended(call[t].id, stream')
        <4>1. /\ pc[t] = "write" /\ Extends(t, stream') /\ stream'[Len(stream) + 1].text = todo[t][1]
              /\ todo[t] \in Seq(Texts) /\ todo[t] # <<>>
          BY <3>1, StreamOfSteps
        <4>2. NewlineDue(todo[t]) \/ (Ended(call[t].id, stream) /\ OnlyResets(todo[t]))
          BY <1>a, <4>1
        <4>3. Len(todo[t]) = 1 /\ thrown' = thrown
          BY <3>1 DEF Finishes
        <4> QED BY <4>1, <4>2, <4>3, PieceOfLine
      <3> QED BY <3>1
    <2>6. ASSUME NEW id \in Completed' PROVE Ended(id, stream')
      <3>1. id \in 1 .. lastCall /\ id \notin thrown' /\ \A u \in Threads : id # call'[u].id
        BY <2>1, <2>6 DEF Completed
      <3>2. \A u \in Threads \ {t} : id # call[u].id
        BY <2>2, <3>1
      <3>3. CASE id = call[t].id
        BY <1>7, <2>4, <2>5, <3>1, <3>3
      <3>4. CASE id # call[t].id
        <4>1. id \notin thrown
          BY <1>7, <2>4, <2>5, <3>1
        <4>2. \A u \in Threads : id # call[u].id
          BY <3>2, <3>4
        <4>3. Ended(id, stream)
          BY <1>b, <3>1, <4>1, <4>2
        <4> QED BY <1>4, <1>7, <3>4, <4>3
      <3> QED BY <3>3, <3>4
    <2> QED BY <2>3, <2>6 DEF EndsInv
  <1> QED BY <1>1, <1>2, <1>3, <1>6, <1>7 DEF ConsoleStep

\* Every call of write() that returns normally has ended its line: the last of its
\* pieces but for the reset ends with a newline, whatever pattern and message the
\* line was made of.
THEOREM FinishedLinesAreTerminated == Spec => []LinesTerminated
  <1>1. Init => ConsoleInv /\ EndsInv
    <2>1. ASSUME Init PROVE EndsInv
      <3>1. Completed = {}
        BY <2>1 DEF Init, Completed
      <3> QED BY <2>1, <3>1 DEF Init, EndsInv
    <2> QED BY <2>1, ConsoleAtStart
  <1>2. ConsoleInv /\ EndsInv /\ [Next]_vars => (ConsoleInv /\ EndsInv)'
    BY ConsoleInvStep, EndsInvStep
  <1>3. ConsoleInv /\ EndsInv => LinesTerminated
    <2>1. ASSUME ConsoleInv PROVE DOMAIN stream = 1 .. Len(stream)
      BY <2>1 DEF ConsoleInv, ConsoleTypes
    <2> QED BY <2>1 DEF EndsInv, Ended, Terminated, LinesTerminated
  <1> QED BY <1>1, <1>2, <1>3, PTL DEF Spec
-----------------------------------------------------------------------------
(* The colour of the terminal. *)

\* No line is an escape code of write() and nothing else.
LinesArePlain == LineTexts(ConsolePatterns) \cap ColorTexts = {}

\* No message holds an escape code.
MessagesArePlain ==
  \A msg \in Messages : msg \in Seq(ToSet(msg)) /\ ToSet(msg) \cap Colors = {}

\* Then no line is one: a pattern has none, and neither has any other field.
LEMMA PlainMessagesPlainLines == MessagesArePlain => LinesArePlain
  <1> SUFFICES ASSUME MessagesArePlain, NEW p \in ConsolePatterns, NEW level \in RecordLevels,
                      NEW msg \in Messages, NEW c \in Colors,
                      Format(p, Record(level, msg)) = <<c>>
               PROVE  FALSE
    BY DEF LinesArePlain, LineTexts, ColorTexts
  <1> DEFINE W == Symbols \cup {level, "seconds", "value"} \cup ToSet(msg)
  <1>1. Symbols \subseteq W
    OBVIOUS
  <1>2. level \in W /\ "seconds" \in W /\ "value" \in W
    OBVIOUS
  <1>3. c \notin W
    <2>1. c \notin Symbols
      BY DEF Symbols, WordSymbols, Fields, Colors
    <2>2. c \notin {level, "seconds", "value"}
      BY ConsoleAssumption DEF Colors
    <2>3. c \notin ToSet(msg)
      BY DEF MessagesArePlain
    <2> QED BY <2>1, <2>2, <2>3
  <1>4. msg \in Seq(W)
    <2>1. msg \in Seq(ToSet(msg))
      BY DEF MessagesArePlain
    <2> QED BY <2>1
  <1> HIDE DEF W
  <1>5. p \in Seq(W)
    <2>1. p \in Seq(Symbols)
      BY ConsoleAssumption
    <2> QED BY <1>1, <2>1
  <1>6. Record(level, msg) \in [Fields -> Seq(W)]
    <2>1. <<level>> \in Seq(W) /\ <<"seconds">> \in Seq(W) /\ <<"value">> \in Seq(W)
      BY <1>2, OneSymbol
    <2> QED BY <1>4, <2>1 DEF Record
  <1>7. <<c>> \in Seq(W)
    BY <1>5, <1>6, FormatType
  <1> QED BY <1>3, <1>7

Codes == ColorTexts \cup {<<"reset">>}

LastCode(i, out) ==
  /\ i \in 1 .. Len(out) /\ out[i].text \in Codes
  /\ \A j \in i + 1 .. Len(out) : out[j].text \notin Codes

\* A colour that is written is reset, was left by a call that threw, or is the
\* colour of a call that still has the reset to write.
ColourInv ==
  /\ \A t \in Threads : pc[t] = "write" =>
       \A i \in 1 .. Len(todo[t]) : todo[t][i] \in ColorTexts => ResetDue(todo[t])
  /\ \A i \in 1 .. Len(stream) : LastCode(i, stream) =>
       \/ stream[i].text = <<"reset">> \/ stream[i].id \in thrown
       \/ \E t \in Threads : pc[t] = "write" /\ call[t].id = stream[i].id /\ ResetDue(todo[t])

LEMMA ResetStaysDue ==
  ASSUME NEW s \in Seq(Texts), Len(s) > 1, ResetDue(s)
  PROVE  ResetDue(Tail(s))
  <1>1. /\ Len(s) \in Nat /\ Tail(s) \in Seq(Texts) /\ Len(Tail(s)) = Len(s) - 1
        /\ \A i \in 1 .. Len(s) - 1 : Tail(s)[i] = s[i + 1]
    BY TailIs
  <1>2. Len(s) - 1 \in 1 .. Len(s) - 1 /\ (Len(s) - 1) + 1 = Len(s) /\ Len(s) - 1 # 0
    BY <1>1
  <1>3. Tail(s)[Len(Tail(s))] = s[Len(s)]
    BY <1>1, <1>2
  <1>4. Tail(s) # <<>>
    BY <1>1, <1>2, EmptySeq
  <1> QED BY <1>3, <1>4 DEF ResetDue

\* The last code after one more piece.
LEMMA LastCodeAfter ==
  ASSUME NEW t \in Threads, NEW out, Extends(t, out), NEW i, LastCode(i, out)
  PROVE  \/ i = Len(stream) + 1 /\ out[Len(stream) + 1].text \in Codes
         \/ /\ LastCode(i, stream) /\ out[i] = stream[i] /\ i \in 1 .. Len(stream)
            /\ out[Len(stream) + 1].text \notin Codes
  <1>1. /\ Len(stream) \in Nat /\ Len(out) = Len(stream) + 1
        /\ \A j \in 1 .. Len(stream) : out[j] = stream[j]
    BY DEF Extends
  <1>2. /\ i \in 1 .. Len(out) /\ out[i].text \in Codes
        /\ \A j \in i + 1 .. Len(out) : out[j].text \notin Codes
    BY DEF LastCode
  <1>3. CASE i = Len(stream) + 1
    BY <1>2, <1>3
  <1>4. CASE i # Len(stream) + 1
    <2>1. i \in 1 .. Len(stream) /\ Len(stream) + 1 \in i + 1 .. Len(out)
      BY <1>1, <1>2, <1>4
    <2>2. \A j \in i + 1 .. Len(stream) : j \in 1 .. Len(stream) /\ j \in i + 1 .. Len(out)
      BY <1>1, <2>1
    <2>3. \A j \in i + 1 .. Len(stream) : stream[j].text \notin Codes
      BY <1>1, <1>2, <2>2
    <2> QED BY <1>1, <1>2, <2>1, <2>3 DEF LastCode
  <1> QED BY <1>3, <1>4

LEMMA ColourInvStep ==
  ASSUME LinesArePlain, ConsoleInv, ColourInv, ConsoleStep
  PROVE  ColourInv'
  <1>0. /\ pc \in [Threads -> {"idle", "lock", "write"}] /\ call \in [Threads -> Calls]
        /\ todo \in [Threads -> Seq(Texts)] /\ stream \in Seq(Entries)
    BY DEF ConsoleInv, ConsoleTypes
  <1>a. \A u \in Threads : pc[u] = "write" =>
          \A i \in 1 .. Len(todo[u]) : todo[u][i] \in ColorTexts => ResetDue(todo[u])
    BY DEF ColourInv
  <1>b. \A i \in 1 .. Len(stream) : LastCode(i, stream) =>
          \/ stream[i].text = <<"reset">> \/ stream[i].id \in thrown
          \/ \E u \in Threads : pc[u] = "write" /\ call[u].id = stream[i].id /\ ResetDue(todo[u])
    BY DEF ColourInv
  <1>1. ASSUME Settles PROVE ColourInv'
    BY <1>1, <1>a, <1>b DEF Settles, ColourInv
  <1>2. ASSUME NEW t \in Threads, Begins(t) PROVE ColourInv'
    <2>1. PICK e \in Calls : call' = [call EXCEPT ![t] = e]
      BY <1>2 DEF Begins
    <2>2. UNCHANGED <<todo, stream, thrown>> /\ pc[t] = "idle" /\ pc' = [pc EXCEPT ![t] = "lock"]
      BY <1>2 DEF Begins
    <2>3. \A u \in Threads : pc'[u] = "write" <=> pc[u] = "write"
      BY <1>0, <2>2
    <2>4. \A u \in Threads : pc[u] = "write" => call'[u] = call[u]
      BY <1>0, <2>1, <2>2
    <2> QED BY <1>a, <1>b, <2>2, <2>3, <2>4 DEF ColourInv
  <1>3. ASSUME NEW t \in Threads, Locks(t) PROVE ColourInv'
    <2>1. PICK pieces \in Seq(Texts) :
            /\ todo' = [todo EXCEPT ![t] = pieces]
            /\ call[t].line \notin ColorTexts =>
                 \A i \in 1 .. Len(pieces) : pieces[i] \in ColorTexts => ResetDue(pieces)
      BY <1>3 DEF Locks
    <2>2. /\ UNCHANGED <<call, stream, thrown>> /\ pc[t] = "lock" /\ pc' = [pc EXCEPT ![t] = "write"]
      BY <1>3 DEF Locks
    <2>3. call[t].line \notin ColorTexts
      BY <2>2 DEF LinesArePlain, ConsoleInv, ConsoleTypes
    <2>4. /\ pc'[t] = "write" /\ todo'[t] = pieces
          /\ \A u \in Threads : u # t => (pc'[u] = pc[u] /\ todo'[u] = todo[u])
      BY <1>0, <2>1, <2>2
    <2>5. \A u \in Threads : pc[u] = "write" => pc'[u] = "write" /\ todo'[u] = todo[u]
      BY <2>2, <2>4
    <2>6. \A u \in Threads : pc'[u] = "write" =>
            \A i \in 1 .. Len(todo'[u]) : todo'[u][i] \in ColorTexts => ResetDue(todo'[u])
      <3>1. ASSUME NEW u \in Threads, pc'[u] = "write"
            PROVE  \A i \in 1 .. Len(todo'[u]) : todo'[u][i] \in ColorTexts => ResetDue(todo'[u])
        <4>1. CASE u = t
          BY <2>1, <2>3, <2>4, <4>1
        <4>2. CASE u # t
          BY <1>a, <2>4, <3>1, <4>2
        <4> QED BY <4>1, <4>2
      <3> QED BY <3>1
    <2> QED BY <1>b, <2>2, <2>5, <2>6 DEF ColourInv
  <1>4. ASSUME NEW t \in Threads, Writes(t) PROVE ColourInv'
    <2>1. /\ UNCHANGED <<pc, call, thrown>> /\ Len(todo[t]) > 1
          /\ todo' = [todo EXCEPT ![t] = Tail(todo[t])]
      BY <1>4 DEF Writes
    <2>2. /\ pc[t] = "write" /\ Extends(t, stream') /\ stream'[Len(stream) + 1].text = todo[t][1]
          /\ todo[t] \in Seq(Texts) /\ Len(todo[t]) \in Nat \ {0}
      BY <1>4, StreamOfSteps
    <2>3. /\ todo'[t] = Tail(todo[t])
          /\ \A u \in Threads : u # t => todo'[u] = todo[u]
      BY <1>0, <2>1
    <2>4. ResetDue(todo[t]) => ResetDue(todo'[t])
      BY <2>1, <2>2, <2>3, ResetStaysDue
    <2>5. \A u \in Threads : ResetDue(todo[u]) => ResetDue(todo'[u])
      BY <2>3, <2>4
    <2>6. \A i \in 1 .. Len(todo'[t]) : todo'[t][i] \in ColorTexts => ResetDue(todo'[t])
      <3>1. /\ Len(Tail(todo[t])) = Len(todo[t]) - 1
            /\ \A i \in 1 .. Len(todo[t]) - 1 : Tail(todo[t])[i] = todo[t][i + 1] /\ i + 1 \in 1 .. Len(todo[t])
        BY <2>1, <2>2, TailIs
      <3> QED BY <1>a, <2>2, <2>3, <2>4, <3>1
    <2>7. \A u \in Threads : pc'[u] = "write" =>
            \A i \in 1 .. Len(todo'[u]) : todo'[u][i] \in ColorTexts => ResetDue(todo'[u])
      BY <1>a, <2>1, <2>3, <2>6
    <2>8. ASSUME NEW i \in 1 .. Len(stream'), LastCode(i, stream')
          PROVE  \/ stream'[i].text = <<"reset">> \/ stream'[i].id \in thrown
                 \/ \E u \in Threads : pc[u] = "write" /\ call[u].id = stream'[i].id /\ ResetDue(todo'[u])
      <3>1. CASE i = Len(stream) + 1 /\ stream'[Len(stream) + 1].text \in Codes
        <4>1. stream'[i].id = call[t].id /\ stream'[i].text = todo[t][1]
          BY <2>2, <3>1 DEF Extends
        <4>2. ASSUME todo[t][1] \in ColorTexts PROVE ResetDue(todo'[t])
          <5>1. 1 \in 1 .. Len(todo[t])
            BY <2>2
          <5> QED BY <1>a, <2>2, <2>4, <4>2, <5>1
        <4> QED BY <2>2, <3>1, <4>1, <4>2 DEF Codes
      <3>2. CASE LastCode(i, stream) /\ stream'[i] = stream[i] /\ i \in 1 .. Len(stream)
        BY <1>b, <2>5, <3>2
      <3> QED BY <2>2, <2>8, <3>1, <3>2, LastCodeAfter
    <2> QED BY <2>1, <2>7, <2>8 DEF ColourInv
  <1>5. ASSUME NEW t \in Threads, Leaves(t)
        PROVE  /\ \A u \in Threads : pc'[u] = "write" => u # t
               /\ \A u \in Threads : u # t => pc'[u] = pc[u] /\ call'[u] = call[u] /\ todo'[u] = todo[u]
    BY <1>0, <1>5 DEF Leaves
  <1>6. ASSUME NEW t \in Threads, Leaves(t)
        PROVE  \A u \in Threads : pc'[u] = "write" =>
                 \A i \in 1 .. Len(todo'[u]) : todo'[u][i] \in ColorTexts => ResetDue(todo'[u])
    BY <1>a, <1>5, <1>6
  <1>7. ASSUME NEW t \in Threads, Finishes(t) PROVE ColourInv'
    <2>1. Leaves(t) /\ Len(todo[t]) = 1 /\ UNCHANGED thrown
      BY <1>7 DEF Finishes
    <2>2. /\ pc[t] = "write" /\ Extends(t, stream') /\ stream'[Len(stream) + 1].text = todo[t][1]
          /\ todo[t] \in Seq(Texts)
      BY <1>7, StreamOfSteps
    <2>3. todo[t][1] \in ColorTexts => todo[t][1] = <<"reset">>
      <3>1. 1 \in 1 .. Len(todo[t])
        BY <2>1
      <3> QED BY <1>a, <2>1, <2>2, <3>1 DEF ResetDue
    <2>4. ResetDue(todo[t]) => todo[t][1] \in Codes
      BY <2>1 DEF ResetDue, Codes
    <2>5. ASSUME NEW i \in 1 .. Len(stream'), LastCode(i, stream')
          PROVE  \/ stream'[i].text = <<"reset">> \/ stream'[i].id \in thrown
                 \/ \E u \in Threads : pc'[u] = "write" /\ call'[u].id = stream'[i].id /\ ResetDue(todo'[u])
      <3>1. CASE i = Len(stream) + 1 /\ stream'[Len(stream) + 1].text \in Codes
        BY <2>2, <2>3, <3>1 DEF Codes
      <3>2. CASE /\ LastCode(i, stream) /\ stream'[i] = stream[i] /\ i \in 1 .. Len(stream)
                 /\ stream'[Len(stream) + 1].text \notin Codes
        <4>1. ~ResetDue(todo[t])
          BY <2>2, <2>4, <3>2
        <4>2. CASE \E u \in Threads : pc[u] = "write" /\ call[u].id = stream[i].id /\ ResetDue(todo[u])
          <5>1. PICK u \in Threads : pc[u] = "write" /\ call[u].id = stream[i].id /\ ResetDue(todo[u])
            BY <4>2
          <5>2. u # t
            BY <4>1, <5>1
          <5> QED BY <1>5, <2>1, <3>2, <5>1, <5>2
        <4> QED BY <1>b, <3>2, <4>2
      <3> QED BY <2>2, <2>5, <3>1, <3>2, LastCodeAfter
    <2> QED BY <1>6, <2>1, <2>5 DEF ColourInv
  <1>8. ASSUME NEW t \in Threads, Breaks(t) PROVE ColourInv'
    <2>1. Leaves(t) /\ thrown' = thrown \cup {call[t].id}
      BY <1>8 DEF Breaks
    <2>2. pc[t] = "write" /\ (stream' = stream \/ Extends(t, stream'))
          /\ \A i \in 1 .. Len(stream') :
               (i \in 1 .. Len(stream) /\ stream'[i] = stream[i]) \/ stream'[i].text = <<"part">>
      BY <1>8, StreamOfSteps
    <2>3. <<"part">> \notin Codes
      <3>1. \A c \in Colors \cup {"reset"} : c # "part"
        BY DEF Colors
      <3> QED BY <3>1 DEF Codes, ColorTexts
    <2>4. ASSUME NEW i \in 1 .. Len(stream'), LastCode(i, stream')
          PROVE  \/ stream'[i].text = <<"reset">> \/ stream'[i].id \in thrown'
                 \/ \E u \in Threads : pc'[u] = "write" /\ call'[u].id = stream'[i].id /\ ResetDue(todo'[u])
      <3>1. LastCode(i, stream) /\ stream'[i] = stream[i] /\ i \in 1 .. Len(stream)
        <4>1. stream'[i].text # <<"part">>
          BY <2>3, <2>4 DEF LastCode
        <4>2. i \in 1 .. Len(stream) /\ stream'[i] = stream[i]
          BY <2>2, <4>1
        <4>3. i # Len(stream) + 1
          BY <1>0, <4>2, LenProperties
        <4> QED BY <2>2, <2>4, <4>2, <4>3, LastCodeAfter
      <3>2. CASE \E u \in Threads : pc[u] = "write" /\ call[u].id = stream[i].id /\ ResetDue(todo[u])
        <4>1. PICK u \in Threads : pc[u] = "write" /\ call[u].id = stream[i].id /\ ResetDue(todo[u])
          BY <3>2
        <4>2. CASE u = t
          BY <2>1, <3>1, <4>1, <4>2
        <4>3. CASE u # t
          BY <1>5, <2>1, <3>1, <4>1, <4>3
        <4> QED BY <4>2, <4>3
      <3> QED BY <1>b, <2>1, <3>1, <3>2
    <2> QED BY <1>6, <2>1, <2>4 DEF ColourInv
  <1> QED BY <1>1, <1>2, <1>3, <1>4, <1>7, <1>8 DEF ConsoleStep

\* While no thread writes, the terminal is in a colour only where a failed fwrite
\* ended the call that had set it: on every other path a reset follows, however the
\* lines of several sinks are mixed.  It is stated of messages without an escape
\* code: a line may be nothing but its message, and write() does not reset that.
THEOREM ColoursAreReset == MessagesArePlain => (Spec => []ColourEnds)
  <1> SUFFICES ASSUME LinesArePlain PROVE Spec => []ColourEnds
    BY PlainMessagesPlainLines
  <1>1. Init => ConsoleInv /\ ColourInv
    <2>1. ASSUME Init PROVE ColourInv
      BY <2>1 DEF Init, ColourInv
    <2> QED BY <2>1, ConsoleAtStart
  <1>2. ConsoleInv /\ ColourInv /\ [Next]_vars => (ConsoleInv /\ ColourInv)'
    BY ConsoleInvStep, ColourInvStep
  <1>3. ASSUME ConsoleInv, ColourInv PROVE ColourEnds
    <2> DEFINE codes == {i \in DOMAIN stream : \E c \in Colors \cup {"reset"} : stream[i].text = <<c>>}
               last  == CHOOSE i \in codes : \A j \in codes : j <= i
    <2>1. SUFFICES ASSUME \A t \in Threads : pc[t] = "idle", codes # {}
                   PROVE  stream[last].text = <<"reset">> \/ stream[last].id \in thrown
      BY DEF ColourEnds
    <2>2. stream \in Seq(Entries) /\ DOMAIN stream = 1 .. Len(stream) /\ Len(stream) \in Nat
      BY <1>3, LenProperties DEF ConsoleInv, ConsoleTypes
    <2>3. \A i : i \in codes <=> (i \in 1 .. Len(stream) /\ stream[i].text \in Codes)
      BY <2>2 DEF Codes, ColorTexts
    <2> HIDE DEF codes
    <2>4. codes \in SUBSET (0 .. Len(stream))
      BY <2>2, <2>3
    <2>5. \E i \in codes : \A j \in codes : i >= j
      BY <2>1, <2>2, <2>4, GreatestNumber
    <2>6. \E i \in codes : \A j \in codes : j <= i
      BY <2>4, <2>5
    <2>7. last \in codes /\ \A j \in codes : j <= last
      BY <2>6
    <2> HIDE DEF last
    <2>8. LastCode(last, stream)
      <3>1. \A j \in last + 1 .. Len(stream) : j \in 1 .. Len(stream) /\ ~(j <= last)
        BY <2>2, <2>3, <2>7
      <3> QED BY <2>3, <2>7, <3>1 DEF LastCode
    <2>9. last \in 1 .. Len(stream)
      BY <2>3, <2>7
    <2> QED BY <1>3, <2>1, <2>8, <2>9 DEF ColourInv
  <1> QED BY <1>1, <1>2, <1>3, PTL DEF Spec
=============================================================================
