------------------------- MODULE LoggerRegistryProofs -------------------------
(***************************************************************************)
(* The registry, for every set of threads and of names, whatever dots the  *)
(* names have: one logger per name between two clears, a recursion that    *)
(* ends, and a hierarchy without holes.                                    *)
(***************************************************************************)
EXTENDS LoggerRegistry, TLAPS, SequenceTheorems, WellFoundedInduction
-----------------------------------------------------------------------------
(* Names. *)

\* The symbols of names; "root" is listed because no prover knows it is a string.
Symbols == STRING \cup {"root"}

AllNames == Seq(Symbols)

\* The least number with a property, and the greatest one below a bound.
LEMMA LeastNumber ==
  ASSUME NEW T \in SUBSET Nat, T # {}
  PROVE  \E n \in T : \A m \in T : n <= m
  <1>1. PICK n \in T : \A m \in T : ~(<<m, n>> \in OpToRel(<, Nat))
    BY WFMin, NatLessThanWellFounded
  <1>2. ASSUME NEW m \in T PROVE n <= m
    <2>1. ~(m < n)
      BY <1>1 DEF OpToRel
    <2> QED BY <2>1
  <1> QED BY <1>2

LEMMA GreatestNumber ==
  ASSUME NEW b \in Nat, NEW T \in SUBSET (0 .. b), T # {}
  PROVE  \E n \in T : \A m \in T : n >= m
  <1> DEFINE D == { b - x : x \in T }
  <1>1. PICK d \in D : \A m \in D : d <= m
    <2>1. \A x \in T : b - x \in Nat
      OBVIOUS
    <2>2. D \in SUBSET Nat
      BY <2>1
    <2>3. D # {}
      OBVIOUS
    <2> HIDE DEF D
    <2> QED BY <2>2, <2>3, LeastNumber
  <1>2. PICK n \in T : d = b - n
    OBVIOUS
  <1>3. ASSUME NEW m \in T PROVE n >= m
    <2>1. b - m \in D
      OBVIOUS
    <2>2. b - n <= b - m /\ n \in 0 .. b /\ m \in 0 .. b
      BY <1>1, <1>2, <2>1
    <2> QED BY <2>2
  <1> QED BY <1>3

\* The trailing dots end somewhere.
LEMMA StrippedLenIs ==
  ASSUME NEW name \in AllNames
  PROVE  /\ Len(name) \in Nat /\ StrippedLen(name) \in 0 .. Len(name)
         /\ StrippedLen(name) < 2 \/ name[StrippedLen(name)] # "."
         /\ \A j \in StrippedLen(name) + 1 .. Len(name) : j >= 2 /\ name[j] = "."
  <1>0. Len(name) \in Nat
    BY LenProperties DEF AllNames
  <1> DEFINE T == { k \in 0 .. Len(name) : k < 2 \/ name[k] # "." }
  <1>1. PICK k \in T : \A m \in T : k >= m
    <2>1. T \in SUBSET (0 .. Len(name)) /\ 0 \in T
      BY <1>0
    <2> HIDE DEF T
    <2> QED BY <1>0, <2>1, GreatestNumber
  <1>2. ASSUME NEW j \in k + 1 .. Len(name) PROVE j >= 2 /\ name[j] = "."
    <2>1. j \in 0 .. Len(name) /\ j > k /\ k \in Nat
      BY <1>0
    <2>2. j \notin T
      BY <1>1, <2>1
    <2> QED BY <2>1, <2>2
  <1>3. \E i \in 0 .. Len(name) :
          /\ i < 2 \/ name[i] # "."
          /\ \A j \in i + 1 .. Len(name) : j >= 2 /\ name[j] = "."
    BY <1>1, <1>2
  <1> DEFINE P(i) == /\ i < 2 \/ name[i] # "."
                     /\ \A j \in i + 1 .. Len(name) : j >= 2 /\ name[j] = "."
  <1>4. P(CHOOSE i \in 0 .. Len(name) : P(i)) /\ (CHOOSE i \in 0 .. Len(name) : P(i)) \in 0 .. Len(name)
    <2>1. \E i \in 0 .. Len(name) : P(i)
      BY <1>3
    <2> HIDE DEF P
    <2> QED BY <2>1
  <1> QED BY <1>0, <1>4 DEF StrippedLen

LEMMA MaxIs ==
  ASSUME NEW b \in Nat, NEW T \in SUBSET (0 .. b), T # {}
  PROVE  Max(T) \in T /\ \A y \in T : Max(T) >= y
  <1>1. \E x \in T : \A y \in T : x >= y
    BY GreatestNumber
  <1> QED BY <1>1 DEF Max

\* The parts of parent_name_for.
Dots(name) == { i \in 1 .. StrippedLen(name) : name[i] = "." }

LEMMA ParentCases ==
  ASSUME NEW name \in AllNames
  PROVE  \/ ParentNameFor(name) = NoName /\ SubSeq(name, 1, StrippedLen(name)) \in {NoName, Root}
         \/ ParentNameFor(name) = Root /\ SubSeq(name, 1, StrippedLen(name)) \notin {NoName, Root}
              /\ Dots(name) \subseteq {1}
         \/ ParentNameFor(name) = SubSeq(name, 1, Max(Dots(name)) - 1)
              /\ Max(Dots(name)) \in Dots(name) /\ \A y \in Dots(name) : Max(Dots(name)) >= y
              /\ ~(Dots(name) \subseteq {1}) /\ SubSeq(name, 1, StrippedLen(name)) \notin {NoName, Root}
  <1>1. StrippedLen(name) \in Nat /\ Dots(name) \in SUBSET (0 .. StrippedLen(name))
    <2>1. Len(name) \in Nat /\ StrippedLen(name) \in 0 .. Len(name)
      BY StrippedLenIs
    <2> QED BY <2>1 DEF Dots
  <1>2. ~(Dots(name) \subseteq {1}) =>
          Max(Dots(name)) \in Dots(name) /\ \A y \in Dots(name) : Max(Dots(name)) >= y
    BY <1>1, MaxIs
  <1>3. ParentNameFor(name) =
          IF SubSeq(name, 1, StrippedLen(name)) \in {NoName, Root} THEN NoName
          ELSE IF Dots(name) \subseteq {1} THEN Root
          ELSE SubSeq(name, 1, Max(Dots(name)) - 1)
    BY DEF ParentNameFor, Dots
  <1> QED BY <1>2, <1>3

\* What get_logger() recurses over gets smaller.
Rank(name) == IF name = Root THEN 0 ELSE Len(name)

LEMMA ParentIsSmaller ==
  ASSUME NEW name \in AllNames, ParentNameFor(name) # NoName
  PROVE  /\ ParentNameFor(name) \in AllNames
         /\ Rank(name) \in Nat /\ Rank(ParentNameFor(name)) \in Nat
         /\ Rank(ParentNameFor(name)) < Rank(name)
  <1> DEFINE k == StrippedLen(name)
             up == ParentNameFor(name)
  <1>0. Len(name) \in Nat /\ k \in 0 .. Len(name)
    BY StrippedLenIs
  <1>1. SubSeq(name, 1, k) \notin {NoName, Root}
    BY ParentCases DEF NoName, Root
  <1>2. name # Root
    <2>1. SUFFICES ASSUME name = Root PROVE FALSE
      OBVIOUS
    <2>2. Len(name) = 1
      BY <2>1 DEF Root
    <2>3. k = 0 \/ k = 1
      BY <1>0, <2>2
    <2>4. k = 0 => SubSeq(name, 1, k) = <<>>
      BY SubSeqEmpty
    <2>5. k = 1 => SubSeq(name, 1, k) = name
      BY <2>2, SubSeqFull DEF AllNames
    <2> QED BY <1>1, <2>1, <2>3, <2>4, <2>5 DEF NoName
  <1>3. Len(name) > 0
    <2>1. SUFFICES ASSUME Len(name) = 0 PROVE FALSE
      BY <1>0
    <2>2. SubSeq(name, 1, k) = <<>>
      BY <1>0, <2>1, SubSeqEmpty
    <2> QED BY <1>1, <2>2 DEF NoName
  <1>4. Rank(name) = Len(name)
    BY <1>2 DEF Rank
  <1>5. CASE up = Root
    <2>1. Root \in AllNames
      <3>1. "root" \in Symbols
        BY DEF Symbols
      <3>2. ASSUME NEW S, NEW x \in S PROVE <<x>> \in Seq(S)
        OBVIOUS
      <3> QED BY <3>1, <3>2 DEF Root, AllNames
    <2> QED BY <1>0, <1>3, <1>4, <1>5, <2>1 DEF Rank
  <1>6. CASE up # Root
    <2> DEFINE m == Max(Dots(name))
    <2>1. up = SubSeq(name, 1, m - 1) /\ m \in Dots(name)
      BY <1>6, ParentCases
    <2>2. m \in 1 .. Len(name)
      BY <1>0, <2>1 DEF Dots
    <2> HIDE DEF m
    <2>3. \A i \in 1 .. m - 1 : name[i] \in Symbols
      BY <1>0, <2>2, ElementOfSeq DEF AllNames
    <2>4. SubSeq(name, 1, m - 1) \in Seq(Symbols) /\ Len(SubSeq(name, 1, m - 1)) = m - 1
      <3>1. 1 \in Int /\ m - 1 \in Int /\ (IF 1 <= m - 1 THEN (m - 1) - 1 + 1 ELSE 0) = m - 1
        BY <1>0, <2>2
      <3>2. /\ SubSeq(name, 1, m - 1) \in Seq(Symbols)
            /\ Len(SubSeq(name, 1, m - 1)) = IF 1 <= m - 1 THEN (m - 1) - 1 + 1 ELSE 0
        BY <2>3, <3>1, SubSeqProperties
      <3> QED BY <3>1, <3>2
    <2>5. Rank(up) = m - 1
      BY <1>6, <2>1, <2>4 DEF Rank
    <2> QED BY <1>0, <1>4, <2>1, <2>2, <2>4, <2>5 DEF AllNames
  <1> QED BY <1>5, <1>6

\* Where single dots separate words, the parent is all words but the last.
LEMMA ParentIsExpected ==
  ASSUME NEW name \in AllNames
  PROVE  ExpectedParent(name) = ParentNameFor(name)
  <1> DEFINE words == Len(name) % 2 = 1 /\ \A i \in DOMAIN name : name[i] = "." <=> i % 2 = 0
             k == StrippedLen(name)
             L == Len(name)
  <1>0. ExpectedParent(name) = IF ~words \/ name = Root THEN ParentNameFor(name)
                               ELSE IF L = 1 THEN Root ELSE SubSeq(name, 1, L - 2)
    BY DEF ExpectedParent
  <1>1. CASE ~words \/ name = Root
    BY <1>0, <1>1
  <1>2. CASE words /\ name # Root
    <2>1. /\ L \in Nat /\ k \in 0 .. L /\ DOMAIN name = 1 .. L
          /\ k < 2 \/ name[k] # "."
          /\ \A j \in k + 1 .. L : j >= 2 /\ name[j] = "."
      BY StrippedLenIs, LenProperties DEF AllNames
    <2>2. L % 2 = 1 /\ \A i \in 1 .. L : name[i] = "." <=> i % 2 = 0
      BY <1>2, <2>1
    <2>3. L >= 1 /\ name[L] # "."
      BY <2>1, <2>2
    <2> HIDE DEF k, L
    <2>4. k = L
      <3>1. SUFFICES ASSUME k # L PROVE FALSE
        OBVIOUS
      <3>2. L \in k + 1 .. L
        BY <2>1, <3>1
      <3> QED BY <2>1, <2>3, <3>2
    <2>5. SubSeq(name, 1, k) = name
      BY <2>4, SubSeqFull DEF AllNames, L
    <2>6. name # NoName
      BY <2>3 DEF NoName, L
    <2>7. Dots(name) = { i \in 1 .. L : i % 2 = 0 }
      BY <2>2, <2>4 DEF Dots, k
    <2>8. CASE L = 1
      <3>1. Dots(name) = {}
        BY <2>7, <2>8
      <3>2. SubSeq(name, 1, StrippedLen(name)) \notin {NoName, Root}
        BY <1>2, <2>5, <2>6 DEF k
      <3>3. ParentNameFor(name) = Root
        BY <3>1, <3>2, ParentCases
      <3> QED BY <1>0, <1>2, <2>8, <3>3
    <2>9. CASE L # 1
      <3>1. L - 1 \in 1 .. L /\ (L - 1) % 2 = 0 /\ L - 1 # 1 /\ L - 1 \in Nat
        BY <2>1, <2>2, <2>3, <2>9
      <3>2. L - 1 \in Dots(name) /\ L \notin Dots(name) /\ \A y \in Dots(name) : y \in 1 .. L
        BY <2>2, <2>7, <3>1
      <3>3. SubSeq(name, 1, StrippedLen(name)) \notin {NoName, Root} /\ ~(Dots(name) \subseteq {1})
        BY <1>2, <2>5, <2>6, <3>1, <3>2 DEF k
      <3>4. /\ ParentNameFor(name) = SubSeq(name, 1, Max(Dots(name)) - 1)
            /\ Max(Dots(name)) \in Dots(name) /\ \A y \in Dots(name) : Max(Dots(name)) >= y
        BY <3>3, ParentCases
      <3>5. Max(Dots(name)) = L - 1
        <4>1. ASSUME NEW m \in Dots(name), m >= L - 1 PROVE m = L - 1
          BY <2>1, <3>2, <4>1
        <4> QED BY <3>2, <3>4, <4>1
      <3>6. Max(Dots(name)) - 1 = L - 2
        BY <2>1, <3>5
      <3> QED BY <1>0, <1>2, <2>9, <3>4, <3>6
    <2> QED BY <2>8, <2>9
  <1> QED BY <1>1, <1>2
-----------------------------------------------------------------------------
(* Activations. *)

Frames == [name : AllNames, parent : Nat, at : {"find", "insert"}]

\* Every activation below the innermost waits for the logger of its parent's name.
ChainOK(st) ==
  \A i \in 1 .. Len(st) - 1 :
    /\ st[i].at = "find"
    /\ ParentNameFor(st[i].name) # NoName
    /\ st[i + 1].name = ParentNameFor(st[i].name)

\* Names further in are smaller.
RanksOK(st) == \A i, j \in 1 .. Len(st) : i < j => Rank(st[j].name) < Rank(st[i].name)

\* An activation that still looks for its logger has no parent yet.
FindsOK(st) == \A i \in 1 .. Len(st) : st[i].at = "find" => st[i].parent = NoLogger

StackOK(st) == st \in Seq(Frames) /\ ChainOK(st) /\ RanksOK(st) /\ FindsOK(st)

LEMMA FrontIs ==
  ASSUME NEW st \in Seq(Frames), st # <<>>
  PROVE  /\ Len(st) \in Nat \ {0} /\ Front(st) \in Seq(Frames) /\ Len(Front(st)) = Len(st) - 1
         /\ \A i \in 1 .. Len(st) - 1 : Front(st)[i] = st[i]
         /\ Front(st) = <<>> <=> Len(st) = 1
         /\ Last(st) = st[Len(st)] /\ Last(st) \in Frames
  <1>1. Len(st) \in Nat \ {0}
    BY EmptySeq
  <1>2. \A i \in 1 .. Len(st) : st[i] \in Frames
    BY ElementOfSeq
  <1>3. /\ Front(st) \in Seq(Frames) /\ Len(Front(st)) = Len(st) - 1
        /\ \A i \in 1 .. Len(st) - 1 : Front(st)[i] = st[i]
    <2>1. 1 \in Int /\ Len(st) - 1 \in Int /\ \A i \in 1 .. Len(st) - 1 : st[i] \in Frames
      BY <1>1, <1>2
    <2>2. /\ Front(st) \in Seq(Frames)
          /\ Len(Front(st)) = IF 1 <= Len(st) - 1 THEN (Len(st) - 1) - 1 + 1 ELSE 0
          /\ \A i \in 1 .. (Len(st) - 1) - 1 + 1 : Front(st)[i] = st[1 + i - 1]
      BY <2>1, SubSeqProperties DEF Front
    <2>3. /\ (Len(st) - 1) - 1 + 1 = Len(st) - 1 /\ \A i \in 1 .. Len(st) - 1 : 1 + i - 1 = i
          /\ ~(1 <= Len(st) - 1) => Len(st) - 1 = 0
      BY <1>1
    <2>4. Len(Front(st)) = Len(st) - 1
      BY <2>2, <2>3
    <2>5. ASSUME NEW i \in 1 .. Len(st) - 1 PROVE Front(st)[i] = st[i]
      BY <2>2, <2>3
    <2> QED BY <2>2, <2>4, <2>5
  <1>4. Front(st) = <<>> <=> Len(st) = 1
    <2>1. Front(st) = <<>> <=> Len(Front(st)) = 0
      BY <1>3, EmptySeq
    <2> QED BY <1>1, <1>3, <2>1
  <1> QED BY <1>1, <1>2, <1>3, <1>4 DEF Last

\* The innermost activation goes on.
LEMMA NewTop ==
  ASSUME NEW st, StackOK(st), st # <<>>, NEW x \in Frames, x.name = Last(st).name,
         x.at = "find" => x.parent = NoLogger
  PROVE  /\ StackOK(Append(Front(st), x)) /\ Append(Front(st), x) # <<>>
         /\ Last(Append(Front(st), x)) = x
  <1> DEFINE new == Append(Front(st), x)
             n == Len(st)
  <1>1. /\ st \in Seq(Frames) /\ n \in Nat \ {0} /\ Last(st) = st[n]
        /\ Front(st) \in Seq(Frames) /\ Len(Front(st)) = n - 1
        /\ \A i \in 1 .. n - 1 : Front(st)[i] = st[i]
    BY FrontIs DEF StackOK
  <1>2. /\ new \in Seq(Frames) /\ Len(new) = n - 1 + 1 /\ new[n - 1 + 1] = x
        /\ \A i \in 1 .. n - 1 : new[i] = Front(st)[i]
    BY <1>1, AppendProperties
  <1> HIDE DEF new, n
  <1>3. Len(new) = n /\ new[n] = x /\ \A i \in 1 .. n - 1 : new[i] = st[i]
    BY <1>1, <1>2
  <1>4. \A i \in 1 .. n : new[i].name = st[i].name
    <2>1. ASSUME NEW i \in 1 .. n PROVE new[i].name = st[i].name
      <3>1. i \in 1 .. n - 1 \/ i = n
        BY <1>1
      <3> QED BY <1>1, <1>3, <3>1
    <2> QED BY <2>1
  <1>5. ChainOK(new)
    <2>1. \A i \in 1 .. n - 1 : i \in 1 .. n /\ i + 1 \in 1 .. n
      BY <1>1
    <2>2. \A i \in 1 .. n - 1 :
            /\ st[i].at = "find" /\ ParentNameFor(st[i].name) # NoName
            /\ st[i + 1].name = ParentNameFor(st[i].name)
      BY DEF StackOK, ChainOK, n
    <2> QED BY <1>3, <1>4, <2>1, <2>2 DEF ChainOK
  <1>6. RanksOK(new)
    BY <1>3, <1>4 DEF StackOK, RanksOK, n
  <1>7. FindsOK(new)
    <2>1. ASSUME NEW i \in 1 .. n, new[i].at = "find" PROVE new[i].parent = NoLogger
      <3>1. i \in 1 .. n - 1 \/ i = n
        BY <1>1
      <3>2. st[i].at = "find" => st[i].parent = NoLogger
        BY DEF StackOK, FindsOK, n
      <3> QED BY <1>3, <2>1, <3>1, <3>2
    <2> QED BY <1>3, <2>1 DEF FindsOK
  <1>8. new # <<>> /\ Last(new) = x
    <2>1. Len(new) # 0
      BY <1>1, <1>3
    <2> QED BY <1>3, <2>1 DEF Last
  <1> QED BY <1>2, <1>5, <1>6, <1>7, <1>8 DEF StackOK, new

\* The innermost activation is over.
LEMMA Popped ==
  ASSUME NEW st, StackOK(st), st # <<>>
  PROVE  /\ StackOK(Front(st))
         /\ Front(st) # <<>> =>
              /\ Last(Front(st)).at = "find" /\ ParentNameFor(Last(Front(st)).name) # NoName
              /\ Last(st).name = ParentNameFor(Last(Front(st)).name)
  <1> DEFINE new == Front(st)
             n == Len(st)
  <1>1. /\ st \in Seq(Frames) /\ n \in Nat \ {0} /\ Last(st) = st[n]
        /\ new \in Seq(Frames) /\ Len(new) = n - 1
        /\ \A i \in 1 .. n - 1 : new[i] = st[i]
        /\ new = <<>> <=> n = 1
    BY FrontIs DEF StackOK
  <1>2. /\ \A i \in 1 .. n - 1 :
             /\ st[i].at = "find" /\ ParentNameFor(st[i].name) # NoName
             /\ st[i + 1].name = ParentNameFor(st[i].name)
        /\ \A i, j \in 1 .. n : i < j => Rank(st[j].name) < Rank(st[i].name)
        /\ \A i \in 1 .. n : st[i].at = "find" => st[i].parent = NoLogger
    BY DEF StackOK, ChainOK, RanksOK, FindsOK
  <1> HIDE DEF new, n
  <1>3. ChainOK(new)
    <2>1. \A i \in 1 .. (n - 1) - 1 : i \in 1 .. n - 1 /\ i + 1 \in 1 .. n - 1
      BY <1>1
    <2> QED BY <1>1, <1>2, <2>1 DEF ChainOK
  <1>4. RanksOK(new) /\ FindsOK(new)
    <2>1. \A i \in 1 .. n - 1 : i \in 1 .. n
      BY <1>1
    <2>2. RanksOK(new)
      BY <1>1, <1>2, <2>1 DEF RanksOK
    <2>3. FindsOK(new)
      BY <1>1, <1>2, <2>1 DEF FindsOK
    <2> QED BY <2>2, <2>3
  <1>5. ASSUME new # <<>>
        PROVE  /\ Last(new).at = "find" /\ ParentNameFor(Last(new).name) # NoName
               /\ Last(st).name = ParentNameFor(Last(new).name)
    <2>1. n - 1 \in 1 .. n - 1 /\ (n - 1) + 1 = n
      BY <1>1, <1>5
    <2>2. Last(new) = st[n - 1]
      BY <1>1, <2>1 DEF Last
    <2> QED BY <1>1, <1>2, <2>1, <2>2
  <1> QED BY <1>1, <1>3, <1>4, <1>5 DEF StackOK, new

\* The recursion goes one level deeper.
LEMMA Pushed ==
  ASSUME NEW st, StackOK(st), st # <<>>, Last(st).at = "find", ParentNameFor(Last(st).name) # NoName
  PROVE  LET new == Append(st, Frame(ParentNameFor(Last(st).name)))
         IN  StackOK(new) /\ new # <<>> /\ Last(new).at = "find"
  <1> DEFINE up == ParentNameFor(Last(st).name)
             new == Append(st, Frame(up))
             n == Len(st)
  <1>1. /\ st \in Seq(Frames) /\ n \in Nat \ {0} /\ Last(st) = st[n] /\ Last(st) \in Frames
    BY FrontIs DEF StackOK
  <1>2. /\ \A i \in 1 .. n - 1 :
             /\ st[i].at = "find" /\ ParentNameFor(st[i].name) # NoName
             /\ st[i + 1].name = ParentNameFor(st[i].name)
        /\ \A i, j \in 1 .. n : i < j => Rank(st[j].name) < Rank(st[i].name)
        /\ \A i \in 1 .. n : st[i].at = "find" => st[i].parent = NoLogger
    BY DEF StackOK, ChainOK, RanksOK, FindsOK
  <1>3. Last(st).name \in AllNames
    BY <1>1 DEF Frames
  <1>4. /\ up \in AllNames /\ Rank(up) \in Nat /\ Rank(Last(st).name) \in Nat
        /\ Rank(up) < Rank(Last(st).name)
    BY <1>3, ParentIsSmaller
  <1>5. /\ Frame(up) \in Frames /\ Frame(up).name = up /\ Frame(up).at = "find"
        /\ Frame(up).parent = NoLogger
    BY <1>4 DEF Frame, Frames, NoLogger
  <1>6. /\ new \in Seq(Frames) /\ Len(new) = n + 1 /\ new[n + 1] = Frame(up)
        /\ \A i \in 1 .. n : new[i] = st[i]
    BY <1>1, <1>5, AppendProperties
  <1>7. \A i \in 1 .. n : Rank(st[i].name) \in Nat
    <2>1. ASSUME NEW i \in 1 .. n PROVE Rank(st[i].name) \in Nat
      <3>0. st[i] \in Frames
        BY <1>1, <2>1, ElementOfSeq
      <3>1. st[i].name \in AllNames
        BY <3>0 DEF Frames
      <3>2. Len(st[i].name) \in Nat
        BY <3>1, LenProperties DEF AllNames
      <3> QED BY <3>2 DEF Rank
    <2> QED BY <2>1
  <1> HIDE DEF new, n, up
  <1>8. ChainOK(new)
    <2>1. ASSUME NEW i \in 1 .. (n + 1) - 1
          PROVE  /\ new[i].at = "find" /\ ParentNameFor(new[i].name) # NoName
                 /\ new[i + 1].name = ParentNameFor(new[i].name)
      <3>1. CASE i \in 1 .. n - 1
        <4>1. i \in 1 .. n /\ i + 1 \in 1 .. n
          BY <1>1, <3>1
        <4> QED BY <1>2, <1>6, <3>1, <4>1
      <3>2. CASE i = n
        <4>1. n \in 1 .. n
          BY <1>1
        <4>2. new[i] = Last(st) /\ new[i + 1] = Frame(up)
          BY <1>1, <1>6, <3>2, <4>1
        <4> QED BY <1>5, <4>2 DEF up
      <3>3. i \in 1 .. n - 1 \/ i = n
        BY <1>1
      <3> QED BY <3>1, <3>2, <3>3
    <2> QED BY <1>6, <2>1 DEF ChainOK
  <1>9. RanksOK(new)
    <2>1. ASSUME NEW i \in 1 .. n + 1, NEW j \in 1 .. n + 1, i < j
          PROVE  Rank(new[j].name) < Rank(new[i].name)
      <3>1. CASE j \in 1 .. n
        <4>1. i \in 1 .. n
          BY <1>1, <2>1, <3>1
        <4> QED BY <1>2, <1>6, <2>1, <3>1, <4>1
      <3>2. CASE j = n + 1
        <4>1. i \in 1 .. n /\ n \in 1 .. n /\ (i = n \/ i < n)
          BY <1>1, <2>1, <3>2
        <4>2. new[i] = st[i] /\ new[j].name = up
          BY <1>5, <1>6, <3>2, <4>1
        <4>3. i < n => Rank(st[n].name) < Rank(st[i].name)
          BY <1>2, <4>1
        <4>4. Rank(up) < Rank(st[n].name)
          BY <1>1, <1>4
        <4>5. Rank(up) \in Nat /\ Rank(st[n].name) \in Nat /\ Rank(st[i].name) \in Nat
          BY <1>4, <1>7, <4>1
        <4> QED BY <4>1, <4>2, <4>3, <4>4, <4>5
      <3>3. j \in 1 .. n \/ j = n + 1
        BY <1>1
      <3> QED BY <3>1, <3>2, <3>3
    <2> QED BY <1>6, <2>1 DEF RanksOK
  <1>10. FindsOK(new)
    <2>1. ASSUME NEW i \in 1 .. n + 1, new[i].at = "find" PROVE new[i].parent = NoLogger
      <3>1. i \in 1 .. n \/ i = n + 1
        BY <1>1
      <3> QED BY <1>2, <1>5, <1>6, <2>1, <3>1
    <2> QED BY <1>6, <2>1 DEF FindsOK
  <1>11. new # <<>> /\ Last(new).at = "find"
    <2>1. Len(new) # 0
      BY <1>1, <1>6
    <2> QED BY <1>5, <1>6, <2>1 DEF Last
  <1> QED BY <1>6, <1>8, <1>9, <1>10, <1>11 DEF StackOK, new, up
-----------------------------------------------------------------------------
(* The registry. *)

\* The parent of a logger of this name is the registered one, if it has any.
ParentOK(name, parent, lg) ==
  IF ParentNameFor(name) = NoName
  THEN parent = NoLogger
  ELSE ParentNameFor(name) \in DOMAIN lg /\ parent = lg[ParentNameFor(name)]

RegistryTypes ==
  /\ created \in Seq([name : AllNames, parent : Nat])
  /\ DOMAIN loggers \subseteq AllNames
  /\ loggers \in [DOMAIN loggers -> 1 .. Len(created)]
  /\ stack \in [Clients -> Seq(Frames)]
  /\ clears \in Nat
  /\ answers \subseteq [name : AllNames, logger : Nat, clears : Nat]

StacksOK == \A c \in Clients : StackOK(stack[c])

\* What was answered since the last clear() is still registered.
AnswersCurrent ==
  \A a \in answers :
    /\ a.clears <= clears
    /\ a.clears = clears => a.name \in DOMAIN loggers /\ loggers[a.name] = a.logger

\* Parents of registered loggers, and of those about to be registered.
ParentsOK ==
  ~disturbed =>
    /\ \A n \in DOMAIN loggers : ParentOK(n, created[loggers[n]].parent, loggers)
    /\ \A c \in Clients : stack[c] # <<>> /\ Last(stack[c]).at = "insert" =>
         ParentOK(Last(stack[c]).name, Last(stack[c]).parent, loggers)

RegistryInv ==
  RegistryTypes /\ StacksOK /\ AnswersCurrent /\ OneLoggerPerName /\ ParentsOK

\* A return changes the stack of one client, and answers with the registered logger.
LEMMA ReturnStep ==
  ASSUME stack \in [Clients -> Seq(Frames)], StacksOK, NEW c \in Clients, stack[c] # <<>>,
         NEW l \in Nat, ReturnLogger(c, l)
  PROVE  \E st \in Seq(Frames) :
           /\ stack' = [stack EXCEPT ![c] = st] /\ StackOK(st)
           /\ st # <<>> =>
                /\ Last(st).parent = l /\ ParentNameFor(Last(st).name) # NoName
                /\ ParentNameFor(Last(st).name) = Top(c).name
           /\ \/ UNCHANGED answers
              \/ answers' = answers \cup {[name |-> Top(c).name, logger |-> l, clears |-> clears]}
  <1> DEFINE rest == Front(stack[c])
             x == [Last(rest) EXCEPT !.parent = l, !.at = "insert"]
  <1>1. StackOK(stack[c]) /\ stack[c] \in Seq(Frames) /\ rest \in Seq(Frames)
    BY FrontIs DEF StacksOK
  <1>2. CASE rest = <<>>
    <2>1. /\ stack' = [stack EXCEPT ![c] = <<>>]
          /\ answers' = answers \cup {[name |-> Top(c).name, logger |-> l, clears |-> clears]}
      BY <1>2 DEF ReturnLogger
    <2>2. <<>> \in Seq(Frames) /\ StackOK(<<>>)
      BY <1>1, <1>2, Popped
    <2> QED BY <2>1, <2>2
  <1>3. CASE rest # <<>>
    <2>1. stack' = [stack EXCEPT ![c] = Append(Front(rest), x)] /\ UNCHANGED answers
      BY <1>3 DEF ReturnLogger
    <2>2. /\ StackOK(rest)
          /\ ParentNameFor(Last(rest).name) # NoName
          /\ Last(stack[c]).name = ParentNameFor(Last(rest).name)
      BY <1>1, <1>3, Popped
    <2>3. Last(rest) \in Frames
      BY <1>1, <1>3, FrontIs
    <2>4. x \in Frames /\ x.name = Last(rest).name /\ x.at = "insert" /\ x.parent = l
      <3>1. ASSUME NEW e \in Frames
            PROVE  LET y == [e EXCEPT !.parent = l, !.at = "insert"]
                   IN  y \in Frames /\ y.name = e.name /\ y.at = "insert" /\ y.parent = l
        BY DEF Frames
      <3> QED BY <2>3, <3>1
    <2> DEFINE st == Append(Front(rest), x)
    <2> HIDE DEF x, rest
    <2>5. StackOK(st) /\ st # <<>> /\ Last(st) = x
      BY <1>3, <2>2, <2>4, NewTop
    <2>6. st \in Seq(Frames)
      BY <2>5 DEF StackOK
    <2> HIDE DEF st
    <2> QED BY <2>1, <2>2, <2>4, <2>5, <2>6 DEF Top, st
  <1> QED BY <1>2, <1>3

\* The registry grows by at most the logger that is returned.
Grown(name, l) ==
  /\ name \in DOMAIN loggers' /\ loggers'[name] = l
  /\ \A n \in DOMAIN loggers : n \in DOMAIN loggers' /\ loggers'[n] = loggers[n]

LEMMA ParentStays ==
  ASSUME NEW name, NEW parent, NEW n, NEW l, Grown(n, l), ParentOK(name, parent, loggers)
  PROVE  ParentOK(name, parent, loggers')
  BY DEF ParentOK, Grown

\* After a return all that concerns stacks, answers and the parents to come is in order.
LEMMA ReturnKeeps ==
  ASSUME RegistryInv, NEW c \in Clients, stack[c] # <<>>, NEW l \in Nat, ReturnLogger(c, l),
         Grown(Top(c).name, l), UNCHANGED <<clears, disturbed>>
  PROVE  /\ stack' \in [Clients -> Seq(Frames)] /\ StacksOK'
         /\ answers' \subseteq [name : AllNames, logger : Nat, clears : Nat]
         /\ AnswersCurrent' /\ OneLoggerPerName'
         /\ ~disturbed => \A d \in Clients : stack'[d] # <<>> /\ Last(stack'[d]).at = "insert" =>
              ParentOK(Last(stack'[d]).name, Last(stack'[d]).parent, loggers')
  <1>0. stack \in [Clients -> Seq(Frames)] /\ StacksOK /\ clears \in Nat
    BY DEF RegistryInv, RegistryTypes
  <1>1. PICK st \in Seq(Frames) :
          /\ stack' = [stack EXCEPT ![c] = st] /\ StackOK(st)
          /\ st # <<>> =>
               /\ Last(st).parent = l /\ ParentNameFor(Last(st).name) # NoName
               /\ ParentNameFor(Last(st).name) = Top(c).name
          /\ \/ UNCHANGED answers
             \/ answers' = answers \cup {[name |-> Top(c).name, logger |-> l, clears |-> clears]}
    BY <1>0, ReturnStep
  <1>2. stack' \in [Clients -> Seq(Frames)] /\ StacksOK'
    BY <1>0, <1>1 DEF StacksOK
  <1>3. Top(c).name \in AllNames
    <2>1. Top(c) \in Frames
      BY <1>0, FrontIs DEF Top
    <2> QED BY <2>1 DEF Frames
  <1> DEFINE new == [name |-> Top(c).name, logger |-> l, clears |-> clears]
  <1>4. /\ new \in [name : AllNames, logger : Nat, clears : Nat]
        /\ new.name = Top(c).name /\ new.logger = l /\ new.clears = clears
    BY <1>0, <1>3
  <1> HIDE DEF new
  <1>5. \A a \in answers' : a \in answers \/ a = new
    BY <1>1 DEF new
  <1>6. \A a \in answers : /\ a.clears <= clears
                           /\ a.clears = clears => a.name \in DOMAIN loggers /\ loggers[a.name] = a.logger
    BY DEF RegistryInv, AnswersCurrent
  <1>7. answers' \subseteq [name : AllNames, logger : Nat, clears : Nat]
    BY <1>4, <1>5 DEF RegistryInv, RegistryTypes
  <1>8. \A a \in answers' : /\ a.clears <= clears
                            /\ a.clears = clears => a.name \in DOMAIN loggers' /\ loggers'[a.name] = a.logger
    <2>1. ASSUME NEW a \in answers
          PROVE  /\ a.clears <= clears
                 /\ a.clears = clears => a.name \in DOMAIN loggers' /\ loggers'[a.name] = a.logger
      BY <1>6 DEF Grown
    <2>2. /\ new.clears <= clears
          /\ new.name \in DOMAIN loggers' /\ loggers'[new.name] = new.logger
      BY <1>0, <1>4 DEF Grown
    <2> QED BY <1>5, <2>1, <2>2
  <1>9. AnswersCurrent'
    BY <1>8 DEF AnswersCurrent
  <1>10. ASSUME NEW a \in answers', NEW b \in answers', a.name = b.name, a.clears = b.clears
         PROVE  a.logger = b.logger
    <2>1. CASE a.clears = clears
      BY <1>8, <1>10, <2>1
    <2>2. CASE a.clears # clears
      <3>1. a \in answers /\ b \in answers
        BY <1>4, <1>5, <1>10, <2>2
      <3> QED BY <1>10, <3>1 DEF RegistryInv, OneLoggerPerName
    <2> QED BY <2>1, <2>2
  <1>11. OneLoggerPerName'
    BY <1>10 DEF OneLoggerPerName
  <1>12. ASSUME ~disturbed, NEW d \in Clients, stack'[d] # <<>>, Last(stack'[d]).at = "insert"
         PROVE  ParentOK(Last(stack'[d]).name, Last(stack'[d]).parent, loggers')
    <2>1. CASE d = c
      <3>1. stack'[d] = st
        BY <1>0, <1>1, <2>1
      <3> QED BY <1>1, <1>12, <3>1 DEF ParentOK, Grown
    <2>2. CASE d # c
      <3>1. stack'[d] = stack[d]
        BY <1>0, <1>1, <2>2
      <3>2. ParentOK(Last(stack[d]).name, Last(stack[d]).parent, loggers)
        BY <1>12, <3>1 DEF RegistryInv, ParentsOK
      <3> QED BY <3>1, <3>2, ParentStays
    <2> QED BY <2>1, <2>2
  <1> QED BY <1>2, <1>7, <1>9, <1>11, <1>12

\* A client's stack changes, and nothing else of the registry.
LEMMA StackStep ==
  ASSUME RegistryInv, NEW c \in Clients, NEW st, stack' = [stack EXCEPT ![c] = st], StackOK(st),
         UNCHANGED <<loggers, created, clears, answers, disturbed>>,
         ~disturbed /\ st # <<>> /\ Last(st).at = "insert" =>
           ParentOK(Last(st).name, Last(st).parent, loggers)
  PROVE  RegistryInv'
  <1>0. stack \in [Clients -> Seq(Frames)] /\ st \in Seq(Frames)
    BY DEF RegistryInv, RegistryTypes, StackOK
  <1>1. RegistryTypes'
    <2>1. stack' \in [Clients -> Seq(Frames)]
      BY <1>0
    <2> QED BY <2>1 DEF RegistryInv, RegistryTypes
  <1>2. StacksOK'
    BY <1>0 DEF RegistryInv, StacksOK
  <1>3. AnswersCurrent' /\ OneLoggerPerName'
    BY DEF RegistryInv, AnswersCurrent, OneLoggerPerName
  <1>4. ParentsOK'
    <2>1. ASSUME ~disturbed, NEW d \in Clients, stack'[d] # <<>>, Last(stack'[d]).at = "insert"
          PROVE  ParentOK(Last(stack'[d]).name, Last(stack'[d]).parent, loggers)
      <3>1. d = c => stack'[d] = st
        BY <1>0
      <3>2. d # c => stack'[d] = stack[d]
        BY <1>0
      <3> QED BY <2>1, <3>1, <3>2 DEF RegistryInv, ParentsOK
    <2> QED BY <2>1 DEF RegistryInv, ParentsOK
  <1> QED BY <1>1, <1>2, <1>3, <1>4 DEF RegistryInv

LEMMA RegistryStep ==
  ASSUME RegistryInv, [Next]_vars
  PROVE  RegistryInv'
  <1>0. /\ created \in Seq([name : AllNames, parent : Nat]) /\ Len(created) \in Nat
        /\ DOMAIN loggers \subseteq AllNames /\ loggers \in [DOMAIN loggers -> 1 .. Len(created)]
        /\ stack \in [Clients -> Seq(Frames)] /\ StacksOK /\ clears \in Nat
    BY LenProperties DEF RegistryInv, RegistryTypes
  <1>1. CASE UNCHANGED vars
    BY <1>1 DEF vars, RegistryInv, RegistryTypes, StacksOK, AnswersCurrent, OneLoggerPerName, ParentsOK
  <1>2. ASSUME NEW c \in Clients, NEW name \in Requested, GetLogger(c, name) PROVE RegistryInv'
    <2>1. name \in AllNames
      BY RegistryAssumption, SeqMonotonic DEF AllNames, Symbols
    <2>2. /\ Frame(name) \in Frames /\ Frame(name).at = "find" /\ Frame(name).parent = NoLogger
      BY <2>1 DEF Frame, Frames, NoLogger
    <2> DEFINE st == <<Frame(name)>>
    <2>3. st \in Seq(Frames) /\ Len(st) = 1 /\ st[1] = Frame(name)
      BY <2>2
    <2> HIDE DEF st
    <2>4. StackOK(st) /\ Last(st).at = "find"
      <3>1. ChainOK(st) /\ RanksOK(st) /\ FindsOK(st)
        BY <2>2, <2>3 DEF ChainOK, RanksOK, FindsOK
      <3> QED BY <2>2, <2>3, <3>1 DEF StackOK, Last
    <2>5. stack' = [stack EXCEPT ![c] = st] /\ UNCHANGED <<loggers, created, clears, answers, disturbed>>
      BY <1>2 DEF GetLogger, st
    <2> QED BY <2>4, <2>5, StackStep
  <1>3. ASSUME NEW c \in Clients, stack[c] # <<>>, Top(c).name \in DOMAIN loggers,
               ReturnLogger(c, loggers[Top(c).name]), UNCHANGED <<loggers, created, clears, disturbed>>
        PROVE  RegistryInv'
    <2>1. loggers[Top(c).name] \in Nat
      BY <1>0, <1>3
    <2>2. Grown(Top(c).name, loggers[Top(c).name])
      BY <1>3 DEF Grown
    <2>3. /\ stack' \in [Clients -> Seq(Frames)] /\ StacksOK'
          /\ answers' \subseteq [name : AllNames, logger : Nat, clears : Nat]
          /\ AnswersCurrent' /\ OneLoggerPerName'
          /\ ~disturbed => \A d \in Clients : stack'[d] # <<>> /\ Last(stack'[d]).at = "insert" =>
               ParentOK(Last(stack'[d]).name, Last(stack'[d]).parent, loggers')
      BY <1>3, <2>1, <2>2, ReturnKeeps
    <2>4. RegistryTypes'
      BY <1>0, <1>3, <2>3 DEF RegistryTypes
    <2>5. ParentsOK'
      BY <1>3, <2>3 DEF RegistryInv, ParentsOK
    <2> QED BY <2>3, <2>4, <2>5 DEF RegistryInv
  <1>4. ASSUME NEW c \in Clients, Find(c) PROVE RegistryInv'
    <2>1. /\ stack[c] # <<>> /\ Last(stack[c]).at = "find" /\ StackOK(stack[c])
          /\ UNCHANGED <<loggers, created, clears, disturbed>>
      BY <1>0, <1>4 DEF Find, Top, StacksOK
    <2>2. CASE Top(c).name \in DOMAIN loggers /\ ReturnLogger(c, loggers[Top(c).name])
      BY <1>3, <2>1, <2>2
    <2>3. CASE /\ ParentNameFor(Top(c).name) # NoName /\ UNCHANGED answers
               /\ stack' = [stack EXCEPT ![c] = Append(@, Frame(ParentNameFor(Top(c).name)))]
      <3> DEFINE st == Append(stack[c], Frame(ParentNameFor(Last(stack[c]).name)))
      <3>1. StackOK(st) /\ Last(st).at = "find"
        BY <2>1, <2>3, Pushed DEF Top
      <3>2. stack' = [stack EXCEPT ![c] = st]
        BY <2>3 DEF Top
      <3> HIDE DEF st
      <3> QED BY <2>1, <2>3, <3>1, <3>2, StackStep
    <2>4. CASE /\ ParentNameFor(Top(c).name) = NoName /\ UNCHANGED answers
               /\ stack' = [stack EXCEPT ![c] = Append(Front(@), [Last(@) EXCEPT !.at = "insert"])]
      <3> DEFINE e == Last(stack[c])
                 x == [e EXCEPT !.at = "insert"]
                 st == Append(Front(stack[c]), x)
      <3>1. e \in Frames /\ e.parent = NoLogger
        <4>1. /\ Len(stack[c]) \in Nat \ {0} /\ e = stack[c][Len(stack[c])] /\ e \in Frames
          BY <1>0, <2>1, FrontIs
        <4>2. Len(stack[c]) \in 1 .. Len(stack[c])
          BY <4>1
        <4> QED BY <2>1, <4>1, <4>2 DEF StackOK, FindsOK
      <3> HIDE DEF e
      <3>2. x \in Frames /\ x.name = e.name /\ x.parent = NoLogger /\ x.at = "insert"
        BY <3>1 DEF Frames
      <3>3. stack' = [stack EXCEPT ![c] = st]
        BY <2>4 DEF e
      <3> HIDE DEF x
      <3>4. StackOK(st) /\ Last(st) = x
        BY <2>1, <3>2, NewTop DEF e
      <3>5. ParentOK(x.name, x.parent, loggers)
        BY <2>4, <3>2 DEF ParentOK, Top, e
      <3> HIDE DEF st
      <3> QED BY <2>1, <2>4, <3>3, <3>4, <3>5, StackStep
    <2> QED BY <1>4, <2>2, <2>3, <2>4 DEF Find
  <1>5. ASSUME NEW c \in Clients, stack[c] # <<>>, Top(c).at = "insert",
               Top(c).name \notin DOMAIN loggers, Register(c), UNCHANGED <<clears, disturbed>>
        PROVE  RegistryInv'
    <2> DEFINE top == Top(c)
               L == Len(created) + 1
               new == [name |-> top.name, parent |-> top.parent]
    <2>1. top \in Frames
      BY <1>0, <1>5, FrontIs DEF Top
    <2>2. new \in [name : AllNames, parent : Nat] /\ new.parent = top.parent
      BY <2>1 DEF Frames
    <2>3. /\ created' = Append(created, new)
          /\ loggers' = [n \in DOMAIN loggers \cup {top.name} |-> IF n = top.name THEN L ELSE loggers[n]]
          /\ ReturnLogger(c, L)
      BY <1>5 DEF Register
    <2>4. top.name \notin DOMAIN loggers /\ top.name \in AllNames /\ L \in Nat
      BY <1>0, <1>5, <2>1 DEF Frames
    <2>5. ~disturbed => ParentOK(top.name, top.parent, loggers)
      BY <1>5 DEF RegistryInv, ParentsOK, Top
    <2>6. Grown(Top(c).name, L)
      BY <2>3, <2>4 DEF Grown
    <2>7. /\ stack' \in [Clients -> Seq(Frames)] /\ StacksOK'
          /\ answers' \subseteq [name : AllNames, logger : Nat, clears : Nat]
          /\ AnswersCurrent' /\ OneLoggerPerName'
          /\ ~disturbed => \A d \in Clients : stack'[d] # <<>> /\ Last(stack'[d]).at = "insert" =>
               ParentOK(Last(stack'[d]).name, Last(stack'[d]).parent, loggers')
      BY <1>5, <2>3, <2>4, <2>6, ReturnKeeps
    <2> HIDE DEF new
    <2>8. /\ created' \in Seq([name : AllNames, parent : Nat]) /\ Len(created') = L
          /\ created'[L] = new /\ \A i \in 1 .. Len(created) : created'[i] = created[i]
      BY <1>0, <2>2, <2>3, AppendProperties
    <2> HIDE DEF L, top
    <2>9. RegistryTypes'
      <3>1. DOMAIN loggers' = DOMAIN loggers \cup {top.name}
        BY <2>3
      <3>2. \A n \in DOMAIN loggers : loggers[n] \in 1 .. L
        BY <1>0 DEF L
      <3>3. L \in 1 .. L
        BY <1>0 DEF L
      <3>4. loggers' \in [DOMAIN loggers' -> 1 .. Len(created')]
        BY <2>3, <2>8, <3>1, <3>2, <3>3
      <3> QED BY <1>0, <1>5, <2>4, <2>7, <2>8, <3>1, <3>4 DEF RegistryTypes
    <2>10. ASSUME ~disturbed, NEW n \in DOMAIN loggers'
           PROVE  ParentOK(n, created'[loggers'[n]].parent, loggers')
      <3>1. CASE n = top.name
        <4>1. created'[loggers'[n]].parent = top.parent
          BY <2>2, <2>3, <2>8, <3>1
        <4> QED BY <2>5, <2>6, <2>10, <3>1, <4>1, ParentStays
      <3>2. CASE n # top.name
        <4>1. n \in DOMAIN loggers /\ loggers'[n] = loggers[n] /\ loggers[n] \in 1 .. Len(created)
          BY <1>0, <2>3, <3>2
        <4>2. created'[loggers'[n]] = created[loggers[n]]
          BY <2>8, <4>1
        <4>3. ParentOK(n, created[loggers[n]].parent, loggers)
          BY <2>10, <4>1 DEF RegistryInv, ParentsOK
        <4> QED BY <2>6, <4>2, <4>3, ParentStays
      <3> QED BY <3>1, <3>2
    <2>11. ParentsOK'
      BY <1>5, <2>7, <2>10 DEF ParentsOK
    <2> QED BY <2>7, <2>9, <2>11 DEF RegistryInv
  <1>6. ASSUME NEW c \in Clients, Insert(c) PROVE RegistryInv'
    BY <1>3, <1>5, <1>6 DEF Insert
  <1>7. ASSUME Clear PROVE RegistryInv'
    <2>1. /\ clears' = clears + 1 /\ DOMAIN loggers' = {} /\ loggers' = [n \in {} |-> NoLogger]
          /\ UNCHANGED <<created, stack, answers>>
      BY <1>7 DEF Clear
    <2>2. ~disturbed' => \A c \in Clients : stack[c] = <<>>
      BY <1>7, Zenon DEF Clear
    <2>3. RegistryTypes'
      BY <1>0, <2>1 DEF RegistryInv, RegistryTypes
    <2>4. StacksOK' /\ OneLoggerPerName'
      BY <2>1 DEF RegistryInv, StacksOK, OneLoggerPerName
    <2>5. AnswersCurrent'
      <3>1. \A a \in answers : a.clears <= clears /\ a.clears \in Nat
        BY DEF RegistryInv, RegistryTypes, AnswersCurrent
      <3>2. \A a \in answers : a.clears <= clears + 1 /\ a.clears # clears + 1
        BY <1>0, <3>1
      <3> QED BY <2>1, <3>2 DEF AnswersCurrent
    <2>6. ParentsOK'
      BY <2>1, <2>2 DEF ParentsOK
    <2> QED BY <2>3, <2>4, <2>5, <2>6 DEF RegistryInv
  <1> QED BY <1>1, <1>2, <1>4, <1>6, <1>7 DEF Next

LEMMA RegistryAtStart == Init => RegistryInv
  <1> SUFFICES ASSUME Init PROVE RegistryInv
    OBVIOUS
  <1>1. /\ loggers = [n \in {} |-> NoLogger] /\ created = <<>> /\ stack = [c \in Clients |-> <<>>]
        /\ clears = 0 /\ answers = {}
    BY DEF Init
  <1>2. RegistryTypes
    <2>1. loggers \in [DOMAIN loggers -> 1 .. Len(created)] /\ DOMAIN loggers = {}
      BY <1>1
    <2>2. stack \in [Clients -> Seq(Frames)] /\ created \in Seq([name : AllNames, parent : Nat])
      BY <1>1
    <2> QED BY <1>1, <2>1, <2>2 DEF RegistryTypes
  <1>3. StacksOK
    BY <1>1 DEF StacksOK, StackOK, ChainOK, RanksOK, FindsOK
  <1>4. AnswersCurrent /\ OneLoggerPerName /\ ParentsOK
    BY <1>1 DEF AnswersCurrent, OneLoggerPerName, ParentsOK
  <1> QED BY <1>2, <1>3, <1>4 DEF RegistryInv

LEMMA RegistryInvariance == Spec => []RegistryInv
  BY RegistryAtStart, RegistryStep, PTL DEF Spec

\* "Returned shared_ptr instances are stable (cached)": all calls of get_logger() for
\* a name between two calls of clear() return the same logger, of any number of
\* threads and although each call lets go of the mutex between lookup and insertion.
THEOREM RegistryHasOneLoggerPerName == Spec => []OneLoggerPerName
  <1>1. RegistryInv => OneLoggerPerName
    BY DEF RegistryInv
  <1> QED BY <1>1, RegistryInvariance, PTL

\* However a name is made up of words and dots, the recursion of get_logger() never
\* comes back to a name that it is working on: each parent's name is smaller.
THEOREM RegistryRecursionTerminates == Spec => []RecursionTerminates
  <1>1. ASSUME RegistryInv PROVE RecursionTerminates
    <2> SUFFICES ASSUME NEW c \in Clients, NEW i \in DOMAIN stack[c], NEW j \in DOMAIN stack[c], i # j,
                        stack[c][i].name = stack[c][j].name
                 PROVE  FALSE
      BY DEF RecursionTerminates
    <2>1. stack[c] \in Seq(Frames) /\ RanksOK(stack[c])
      BY <1>1 DEF RegistryInv, StacksOK, StackOK
    <2>2. /\ Len(stack[c]) \in Nat /\ i \in 1 .. Len(stack[c]) /\ j \in 1 .. Len(stack[c])
      BY <2>1, LenProperties
    <2>3. Rank(stack[c][i].name) \in Nat
      <3>1. stack[c][i] \in Frames
        BY <2>1, <2>2, ElementOfSeq
      <3>2. stack[c][i].name \in AllNames
        BY <3>1 DEF Frames
      <3>3. Len(stack[c][i].name) \in Nat
        BY <3>2, LenProperties DEF AllNames
      <3> QED BY <3>3 DEF Rank
    <2>4. i < j \/ j < i
      BY <2>2
    <2>5. Rank(stack[c][i].name) < Rank(stack[c][i].name)
      BY <2>1, <2>2, <2>4 DEF RanksOK
    <2> QED BY <2>3, <2>5
  <1> QED BY <1>1, RegistryInvariance, PTL

\* "Parent loggers are created as needed": unless clear() hit a call between its
\* lookup and its insertion, the parent of a registered logger is the logger that is
\* registered under the parent's name.
THEOREM RegistryHierarchyIsComplete == Spec => []HierarchyComplete
  <1>1. ASSUME RegistryInv PROVE HierarchyComplete
    <2> SUFFICES ASSUME ~disturbed, NEW n \in DOMAIN loggers
                 PROVE  LET up == ExpectedParent(n)
                        IN  IF up = NoName
                            THEN created[loggers[n]].parent = NoLogger
                            ELSE up \in DOMAIN loggers /\ created[loggers[n]].parent = loggers[up]
      BY DEF HierarchyComplete
    <2>1. n \in AllNames /\ ParentOK(n, created[loggers[n]].parent, loggers)
      BY <1>1 DEF RegistryInv, RegistryTypes, ParentsOK
    <2>2. ExpectedParent(n) = ParentNameFor(n)
      BY <2>1, ParentIsExpected
    <2> QED BY <2>1, <2>2 DEF ParentOK
  <1> QED BY <1>1, RegistryInvariance, PTL
=============================================================================
