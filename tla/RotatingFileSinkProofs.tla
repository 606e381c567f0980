------------------------ MODULE RotatingFileSinkProofs ------------------------
(***************************************************************************)
(* The rotating file sink, for every threshold, retention limit and size   *)
(* of lines, and however often calls fail, the process dies or the clock   *)
(* is set: rotation loses no record and overwrites no file, the log keeps  *)
(* its order over all files, a file of whole lines stays below the         *)
(* threshold, pruning comes back within its limit and, where the clock     *)
(* allows it, removes the oldest files.                                    *)
(***************************************************************************)
EXTENDS RotatingFileSink, TLAPS, FiniteSetTheorems, SequenceTheorems, WellFoundedInduction

Lines == [id : Nat, bytes : Nat, whole : BOOLEAN]
-----------------------------------------------------------------------------
(* Sequences of lines. *)

LEMMA WholeElements ==
  ASSUME NEW lines \in Seq(Lines), NEW y
  PROVE  y \in Whole(lines) <=> \E i \in 1 .. Len(lines) : lines[i].whole /\ lines[i].id = y
  BY LenProperties DEF Whole

LEMMA WholeOfConcat ==
  ASSUME NEW a \in Seq(Lines), NEW b \in Seq(Lines)
  PROVE  a \o b \in Seq(Lines) /\ Whole(a \o b) = Whole(a) \cup Whole(b)
  <1>1. /\ a \o b \in Seq(Lines) /\ Len(a \o b) = Len(a) + Len(b)
        /\ Len(a) \in Nat /\ Len(b) \in Nat
        /\ \A i \in 1 .. Len(a) + Len(b) : (a \o b)[i] = IF i <= Len(a) THEN a[i] ELSE b[i - Len(a)]
    BY ConcatProperties, LenProperties
  <1> DEFINE ab == a \o b
  <1>2. /\ ab \in Seq(Lines) /\ Len(ab) = Len(a) + Len(b)
        /\ \A i \in 1 .. Len(a) + Len(b) : ab[i] = IF i <= Len(a) THEN a[i] ELSE b[i - Len(a)]
    BY <1>1
  <1> HIDE DEF ab
  <1>3. ASSUME NEW y \in Whole(ab) PROVE y \in Whole(a) \cup Whole(b)
    <2>1. PICK i \in 1 .. Len(ab) : ab[i].whole /\ ab[i].id = y
      BY <1>2, <1>3, WholeElements
    <2>2. CASE i <= Len(a)
      <3>1. i \in 1 .. Len(a) /\ ab[i] = a[i]
        BY <1>1, <1>2, <2>1, <2>2
      <3> QED BY <2>1, <3>1, WholeElements
    <2>3. CASE ~(i <= Len(a))
      <3>1. i - Len(a) \in 1 .. Len(b) /\ ab[i] = b[i - Len(a)]
        BY <1>1, <1>2, <2>1, <2>3
      <3> QED BY <2>1, <3>1, WholeElements
    <2> QED BY <2>2, <2>3
  <1>4. ASSUME NEW y \in Whole(a) PROVE y \in Whole(ab)
    <2>1. PICK i \in 1 .. Len(a) : a[i].whole /\ a[i].id = y
      BY <1>4, WholeElements
    <2>2. i \in 1 .. Len(ab) /\ ab[i] = a[i]
      BY <1>1, <1>2, <2>1
    <2> QED BY <1>2, <2>1, <2>2, WholeElements
  <1>5. ASSUME NEW y \in Whole(b) PROVE y \in Whole(ab)
    <2>1. PICK i \in 1 .. Len(b) : b[i].whole /\ b[i].id = y
      BY <1>5, WholeElements
    <2>2. Len(a) + i \in 1 .. Len(ab) /\ ab[Len(a) + i] = b[i]
      <3>1. /\ Len(a) + i \in 1 .. Len(a) + Len(b) /\ ~(Len(a) + i <= Len(a))
            /\ (Len(a) + i) - Len(a) = i
        BY <1>1, <2>1
      <3> QED BY <1>2, <3>1
    <2> QED BY <1>2, <2>1, <2>2, WholeElements
  <1>6. Whole(ab) = Whole(a) \cup Whole(b)
    BY <1>3, <1>4, <1>5
  <1> QED BY <1>2, <1>6 DEF ab

LEMMA WholeOfAppend ==
  ASSUME NEW lines \in Seq(Lines), NEW l \in Lines
  PROVE  /\ Whole(lines) \subseteq Whole(Append(lines, l))
         /\ l.whole => l.id \in Whole(Append(lines, l))
         /\ ~l.whole => Whole(Append(lines, l)) = Whole(lines)
  <1> DEFINE more == Append(lines, l)
  <1>1. /\ Len(lines) \in Nat /\ more \in Seq(Lines) /\ Len(more) = Len(lines) + 1
        /\ \A i \in 1 .. Len(lines) : more[i] = lines[i]
        /\ more[Len(lines) + 1] = l
    BY LenProperties, AppendProperties
  <1> HIDE DEF more
  <1>2. ASSUME NEW y \in Whole(lines) PROVE y \in Whole(more)
    <2>1. PICK i \in 1 .. Len(lines) : lines[i].whole /\ lines[i].id = y
      BY <1>2, WholeElements
    <2>2. i \in 1 .. Len(more) /\ more[i] = lines[i]
      BY <1>1, <2>1
    <2> QED BY <1>1, <2>1, <2>2, WholeElements
  <1>3. ASSUME l.whole PROVE l.id \in Whole(more)
    <2>1. Len(lines) + 1 \in 1 .. Len(more)
      BY <1>1
    <2> QED BY <1>1, <1>3, <2>1, WholeElements
  <1>4. ASSUME ~l.whole, NEW y \in Whole(more) PROVE y \in Whole(lines)
    <2>1. PICK i \in 1 .. Len(more) : more[i].whole /\ more[i].id = y
      BY <1>1, <1>4, WholeElements
    <2>2. i # Len(lines) + 1
      BY <1>1, <1>4, <2>1
    <2>3. i \in 1 .. Len(lines) /\ more[i] = lines[i]
      BY <1>1, <2>1, <2>2
    <2> QED BY <2>1, <2>3, WholeElements
  <1> QED BY <1>2, <1>3, <1>4 DEF more

\* A buffer is what a spill takes and what it leaves.
LEMMA WholeOfParts ==
  ASSUME NEW lines \in Seq(Lines), NEW k \in 0 .. Len(lines)
  PROVE  /\ SubSeq(lines, 1, k) \in Seq(Lines) /\ SubSeq(lines, k + 1, Len(lines)) \in Seq(Lines)
         /\ Whole(lines) = Whole(SubSeq(lines, 1, k)) \cup Whole(SubSeq(lines, k + 1, Len(lines)))
         /\ SubSeq(lines, 1, Len(lines)) = lines
         /\ lines = SubSeq(lines, 1, k) \o SubSeq(lines, k + 1, Len(lines))
  <1>1. Len(lines) \in Nat /\ k \in Nat /\ \A i \in 1 .. Len(lines) : lines[i] \in Lines
    BY LenProperties
  <1>2. SubSeq(lines, 1, k) \in Seq(Lines)
    <2>1. \A i \in 1 .. k : lines[i] \in Lines
      BY <1>1
    <2> QED BY <1>1, <2>1, SubSeqProperties
  <1>3. SubSeq(lines, k + 1, Len(lines)) \in Seq(Lines)
    <2>1. \A i \in k + 1 .. Len(lines) : lines[i] \in Lines
      BY <1>1
    <2> QED BY <1>1, <2>1, SubSeqProperties
  <1>4. SubSeq(lines, 1, k) \o SubSeq(lines, k + 1, Len(lines)) = SubSeq(lines, 1, Len(lines))
    <2>1. 1 \in 1 .. Len(lines) + 1 /\ k \in 1 - 1 .. Len(lines) /\ Len(lines) \in k .. Len(lines)
      BY <1>1
    <2> QED BY <2>1, ConcatAdjacentSubSeq
  <1>5. SubSeq(lines, 1, Len(lines)) = lines
    BY SubSeqFull
  <1>6. Whole(SubSeq(lines, 1, k) \o SubSeq(lines, k + 1, Len(lines))) =
          Whole(SubSeq(lines, 1, k)) \cup Whole(SubSeq(lines, k + 1, Len(lines)))
    BY <1>2, <1>3, WholeOfConcat
  <1> QED BY <1>2, <1>3, <1>4, <1>5, <1>6

\* What a failing call writes, what it leaves and what it loses.
LEMMA ThreeParts ==
  ASSUME NEW lines \in Seq(Lines), NEW m \in 0 .. Len(lines), NEW k \in 0 .. m
  PROVE  \E w \in Seq(Lines) :
           /\ SubSeq(lines, 1, k) \in Seq(Lines) /\ SubSeq(lines, k + 1, m) \in Seq(Lines)
           /\ SubSeq(lines, 1, m) = SubSeq(lines, 1, k) \o SubSeq(lines, k + 1, m)
           /\ lines = (SubSeq(lines, 1, k) \o SubSeq(lines, k + 1, m)) \o w
  <1>1. Len(lines) \in Nat /\ m \in Nat /\ k \in Nat /\ \A i \in 1 .. Len(lines) : lines[i] \in Lines
    BY LenProperties
  <1>2. k \in 0 .. Len(lines)
    BY <1>1
  <1>3. SubSeq(lines, 1, k) \in Seq(Lines)
    BY <1>2, WholeOfParts
  <1>4. SubSeq(lines, k + 1, m) \in Seq(Lines)
    <2>1. \A i \in k + 1 .. m : lines[i] \in Lines
      BY <1>1
    <2> QED BY <1>1, <2>1, SubSeqProperties
  <1>5. SubSeq(lines, 1, k) \o SubSeq(lines, k + 1, m) = SubSeq(lines, 1, m)
    <2>1. 1 \in 1 .. Len(lines) + 1 /\ k \in 1 - 1 .. Len(lines) /\ m \in k .. Len(lines)
      BY <1>1
    <2> QED BY <2>1, ConcatAdjacentSubSeq
  <1>6. /\ SubSeq(lines, m + 1, Len(lines)) \in Seq(Lines)
        /\ lines = SubSeq(lines, 1, m) \o SubSeq(lines, m + 1, Len(lines))
    BY WholeOfParts
  <1> QED BY <1>3, <1>4, <1>5, <1>6
-----------------------------------------------------------------------------
(* The order of pruning. *)

LEMMA LeastNumber ==
  ASSUME NEW T \in SUBSET Nat, T # {}
  PROVE  \E n \in T : \A m \in T : n <= m
  <1>1. PICK n \in T : \A m \in T : ~(<<m, n>> \in OpToRel(<, Nat))
    BY WFMin, NatLessThanWellFounded
  <1>2. ASSUME NEW m \in T PROVE n <= m
    <2>1. ~(m < n)
      BY <1>1 DEF OpToRel
    <2> QED BY <2>1
  <1> QED BY <1>2

\* Some rotated file is the oldest.
LEMMA OldestName ==
  ASSUME NEW S \in SUBSET (Nat \X Nat), S # {}
  PROVE  \E a \in S : \A b \in S \ {a} : Older(a, b)
  <1> DEFINE T == { n[1] : n \in S }
  <1>1. PICK t \in T : \A m \in T : t <= m
    <2>1. T \in SUBSET Nat /\ T # {}
      OBVIOUS
    <2> HIDE DEF T
    <2> QED BY <2>1, LeastNumber
  <1> DEFINE Q == { n[2] : n \in { m \in S : m[1] = t } }
  <1>2. PICK q \in Q : \A m \in Q : q <= m
    <2>1. Q \in SUBSET Nat /\ Q # {}
      OBVIOUS
    <2> HIDE DEF Q, T
    <2> QED BY <2>1, LeastNumber
  <1>3. PICK a \in S : a[1] = t /\ a[2] = q
    OBVIOUS
  <1>4. ASSUME NEW b \in S \ {a} PROVE Older(a, b)
    <2>1. a[1] \in Nat /\ a[2] \in Nat /\ b[1] \in Nat /\ b[2] \in Nat /\ (a[1] # b[1] \/ a[2] # b[2])
      BY <1>4
    <2>2. a[1] <= b[1]
      BY <1>1, <1>3
    <2>3. a[1] = b[1] => a[2] <= b[2]
      BY <1>2, <1>3
    <2> QED BY <2>1, <2>2, <2>3 DEF Older
  <1> QED BY <1>4

\* The k oldest of some rotated files.
Oldest(S, k, D) == Cardinality(D) = k /\ \A a \in D, b \in S \ D : Older(a, b)

LEMMA OldestExist ==
  ASSUME NEW S \in SUBSET (Nat \X Nat), IsFiniteSet(S), NEW k \in 0 .. Cardinality(S)
  PROVE  \E D \in SUBSET S : Oldest(S, k, D)
  <1> DEFINE Bad == { n \in 0 .. Cardinality(S) : ~\E D \in SUBSET S : Oldest(S, n, D) }
  <1>0. Cardinality(S) \in Nat
    BY FS_CardinalityType
  <1> SUFFICES ASSUME Bad # {} PROVE FALSE
    OBVIOUS
  <1>1. PICK n \in Bad : \A m \in Bad : n <= m
    <2>1. Bad \in SUBSET Nat
      BY <1>0
    <2> HIDE DEF Bad
    <2> QED BY <2>1, LeastNumber
  <1>2. n \in 0 .. Cardinality(S) /\ ~\E D \in SUBSET S : Oldest(S, n, D)
    OBVIOUS
  <1>3. n # 0
    <2>1. Oldest(S, 0, {})
      BY FS_EmptySet DEF Oldest
    <2> QED BY <1>2, <2>1
  <1>4. n - 1 \in 0 .. Cardinality(S) /\ n - 1 \notin Bad
    BY <1>0, <1>1, <1>2, <1>3
  <1>5. PICK D \in SUBSET S : Oldest(S, n - 1, D)
    BY <1>4
  <1> HIDE DEF Bad
  <1>6. IsFiniteSet(D) /\ Cardinality(D) = n - 1 /\ S # D
    BY <1>0, <1>2, <1>5, FS_Subset DEF Oldest
  <1>7. PICK a \in S \ D : \A b \in (S \ D) \ {a} : Older(a, b)
    <2>1. S \ D \in SUBSET (Nat \X Nat) /\ S \ D # {}
      BY <1>6
    <2> QED BY <2>1, OldestName
  <1>8. Cardinality(D \cup {a}) = n
    <2>1. Cardinality(D \cup {a}) = Cardinality(D) + 1
      BY <1>6, <1>7, FS_AddElement
    <2> QED BY <1>0, <1>2, <1>6, <2>1
  <1>9. ASSUME NEW x \in D \cup {a}, NEW y \in S \ (D \cup {a}) PROVE Older(x, y)
    BY <1>5, <1>7 DEF Oldest
  <1>10. Oldest(S, n, D \cup {a})
    BY <1>8, <1>9 DEF Oldest
  <1> QED BY <1>2, <1>7, <1>10
-----------------------------------------------------------------------------
(* The bytes that lines take. *)

SumStep(lines, k, f) == IF k = 0 THEN 0 ELSE f[k - 1] + lines[k].bytes

LEMMA SumExists ==
  ASSUME NEW lines, NEW N \in Nat
  PROVE  \E f : f = [k \in 0 .. N |-> SumStep(lines, k, f)]
  <1> DEFINE T == { k \in 0 .. N : ~ \E f : \A i \in 0 .. k : f[i] = SumStep(lines, i, f) }
  <1>1. ASSUME NEW f, NEW g, NEW i \in Nat, i = 0 \/ f[i - 1] = g[i - 1]
        PROVE  SumStep(lines, i, f) = SumStep(lines, i, g)
    BY <1>1 DEF SumStep
  <1>2. ASSUME T # {} PROVE FALSE
    <2>1. PICK k \in T : \A m \in T : k <= m
      <3>1. T \in SUBSET Nat
        OBVIOUS
      <3> HIDE DEF T
      <3> QED BY ONLY <1>2, <3>1, LeastNumber
    <2>2. k \in 0 .. N /\ ~ \E f : \A i \in 0 .. k : f[i] = SumStep(lines, i, f)
      OBVIOUS
    <2>3. PICK g : \A i \in 0 .. k - 1 : g[i] = SumStep(lines, i, g)
      <3>1. CASE k = 0
        BY <3>1
      <3>2. CASE k # 0
        <4>1. k - 1 \in 0 .. N /\ ~(k <= k - 1)
          BY <2>2, <3>2
        <4>2. k - 1 \notin T
          BY <2>1, <4>1
        <4> QED BY <4>1, <4>2
      <3> QED BY <3>1, <3>2
    <2> HIDE DEF T
    <2> DEFINE h == [i \in 0 .. N |-> IF i = k THEN SumStep(lines, k, g) ELSE g[i]]
    <2>4. /\ \A i \in 0 .. N : i # k => h[i] = g[i]
          /\ h[k] = SumStep(lines, k, g)
      BY <2>2
    <2> HIDE DEF h
    <2>5. ASSUME NEW i \in 0 .. k PROVE h[i] = SumStep(lines, i, h)
      <3>1. i \in Nat /\ (i # 0 => i - 1 \in 0 .. N /\ i - 1 # k)
        BY <2>2
      <3>2. SumStep(lines, i, h) = SumStep(lines, i, g)
        BY <1>1, <2>4, <3>1
      <3>3. i # k => i \in 0 .. k - 1 /\ i \in 0 .. N
        BY <2>2
      <3> QED BY <2>3, <2>4, <3>2, <3>3
    <2> QED BY <2>2, <2>5
  <1>3. PICK g : \A i \in 0 .. N : g[i] = SumStep(lines, i, g)
    <2>1. N \in 0 .. N
      OBVIOUS
    <2> QED BY <1>2, <2>1
  <1> HIDE DEF T
  <1> DEFINE h == [i \in 0 .. N |-> g[i]]
  <1>4. h = [i \in 0 .. N |-> SumStep(lines, i, h)]
    <2>1. \A i \in 0 .. N : h[i] = g[i]
      OBVIOUS
    <2> HIDE DEF h
    <2>2. ASSUME NEW i \in 0 .. N PROVE g[i] = SumStep(lines, i, h)
      <3>1. i \in Nat /\ (i # 0 => i - 1 \in 0 .. N)
        OBVIOUS
      <3>2. SumStep(lines, i, h) = SumStep(lines, i, g)
        BY <1>1, <2>1, <3>1
      <3> QED BY <1>3, <3>2
    <2> USE DEF h
    <2> QED BY <2>2
  <1> HIDE DEF h
  <1> QED BY <1>4

LEMMA BytesScan ==
  ASSUME NEW lines \in Seq(Lines)
  PROVE  \E f : /\ Bytes(lines) = f[Len(lines)] /\ f[0] = 0
                /\ \A k \in 1 .. Len(lines) : f[k] = f[k - 1] + lines[k].bytes
  <1> DEFINE N == Len(lines)
             F == CHOOSE f : f = [k \in 0 .. N |-> SumStep(lines, k, f)]
  <1>1. N \in Nat
    BY LenProperties
  <1>2. \E f : f = [k \in 0 .. N |-> SumStep(lines, k, f)]
    <2> HIDE DEF N
    <2> QED BY ONLY <1>1, SumExists
  <1>3. F = [k \in 0 .. N |-> SumStep(lines, k, F)]
    BY <1>2
  <1>4. Bytes(lines) = F[N]
    BY DEF Bytes, SumStep
  <1> HIDE DEF F, N
  <1>5. F[0] = 0 /\ \A k \in 1 .. N : F[k] = F[k - 1] + lines[k].bytes
    <2>1. \A k \in 0 .. N : F[k] = SumStep(lines, k, F)
      BY <1>3
    <2>2. 0 \in 0 .. N /\ \A k \in 1 .. N : k \in 0 .. N /\ k # 0
      BY <1>1
    <2> QED BY <2>1, <2>2 DEF SumStep
  <1> QED BY <1>4, <1>5 DEF N

\* Two sums of the same numbers agree.
Sums(f, b, N) == \A k \in 1 .. N : f[k] = f[k - 1] + b[k]

LEMMA SumsAgree ==
  ASSUME NEW N \in Nat, NEW b, NEW f, NEW g, f[0] = g[0], Sums(f, b, N), Sums(g, b, N)
  PROVE  f[N] = g[N]
  <1> DEFINE T == { k \in 0 .. N : f[k] # g[k] }
  <1>1. ASSUME T # {} PROVE FALSE
    <2>1. PICK k \in T : \A m \in T : k <= m
      <3>1. T \in SUBSET Nat
        OBVIOUS
      <3> HIDE DEF T
      <3> QED BY ONLY <1>1, <3>1, LeastNumber
    <2>2. k \in 0 .. N /\ f[k] # g[k]
      OBVIOUS
    <2>3. k # 0 /\ k \in 1 .. N /\ k - 1 \in 0 .. N /\ ~(k <= k - 1)
      BY <2>2
    <2>4. f[k - 1] = g[k - 1]
      BY <2>1, <2>3
    <2> QED BY <2>2, <2>3, <2>4 DEF Sums
  <1> QED BY <1>1

LEMMA BytesOfAppend ==
  ASSUME NEW lines \in Seq(Lines), NEW l \in Lines
  PROVE  Bytes(Append(lines, l)) = Bytes(lines) + l.bytes
  <1> DEFINE more == Append(lines, l)
             N == Len(lines)
  <1>1. /\ N \in Nat /\ more \in Seq(Lines) /\ Len(more) = N + 1
        /\ \A i \in 1 .. N : more[i] = lines[i]
        /\ more[N + 1] = l
    BY LenProperties, AppendProperties
  <1> HIDE DEF more, N
  <1>2. PICK f : /\ Bytes(lines) = f[N] /\ f[0] = 0
                 /\ \A k \in 1 .. N : f[k] = f[k - 1] + lines[k].bytes
    BY BytesScan DEF N
  <1>3. PICK g : /\ Bytes(more) = g[N + 1] /\ g[0] = 0
                 /\ \A k \in 1 .. N + 1 : g[k] = g[k - 1] + more[k].bytes
    BY <1>1, BytesScan
  <1>4. f[N] = g[N]
    <2> DEFINE b == [k \in 1 .. N |-> lines[k].bytes]
    <2>1. \A k \in 1 .. N : b[k] = lines[k].bytes
      OBVIOUS
    <2> HIDE DEF b
    <2>2. Sums(f, b, N)
      BY <1>2, <2>1 DEF Sums
    <2>3. Sums(g, b, N)
      BY <1>1, <1>3, <2>1 DEF Sums
    <2>4. f[0] = g[0] /\ N \in Nat
      BY <1>1, <1>2, <1>3
    <2> QED BY ONLY <2>2, <2>3, <2>4, SumsAgree
  <1>5. g[N + 1] = g[N] + l.bytes
    <2>1. N + 1 \in 1 .. N + 1 /\ (N + 1) - 1 = N
      BY <1>1
    <2> QED BY <1>1, <1>3, <2>1
  <1>6. Bytes(more) = Bytes(lines) + l.bytes
    BY <1>2, <1>3, <1>4, <1>5
  <1> QED BY <1>6 DEF more

LEMMA BytesType ==
  ASSUME NEW lines \in Seq(Lines)
  PROVE  Bytes(lines) \in Nat /\ (lines = <<>> => Bytes(lines) = 0)
  <1> DEFINE N == Len(lines)
  <1>1. N \in Nat /\ (lines = <<>> => N = 0) /\ \A k \in 1 .. N : lines[k].bytes \in Nat
    <2>1. N \in Nat /\ (lines = <<>> => N = 0) /\ \A k \in 1 .. N : lines[k] \in Lines
      BY LenProperties, ElementOfSeq
    <2>2. \A l \in Lines : l.bytes \in Nat
      BY DEF Lines
    <2> QED BY <2>1, <2>2
  <1>2. PICK f : /\ Bytes(lines) = f[N] /\ f[0] = 0
                 /\ \A k \in 1 .. N : f[k] = f[k - 1] + lines[k].bytes
    BY BytesScan
  <1> HIDE DEF N
  <1> DEFINE T == { k \in 0 .. N : f[k] \notin Nat }
  <1>3. ASSUME T # {} PROVE FALSE
    <2>1. PICK k \in T : \A m \in T : k <= m
      <3>1. T \in SUBSET Nat
        BY <1>1
      <3> HIDE DEF T
      <3> QED BY ONLY <1>3, <3>1, LeastNumber
    <2>2. k \in 0 .. N /\ f[k] \notin Nat
      OBVIOUS
    <2>3. k \in 1 .. N /\ k - 1 \in 0 .. N /\ ~(k <= k - 1)
      BY <1>1, <1>2, <2>2
    <2>4. f[k - 1] \in Nat
      BY <2>1, <2>3
    <2>5. f[k] = f[k - 1] + lines[k].bytes /\ lines[k].bytes \in Nat
      BY ONLY <1>1, <1>2, <2>3
    <2> QED BY ONLY <2>2, <2>4, <2>5
  <1>4. N \in 0 .. N
    BY <1>1
  <1> QED BY <1>1, <1>2, <1>3, <1>4

\* The first lines take no more than all of them.
LEMMA BytesOfPrefix ==
  ASSUME NEW a \in Seq(Lines), NEW b \in Seq(Lines)
  PROVE  Bytes(a) <= Bytes(a \o b)
  <1> DEFINE l == a \o b
             n == Len(a)
             p == n + Len(b)
  <1>1. /\ l \in Seq(Lines) /\ Len(l) = p /\ n \in Nat /\ p \in Nat /\ n <= p
        /\ \A i \in 1 .. n : l[i] = a[i]
        /\ \A i \in 1 .. p : l[i].bytes \in Nat
    <2>1. /\ l \in Seq(Lines) /\ Len(l) = Len(a) + Len(b) /\ Len(a) \in Nat /\ Len(b) \in Nat
          /\ \A i \in 1 .. Len(a) + Len(b) : l[i] = IF i <= Len(a) THEN a[i] ELSE b[i - Len(a)]
      BY ConcatProperties, LenProperties
    <2> HIDE DEF l
    <2>2. \A i \in 1 .. Len(l) : l[i] \in Lines
      BY <2>1, ElementOfSeq
    <2>3. \A e \in Lines : e.bytes \in Nat
      BY DEF Lines
    <2>4. \A i \in 1 .. p : l[i].bytes \in Nat
      BY <2>1, <2>2, <2>3
    <2> QED BY <2>1, <2>4
  <1> HIDE DEF l, n, p
  <1>2. PICK f : Bytes(a) = f[n] /\ f[0] = 0 /\ \A k \in 1 .. n : f[k] = f[k - 1] + a[k].bytes
    BY BytesScan DEF n
  <1>3. PICK g : Bytes(l) = g[p] /\ g[0] = 0 /\ \A k \in 1 .. p : g[k] = g[k - 1] + l[k].bytes
    BY <1>1, BytesScan
  <1>4. f[n] = g[n]
    <2> DEFINE c == [k \in 1 .. n |-> a[k].bytes]
    <2>1. \A k \in 1 .. n : c[k] = a[k].bytes /\ c[k] = l[k].bytes
      BY <1>1
    <2>2. \A k \in 1 .. n : k \in 1 .. p
      BY <1>1
    <2> HIDE DEF c
    <2>3. Sums(f, c, n)
      BY <1>2, <2>1 DEF Sums
    <2>4. Sums(g, c, n)
      BY <1>3, <2>1, <2>2 DEF Sums
    <2>5. f[0] = g[0] /\ n \in Nat
      BY <1>1, <1>2, <1>3
    <2> QED BY ONLY <2>3, <2>4, <2>5, SumsAgree
  <1>5. f[n] \in Nat
    BY <1>2, BytesType
  <1> DEFINE T == { k \in n .. p : ~(g[k] \in Nat /\ f[n] <= g[k]) }
  <1>6. ASSUME T # {} PROVE FALSE
    <2>1. PICK k \in T : \A m \in T : k <= m
      <3>1. T \in SUBSET Nat
        BY <1>1
      <3> HIDE DEF T
      <3> QED BY ONLY <1>6, <3>1, LeastNumber
    <2>2. k \in n .. p /\ ~(g[k] \in Nat /\ f[n] <= g[k])
      OBVIOUS
    <2>3. k # n
      BY <1>4, <1>5, <2>2
    <2>4. k \in 1 .. p /\ k - 1 \in n .. p /\ ~(k <= k - 1)
      BY <1>1, <2>2, <2>3
    <2>5. g[k - 1] \in Nat /\ f[n] <= g[k - 1]
      BY <2>1, <2>4
    <2>6. g[k] = g[k - 1] + l[k].bytes /\ l[k].bytes \in Nat
      BY ONLY <1>1, <1>3, <2>4
    <2> QED BY ONLY <1>5, <2>2, <2>5, <2>6
  <1>7. p \in n .. p
    BY <1>1
  <1>8. f[n] <= g[p]
    BY <1>6, <1>7
  <1> QED BY <1>2, <1>3, <1>8 DEF l
-----------------------------------------------------------------------------
(* The shape of the state, for any number of sinks. *)

Names == {Base, OtherFile} \cup (Nat \X Nat)

SinkLabels == {"down", "idle", "flush", "close", "name", "rename", "reopen", "prune", "write"}

\* The files: a directory that names some of the contents.
FilesOK(d, files) ==
  /\ files \in Seq(Seq(Lines))
  /\ IsFiniteSet(DOMAIN d) /\ DOMAIN d \subseteq Names
  /\ d \in [DOMAIN d -> 1 .. Len(files)]

Shape ==
  /\ FilesOK(dir, contents)
  /\ handle \in [Sinks -> 0 .. Len(contents)]
  /\ buffered \in [Sinks -> Seq(Lines)] /\ bytesWritten \in [Sinks -> Nat]
  /\ spc \in [Sinks -> SinkLabels]
  /\ line \in [Sinks -> Lines] /\ lastId \in Nat
  /\ now \in Nat /\ failures \in Nat
  /\ target \in [Sinks -> Names]
  /\ \A s \in Sinks : spc[s] = "rename" => target[s] \in Nat \X Nat
  /\ \A s \in Sinks : spc[s] \notin {"down", "idle"} => line[s].whole
  /\ pruned \subseteq (1 .. Len(contents)) \X Nat
  /\ returned \in Seq(Nat)

LEMMA NamesDiffer ==
  /\ Base \notin Nat \X Nat /\ OtherFile \notin Nat \X Nat /\ Base # OtherFile
  /\ \A n \in Names : ParseRotationSuffix(n) <=> n \in Nat \X Nat
  <1>1. \A n \in Nat \X Nat : Len(n) = 2
    OBVIOUS
  <1>2. Len(<<>>) = 0 /\ Len(<<1, 0, 0>>) = 3
    OBVIOUS
  <1> QED BY <1>1, <1>2 DEF Base, OtherFile, Names, ParseRotationSuffix

LEMMA RotatedNames ==
  ASSUME Shape
  PROVE  /\ Rotated \in SUBSET (Nat \X Nat) /\ IsFiniteSet(Rotated)
         /\ Rotated = DOMAIN dir \cap (Nat \X Nat)
         /\ \A listed \in SUBSET Rotated :
              IsFiniteSet(listed) /\ ToDelete(listed) \in 0 .. Cardinality(listed)
  <1>1. Rotated = DOMAIN dir \cap (Nat \X Nat)
    BY NamesDiffer DEF Shape, FilesOK, Rotated
  <1>2. IsFiniteSet(Rotated)
    BY <1>1, FS_Subset DEF Shape, FilesOK
  <1>3. ASSUME NEW listed \in SUBSET Rotated
        PROVE  IsFiniteSet(listed) /\ ToDelete(listed) \in 0 .. Cardinality(listed)
    <2>1. IsFiniteSet(listed)
      BY <1>2, FS_Subset
    <2>2. Cardinality(listed) \in Nat
      BY <2>1, FS_CardinalityType
    <2> QED BY <2>1, <2>2, RotationAssumption DEF ToDelete
  <1> QED BY <1>1, <1>2, <1>3

\* prune_old_rotations_locked finds what it looks for.
LEMMA CandidatesAreOldest ==
  ASSUME Shape, NEW listed \in SUBSET Rotated
  PROVE  /\ Candidates(listed) \in SUBSET listed
         /\ Oldest(listed, ToDelete(listed), Candidates(listed))
  <1>1. \E D \in SUBSET listed : Oldest(listed, ToDelete(listed), D)
    <2>1. /\ listed \in SUBSET (Nat \X Nat) /\ IsFiniteSet(listed)
          /\ ToDelete(listed) \in 0 .. Cardinality(listed)
      BY RotatedNames
    <2> QED BY <2>1, OldestExist
  <1>2. \E D \in SUBSET listed :
          Cardinality(D) = ToDelete(listed) /\ \A a \in D, b \in listed \ D : Older(a, b)
    BY <1>1 DEF Oldest
  <1> QED BY <1>2, Zenon DEF Candidates, Oldest

\* A pruning in which no call fails has listed all rotated files and removed all
\* that it set out to remove.
LEMMA ErrorsOfPruning ==
  ASSUME Shape, NEW listed \in SUBSET Rotated, NEW removed \in SUBSET Candidates(listed)
  PROVE  /\ removed \subseteq Rotated /\ PruneErrors(listed, removed) \in Nat
         /\ PruneErrors(listed, removed) = 0 => removed = Candidates(Rotated)
  <1> DEFINE left == Candidates(listed) \ removed
             broken == IF listed = Rotated THEN 0 ELSE 1
  <1>1. Candidates(listed) \in SUBSET listed /\ IsFiniteSet(listed)
    BY CandidatesAreOldest, RotatedNames
  <1>2. IsFiniteSet(left)
    BY <1>1, FS_Subset
  <1>3. Cardinality(left) \in Nat /\ (Cardinality(left) = 0 => left = {})
    BY <1>2, FS_CardinalityType, FS_EmptySet
  <1>4. PruneErrors(listed, removed) = broken + Cardinality(left)
    BY DEF PruneErrors
  <1>5. broken \in Nat /\ (broken = 0 => listed = Rotated)
    OBVIOUS
  <1> HIDE DEF left, broken
  <1>6. /\ PruneErrors(listed, removed) \in Nat
        /\ PruneErrors(listed, removed) = 0 => listed = Rotated /\ left = {}
    BY <1>3, <1>4, <1>5
  <1> QED BY <1>1, <1>6 DEF left

\* What the steps do to the files and their names.
Keeps == UNCHANGED <<dir, contents, pruned>>

Spills(s, lines) ==
  /\ handle[s] # NoFile
  /\ contents' = [contents EXCEPT ![handle[s]] = @ \o lines]
  /\ UNCHANGED <<dir, pruned>>

Creates ==
  /\ Base \notin DOMAIN dir
  /\ contents' = Append(contents, <<>>)
  /\ dir' = [n \in DOMAIN dir \cup {Base} |-> IF n = Base THEN Len(contents) + 1 ELSE dir[n]]
  /\ UNCHANGED pruned

Renames(s) ==
  /\ spc[s] = "rename" /\ Base \in DOMAIN dir
  /\ dir' = [n \in (DOMAIN dir \ {Base}) \cup {target[s]} |->
               IF n = target[s] THEN dir[Base] ELSE dir[n]]
  /\ UNCHANGED <<contents, pruned>>

Prunes(removed) ==
  /\ removed \subseteq Rotated
  /\ dir' = [n \in DOMAIN dir \ removed |-> dir[n]]
  /\ pruned' = pruned \cup { <<dir[n], n[1]>> : n \in removed }
  /\ UNCHANGED contents

FileEffect ==
  \/ Keeps
  \/ \E s \in Sinks, lines \in Seq(Lines) : Spills(s, lines)
  \/ Creates
  \/ \E s \in Sinks : Renames(s)
  \/ \E removed \in SUBSET Rotated : Prunes(removed)

\* Contents only grow.
Grows ==
  /\ Len(contents) \in Nat /\ Len(contents') \in Nat /\ Len(contents) <= Len(contents')
  /\ \A i \in 1 .. Len(contents) : Whole(contents[i]) \subseteq Whole(contents'[i])

LEMMA FileEffectKeepsFiles ==
  ASSUME Shape, FileEffect
  PROVE  /\ FilesOK(dir', contents') /\ Grows
         /\ pruned' \subseteq (1 .. Len(contents')) \X Nat
  <1>0. /\ contents \in Seq(Seq(Lines)) /\ Len(contents) \in Nat
        /\ IsFiniteSet(DOMAIN dir) /\ DOMAIN dir \subseteq Names /\ dir \in [DOMAIN dir -> 1 .. Len(contents)]
        /\ pruned \subseteq (1 .. Len(contents)) \X Nat
    BY LenProperties DEF Shape, FilesOK
  <1>1. CASE Keeps
    BY <1>0, <1>1 DEF Keeps, FilesOK, Grows
  <1>2. ASSUME NEW s \in Sinks, NEW lines \in Seq(Lines), Spills(s, lines)
        PROVE  /\ FilesOK(dir', contents') /\ Grows
               /\ pruned' \subseteq (1 .. Len(contents')) \X Nat
    <2> DEFINE h == handle[s]
               more == contents[h] \o lines
    <2>1. h \in 1 .. Len(contents)
      BY <1>0, <1>2 DEF Shape, Spills, NoFile
    <2>2. contents[h] \in Seq(Lines)
      BY <1>0, <2>1, ElementOfSeq
    <2>3. more \in Seq(Lines) /\ Whole(contents[h]) \subseteq Whole(more)
      BY <2>2, WholeOfConcat
    <2>4. contents' = [contents EXCEPT ![h] = more]
      BY <1>2 DEF Spills
    <2> HIDE DEF h, more
    <2>5. /\ contents' \in Seq(Seq(Lines)) /\ Len(contents') = Len(contents)
          /\ \A j \in 1 .. Len(contents) : contents'[j] = IF j = h THEN more ELSE contents[j]
      BY <1>0, <2>1, <2>3, <2>4, ExceptSeq
    <2>6. \A j \in 1 .. Len(contents) : Whole(contents[j]) \subseteq Whole(contents'[j])
      BY <2>3, <2>5
    <2>7. UNCHANGED <<dir, pruned>>
      BY <1>2 DEF Spills
    <2>8. dir' \in [DOMAIN dir' -> 1 .. Len(contents')]
      BY <1>0, <2>5, <2>7
    <2>9. FilesOK(dir', contents')
      BY <1>0, <2>5, <2>7, <2>8 DEF FilesOK
    <2>10. Grows
      <3>1. Len(contents') \in Nat /\ Len(contents) <= Len(contents')
        BY <1>0, <2>5
      <3> QED BY <1>0, <2>6, <3>1 DEF Grows
    <2>11. pruned' \subseteq (1 .. Len(contents')) \X Nat
      BY <1>0, <2>5, <2>7
    <2> QED BY <2>9, <2>10, <2>11
  <1>3. CASE Creates
    <2>1. /\ contents' = Append(contents, <<>>) /\ UNCHANGED pruned
          /\ dir' = [n \in DOMAIN dir \cup {Base} |-> IF n = Base THEN Len(contents) + 1 ELSE dir[n]]
      BY <1>3 DEF Creates
    <2>2. <<>> \in Seq(Lines)
      OBVIOUS
    <2>3. /\ contents' \in Seq(Seq(Lines)) /\ Len(contents') = Len(contents) + 1
          /\ \A i \in 1 .. Len(contents) : contents'[i] = contents[i]
      BY <1>0, <2>1, <2>2, AppendProperties
    <2>4. IsFiniteSet(DOMAIN dir') /\ DOMAIN dir' \subseteq Names
      <3>1. DOMAIN dir' = DOMAIN dir \cup {Base}
        BY <2>1
      <3>2. IsFiniteSet(DOMAIN dir \cup {Base})
        BY <1>0, FS_AddElement
      <3> QED BY <1>0, <3>1, <3>2 DEF Names
    <2>5. dir' \in [DOMAIN dir' -> 1 .. Len(contents')]
      BY <1>0, <2>1, <2>3
    <2>6. Grows
      BY <1>0, <2>3 DEF Grows
    <2>7. pruned' \subseteq (1 .. Len(contents')) \X Nat
      BY <1>0, <2>1, <2>3
    <2> QED BY <2>3, <2>4, <2>5, <2>6, <2>7 DEF FilesOK
  <1>4. ASSUME NEW s \in Sinks, Renames(s)
        PROVE  /\ FilesOK(dir', contents') /\ Grows
               /\ pruned' \subseteq (1 .. Len(contents')) \X Nat
    <2>1. /\ Base \in DOMAIN dir /\ UNCHANGED <<contents, pruned>>
          /\ dir' = [n \in (DOMAIN dir \ {Base}) \cup {target[s]} |->
                       IF n = target[s] THEN dir[Base] ELSE dir[n]]
      BY <1>4 DEF Renames
    <2>2. DOMAIN dir' = (DOMAIN dir \ {Base}) \cup {target[s]}
      BY <2>1
    <2>3. IsFiniteSet(DOMAIN dir')
      <3>1. IsFiniteSet(DOMAIN dir \ {Base})
        BY <1>0, FS_RemoveElement
      <3>2. IsFiniteSet((DOMAIN dir \ {Base}) \cup {target[s]})
        BY <3>1, FS_AddElement
      <3> QED BY <2>2, <3>2
    <2>4. target[s] \in Names
      BY DEF Shape
    <2>5. dir' \in [DOMAIN dir' -> 1 .. Len(contents)]
      BY <1>0, <2>1, <2>2
    <2> QED BY <1>0, <2>1, <2>2, <2>3, <2>4, <2>5 DEF FilesOK, Grows
  <1>5. ASSUME NEW removed \in SUBSET Rotated, Prunes(removed)
        PROVE  /\ FilesOK(dir', contents') /\ Grows
               /\ pruned' \subseteq (1 .. Len(contents')) \X Nat
    <2>1. /\ UNCHANGED contents
          /\ dir' = [n \in DOMAIN dir \ removed |-> dir[n]]
          /\ pruned' = pruned \cup { <<dir[n], n[1]>> : n \in removed }
      BY <1>5 DEF Prunes
    <2>2. DOMAIN dir' = DOMAIN dir \ removed
      BY <2>1
    <2>3. IsFiniteSet(DOMAIN dir')
      BY <1>0, <2>2, FS_Subset
    <2>4. dir' \in [DOMAIN dir' -> 1 .. Len(contents)]
      BY <1>0, <2>1, <2>2
    <2>5. \A n \in removed : n \in DOMAIN dir /\ n \in Nat \X Nat
      BY RotatedNames
    <2>6. \A n \in removed : <<dir[n], n[1]>> \in (1 .. Len(contents)) \X Nat
      BY <1>0, <2>5
    <2>7. pruned' \subseteq (1 .. Len(contents)) \X Nat
      BY <1>0, <2>1, <2>6
    <2> QED BY <1>0, <2>1, <2>2, <2>3, <2>4, <2>7 DEF FilesOK, Grows
  <1> QED BY <1>1, <1>2, <1>3, <1>4, <1>5 DEF FileEffect
-----------------------------------------------------------------------------
(* What the steps do: the kinds of steps that the properties tell apart. *)

Moves(s, from, to) == spc[s] \in from /\ \E l \in to : spc' = [spc EXCEPT ![s] = l]

streamVars == <<handle, buffered, bytesWritten, returned, flushed, gone, uncounted>>

\* The clock is set, or nothing happens.
Waits ==
  /\ UNCHANGED <<dir, contents, pruned, streamVars, spc, target, failures>>
  /\ (UNCHANGED clockVars) \/ (setBack' = (setBack \/ now' < now))

\* A step that leaves all files, names and streams alone.
Passes(s) ==
  /\ Moves(s, {"idle", "flush", "name", "rename", "write"}, {"idle", "flush", "write"})
  /\ UNCHANGED <<dir, contents, pruned, streamVars, target, clockVars>>

\* A name is chosen.
Picks(s) ==
  /\ Moves(s, {"name"}, {"rename"})
  /\ \E n \in FreeNames(now) : target' = [target EXCEPT ![s] = n]
  /\ UNCHANGED <<dir, contents, pruned, streamVars, clockVars>>

\* A file is opened, and its size told or not, or a new one is created.
Opens(s) ==
  /\ Moves(s, {"down", "reopen"}, {"idle", "prune"})
  /\ \/ /\ Base \in DOMAIN dir /\ Keeps /\ handle' = [handle EXCEPT ![s] = dir[Base]]
        /\ bytesWritten' = [bytesWritten EXCEPT ![s] = Bytes(contents[dir[Base]])]
        /\ UNCHANGED uncounted
     \/ /\ Base \in DOMAIN dir /\ Keeps /\ handle' = [handle EXCEPT ![s] = dir[Base]]
        /\ bytesWritten' = [bytesWritten EXCEPT ![s] = 0]
        /\ uncounted' = uncounted \cup {dir[Base]}
     \/ /\ Creates /\ handle' = [handle EXCEPT ![s] = Len(contents) + 1]
        /\ bytesWritten' = [bytesWritten EXCEPT ![s] = 0]
        /\ UNCHANGED uncounted
  /\ UNCHANGED <<buffered, returned, flushed, gone, target, clockVars>>

FailsToOpen(s) ==
  /\ Moves(s, {"down", "reopen"}, {"down", "idle"})
  /\ handle' = [handle EXCEPT ![s] = NoFile]
  /\ UNCHANGED <<dir, contents, pruned, buffered, bytesWritten, returned, flushed, gone, uncounted,
                 target, clockVars>>

SetsAside(s) ==
  /\ Renames(s) /\ Moves(s, {"rename"}, {"reopen"})
  /\ UNCHANGED <<streamVars, target, clockVars>>

Trims(s, removed) ==
  /\ Prunes(removed) /\ Moves(s, {"prune"}, {"write"})
  /\ failures' = failures => removed = Candidates(Rotated)
  /\ UNCHANGED <<streamVars, target, clockVars>>

\* The lines that a call on the stream has to write: the buffer, and what it has
\* taken of the line that a failing fwrite was called with.
Writes(s, lines) ==
  \/ lines = buffered[s]
  \/ /\ spc[s] = "write" /\ spc'[s] = "idle"
     /\ \E l \in Lines : ~l.whole /\ l.id = line[s].id /\ lines = Append(buffered[s], l)

\* The lines u leave the buffer for the file, v stay there, and w are lost.
Drains(s, u, v, w) ==
  /\ Moves(s, {"idle", "flush", "write"}, {"idle", "close"})
  /\ Writes(s, (u \o v) \o w)
  /\ Spills(s, u)
  /\ buffered' = [buffered EXCEPT ![s] = v]
  /\ gone' = gone \cup (Whole((u \o v) \o w) \ Whole(u \o v))
  /\ flushed' \subseteq flushed \cup Whole(u)
  /\ \E n \in Nat : bytesWritten' = [bytesWritten EXCEPT ![s] = bytesWritten[s] + n]
  /\ UNCHANGED <<handle, returned, uncounted, target, clockVars>>

\* The stream goes away with the first k of its lines written.
Drops(s, k) ==
  /\ Moves(s, SinkLabels, {"name", "down"})
  /\ \/ handle[s] = NoFile /\ Keeps
     \/ Spills(s, SubSeq(buffered[s], 1, k))
  /\ gone' = gone \cup (Whole(buffered[s]) \ Whole(SubSeq(buffered[s], 1, k)))
  /\ handle' = [handle EXCEPT ![s] = NoFile]
  /\ buffered' = [buffered EXCEPT ![s] = <<>>]
  /\ bytesWritten' = [bytesWritten EXCEPT ![s] = 0]
  /\ UNCHANGED <<returned, flushed, uncounted, target, clockVars>>

\* The line enters the buffer and is counted, and write() returns.
Buffers(s) ==
  /\ Moves(s, {"write"}, {"idle"})
  /\ handle[s] # NoFile /\ line[s].whole
  /\ buffered' = [buffered EXCEPT ![s] = Append(buffered[s], line[s])]
  /\ bytesWritten' = [bytesWritten EXCEPT ![s] = bytesWritten[s] + line[s].bytes]
  /\ returned' = Append(returned, line[s].id)
  /\ UNCHANGED <<dir, contents, pruned, handle, flushed, gone, uncounted, target, clockVars>>

StreamStep(s) ==
  \/ \E u, v, w \in Seq(Lines) : Drains(s, u, v, w)
  \/ \E k \in 0 .. Len(buffered[s]) : Drops(s, k)
  \/ Buffers(s)

NameStep(s) ==
  \/ Picks(s) \/ SetsAside(s)
  \/ \E removed \in SUBSET Rotated : Trims(s, removed)

StepKind ==
  \/ Waits
  \/ \E s \in Sinks : Passes(s) \/ Opens(s) \/ FailsToOpen(s) \/ NameStep(s) \/ StreamStep(s)

LEMMA MovesByGoto ==
  ASSUME NEW s \in Sinks, NEW S, NEW T, NEW l \in T, spc[s] \in S, Goto(s, l)
  PROVE  Moves(s, S, T)
  BY DEF Goto, Moves

LEMMA BrokenKinds ==
  ASSUME Shape, NEW s \in Sinks, NEW lines \in Seq(Lines), Writes(s, lines), StreamFails(s, lines),
         Moves(s, {"idle", "flush", "write"}, {"idle"}),
         \E n \in Nat : bytesWritten' = [bytesWritten EXCEPT ![s] = bytesWritten[s] + n],
         UNCHANGED <<clockVars, target, pruned>>
  PROVE  StepKind
  <1>1. /\ handle[s] # NoFile
        /\ UNCHANGED <<dir, handle, returned, flushed, uncounted>>
    BY DEF StreamFails
  <1>0. PICK m \in 0 .. Len(lines) : \E k \in 0 .. m :
          /\ contents' = [contents EXCEPT ![handle[s]] = @ \o SubSeq(lines, 1, k)]
          /\ buffered' = [buffered EXCEPT ![s] = SubSeq(lines, k + 1, m)]
          /\ gone' = gone \cup (Whole(lines) \ Whole(SubSeq(lines, 1, m)))
    BY DEF StreamFails
  <1>2. PICK k \in 0 .. m :
          /\ contents' = [contents EXCEPT ![handle[s]] = @ \o SubSeq(lines, 1, k)]
          /\ buffered' = [buffered EXCEPT ![s] = SubSeq(lines, k + 1, m)]
          /\ gone' = gone \cup (Whole(lines) \ Whole(SubSeq(lines, 1, m)))
    BY <1>0
  <1> DEFINE u == SubSeq(lines, 1, k)
             v == SubSeq(lines, k + 1, m)
  <1>3. PICK w \in Seq(Lines) :
          /\ u \in Seq(Lines) /\ v \in Seq(Lines)
          /\ SubSeq(lines, 1, m) = u \o v /\ lines = (u \o v) \o w
    BY <1>2, ThreeParts
  <1>4. Spills(s, u)
    BY <1>1, <1>2 DEF Spills
  <1>5. buffered' = [buffered EXCEPT ![s] = v] /\ gone' = gone \cup (Whole(lines) \ Whole(u \o v))
    BY <1>2, <1>3
  <1> HIDE DEF u, v
  <1>6. /\ Writes(s, (u \o v) \o w)
        /\ gone' = gone \cup (Whole((u \o v) \o w) \ Whole(u \o v))
    BY ONLY <1>3, <1>5, Writes(s, lines)
  <1>7. Moves(s, {"idle", "flush", "write"}, {"idle", "close"})
    BY DEF Moves
  <1>8. Drains(s, u, v, w)
    BY <1>1, <1>4, <1>5, <1>6, <1>7 DEF Drains
  <1> QED BY <1>3, <1>8 DEF StepKind, StreamStep

LEMMA FlushKinds ==
  ASSUME Shape, NEW s \in Sinks,
         \/ FlushLocked(s) /\ Moves(s, {"idle", "flush"}, {"idle", "close"})
         \/ FlushThrows(s) /\ Moves(s, {"idle", "flush"}, {"idle"}),
         UNCHANGED <<clockVars, target, pruned>>
  PROVE  StepKind
  <1> DEFINE b == buffered[s]
             n == Len(b)
  <1>0. b \in Seq(Lines) /\ n \in Nat
    BY LenProperties DEF Shape
  <1>1. ASSUME UNCHANGED bytesWritten
        PROVE  \E i \in Nat : bytesWritten' = [bytesWritten EXCEPT ![s] = bytesWritten[s] + i]
    <2>1. bytesWritten \in [Sinks -> Nat]
      BY DEF Shape
    <2>2. bytesWritten' = [bytesWritten EXCEPT ![s] = bytesWritten[s] + 0]
      BY <1>1, <2>1
    <2> QED BY <2>2
  <1>2. CASE FlushLocked(s) /\ Moves(s, {"idle", "flush"}, {"idle", "close"})
    <2>1. SubSeq(b, 1, n) = b /\ (b \o <<>>) \o <<>> = b /\ b \o <<>> = b
      BY <1>0, SubSeqFull, ConcatEmptySeq
    <2>2. Spills(s, b)
      <3>1. Spills(s, SubSeq(b, 1, n))
        BY <1>2 DEF FlushLocked, Spill, Spills
      <3> QED BY <2>1, <3>1
    <2>3. /\ buffered' = [buffered EXCEPT ![s] = <<>>] /\ flushed' = flushed \cup Whole(b)
          /\ UNCHANGED <<handle, bytesWritten, returned, gone, uncounted, target, clockVars>>
      BY <1>2 DEF FlushLocked
    <2>4. Moves(s, {"idle", "flush", "write"}, {"idle", "close"})
      BY <1>2 DEF Moves
    <2>5. /\ Writes(s, (b \o <<>>) \o <<>>)
          /\ gone' = gone \cup (Whole((b \o <<>>) \o <<>>) \ Whole(b \o <<>>))
      BY <2>1, <2>3 DEF Writes
    <2>6. Drains(s, b, <<>>, <<>>)
      BY <1>1, <2>2, <2>3, <2>4, <2>5 DEF Drains
    <2>7. <<>> \in Seq(Lines)
      OBVIOUS
    <2> HIDE DEF b
    <2> QED BY <1>0, <2>6, <2>7 DEF StepKind, StreamStep
  <1>3. CASE /\ StreamFails(s, buffered[s]) /\ UNCHANGED bytesWritten
             /\ Moves(s, {"idle", "flush"}, {"idle"})
    <2>1. Moves(s, {"idle", "flush", "write"}, {"idle"}) /\ Writes(s, b)
      BY <1>3 DEF Moves, Writes
    <2> QED BY <1>0, <1>1, <1>3, <2>1, BrokenKinds
  <1>4. CASE NoStream(s) /\ Moves(s, {"idle", "flush"}, {"idle"})
    <2>1. Passes(s)
      BY <1>4 DEF NoStream, Passes, Moves, streamVars
    <2> QED BY <2>1 DEF StepKind
  <1> QED BY <1>2, <1>3, <1>4 DEF FlushThrows

LEMMA DropKinds ==
  ASSUME Shape, NEW s \in Sinks, NEW k \in 0 .. Len(buffered[s]), DropStream(s, k),
         Moves(s, SinkLabels, {"name", "down"}),
         UNCHANGED <<clockVars, target, pruned>>
  PROVE  StepKind
  <1>1. Drops(s, k)
    BY DEF DropStream, Drops, Spills, Spill, Keeps
  <1> QED BY <1>1 DEF StepKind, StreamStep

LEMMA CloseKinds ==
  ASSUME Shape, NEW s \in Sinks, CloseLocked(s), Moves(s, SinkLabels, {"name", "down"}),
         UNCHANGED <<clockVars, target, pruned>>
  PROVE  StepKind
  <1>1. Len(buffered[s]) \in 0 .. Len(buffered[s])
    BY LenProperties DEF Shape
  <1>2. \E k \in 0 .. Len(buffered[s]) : DropStream(s, k)
    BY <1>1, Zenon DEF CloseLocked
  <1> QED BY <1>2, DropKinds

LEMMA OpenKinds ==
  ASSUME Shape, NEW s \in Sinks,
         \/ OpenLocked(s) /\ Moves(s, {"down", "reopen"}, {"idle", "prune"})
         \/ OpenFails(s) /\ Moves(s, {"down", "reopen"}, {"down", "idle"}),
         UNCHANGED <<clockVars, target, pruned>>
  PROVE  StepKind
  <1>1. CASE OpenLocked(s) /\ Moves(s, {"down", "reopen"}, {"idle", "prune"})
    <2>1. Opens(s)
      BY <1>1 DEF OpenLocked, Opens, Keeps, Creates, SizeAtOpen
    <2> QED BY <2>1 DEF StepKind
  <1>2. CASE OpenFails(s) /\ Moves(s, {"down", "reopen"}, {"down", "idle"})
    <2>1. FailsToOpen(s)
      BY <1>2 DEF OpenFails, FailsToOpen
    <2> QED BY <2>1 DEF StepKind
  <1> QED BY <1>1, <1>2

LEMMA WriteKinds ==
  ASSUME Shape, NEW s \in Sinks, WriteLine(s)
  PROVE  StepKind
  <1>0. /\ Moves(s, {"write"}, {"idle"}) /\ UNCHANGED <<clockVars, target, pruned>>
        /\ line[s] \in Lines /\ line[s].whole /\ spc[s] = "write" /\ spc'[s] = "idle"
    <2>1. Moves(s, {"write"}, {"idle"}) /\ UNCHANGED <<clockVars, target, pruned>>
      BY MovesByGoto DEF WriteLine
    <2>2. line[s] \in Lines /\ line[s].whole /\ spc[s] = "write" /\ spc'[s] = "idle"
      BY DEF WriteLine, Shape, Goto
    <2> QED BY <2>1, <2>2
  <1>1. CASE WriteLineLocked(s, line[s])
    <2>1. Buffers(s)
      BY <1>0, <1>1 DEF WriteLineLocked, Buffers
    <2> QED BY <2>1 DEF StepKind, StreamStep
  <1>2. ASSUME NEW n \in 0 .. line[s].bytes - 1,
               StreamFails(s, IF n = 0 THEN buffered[s]
                              ELSE Append(buffered[s], [line[s] EXCEPT !.bytes = n, !.whole = FALSE])),
               \E c \in {0} \cup ({n} \cap {line[s].bytes - 1}) :
                 bytesWritten' = [bytesWritten EXCEPT ![s] = @ + c]
        PROVE  StepKind
    <2> DEFINE l == [line[s] EXCEPT !.bytes = n, !.whole = FALSE]
               lines == IF n = 0 THEN buffered[s] ELSE Append(buffered[s], l)
    <2>1. n \in Nat
      <3>1. line[s].bytes \in Nat
        BY <1>0 DEF Lines
      <3> QED BY <1>2, <3>1
    <2>2. \E i \in Nat : bytesWritten' = [bytesWritten EXCEPT ![s] = bytesWritten[s] + i]
      BY <1>2, <2>1
    <2>3. l \in Lines /\ l.id = line[s].id /\ ~l.whole
      <3>1. ASSUME NEW e \in Lines
            PROVE  /\ [e EXCEPT !.bytes = n, !.whole = FALSE] \in Lines
                   /\ [e EXCEPT !.bytes = n, !.whole = FALSE].id = e.id
                   /\ ~[e EXCEPT !.bytes = n, !.whole = FALSE].whole
        BY <2>1 DEF Lines
      <3> QED BY <1>0, <3>1
    <2>4. StreamFails(s, lines)
      BY <1>2
    <2>5. buffered[s] \in Seq(Lines)
      BY DEF Shape
    <2> HIDE DEF l
    <2>6. lines \in Seq(Lines)
      BY <2>3, <2>5, AppendProperties
    <2>7. Writes(s, lines)
      BY <1>0, <2>3 DEF Writes
    <2>8. Moves(s, {"idle", "flush", "write"}, {"idle"})
      BY <1>0 DEF Moves
    <2> HIDE DEF lines
    <2> QED BY <1>0, <2>2, <2>4, <2>6, <2>7, <2>8, BrokenKinds
  <1>3. CASE NoStream(s)
    <2>1. Moves(s, {"idle", "flush", "name", "rename", "write"}, {"idle", "flush", "write"})
      BY <1>0 DEF Moves
    <2>2. Passes(s)
      BY <1>0, <1>3, <2>1 DEF NoStream, Passes, streamVars
    <2> QED BY <2>2 DEF StepKind
  <1> QED BY <1>1, <1>2, <1>3 DEF WriteLine, WriteLineThrows

LEMMA NameKinds ==
  ASSUME Shape, NEW s \in Sinks, RotateName(s) \/ RotateRename(s) \/ RotatePrune(s)
  PROVE  StepKind
  <1>1. CASE RotateName(s)
    <2>1. UNCHANGED <<dir, contents, pruned, streamVars, clockVars>>
      BY <1>1 DEF RotateName, streamVars
    <2>2. CASE \E n \in FreeNames(now) : target' = [target EXCEPT ![s] = n] /\ Goto(s, "rename")
      <3>1. Moves(s, {"name"}, {"rename"})
        BY <1>1, <2>2, MovesByGoto DEF RotateName
      <3>2. Picks(s)
        BY <2>1, <2>2, <3>1 DEF Picks
      <3> QED BY <3>2 DEF StepKind, NameStep
    <2>3. CASE Goto(s, "idle") /\ UNCHANGED target
      <3>1. Moves(s, {"idle", "flush", "name", "rename", "write"}, {"idle", "flush", "write"})
        BY <1>1, <2>3, MovesByGoto DEF RotateName
      <3>2. Passes(s)
        BY <2>1, <2>3, <3>1 DEF Passes
      <3> QED BY <3>2 DEF StepKind
    <2> QED BY <1>1, <2>2, <2>3 DEF RotateName
  <1>2. CASE RotateRename(s)
    <2>1. UNCHANGED <<contents, pruned, streamVars, clockVars, target>>
      BY <1>2 DEF RotateRename, streamVars
    <2>2. CASE Goto(s, "reopen")
      <3>1. Moves(s, {"rename"}, {"reopen"})
        BY <1>2, <2>2, MovesByGoto DEF RotateRename
      <3>2. Renames(s)
        BY <1>2, <2>1, <2>2 DEF RotateRename, Renames, Goto, Shape
      <3>3. SetsAside(s)
        BY <2>1, <3>1, <3>2 DEF SetsAside
      <3> QED BY <3>3 DEF StepKind, NameStep
    <2>3. CASE Goto(s, "idle") /\ UNCHANGED dir
      <3>1. Moves(s, {"idle", "flush", "name", "rename", "write"}, {"idle", "flush", "write"})
        BY <1>2, <2>3, MovesByGoto DEF RotateRename
      <3>2. Passes(s)
        BY <2>1, <2>3, <3>1 DEF Passes
      <3> QED BY <3>2 DEF StepKind
    <2> QED BY <1>2, <2>2, <2>3 DEF RotateRename
  <1>3. CASE RotatePrune(s)
    <2>0. PICK listed \in SUBSET Rotated : \E removed \in SUBSET Candidates(listed) :
            /\ failures' = failures + PruneErrors(listed, removed)
            /\ dir' = [n \in DOMAIN dir \ removed |-> dir[n]]
            /\ pruned' = pruned \cup { <<dir[n], n[1]>> : n \in removed }
      BY <1>3 DEF RotatePrune
    <2>1. PICK removed \in SUBSET Candidates(listed) :
            /\ failures' = failures + PruneErrors(listed, removed)
            /\ dir' = [n \in DOMAIN dir \ removed |-> dir[n]]
            /\ pruned' = pruned \cup { <<dir[n], n[1]>> : n \in removed }
      BY <2>0
    <2>2. Moves(s, {"prune"}, {"write"}) /\ UNCHANGED <<contents, streamVars, target, clockVars>>
      BY <1>3, MovesByGoto DEF RotatePrune, streamVars
    <2>3. /\ removed \subseteq Rotated /\ PruneErrors(listed, removed) \in Nat
          /\ PruneErrors(listed, removed) = 0 => removed = Candidates(Rotated)
      BY ErrorsOfPruning
    <2>4. Prunes(removed)
      BY <2>1, <2>2, <2>3 DEF Prunes
    <2>5. failures' = failures => removed = Candidates(Rotated)
      BY <2>1, <2>3 DEF Shape
    <2>6. Trims(s, removed)
      BY <2>2, <2>4, <2>5 DEF Trims
    <2> QED BY <2>3, <2>6 DEF StepKind, NameStep
  <1> QED BY <1>1, <1>2, <1>3

LEMMA StepsOfSinks ==
  ASSUME Shape, [Next]_vars
  PROVE  StepKind
  <1>1. CASE UNCHANGED vars
    BY <1>1 DEF vars, fileVars, clockVars, streamVars, StepKind, Waits
  <1>2. ASSUME NEW t \in 1 .. MaxClock \ {now}, SetClock(t) PROVE StepKind
    BY <1>2 DEF SetClock, fileVars, streamVars, StepKind, Waits
  <1>3. ASSUME NEW s \in Sinks, NEW size \in Sizes, CallWrite(s, size) PROVE StepKind
    <2>1. Moves(s, {"idle", "flush", "name", "rename", "write"}, {"idle", "flush", "write"})
      BY <1>3, MovesByGoto DEF CallWrite
    <2>2. Passes(s)
      BY <1>3, <2>1 DEF CallWrite, Passes, streamVars
    <2> QED BY <2>2 DEF StepKind
  <1>4. ASSUME NEW s \in Sinks, RotateFlush(s) PROVE StepKind
    <2>1. /\ Goto(s, "close") => Moves(s, {"idle", "flush"}, {"idle", "close"})
          /\ Goto(s, "idle") => Moves(s, {"idle", "flush"}, {"idle"})
      BY <1>4, MovesByGoto DEF RotateFlush
    <2> QED BY <1>4, <2>1, FlushKinds DEF RotateFlush
  <1>5. ASSUME NEW s \in Sinks, RotateClose(s) PROVE StepKind
    <2>1. Moves(s, SinkLabels, {"name", "down"})
      BY <1>5, MovesByGoto DEF RotateClose, SinkLabels
    <2> QED BY <1>5, <2>1, CloseKinds DEF RotateClose
  <1>6. ASSUME NEW s \in Sinks, RotateName(s) \/ RotateRename(s) \/ RotatePrune(s) PROVE StepKind
    BY <1>6, NameKinds
  <1>7. ASSUME NEW s \in Sinks, RotateReopen(s) PROVE StepKind
    <2>1. /\ Goto(s, "prune") => Moves(s, {"down", "reopen"}, {"idle", "prune"})
          /\ Goto(s, "idle") => Moves(s, {"down", "reopen"}, {"down", "idle"})
      BY <1>7, MovesByGoto DEF RotateReopen
    <2> QED BY <1>7, <2>1, OpenKinds DEF RotateReopen
  <1>8. ASSUME NEW s \in Sinks, WriteLine(s) PROVE StepKind
    BY <1>8, WriteKinds
  <1>9. ASSUME NEW s \in Sinks, Construct(s), UNCHANGED <<clockVars, line, target, pruned>>
        PROVE  StepKind
    <2>1. Goto(s, "idle") => Moves(s, {"down", "reopen"}, {"idle", "prune"})
      BY <1>9, MovesByGoto DEF Construct
    <2>2. UNCHANGED spc => Moves(s, {"down", "reopen"}, {"down", "idle"})
      BY <1>9 DEF Construct, Moves, Shape
    <2> QED BY <1>9, <2>1, <2>2, OpenKinds DEF Construct
  <1>10. ASSUME NEW s \in Sinks, Flush(s), UNCHANGED <<clockVars, line, target, pruned>>
         PROVE  StepKind
    <2>1. /\ Moves(s, {"idle", "flush"}, {"idle", "close"})
          /\ Moves(s, {"idle", "flush"}, {"idle"})
      BY <1>10 DEF Flush, Moves, Shape
    <2> QED BY <1>10, <2>1, FlushKinds DEF Flush
  <1>11. ASSUME NEW s \in Sinks, Destroy(s), UNCHANGED <<clockVars, line, target, pruned>>
         PROVE  StepKind
    <2>1. Moves(s, SinkLabels, {"name", "down"})
      BY <1>11, MovesByGoto DEF Destroy, SinkLabels
    <2> QED BY <1>11, <2>1, CloseKinds DEF Destroy
  <1>12. ASSUME NEW s \in Sinks, Crash(s), UNCHANGED <<clockVars, line, target, pruned>>
         PROVE  StepKind
    <2>1. spc[s] \in SinkLabels /\ Goto(s, "down")
      BY <1>12 DEF Crash, Shape
    <2>2. Moves(s, SinkLabels, {"name", "down"})
      BY <2>1, MovesByGoto
    <2> QED BY <1>12, <2>2, DropKinds DEF Crash
  <1> QED BY <1>1, <1>2, <1>3, <1>4, <1>5, <1>6, <1>7, <1>8, <1>9, <1>10, <1>11, <1>12 DEF Next

LEMMA KindsAreFileEffects ==
  ASSUME Shape, StepKind
  PROVE  FileEffect
  <1>1. CASE Waits
    BY <1>1 DEF Waits, FileEffect, Keeps
  <1>2. ASSUME NEW s \in Sinks, Passes(s) \/ Opens(s) \/ FailsToOpen(s) \/ Picks(s)
        PROVE  FileEffect
    BY <1>2 DEF Passes, Opens, FailsToOpen, Picks, FileEffect, Keeps
  <1>3. ASSUME NEW s \in Sinks, SetsAside(s) PROVE FileEffect
    BY <1>3 DEF SetsAside, FileEffect
  <1>4. ASSUME NEW s \in Sinks, NEW removed \in SUBSET Rotated, Trims(s, removed)
        PROVE  FileEffect
    BY <1>4 DEF Trims, FileEffect
  <1>5. ASSUME NEW s \in Sinks, NEW k \in 0 .. Len(buffered[s]), Drops(s, k) PROVE FileEffect
    <2>1. SubSeq(buffered[s], 1, k) \in Seq(Lines)
      BY WholeOfParts DEF Shape
    <2> QED BY <1>5, <2>1 DEF Drops, FileEffect
  <1>6. ASSUME NEW s \in Sinks, Buffers(s) PROVE FileEffect
    BY <1>6 DEF Buffers, FileEffect, Keeps
  <1>7. ASSUME NEW s \in Sinks, NEW u \in Seq(Lines), NEW v, NEW w, Drains(s, u, v, w)
        PROVE  FileEffect
    BY <1>7 DEF Drains, FileEffect
  <1> QED BY <1>1, <1>2, <1>3, <1>4, <1>5, <1>6, <1>7 DEF StepKind, NameStep, StreamStep

\* The part of the shape that the kinds of steps do not speak of.
LEMMA CountsStep ==
  ASSUME Shape, [Next]_vars
  PROVE  /\ line' \in [Sinks -> Lines] /\ lastId' \in Nat /\ now' \in Nat /\ failures' \in Nat
         /\ \A s \in Sinks : spc'[s] \notin {"down", "idle"} => line'[s].whole
  <1> DEFINE Goal == /\ line' \in [Sinks -> Lines] /\ lastId' \in Nat /\ now' \in Nat
                     /\ failures' \in Nat
                     /\ \A s \in Sinks : spc'[s] \notin {"down", "idle"} => line'[s].whole
  <1>0. /\ line \in [Sinks -> Lines] /\ lastId \in Nat /\ now \in Nat /\ failures \in Nat
        /\ spc \in [Sinks -> SinkLabels]
        /\ \A s \in Sinks : spc[s] \notin {"down", "idle"} => line[s].whole
    BY DEF Shape
  <1>1. ASSUME UNCHANGED <<line, lastId, now>>, failures' \in {failures, failures + 1},
               NEW s \in Sinks, NEW l, spc' = [spc EXCEPT ![s] = l],
               l \in {"down", "idle"} \/ spc[s] \notin {"down", "idle"}
        PROVE  Goal
    <2>1. ASSUME NEW t \in Sinks, spc'[t] \notin {"down", "idle"} PROVE line'[t].whole
      BY <1>0, <1>1, <2>1
    <2> QED BY <1>0, <1>1, <2>1
  <1>2. ASSUME UNCHANGED vars PROVE Goal
    BY <1>0, <1>2 DEF vars, fileVars, clockVars
  <1>3. ASSUME NEW t \in 1 .. MaxClock \ {now}, SetClock(t) PROVE Goal
    BY <1>0, <1>3, RotationAssumption DEF SetClock, fileVars
  <1>4. ASSUME NEW s \in Sinks, NEW size \in Sizes, CallWrite(s, size) PROVE Goal
    <2>1. NewLine(size) \in Lines /\ NewLine(size).whole
      BY <1>0, FileAssumption DEF NewLine, Lines
    <2>2. /\ line' = [line EXCEPT ![s] = NewLine(size)] /\ lastId' = lastId + 1
          /\ \E l : spc' = [spc EXCEPT ![s] = l]
          /\ UNCHANGED <<failures, now>>
      BY <1>4 DEF CallWrite, Goto, clockVars
    <2>3. ASSUME NEW t \in Sinks, spc'[t] \notin {"down", "idle"} PROVE line'[t].whole
      BY <1>0, <2>1, <2>2, <2>3
    <2> QED BY <1>0, <2>1, <2>2, <2>3
  <1>5. ASSUME NEW s \in Sinks, RotateFlush(s) PROVE Goal
    <2>1. failures' \in {failures, failures + 1}
      BY <1>5 DEF RotateFlush, FlushLocked, FlushThrows, NoStream, Fails
    <2> QED BY <1>1, <1>5, <2>1 DEF RotateFlush, Goto, clockVars
  <1>6. ASSUME NEW s \in Sinks, RotateClose(s) PROVE Goal
    <2>1. failures' \in {failures, failures + 1}
      BY <1>6 DEF RotateClose, CloseLocked, Fails
    <2> QED BY <1>1, <1>6, <2>1 DEF RotateClose, Goto, clockVars
  <1>7. ASSUME NEW s \in Sinks, RotateName(s) \/ RotateRename(s) PROVE Goal
    <2>1. failures' \in {failures, failures + 1}
      BY <1>7 DEF RotateName, RotateRename, Fails
    <2> QED BY <1>1, <1>7, <2>1 DEF RotateName, RotateRename, Goto, clockVars
  <1>8. ASSUME NEW s \in Sinks, RotateReopen(s) PROVE Goal
    <2>1. failures' \in {failures, failures + 1}
      BY <1>8 DEF RotateReopen, OpenLocked, SizeAtOpen, OpenFails, Fails
    <2> QED BY <1>1, <1>8, <2>1 DEF RotateReopen, Goto, clockVars
  <1>9. ASSUME NEW s \in Sinks, RotatePrune(s) PROVE Goal
    <2>1. PICK listed \in SUBSET Rotated : \E removed \in SUBSET Candidates(listed) :
            failures' = failures + PruneErrors(listed, removed)
      BY <1>9 DEF RotatePrune
    <2>2. \A removed \in SUBSET Candidates(listed) : PruneErrors(listed, removed) \in Nat
      BY ErrorsOfPruning
    <2>3. failures' \in Nat
      BY <1>0, <2>1, <2>2
    <2>4. UNCHANGED <<line, lastId, now>> /\ spc' = [spc EXCEPT ![s] = "write"] /\ spc[s] = "prune"
      BY <1>9 DEF RotatePrune, Goto, clockVars
    <2>5. ASSUME NEW t \in Sinks, spc'[t] \notin {"down", "idle"} PROVE line'[t].whole
      BY <1>0, <2>4, <2>5
    <2> QED BY <1>0, <2>3, <2>4, <2>5
  <1>10. ASSUME NEW s \in Sinks, WriteLine(s) PROVE Goal
    <2>1. failures' \in {failures, failures + 1}
      BY <1>10 DEF WriteLine, WriteLineLocked, WriteLineThrows, NoStream, Fails
    <2> QED BY <1>1, <1>10, <2>1 DEF WriteLine, Goto, clockVars
  <1>11. ASSUME NEW s \in Sinks, Construct(s), UNCHANGED <<clockVars, line, target, pruned>>
         PROVE  Goal
    <2>1. failures' \in {failures, failures + 1}
      BY <1>11 DEF Construct, OpenLocked, SizeAtOpen, OpenFails, Fails
    <2>2. \E l \in {"idle", "down"} : spc' = [spc EXCEPT ![s] = l]
      BY <1>0, <1>11 DEF Construct, Goto
    <2> QED BY <1>1, <1>11, <2>1, <2>2 DEF Construct, clockVars
  <1>12. ASSUME NEW s \in Sinks, Flush(s), UNCHANGED <<clockVars, line, target, pruned>>
         PROVE  Goal
    <2>1. failures' \in {failures, failures + 1}
      BY <1>12 DEF Flush, FlushLocked, FlushThrows, NoStream, Fails
    <2>2. spc' = [spc EXCEPT ![s] = "idle"]
      BY <1>0, <1>12 DEF Flush
    <2> QED BY <1>1, <1>12, <2>1, <2>2 DEF Flush, clockVars
  <1>13. ASSUME NEW s \in Sinks, Destroy(s), UNCHANGED <<clockVars, line, target, pruned>>
         PROVE  Goal
    <2>1. failures' \in {failures, failures + 1}
      BY <1>13 DEF Destroy, CloseLocked, Fails
    <2> QED BY <1>1, <1>13, <2>1 DEF Destroy, Goto, clockVars
  <1>14. ASSUME NEW s \in Sinks, Crash(s), UNCHANGED <<clockVars, line, target, pruned>>
         PROVE  Goal
    BY <1>1, <1>14 DEF Crash, Goto, clockVars
  <1> HIDE DEF Goal
  <1>15. Goal
    BY <1>2, <1>3, <1>4, <1>5, <1>6, <1>7, <1>8, <1>9, <1>10, <1>11, <1>12, <1>13, <1>14 DEF Next
  <1> QED BY <1>15 DEF Goal

LEMMA StreamsStep ==
  ASSUME Shape, StepKind, Len(contents) \in Nat, Len(contents') \in Nat,
         Len(contents) <= Len(contents')
  PROVE  /\ handle' \in [Sinks -> 0 .. Len(contents')]
         /\ buffered' \in [Sinks -> Seq(Lines)]
         /\ spc' \in [Sinks -> SinkLabels]
         /\ target' \in [Sinks -> Names]
         /\ \A s \in Sinks : spc'[s] = "rename" => target'[s] \in Nat \X Nat
         /\ returned' \in Seq(Nat)
  <1> DEFINE Goal == /\ handle' \in [Sinks -> 0 .. Len(contents')]
                     /\ buffered' \in [Sinks -> Seq(Lines)]
                     /\ spc' \in [Sinks -> SinkLabels]
                     /\ target' \in [Sinks -> Names]
                     /\ \A s \in Sinks : spc'[s] = "rename" => target'[s] \in Nat \X Nat
                     /\ returned' \in Seq(Nat)
  <1>0. /\ handle \in [Sinks -> 0 .. Len(contents')]
        /\ buffered \in [Sinks -> Seq(Lines)]
        /\ spc \in [Sinks -> SinkLabels]
        /\ target \in [Sinks -> Names]
        /\ \A s \in Sinks : spc[s] = "rename" => target[s] \in Nat \X Nat
        /\ returned \in Seq(Nat)
    BY DEF Shape
  <1>1. ASSUME Waits PROVE Goal
    BY <1>0, <1>1 DEF Waits, streamVars
  <1>2. ASSUME NEW s \in Sinks, NEW S, NEW T, Moves(s, S, T), T \subseteq SinkLabels,
               "rename" \notin T, UNCHANGED target
        PROVE  /\ spc' \in [Sinks -> SinkLabels] /\ target' \in [Sinks -> Names]
               /\ \A t \in Sinks : spc'[t] = "rename" => target'[t] \in Nat \X Nat
    BY <1>0, <1>2 DEF Moves
  <1>3. ASSUME NEW s \in Sinks, Passes(s) PROVE Goal
    <2>1. Moves(s, {"idle", "flush", "name", "rename", "write"}, {"idle", "flush", "write"})
      BY <1>3 DEF Passes
    <2>2. UNCHANGED <<streamVars, target>>
      BY <1>3 DEF Passes
    <2> QED BY <1>0, <1>2, <2>1, <2>2 DEF streamVars, SinkLabels
  <1>4. ASSUME NEW s \in Sinks, Opens(s) PROVE Goal
    <2>1. Moves(s, {"down", "reopen"}, {"idle", "prune"}) /\ UNCHANGED <<buffered, returned, target>>
      BY <1>4 DEF Opens
    <2>2. \E h \in 0 .. Len(contents') : handle' = [handle EXCEPT ![s] = h]
      <3>1. CASE Base \in DOMAIN dir /\ handle' = [handle EXCEPT ![s] = dir[Base]]
        <4>1. dir[Base] \in 1 .. Len(contents)
          BY <3>1 DEF Shape, FilesOK
        <4>2. dir[Base] \in 0 .. Len(contents')
          BY <4>1
        <4> QED BY <3>1, <4>2
      <3>2. CASE Creates /\ handle' = [handle EXCEPT ![s] = Len(contents) + 1]
        <4>1. Len(contents') = Len(contents) + 1
          BY <3>2, AppendProperties DEF Creates, Shape, FilesOK
        <4>2. Len(contents) + 1 \in 0 .. Len(contents')
          BY <4>1
        <4> QED BY <3>2, <4>2
      <3> QED BY <1>4, <3>1, <3>2 DEF Opens
    <2>3. handle' \in [Sinks -> 0 .. Len(contents')]
      BY <1>0, <2>2
    <2> QED BY <1>0, <1>2, <2>1, <2>3 DEF SinkLabels
  <1>5. ASSUME NEW s \in Sinks, FailsToOpen(s) PROVE Goal
    <2>1. /\ Moves(s, {"down", "reopen"}, {"down", "idle"}) /\ UNCHANGED <<buffered, returned, target>>
          /\ handle' = [handle EXCEPT ![s] = NoFile]
      BY <1>5 DEF FailsToOpen
    <2>2. handle' \in [Sinks -> 0 .. Len(contents')]
      BY <1>0, <2>1 DEF NoFile
    <2> QED BY <1>0, <1>2, <2>1, <2>2 DEF SinkLabels
  <1>6. ASSUME NEW s \in Sinks, Picks(s) PROVE Goal
    <2>1. PICK n \in FreeNames(now) : target' = [target EXCEPT ![s] = n]
      BY <1>6 DEF Picks
    <2>2. n \in Nat \X Nat
      <3>1. PICK k \in 0 .. MaxSeq - 1 : n = <<now, k>>
        BY <2>1 DEF FreeNames
      <3>2. now \in Nat /\ k \in Nat
        BY <3>1, RotationAssumption DEF Shape
      <3> QED BY <3>1, <3>2
    <2>3. spc' = [spc EXCEPT ![s] = "rename"] /\ UNCHANGED streamVars
      BY <1>6 DEF Picks, Moves
    <2>4. target' \in [Sinks -> Names]
      BY <1>0, <2>1, <2>2 DEF Names
    <2>5. ASSUME NEW t \in Sinks, spc'[t] = "rename" PROVE target'[t] \in Nat \X Nat
      BY <1>0, <2>1, <2>2, <2>3, <2>5
    <2> QED BY <1>0, <2>3, <2>4, <2>5 DEF streamVars, SinkLabels
  <1>7. ASSUME NEW s \in Sinks, SetsAside(s) PROVE Goal
    <2>1. Moves(s, {"rename"}, {"reopen"}) /\ UNCHANGED <<streamVars, target>>
      BY <1>7 DEF SetsAside
    <2> QED BY <1>0, <1>2, <2>1 DEF streamVars, SinkLabels
  <1>8. ASSUME NEW s \in Sinks, NEW removed, Trims(s, removed) PROVE Goal
    <2>1. Moves(s, {"prune"}, {"write"}) /\ UNCHANGED <<streamVars, target>>
      BY <1>8 DEF Trims
    <2> QED BY <1>0, <1>2, <2>1 DEF streamVars, SinkLabels
  <1>9. ASSUME NEW s \in Sinks, NEW u, NEW v \in Seq(Lines), NEW w, Drains(s, u, v, w) PROVE Goal
    <2>1. /\ Moves(s, {"idle", "flush", "write"}, {"idle", "close"})
          /\ UNCHANGED <<handle, returned, target>>
      BY <1>9 DEF Drains
    <2>2. buffered' = [buffered EXCEPT ![s] = v]
      BY <1>9 DEF Drains
    <2>3. buffered' \in [Sinks -> Seq(Lines)]
      BY <1>0, <2>2
    <2> QED BY <1>0, <1>2, <2>1, <2>3 DEF SinkLabels
  <1>10. ASSUME NEW s \in Sinks, NEW k \in 0 .. Len(buffered[s]), Drops(s, k) PROVE Goal
    <2>1. /\ Moves(s, SinkLabels, {"name", "down"}) /\ UNCHANGED <<returned, target>>
          /\ handle' = [handle EXCEPT ![s] = NoFile]
          /\ buffered' = [buffered EXCEPT ![s] = <<>>]
      BY <1>10 DEF Drops
    <2>2. handle' \in [Sinks -> 0 .. Len(contents')]
      BY <1>0, <2>1 DEF NoFile
    <2>3. buffered' \in [Sinks -> Seq(Lines)]
      BY <1>0, <2>1
    <2>4. {"name", "down"} \subseteq SinkLabels /\ "rename" \notin {"name", "down"}
      BY DEF SinkLabels
    <2> QED BY <1>0, <1>2, <2>1, <2>2, <2>3, <2>4
  <1>11. ASSUME NEW s \in Sinks, Buffers(s) PROVE Goal
    <2>0. line[s] \in Lines
      BY DEF Shape
    <2>1. /\ Moves(s, {"write"}, {"idle"}) /\ UNCHANGED <<handle, target>>
          /\ buffered' = [buffered EXCEPT ![s] = Append(buffered[s], line[s])]
      BY <1>11 DEF Buffers
    <2>2. Append(buffered[s], line[s]) \in Seq(Lines)
      BY <1>0, <2>0, AppendProperties
    <2>3. buffered' \in [Sinks -> Seq(Lines)]
      BY <1>0, <2>1, <2>2
    <2>4. line[s].id \in Nat
      BY <2>0 DEF Lines
    <2>5. returned' \in Seq(Nat)
      <3>1. Append(returned, line[s].id) \in Seq(Nat)
        BY <1>0, <2>4, AppendProperties
      <3> QED BY <1>11, <3>1 DEF Buffers
    <2> QED BY <1>0, <1>2, <2>1, <2>3, <2>5 DEF SinkLabels
  <1> HIDE DEF Goal
  <1>12. Goal
    BY <1>1, <1>3, <1>4, <1>5, <1>6, <1>7, <1>8, <1>9, <1>10, <1>11 DEF StepKind, NameStep, StreamStep
  <1> QED BY <1>12 DEF Goal

LEMMA CountedStep ==
  ASSUME Shape, StepKind
  PROVE  bytesWritten' \in [Sinks -> Nat]
  <1>0. bytesWritten \in [Sinks -> Nat]
    BY DEF Shape
  <1>1. ASSUME UNCHANGED streamVars PROVE UNCHANGED bytesWritten
    BY <1>1 DEF streamVars
  <1>2. ASSUME NEW s \in Sinks, Passes(s) \/ FailsToOpen(s) \/ NameStep(s) PROVE UNCHANGED bytesWritten
    BY <1>1, <1>2 DEF Passes, FailsToOpen, NameStep, Picks, SetsAside, Trims
  <1>3. ASSUME NEW s \in Sinks, Opens(s)
        PROVE  \E n \in Nat : bytesWritten' = [bytesWritten EXCEPT ![s] = n]
    <2>1. Base \in DOMAIN dir => Bytes(contents[dir[Base]]) \in Nat
      <3>1. Base \in DOMAIN dir => contents[dir[Base]] \in Seq(Lines)
        BY ElementOfSeq DEF Shape, FilesOK
      <3> QED BY <3>1, BytesType
    <2> QED BY <1>3, <2>1 DEF Opens
  <1>4. ASSUME NEW s \in Sinks, NEW k, Drops(s, k)
        PROVE  \E n \in Nat : bytesWritten' = [bytesWritten EXCEPT ![s] = n]
    BY <1>4 DEF Drops
  <1>5. ASSUME NEW s \in Sinks, NEW u, NEW v, NEW w, Drains(s, u, v, w) \/ Buffers(s)
        PROVE  \E n \in Nat : bytesWritten' = [bytesWritten EXCEPT ![s] = n]
    <2>1. bytesWritten[s] \in Nat /\ line[s].bytes \in Nat
      <3>1. bytesWritten[s] \in Nat /\ line[s] \in Lines
        BY <1>0 DEF Shape
      <3> QED BY <3>1 DEF Lines
    <2>2. PICK n \in Nat : bytesWritten' = [bytesWritten EXCEPT ![s] = bytesWritten[s] + n]
      BY <1>5, <2>1 DEF Drains, Buffers
    <2>3. bytesWritten[s] + n \in Nat
      BY <2>1, <2>2
    <2> QED BY <2>2, <2>3
  <1>6. Waits => UNCHANGED bytesWritten
    BY <1>1 DEF Waits
  <1>7. \/ UNCHANGED bytesWritten
        \/ \E s \in Sinks, n \in Nat : bytesWritten' = [bytesWritten EXCEPT ![s] = n]
    BY <1>2, <1>3, <1>4, <1>5, <1>6 DEF StepKind, StreamStep
  <1> QED BY <1>0, <1>7

LEMMA ShapeStep ==
  ASSUME Shape, [Next]_vars
  PROVE  Shape' /\ StepKind /\ FileEffect /\ Grows
  <1>1. StepKind
    BY StepsOfSinks
  <1>2. FileEffect
    BY <1>1, KindsAreFileEffects
  <1>3. FilesOK(dir', contents') /\ Grows /\ pruned' \subseteq (1 .. Len(contents')) \X Nat
    BY <1>2, FileEffectKeepsFiles
  <1>4. Len(contents) \in Nat /\ Len(contents') \in Nat /\ Len(contents) <= Len(contents')
    BY <1>3 DEF Grows
  <1>5. /\ handle' \in [Sinks -> 0 .. Len(contents')]
        /\ buffered' \in [Sinks -> Seq(Lines)]
        /\ spc' \in [Sinks -> SinkLabels]
        /\ target' \in [Sinks -> Names]
        /\ \A s \in Sinks : spc'[s] = "rename" => target'[s] \in Nat \X Nat
        /\ returned' \in Seq(Nat)
    BY <1>1, <1>4, StreamsStep
  <1>6. /\ line' \in [Sinks -> Lines] /\ lastId' \in Nat /\ now' \in Nat /\ failures' \in Nat
        /\ \A s \in Sinks : spc'[s] \notin {"down", "idle"} => line'[s].whole
    BY CountsStep
  <1>7. bytesWritten' \in [Sinks -> Nat]
    BY <1>1, CountedStep
  <1>8. Shape'
    BY <1>3, <1>5, <1>6, <1>7 DEF Shape
  <1> QED BY <1>1, <1>2, <1>3, <1>8

LEMMA ShapeAtStart ==
  ASSUME Init
  PROVE  Shape
  <1>1. Cardinality({OtherFile}) = 1 /\ IsFiniteSet({OtherFile})
    BY FS_Singleton
  <1>2. dir = [n \in {OtherFile} |-> 1] /\ contents = [i \in 1 .. 1 |-> <<>>]
    BY <1>1 DEF Init, FileInit
  <1>3. contents = <<(<<>>)>> /\ contents \in Seq(Seq(Lines)) /\ Len(contents) = 1
    <2>1. contents = <<(<<>>)>>
      BY <1>2
    <2> QED BY <2>1
  <1>4. FilesOK(dir, contents)
    BY <1>1, <1>2, <1>3 DEF FilesOK, Names
  <1>5. /\ handle \in [Sinks -> 0 .. Len(contents)] /\ buffered \in [Sinks -> Seq(Lines)]
        /\ spc \in [Sinks -> SinkLabels]
        /\ \A s \in Sinks : spc[s] = "down"
    <2>0. 0 \in 0 .. Len(contents)
      BY <1>3
    <2>1. handle = [s \in Sinks |-> 0]
      BY DEF Init, FileInit, NoFile
    <2>2. buffered = [s \in Sinks |-> <<>>] /\ spc = [s \in Sinks |-> "down"]
      BY DEF Init, FileInit
    <2> QED BY <2>0, <2>1, <2>2 DEF SinkLabels
  <1>6. line \in [Sinks -> Lines] /\ lastId \in Nat /\ now \in Nat /\ failures \in Nat
    BY DEF Init, FileInit, Lines
  <1>7. /\ target \in [Sinks -> Names] /\ pruned = {} /\ returned \in Seq(Nat)
        /\ bytesWritten \in [Sinks -> Nat]
    BY DEF Init, FileInit, Names
  <1> QED BY <1>4, <1>5, <1>6, <1>7 DEF Shape
-----------------------------------------------------------------------------
(* Retention. *)

\* Between "prune" and "write" lies the pruning, and nothing else.
LEMMA PruneStep ==
  ASSUME Shape, StepKind, NEW s \in Sinks, spc[s] = "prune", spc'[s] = "write"
  PROVE  \E removed \in SUBSET Rotated : Trims(s, removed)
  <1>0. spc \in [Sinks -> SinkLabels]
    BY DEF Shape
  <1>1. ~Waits
    BY DEF Waits
  <1>2. ASSUME NEW t \in Sinks, NEW S, NEW T, Moves(t, S, T) PROVE t = s /\ "prune" \in S /\ "write" \in T
    BY <1>0, <1>2 DEF Moves
  <1>3. ASSUME NEW t \in Sinks, Passes(t) \/ Opens(t) \/ FailsToOpen(t) \/ Picks(t) \/ SetsAside(t)
        PROVE  FALSE
    BY <1>2, <1>3 DEF Passes, Opens, FailsToOpen, Picks, SetsAside
  <1>4. ASSUME NEW t \in Sinks, NEW u, NEW v, NEW w, Drains(t, u, v, w) \/ Drops(t, u) \/ Buffers(t)
        PROVE  FALSE
    BY <1>2, <1>4 DEF Drains, Drops, Buffers
  <1>5. ASSUME NEW t \in Sinks, NEW removed, Trims(t, removed) PROVE t = s
    BY <1>2, <1>5 DEF Trims
  <1> QED BY <1>1, <1>3, <1>4, <1>5 DEF StepKind, NameStep, StreamStep

\* A pruning without failures removes all that it set out to remove.
LEMMA PruneRemovesAll ==
  ASSUME NEW s \in Sinks, NEW removed \in SUBSET Rotated, Trims(s, removed), failures' = failures
  PROVE  removed = Candidates(Rotated) /\ Rotated' = Rotated \ Candidates(Rotated)
  <1>1. removed = Candidates(Rotated)
    BY DEF Trims
  <1>2. DOMAIN dir' = DOMAIN dir \ removed
    BY DEF Trims, Prunes
  <1>3. Rotated' = { n \in DOMAIN dir' : ParseRotationSuffix(n) }
    BY DEF Rotated
  <1>4. Rotated' = Rotated \ removed
    BY <1>2, <1>3 DEF Rotated
  <1> QED BY <1>1, <1>4

\* However many files earlier crashes, listings that broke off or failed removals left
\* behind, the next rotation whose listing and removals succeed is back within the
\* retention limit: of any number of sinks that share the path, and for every limit.
THEOREM PruningRestoresRetention == Spec => RetentionRestored
  <1> DEFINE Bound == \A s \in Sinks :
               MaxRotatedFiles > 0 /\ spc[s] = "prune" /\ spc'[s] = "write" /\ failures' = failures
                 => Cardinality(Rotated') <= MaxRotatedFiles
  <1>1. Init => Shape
    BY ShapeAtStart
  <1>2. Shape /\ [Next]_vars => Shape'
    BY ShapeStep
  <1>3. ASSUME Shape, [Next]_vars PROVE Bound
    <2> SUFFICES ASSUME NEW s \in Sinks, MaxRotatedFiles > 0, spc[s] = "prune", spc'[s] = "write",
                        failures' = failures
                 PROVE  Cardinality(Rotated') <= MaxRotatedFiles
      OBVIOUS
    <2>1. PICK removed \in SUBSET Rotated : Trims(s, removed)
      BY <1>3, ShapeStep, PruneStep
    <2> DEFINE removal == Candidates(Rotated)
    <2>2. Rotated' = Rotated \ removal
      BY <2>1, PruneRemovesAll
    <2>3. removal \in SUBSET Rotated /\ Cardinality(removal) = ToDelete(Rotated)
      BY <1>3, CandidatesAreOldest DEF Oldest
    <2>4. IsFiniteSet(Rotated) /\ Cardinality(Rotated) \in Nat
      BY <1>3, RotatedNames, FS_CardinalityType
    <2> HIDE DEF removal
    <2>5. Rotated \cap removal = removal
      BY <2>3
    <2>6. Cardinality(Rotated \ removal) = Cardinality(Rotated) - ToDelete(Rotated)
      <3>1. Cardinality(Rotated \ removal) = Cardinality(Rotated) - Cardinality(Rotated \cap removal)
        BY <2>4, FS_Difference
      <3> QED BY <2>3, <2>5, <3>1
    <2>7. Cardinality(Rotated) - ToDelete(Rotated) <= MaxRotatedFiles
      BY <2>4, RotationAssumption DEF ToDelete
    <2> QED BY <2>2, <2>6, <2>7
  <1>4. Spec => []Shape
    BY <1>1, <1>2, PTL DEF Spec
  <1>5. Spec => [][Bound]_vars
    BY <1>3, <1>4, PTL DEF Spec
  <1> QED BY <1>5 DEF RetentionRestored
-----------------------------------------------------------------------------
(* A sink that has its path for itself. *)

OnlySink == \A s, t \in Sinks : s = t

\* The stream, if there is one, is that of the file at the path, and it is closed
\* while a rotation moves the file.
Own ==
  /\ \A s \in Sinks : handle[s] # NoFile => (Base \in DOMAIN dir /\ dir[Base] = handle[s])
  /\ \A s \in Sinks : handle[s] = NoFile => buffered[s] = <<>>
  /\ \A s \in Sinks : spc[s] \in {"down", "name", "rename", "reopen"} => handle[s] = NoFile

\* The chosen name is free, and the least free one of its second.
Chosen ==
  \A s \in Sinks : spc[s] = "rename" =>
    /\ target[s] \notin DOMAIN dir
    /\ \A j \in 0 .. target[s][2] - 1 : <<target[s][1], j>> \in DOMAIN dir

Owner == OnlySink /\ Shape /\ Own /\ Chosen

LEMMA OwnStep ==
  ASSUME OnlySink, Shape, Own, Shape', StepKind
  PROVE  Own'
  <1>0. /\ \A s \in Sinks : handle[s] # NoFile => (Base \in DOMAIN dir /\ dir[Base] = handle[s])
        /\ \A s \in Sinks : handle[s] = NoFile => buffered[s] = <<>>
        /\ \A s \in Sinks : spc[s] \in {"down", "name", "rename", "reopen"} => handle[s] = NoFile
        /\ \A s, t \in Sinks : s = t
        /\ handle \in [Sinks -> 0 .. Len(contents)] /\ buffered \in [Sinks -> Seq(Lines)]
        /\ spc \in [Sinks -> SinkLabels]
    BY DEF Own, OnlySink, Shape
  <1>1. ASSUME Waits PROVE Own'
    BY <1>0, <1>1 DEF Waits, Own, streamVars
  <1>2. ASSUME NEW s \in Sinks,
               handle'[s] # NoFile => (Base \in DOMAIN dir' /\ dir'[Base] = handle'[s]),
               handle'[s] = NoFile => buffered'[s] = <<>>,
               spc'[s] \in {"down", "name", "rename", "reopen"} => handle'[s] = NoFile
        PROVE  Own'
    <2>1. \A t \in Sinks : t = s
      BY <1>0
    <2> QED BY <1>2, <2>1 DEF Own
  <1>3. ASSUME NEW s \in Sinks, Passes(s) PROVE Own'
    <2>1. UNCHANGED <<dir, handle, buffered>> /\ spc'[s] \in {"idle", "flush", "write"}
      BY <1>0, <1>3 DEF Passes, streamVars, Moves
    <2> QED BY <1>0, <1>2, <2>1
  <1>4. ASSUME NEW s \in Sinks, Opens(s) PROVE Own'
    <2>1. Base \in DOMAIN dir' /\ dir'[Base] = handle'[s] /\ handle'[s] # NoFile
      <3>1. CASE Base \in DOMAIN dir /\ Keeps /\ handle' = [handle EXCEPT ![s] = dir[Base]]
        <4>1. dir[Base] \in 1 .. Len(contents)
          BY <3>1 DEF Shape, FilesOK
        <4>2. dir[Base] # NoFile
          BY <4>1, LenProperties DEF NoFile, Shape, FilesOK
        <4> QED BY <1>0, <3>1, <4>2 DEF Keeps
      <3>2. CASE Creates /\ handle' = [handle EXCEPT ![s] = Len(contents) + 1]
        <4>1. Len(contents) + 1 # NoFile
          BY LenProperties DEF NoFile, Shape, FilesOK
        <4>2. Base \in DOMAIN dir' /\ dir'[Base] = Len(contents) + 1
          BY <3>2 DEF Creates
        <4> QED BY <1>0, <3>2, <4>1, <4>2
      <3> QED BY <1>4, <3>1, <3>2 DEF Opens
    <2>2. spc'[s] \in {"idle", "prune"}
      BY <1>0, <1>4 DEF Opens, Moves
    <2> QED BY <1>2, <2>1, <2>2
  <1>5. ASSUME NEW s \in Sinks, FailsToOpen(s) PROVE Own'
    <2>1. spc[s] \in {"down", "reopen"} /\ handle'[s] = NoFile /\ UNCHANGED buffered
      BY <1>0, <1>5 DEF FailsToOpen, Moves
    <2> QED BY <1>0, <1>2, <2>1
  <1>6. ASSUME NEW s \in Sinks, Picks(s) PROVE Own'
    <2>1. spc[s] = "name" /\ UNCHANGED <<dir, handle, buffered>>
      BY <1>0, <1>6 DEF Picks, Moves, streamVars
    <2> QED BY <1>0, <1>2, <2>1
  <1>7. ASSUME NEW s \in Sinks, SetsAside(s) PROVE Own'
    <2>1. spc[s] = "rename" /\ UNCHANGED <<handle, buffered>>
      BY <1>0, <1>7 DEF SetsAside, Moves, streamVars
    <2> QED BY <1>0, <1>2, <2>1
  <1>8. ASSUME NEW s \in Sinks, NEW removed \in SUBSET Rotated, Trims(s, removed) PROVE Own'
    <2>1. /\ spc'[s] = "write" /\ UNCHANGED <<handle, buffered>>
          /\ dir' = [n \in DOMAIN dir \ removed |-> dir[n]]
      BY <1>0, <1>8 DEF Trims, Moves, streamVars, Prunes
    <2>2. Base \notin removed
      BY RotatedNames, NamesDiffer
    <2>3. handle[s] # NoFile => (Base \in DOMAIN dir' /\ dir'[Base] = handle[s])
      BY <1>0, <2>1, <2>2
    <2> QED BY <1>0, <1>2, <2>1, <2>3
  <1>9. ASSUME NEW s \in Sinks, NEW u, NEW v, NEW w, Drains(s, u, v, w) PROVE Own'
    <2>1. /\ handle[s] # NoFile /\ UNCHANGED <<dir, handle>>
          /\ spc'[s] \in {"idle", "close"}
      BY <1>0, <1>9 DEF Drains, Moves, Spills
    <2> QED BY <1>0, <1>2, <2>1
  <1>10. ASSUME NEW s \in Sinks, NEW k \in 0 .. Len(buffered[s]), Drops(s, k) PROVE Own'
    <2>1. handle'[s] = NoFile /\ buffered'[s] = <<>>
      BY <1>0, <1>10 DEF Drops
    <2> QED BY <1>2, <2>1
  <1>11. ASSUME NEW s \in Sinks, Buffers(s) PROVE Own'
    <2>1. handle[s] # NoFile /\ UNCHANGED <<dir, handle>> /\ spc'[s] = "idle"
      BY <1>0, <1>11 DEF Buffers, Moves
    <2> QED BY <1>0, <1>2, <2>1
  <1> QED
    BY <1>1, <1>3, <1>4, <1>5, <1>6, <1>7, <1>8, <1>9, <1>10, <1>11 DEF StepKind, NameStep, StreamStep

LEMMA ChosenStep ==
  ASSUME OnlySink, Shape, Chosen, StepKind
  PROVE  Chosen'
  <1>0. spc \in [Sinks -> SinkLabels] /\ target \in [Sinks -> Names] /\ \A s, t \in Sinks : s = t
    BY DEF Shape, OnlySink
  <1>1. ASSUME Waits PROVE Chosen'
    BY <1>1 DEF Waits, Chosen
  <1>2. ASSUME NEW s \in Sinks, NEW S, NEW T, Moves(s, S, T), "rename" \notin T PROVE Chosen'
    <2>1. \A t \in Sinks : spc'[t] # "rename"
      BY <1>0, <1>2 DEF Moves
    <2> QED BY <2>1 DEF Chosen
  <1>3. ASSUME NEW s \in Sinks, Passes(s) \/ Opens(s) \/ FailsToOpen(s) \/ SetsAside(s) PROVE Chosen'
    BY <1>2, <1>3 DEF Passes, Opens, FailsToOpen, SetsAside
  <1>4. ASSUME NEW s \in Sinks, NEW x, NEW v, NEW w,
               Trims(s, x) \/ Drains(s, x, v, w) \/ Drops(s, x) \/ Buffers(s)
        PROVE  Chosen'
    BY <1>2, <1>4 DEF Trims, Drains, Drops, Buffers
  <1>5. ASSUME NEW s \in Sinks, Picks(s) PROVE Chosen'
    <2>1. PICK n \in FreeNames(now) : target' = [target EXCEPT ![s] = n]
      BY <1>5 DEF Picks
    <2>2. PICK k \in 0 .. MaxSeq - 1 :
            /\ n = <<now, k>> /\ <<now, k>> \notin DOMAIN dir
            /\ \A j \in 0 .. k - 1 : <<now, j>> \in DOMAIN dir
      BY <2>1 DEF FreeNames
    <2>3. target'[s] = n /\ n[1] = now /\ n[2] = k /\ UNCHANGED dir
      BY <1>0, <1>5, <2>1, <2>2 DEF Picks
    <2>4. \A t \in Sinks : t = s
      BY <1>0
    <2> QED BY <2>2, <2>3, <2>4 DEF Chosen
  <1> QED BY <1>1, <1>3, <1>4, <1>5 DEF StepKind, NameStep, StreamStep

LEMMA OwnerStep ==
  ASSUME Owner, [Next]_vars
  PROVE  Owner' /\ StepKind /\ Grows
  <1>1. Shape' /\ StepKind /\ Grows
    BY ShapeStep DEF Owner
  <1> QED BY <1>1, OwnStep, ChosenStep DEF Owner, OnlySink

LEMMA OwnerAtStart ==
  ASSUME OnlySink, Init
  PROVE  Owner
  <1>1. Shape
    BY ShapeAtStart
  <1>2. \A s \in Sinks : handle[s] = NoFile /\ buffered[s] = <<>> /\ spc[s] = "down"
    BY DEF Init, FileInit
  <1> QED BY <1>1, <1>2 DEF Owner, Own, Chosen
-----------------------------------------------------------------------------
(* Rotation neither loses a record nor overwrites a file. *)

\* The records that can be read, or could until their file was pruned.
Saved == OnDisk \cup Pruned

LEMMA SavedElements ==
  \A y : y \in Saved <=> \/ \E n \in DOMAIN dir : y \in Whole(contents[dir[n]])
                         \/ \E p \in pruned : y \in Whole(contents[p[1]])
  BY DEF Saved, OnDisk, Pruned

\* A rename or a pruning saves the files: what can be read under some name can still
\* be read, under this or another name, or went with a pruned file.
LEMMA FilesStaySaved ==
  ASSUME Owner, StepKind
  PROVE  /\ \A n \in DOMAIN dir :
              \/ \E m \in DOMAIN dir' : dir'[m] = dir[n]
              \/ \E p \in pruned' : p[1] = dir[n]
         /\ pruned \subseteq pruned'
  <1> DEFINE Goal == /\ \A n \in DOMAIN dir :
                          \/ \E m \in DOMAIN dir' : dir'[m] = dir[n]
                          \/ \E p \in pruned' : p[1] = dir[n]
                     /\ pruned \subseteq pruned'
  <1>1. ASSUME UNCHANGED <<dir, pruned>> PROVE Goal
    BY <1>1
  <1>2. ASSUME Creates PROVE Goal
    <2>1. \A n \in DOMAIN dir : n \in DOMAIN dir' /\ dir'[n] = dir[n]
      BY <1>2 DEF Creates
    <2> QED BY <1>2, <2>1 DEF Creates
  <1>3. ASSUME NEW s \in Sinks, SetsAside(s) PROVE Goal
    <2>1. /\ spc[s] = "rename" /\ Base \in DOMAIN dir /\ UNCHANGED pruned
          /\ dir' = [n \in (DOMAIN dir \ {Base}) \cup {target[s]} |->
                       IF n = target[s] THEN dir[Base] ELSE dir[n]]
      BY <1>3 DEF SetsAside, Renames
    <2>2. target[s] \notin DOMAIN dir
      BY <2>1 DEF Owner, Chosen
    <2>3. ASSUME NEW n \in DOMAIN dir PROVE \E m \in DOMAIN dir' : dir'[m] = dir[n]
      <3>1. CASE n = Base
        <4>1. target[s] \in DOMAIN dir' /\ dir'[target[s]] = dir[n]
          BY <2>1, <3>1
        <4> QED BY <4>1
      <3>2. CASE n # Base
        <4>1. n \in DOMAIN dir' /\ dir'[n] = dir[n]
          BY <2>1, <2>2, <3>2
        <4> QED BY <4>1
      <3> QED BY <3>1, <3>2
    <2> QED BY <2>1, <2>3
  <1>4. ASSUME NEW s \in Sinks, NEW removed \in SUBSET Rotated, Trims(s, removed) PROVE Goal
    <2>1. /\ dir' = [n \in DOMAIN dir \ removed |-> dir[n]]
          /\ pruned' = pruned \cup { <<dir[n], n[1]>> : n \in removed }
      BY <1>4 DEF Trims, Prunes
    <2>2. ASSUME NEW n \in DOMAIN dir, n \in removed PROVE \E p \in pruned' : p[1] = dir[n]
      <3>1. <<dir[n], n[1]>> \in pruned' /\ <<dir[n], n[1]>>[1] = dir[n]
        BY <2>1, <2>2
      <3> QED BY <3>1
    <2>3. ASSUME NEW n \in DOMAIN dir, n \notin removed PROVE \E m \in DOMAIN dir' : dir'[m] = dir[n]
      <3>1. n \in DOMAIN dir' /\ dir'[n] = dir[n]
        BY <2>1, <2>3
      <3> QED BY <3>1
    <2> QED BY <2>1, <2>2, <2>3
  <1>5. ASSUME NEW s \in Sinks, Passes(s) \/ FailsToOpen(s) \/ Picks(s) PROVE UNCHANGED <<dir, pruned>>
    BY <1>5 DEF Passes, FailsToOpen, Picks
  <1>6. ASSUME NEW s \in Sinks, NEW x, NEW v, NEW w, Drains(s, x, v, w) \/ Drops(s, x) \/ Buffers(s)
        PROVE  UNCHANGED <<dir, pruned>>
    BY <1>6 DEF Drains, Drops, Buffers, Spills, Keeps
  <1>7. ASSUME NEW s \in Sinks, Opens(s) PROVE (UNCHANGED <<dir, pruned>>) \/ Creates
    BY <1>7 DEF Opens, Keeps
  <1>8. Waits => UNCHANGED <<dir, pruned>>
    BY DEF Waits
  <1> HIDE DEF Goal
  <1>9. Goal
    BY <1>1, <1>2, <1>3, <1>4, <1>5, <1>6, <1>7, <1>8 DEF StepKind, NameStep, StreamStep
  <1> QED BY <1>9 DEF Goal

LEMMA SavedGrows ==
  ASSUME Owner, StepKind, Grows
  PROVE  Saved \subseteq Saved'
  <1>0. /\ \A i \in 1 .. Len(contents) : Whole(contents[i]) \subseteq Whole(contents'[i])
        /\ dir \in [DOMAIN dir -> 1 .. Len(contents)]
        /\ pruned \subseteq (1 .. Len(contents)) \X Nat
    BY DEF Grows, Owner, Shape, FilesOK
  <1>1. \A y : y \in Saved' <=> \/ \E n \in DOMAIN dir' : y \in Whole(contents'[dir'[n]])
                                \/ \E p \in pruned' : y \in Whole(contents'[p[1]])
    BY SavedElements DEF Saved, OnDisk, Pruned
  <1>2. ASSUME NEW y, NEW n \in DOMAIN dir, y \in Whole(contents[dir[n]]) PROVE y \in Saved'
    <2>1. dir[n] \in 1 .. Len(contents)
      BY <1>0
    <2>2. y \in Whole(contents'[dir[n]])
      BY <1>0, <1>2, <2>1
    <2> QED BY <1>1, <2>2, FilesStaySaved
  <1>3. ASSUME NEW y, NEW p \in pruned, y \in Whole(contents[p[1]]) PROVE y \in Saved'
    <2>1. p[1] \in 1 .. Len(contents)
      BY <1>0
    <2>2. y \in Whole(contents'[p[1]])
      BY <1>0, <1>3, <2>1
    <2> QED BY <1>1, <2>2, FilesStaySaved
  <1> QED BY <1>2, <1>3, SavedElements

\* What is spilled from a buffer is saved.
LEMMA SpillSaves ==
  ASSUME Owner, NEW s \in Sinks, NEW lines \in Seq(Lines), Spills(s, lines)
  PROVE  Whole(lines) \subseteq Saved'
  <1> DEFINE h == handle[s]
  <1>1. h # NoFile /\ contents' = [contents EXCEPT ![h] = contents[h] \o lines] /\ UNCHANGED dir
    BY DEF Spills
  <1>2. Base \in DOMAIN dir /\ dir[Base] = h
    BY <1>1 DEF Owner, Own
  <1>3. contents \in Seq(Seq(Lines)) /\ h \in 1 .. Len(contents) /\ DOMAIN contents = 1 .. Len(contents)
    BY <1>2, LenProperties DEF Owner, Shape, FilesOK
  <1>4. contents[h] \in Seq(Lines)
    BY <1>3, ElementOfSeq
  <1> HIDE DEF h
  <1>5. Whole(lines) \subseteq Whole(contents[h] \o lines)
    BY <1>4, WholeOfConcat
  <1>6. contents'[h] = contents[h] \o lines
    BY <1>1, <1>3
  <1>7. Whole(contents'[dir'[Base]]) \subseteq OnDisk'
    BY <1>1, <1>2 DEF OnDisk
  <1>8. Whole(lines) \subseteq OnDisk'
    BY <1>1, <1>2, <1>5, <1>6, <1>7
  <1> QED BY <1>8 DEF Saved

\* A flushed record survives a crash at any statement of a rotation: it is in some
\* file under a name, or in a file that pruning removed.
THEOREM FlushedRecordsSurvive == OnlySink => (Spec => []FlushedSurvives)
  <1> SUFFICES ASSUME OnlySink PROVE Spec => []FlushedSurvives
    OBVIOUS
  <1> DEFINE Inv == Owner /\ flushed \subseteq Saved
  <1>1. Init => Inv
    BY OwnerAtStart DEF Init, FileInit
  <1>2. ASSUME Inv, [Next]_vars PROVE Inv'
    <2>1. Owner' /\ StepKind /\ Saved \subseteq Saved'
      BY <1>2, OwnerStep, SavedGrows
    <2>2. ASSUME NEW s \in Sinks, NEW u \in Seq(Lines), NEW v, NEW w, Drains(s, u, v, w)
          PROVE  flushed' \subseteq Saved'
      <3>1. Whole(u) \subseteq Saved'
        BY <1>2, <2>2, SpillSaves DEF Drains
      <3> QED BY <1>2, <2>1, <2>2, <3>1 DEF Drains
    <2>3. ASSUME UNCHANGED flushed PROVE flushed' \subseteq Saved'
      BY <1>2, <2>1, <2>3
    <2>4. ASSUME NEW s \in Sinks, Passes(s) \/ Opens(s) \/ FailsToOpen(s) \/ Picks(s) \/ SetsAside(s)
          PROVE  UNCHANGED flushed
      BY <2>4 DEF Passes, Opens, FailsToOpen, Picks, SetsAside, streamVars
    <2>5. ASSUME NEW s \in Sinks, NEW x, Trims(s, x) \/ Drops(s, x) \/ Buffers(s)
          PROVE  UNCHANGED flushed
      BY <2>5 DEF Trims, Drops, Buffers, streamVars
    <2>6. Waits => UNCHANGED flushed
      BY DEF Waits, streamVars
    <2>7. flushed' \subseteq Saved'
      BY <2>1, <2>2, <2>3, <2>4, <2>5, <2>6 DEF StepKind, NameStep, StreamStep
    <2> QED BY <2>1, <2>7
  <1>3. Inv => FlushedSurvives
    BY DEF FlushedSurvives, Saved
  <1> QED BY <1>1, <1>2, <1>3, PTL DEF Spec

\* A torn line stands for no record, so that the three parts are the buffer.
LEMMA WholeOfDrained ==
  ASSUME Shape, NEW s \in Sinks, NEW u \in Seq(Lines), NEW v \in Seq(Lines), NEW w \in Seq(Lines),
         Writes(s, (u \o v) \o w)
  PROVE  /\ Whole(buffered[s]) = Whole((u \o v) \o w)
         /\ Whole(u \o v) = Whole(u) \cup Whole(v) /\ u \o v \in Seq(Lines)
  <1> DEFINE lines == (u \o v) \o w
  <1>0. buffered[s] \in Seq(Lines) /\ Writes(s, lines)
    BY DEF Shape
  <1>1. Whole(u \o v) = Whole(u) \cup Whole(v) /\ u \o v \in Seq(Lines)
    BY WholeOfConcat
  <1> HIDE DEF lines
  <1>2. Whole(buffered[s]) = Whole(lines)
    BY <1>0, WholeOfAppend DEF Writes
  <1> QED BY <1>1, <1>2 DEF lines

Pending == UNION { Whole(buffered[s]) : s \in Sinks }

\* What leaves a buffer is saved or gone.
LEMMA PendingStep ==
  ASSUME Owner, StepKind, Shape'
  PROVE  Pending \subseteq Pending' \cup Saved' \cup gone' /\ gone \subseteq gone'
  <1>0. buffered \in [Sinks -> Seq(Lines)] /\ \A s, t \in Sinks : s = t
    BY DEF Owner, Shape, OnlySink
  <1> DEFINE Goal == Pending \subseteq Pending' \cup Saved' \cup gone' /\ gone \subseteq gone'
  <1>1. ASSUME UNCHANGED <<buffered, gone>> PROVE Goal
    BY <1>1 DEF Pending
  <1>2. ASSUME NEW s \in Sinks, Whole(buffered[s]) \subseteq Whole(buffered'[s]) \cup Saved' \cup gone',
               gone \subseteq gone'
        PROVE  Goal
    <2>1. Pending = Whole(buffered[s]) /\ Pending' = Whole(buffered'[s])
      BY <1>0 DEF Pending
    <2> QED BY <1>2, <2>1
  <1>3. ASSUME NEW s \in Sinks, NEW u \in Seq(Lines), NEW v \in Seq(Lines), NEW w \in Seq(Lines),
               Drains(s, u, v, w)
        PROVE  Goal
    <2>1. /\ Whole(buffered[s]) = Whole((u \o v) \o w)
          /\ Whole(u \o v) = Whole(u) \cup Whole(v)
      BY <1>3, WholeOfDrained DEF Drains, Owner
    <2>2. Whole(u) \subseteq Saved'
      BY <1>3, SpillSaves DEF Drains
    <2>3. buffered'[s] = v /\ gone' = gone \cup (Whole((u \o v) \o w) \ Whole(u \o v))
      BY <1>0, <1>3 DEF Drains
    <2>4. Whole(buffered[s]) \subseteq Whole(buffered'[s]) \cup Saved' \cup gone'
      BY <2>1, <2>2, <2>3
    <2> QED BY <1>2, <2>3, <2>4
  <1>4. ASSUME NEW s \in Sinks, NEW k \in 0 .. Len(buffered[s]), Drops(s, k) PROVE Goal
    <2>1. gone' = gone \cup (Whole(buffered[s]) \ Whole(SubSeq(buffered[s], 1, k)))
      BY <1>4 DEF Drops
    <2>2. SubSeq(buffered[s], 1, k) \in Seq(Lines)
      BY <1>0, <1>4, WholeOfParts
    <2>3. CASE Spills(s, SubSeq(buffered[s], 1, k))
      <3>1. Whole(SubSeq(buffered[s], 1, k)) \subseteq Saved'
        BY <2>2, <2>3, SpillSaves
      <3> QED BY <1>2, <2>1, <3>1
    <2>4. CASE handle[s] = NoFile
      <3>1. buffered[s] = <<>>
        BY <2>4 DEF Owner, Own
      <3>2. Whole(buffered[s]) = {}
        BY <3>1 DEF Whole
      <3> QED BY <1>2, <2>1, <3>2
    <2> QED BY <1>4, <2>3, <2>4 DEF Drops
  <1>5. ASSUME NEW s \in Sinks, Buffers(s) PROVE Goal
    <2>1. buffered'[s] = Append(buffered[s], line[s]) /\ UNCHANGED gone /\ line[s] \in Lines
      BY <1>0, <1>5 DEF Buffers, Owner, Shape
    <2>2. Whole(buffered[s]) \subseteq Whole(buffered'[s])
      BY <1>0, <2>1, WholeOfAppend
    <2> QED BY <1>2, <2>1, <2>2
  <1>6. ASSUME NEW s \in Sinks, Passes(s) \/ Opens(s) \/ FailsToOpen(s) \/ Picks(s) \/ SetsAside(s)
        PROVE  UNCHANGED <<buffered, gone>>
    BY <1>6 DEF Passes, Opens, FailsToOpen, Picks, SetsAside, streamVars
  <1>7. ASSUME NEW s \in Sinks, NEW x, Trims(s, x) PROVE UNCHANGED <<buffered, gone>>
    BY <1>7 DEF Trims, streamVars
  <1>8. Waits => UNCHANGED <<buffered, gone>>
    BY DEF Waits, streamVars
  <1> HIDE DEF Goal
  <1>9. Goal
    BY <1>1, <1>3, <1>4, <1>5, <1>6, <1>7, <1>8 DEF StepKind, NameStep, StreamStep
  <1> QED BY <1>9 DEF Goal

\* A step that loses a record is a crash or has a failed call.
Blames ==
  /\ crashes' \in {crashes, crashes + 1} /\ failures <= failures'
  /\ (UNCHANGED gone) \/ failures < failures' \/ crashes' = crashes + 1

LEMMA BlameGrows ==
  ASSUME NEW f \in Nat, NEW g \in Nat, NEW c \in Nat, NEW d \in {c, c + 1}, f <= g
  PROVE  /\ f + c > 0 => g + d > 0
         /\ f < g \/ d = c + 1 => g + d > 0
  OBVIOUS

LEMMA LossesAreBlamed ==
  ASSUME Shape, [Next]_vars
  PROVE  Blames
  <1>0. failures \in Nat
    BY DEF Shape
  <1>1. ASSUME UNCHANGED <<gone, crashes>>, failures' \in {failures, failures + 1} PROVE Blames
    BY <1>0, <1>1 DEF Blames
  <1>2. ASSUME UNCHANGED crashes, failures' = failures + 1 PROVE Blames
    BY <1>0, <1>2 DEF Blames
  <1>3. ASSUME UNCHANGED vars PROVE Blames
    BY <1>1, <1>3 DEF vars, fileVars
  <1>4. ASSUME NEW t, SetClock(t) PROVE Blames
    BY <1>1, <1>4 DEF SetClock, fileVars
  <1>5. ASSUME NEW s \in Sinks, NEW size, CallWrite(s, size) PROVE Blames
    BY <1>1, <1>5 DEF CallWrite
  <1>6. ASSUME NEW s \in Sinks, FlushLocked(s) \/ FlushThrows(s), UNCHANGED crashes PROVE Blames
    BY <1>1, <1>2, <1>6 DEF FlushLocked, FlushThrows, NoStream, Fails
  <1>7. ASSUME NEW s \in Sinks, CloseLocked(s), UNCHANGED crashes PROVE Blames
    <2>1. CASE DropStream(s, Len(buffered[s])) /\ UNCHANGED failures
      <3>1. SubSeq(buffered[s], 1, Len(buffered[s])) = buffered[s]
        BY SubSeqFull DEF Shape
      <3>2. UNCHANGED gone
        <4>1. gone' = gone \cup (Whole(buffered[s]) \ Whole(SubSeq(buffered[s], 1, Len(buffered[s]))))
          BY <2>1 DEF DropStream
        <4> QED BY <3>1, <4>1
      <3> QED BY <1>1, <1>7, <2>1, <3>2
    <2>2. CASE Fails("fclose")
      BY <1>2, <1>7, <2>2 DEF Fails
    <2> QED BY <1>7, <2>1, <2>2 DEF CloseLocked
  <1>8. ASSUME NEW s \in Sinks, RotateName(s) \/ RotateRename(s) PROVE Blames
    BY <1>1, <1>8 DEF RotateName, RotateRename, Fails
  <1>9. ASSUME NEW s \in Sinks, OpenLocked(s) \/ OpenFails(s), UNCHANGED crashes PROVE Blames
    BY <1>1, <1>9 DEF OpenLocked, SizeAtOpen, OpenFails, Fails
  <1>10. ASSUME NEW s \in Sinks, RotatePrune(s) PROVE Blames
    <2>1. PICK listed \in SUBSET Rotated : \E removed \in SUBSET Candidates(listed) :
            failures' = failures + PruneErrors(listed, removed)
      BY <1>10 DEF RotatePrune
    <2>2. \A removed \in SUBSET Candidates(listed) : PruneErrors(listed, removed) \in Nat
      BY ErrorsOfPruning
    <2>3. failures <= failures'
      BY <1>0, <2>1, <2>2
    <2>4. UNCHANGED <<gone, crashes>>
      BY <1>10 DEF RotatePrune
    <2> QED BY <2>3, <2>4 DEF Blames
  <1>11. ASSUME NEW s \in Sinks, WriteLine(s) PROVE Blames
    BY <1>1, <1>2, <1>11 DEF WriteLine, WriteLineLocked, WriteLineThrows, NoStream, Fails
  <1>12. ASSUME NEW s \in Sinks, Crash(s) PROVE Blames
    BY <1>0, <1>12 DEF Crash, Blames
  <1>13. ASSUME NEW s \in Sinks, RotateFlush(s) \/ RotateClose(s) \/ RotateReopen(s) PROVE Blames
    BY <1>6, <1>7, <1>9, <1>13 DEF RotateFlush, RotateClose, RotateReopen
  <1>14. ASSUME NEW s \in Sinks, Construct(s) \/ Flush(s) \/ Destroy(s) PROVE Blames
    BY <1>6, <1>7, <1>9, <1>14 DEF Construct, Flush, Destroy
  <1> QED BY <1>3, <1>4, <1>5, <1>8, <1>10, <1>11, <1>12, <1>13, <1>14 DEF Next

\* Rotation loses nothing: a record whose write() returned can be read from a file,
\* or is in the buffer, or went with a pruned file, or was lost from the buffer; and
\* none is lost from the buffer before a crash or a failed call.  For every sequence
\* of failures, crashes and settings of the clock, whatever a failed call does with
\* the lines that it had to write.
THEOREM RotationKeepsAll == OnlySink => (Spec => []RotationLosesNothing)
  <1> SUFFICES ASSUME OnlySink PROVE Spec => []RotationLosesNothing
    OBVIOUS
  <1> DEFINE Found == ToSet(returned) \subseteq Saved \cup gone \cup Pending
             Blamed == crashes \in Nat /\ (gone # {} => failures + crashes > 0)
             Inv == Owner /\ Found /\ Blamed
  <1>1. Init => Inv
    <2>1. Init => ToSet(returned) = {} /\ gone = {} /\ crashes = 0
      BY DEF Init, FileInit, ToSet
    <2> QED BY <2>1, OwnerAtStart
  <1>2. ASSUME Inv, [Next]_vars PROVE Inv'
    <2>1. Owner' /\ StepKind /\ Saved \subseteq Saved'
      BY <1>2, OwnerStep, SavedGrows
    <2>2. Pending \subseteq Pending' \cup Saved' \cup gone' /\ gone \subseteq gone'
      BY <1>2, <2>1, PendingStep DEF Owner
    <2>3. ASSUME UNCHANGED returned PROVE Found'
      BY <1>2, <2>1, <2>2, <2>3
    <2>4. ASSUME NEW s \in Sinks, Buffers(s) PROVE Found'
      <3> DEFINE l == line[s]
      <3>1. buffered \in [Sinks -> Seq(Lines)] /\ returned \in Seq(Nat) /\ l \in Lines
        BY <1>2 DEF Owner, Shape
      <3>2. buffered'[s] = Append(buffered[s], l) /\ l.whole /\ returned' = Append(returned, l.id)
        BY <2>4, <3>1 DEF Buffers
      <3> HIDE DEF l
      <3>3. l.id \in Whole(buffered'[s])
        BY <3>1, <3>2, WholeOfAppend
      <3>4. l.id \in Pending'
        BY <3>3 DEF Pending
      <3>5. ToSet(Append(returned, l.id)) \subseteq ToSet(returned) \cup {l.id}
        <4>1. /\ Len(returned) \in Nat /\ DOMAIN returned = 1 .. Len(returned)
              /\ \A i \in 1 .. Len(returned) + 1 :
                   Append(returned, l.id)[i] = IF i <= Len(returned) THEN returned[i] ELSE l.id
              /\ DOMAIN Append(returned, l.id) = 1 .. Len(returned) + 1
          BY <3>1, LenProperties
        <4> QED BY <4>1 DEF ToSet
      <3> QED BY <1>2, <2>1, <2>2, <3>2, <3>4, <3>5
    <2>5. ASSUME NEW s \in Sinks, Passes(s) \/ Opens(s) \/ FailsToOpen(s) \/ Picks(s) \/ SetsAside(s)
          PROVE  UNCHANGED returned
      BY <2>5 DEF Passes, Opens, FailsToOpen, Picks, SetsAside, streamVars
    <2>6. ASSUME NEW s \in Sinks, NEW x, NEW v, NEW w, Trims(s, x) \/ Drains(s, x, v, w) \/ Drops(s, x)
          PROVE  UNCHANGED returned
      BY <2>6 DEF Trims, Drains, Drops, streamVars
    <2>7. Waits => UNCHANGED returned
      BY DEF Waits, streamVars
    <2>8. Blamed'
      <3>1. Blames /\ failures \in Nat /\ failures' \in Nat /\ crashes \in Nat
        BY <1>2, <2>1, LossesAreBlamed DEF Owner, Shape
      <3>2. crashes' \in Nat /\ (gone # {} => failures + crashes > 0)
        BY <1>2, <3>1 DEF Blames
      <3>3. failures + crashes > 0 => failures' + crashes' > 0
        BY ONLY <3>1, BlameGrows DEF Blames
      <3>4. (UNCHANGED gone) \/ failures' + crashes' > 0
        BY ONLY <3>1, BlameGrows DEF Blames
      <3> QED BY ONLY <3>2, <3>3, <3>4
    <2> HIDE DEF Found
    <2>9. Found'
      BY <2>1, <2>3, <2>4, <2>5, <2>6, <2>7 DEF StepKind, NameStep, StreamStep
    <2> QED BY <2>1, <2>8, <2>9
  <1>3. Inv => RotationLosesNothing
    BY DEF RotationLosesNothing, Saved, Pending
  <1> QED BY <1>1, <1>2, <1>3, PTL DEF Spec

\* A rotation never replaces a rotated file, also when names are used up, were left
\* behind by a crash or come back with the clock; and neither rotating nor pruning
\* touches a file of somebody else.
THEOREM RotationOverwritesNothing == OnlySink => (Spec => NoOverwrite)
  <1> SUFFICES ASSUME OnlySink PROVE Spec => NoOverwrite
    OBVIOUS
  <1> DEFINE Kept == \A n \in DOMAIN dir \ {Base} :
               /\ n \in DOMAIN dir' => dir'[n] = dir[n]
               /\ n \notin DOMAIN dir' => \E p \in pruned' : p[1] = dir[n] /\ n # OtherFile
  <1>1. ASSUME Owner, [Next]_vars PROVE Kept
    <2>0. StepKind
      BY <1>1, OwnerStep
    <2>1. ASSUME UNCHANGED dir PROVE Kept
      BY <2>1
    <2>2. ASSUME Creates PROVE Kept
      BY <2>2 DEF Creates
    <2>3. ASSUME NEW s \in Sinks, SetsAside(s) PROVE Kept
      <3>1. target[s] \notin DOMAIN dir
        BY <1>1, <2>3 DEF SetsAside, Renames, Owner, Chosen
      <3>2. dir' = [n \in (DOMAIN dir \ {Base}) \cup {target[s]} |->
                      IF n = target[s] THEN dir[Base] ELSE dir[n]]
        BY <2>3 DEF SetsAside, Renames
      <3> QED BY <3>1, <3>2
    <2>4. ASSUME NEW s \in Sinks, NEW removed \in SUBSET Rotated, Trims(s, removed) PROVE Kept
      <3>1. /\ dir' = [n \in DOMAIN dir \ removed |-> dir[n]]
            /\ pruned' = pruned \cup { <<dir[n], n[1]>> : n \in removed }
        BY <2>4 DEF Trims, Prunes
      <3>2. OtherFile \notin removed
        BY <1>1, RotatedNames, NamesDiffer DEF Owner
      <3>3. ASSUME NEW n \in DOMAIN dir, n \notin DOMAIN dir'
            PROVE  \E p \in pruned' : p[1] = dir[n] /\ n # OtherFile
        <4>1. n \in removed
          BY <3>1, <3>3
        <4>2. <<dir[n], n[1]>> \in pruned' /\ <<dir[n], n[1]>>[1] = dir[n]
          BY <3>1, <4>1
        <4> QED BY <3>2, <4>1, <4>2
      <3> QED BY <3>1, <3>3
    <2>5. ASSUME NEW s \in Sinks, Passes(s) \/ FailsToOpen(s) \/ Picks(s) PROVE UNCHANGED dir
      BY <2>5 DEF Passes, FailsToOpen, Picks
    <2>6. ASSUME NEW s \in Sinks, NEW x, NEW v, NEW w, Drains(s, x, v, w) \/ Drops(s, x) \/ Buffers(s)
          PROVE  UNCHANGED dir
      BY <2>6 DEF Drains, Drops, Buffers, Spills, Keeps
    <2>7. ASSUME NEW s \in Sinks, Opens(s) PROVE (UNCHANGED dir) \/ Creates
      BY <2>7 DEF Opens, Keeps
    <2>8. Waits => UNCHANGED dir
      BY DEF Waits
    <2> HIDE DEF Kept
    <2> QED
      BY <2>0, <2>1, <2>2, <2>3, <2>4, <2>5, <2>6, <2>7, <2>8 DEF StepKind, NameStep, StreamStep
  <1>2. Init => Owner
    BY OwnerAtStart
  <1>3. Owner /\ [Next]_vars => Owner'
    BY OwnerStep
  <1>4. Spec => []Owner
    BY <1>2, <1>3, PTL DEF Spec
  <1>5. Spec => [][Kept]_vars
    BY <1>1, <1>4, PTL DEF Spec
  <1> QED BY <1>5 DEF NoOverwrite
-----------------------------------------------------------------------------
(* The order of names and the age of files. *)

\* The file at the path is the newest.
BaseIsNewest == Base \in DOMAIN dir => \A n \in Rotated : dir[n] < dir[Base]

\* No rotated name is of a later second, until the clock is set back; that holds of
\* the name about to be used too.
NamesArePast ==
  ~setBack =>
    /\ \A n \in Rotated : n[1] <= now
    /\ \A s \in Sinks : spc[s] = "rename" =>
         target[s][1] <= now /\ \A n \in Rotated : n[1] <= target[s][1]

\* The sequence numbers of a second from which nothing was pruned have no gap.
NoGaps ==
  \A n \in Rotated : (\A p \in pruned : p[2] # n[1]) =>
    \A j \in 0 .. n[2] - 1 : <<n[1], j>> \in DOMAIN dir

AgeInv == BaseIsNewest /\ NamesArePast /\ NoGaps /\ NamesSortByAge

LEMMA RotatedOf ==
  ASSUME NEW d, DOMAIN d \subseteq Names
  PROVE  { n \in DOMAIN d : ParseRotationSuffix(n) } = DOMAIN d \cap (Nat \X Nat)
  BY NamesDiffer

LEMMA AgeStep ==
  ASSUME Owner, AgeInv, StepKind, Shape'
  PROVE  AgeInv'
  <1>0. /\ Rotated = DOMAIN dir \cap (Nat \X Nat)
        /\ Rotated' = DOMAIN dir' \cap (Nat \X Nat)
        /\ Base \notin Nat \X Nat
    BY RotatedOf, NamesDiffer DEF Owner, Shape, FilesOK, Rotated
  <1>1. /\ spc \in [Sinks -> SinkLabels] /\ target \in [Sinks -> Names] /\ now \in Nat
        /\ now' \in Nat
        /\ \A s \in Sinks : spc[s] = "rename" => target[s] \in Nat \X Nat
        /\ contents \in Seq(Seq(Lines)) /\ Len(contents) \in Nat
        /\ \A n \in DOMAIN dir : dir[n] \in 1 .. Len(contents)
        /\ \A s, t \in Sinks : s = t
    BY LenProperties DEF Owner, Shape, FilesOK, OnlySink
  <1>2. ASSUME Waits PROVE AgeInv'
    <2>1. UNCHANGED <<dir, pruned, spc, target>> /\ Rotated' = Rotated
      BY <1>2 DEF Waits, Rotated
    <2>2. ~setBack' => (~setBack /\ now <= now')
      <3>1. \/ setBack' = setBack /\ now' = now
            \/ ~setBack' => (~setBack /\ ~(now' < now))
        BY <1>2, Zenon DEF Waits, clockVars
      <3> QED BY <1>1, <3>1
    <2>3. BaseIsNewest' /\ NoGaps' /\ NamesSortByAge'
      <3>1. BaseIsNewest'
        BY <2>1 DEF AgeInv, BaseIsNewest
      <3>2. NoGaps'
        BY <2>1 DEF AgeInv, NoGaps
      <3>3. NamesSortByAge'
        BY <2>1, <2>2 DEF AgeInv, NamesSortByAge
      <3> QED BY <3>1, <3>2, <3>3
    <2>4. NamesArePast'
      <3>1. SUFFICES ASSUME ~setBack'
                     PROVE  /\ \A n \in Rotated : n[1] <= now'
                            /\ \A s \in Sinks : spc[s] = "rename" =>
                                 target[s][1] <= now' /\ \A n \in Rotated : n[1] <= target[s][1]
        BY <2>1 DEF NamesArePast
      <3>2. /\ \A n \in Rotated : n[1] <= now
            /\ \A s \in Sinks : spc[s] = "rename" =>
                 target[s][1] <= now /\ \A n \in Rotated : n[1] <= target[s][1]
        BY <2>2, <3>1 DEF AgeInv, NamesArePast
      <3>3. \A n \in Rotated : n[1] \in Nat
        BY <1>0
      <3>4. \A s \in Sinks : spc[s] = "rename" => target[s][1] \in Nat
        BY <1>1
      <3> QED BY <1>1, <2>2, <3>1, <3>2, <3>3, <3>4
    <2> QED BY <2>3, <2>4 DEF AgeInv
  <1>3. ASSUME UNCHANGED <<dir, pruned, clockVars>>, \A s \in Sinks : spc'[s] # "rename" PROVE AgeInv'
    <2>1. UNCHANGED <<now, setBack>> /\ Rotated' = Rotated
      BY <1>3 DEF Rotated, clockVars
    <2>2. BaseIsNewest' /\ NoGaps'
      BY <1>3, <2>1 DEF AgeInv, BaseIsNewest, NoGaps
    <2>3. NamesSortByAge' /\ NamesArePast'
      BY <1>3, <2>1 DEF AgeInv, NamesSortByAge, NamesArePast
    <2> QED BY <2>2, <2>3 DEF AgeInv
  <1>4. ASSUME NEW s \in Sinks, Picks(s) PROVE AgeInv'
    <2>1. UNCHANGED <<dir, pruned, now, setBack>> /\ Rotated' = Rotated
      BY <1>4 DEF Picks, clockVars, Rotated
    <2>2. PICK n \in FreeNames(now) : target' = [target EXCEPT ![s] = n]
      BY <1>4 DEF Picks
    <2>3. target'[s][1] = now
      <3>0. PICK k \in 0 .. MaxSeq - 1 : n = <<now, k>>
        BY <2>2 DEF FreeNames
      <3>1. n[1] = now
        BY <3>0
      <3> QED BY <1>1, <2>2, <3>1
    <2>4. BaseIsNewest' /\ NoGaps'
      BY <2>1 DEF AgeInv, BaseIsNewest, NoGaps
    <2>5. NamesSortByAge'
      BY <2>1 DEF AgeInv, NamesSortByAge
    <2>6. NamesArePast'
      <3>1. \A t \in Sinks : target'[t][1] = now
        BY <1>1, <2>3
      <3> QED BY <1>1, <2>1, <3>1 DEF AgeInv, NamesArePast
    <2> QED BY <2>4, <2>5, <2>6 DEF AgeInv
  <1>5. ASSUME Creates, UNCHANGED clockVars, \A s \in Sinks : spc'[s] # "rename" PROVE AgeInv'
    <2>1. /\ UNCHANGED <<pruned, now, setBack>>
          /\ dir' = [n \in DOMAIN dir \cup {Base} |-> IF n = Base THEN Len(contents) + 1 ELSE dir[n]]
      BY <1>5 DEF Creates, clockVars
    <2>2. Rotated' = Rotated /\ \A n \in Rotated : dir'[n] = dir[n] /\ n \in DOMAIN dir
      BY <1>0, <2>1
    <2>3. BaseIsNewest'
      <3>1. dir'[Base] = Len(contents) + 1
        BY <2>1
      <3>2. \A n \in Rotated : dir'[n] < Len(contents) + 1
        BY <1>1, <2>2
      <3> QED BY <2>2, <3>1, <3>2 DEF BaseIsNewest
    <2>4. NoGaps'
      <3>1. DOMAIN dir \subseteq DOMAIN dir'
        BY <2>1
      <3> QED BY <2>1, <2>2, <3>1 DEF AgeInv, NoGaps
    <2>5. NamesSortByAge' /\ NamesArePast'
      BY <1>5, <2>1, <2>2 DEF AgeInv, NamesSortByAge, NamesArePast
    <2> QED BY <2>3, <2>4, <2>5 DEF AgeInv
  <1>6. ASSUME NEW s \in Sinks, SetsAside(s) PROVE AgeInv'
    <2> DEFINE t == target[s]
    <2>1. /\ spc[s] = "rename" /\ Base \in DOMAIN dir /\ UNCHANGED <<pruned, now, setBack>>
          /\ dir' = [n \in (DOMAIN dir \ {Base}) \cup {t} |-> IF n = t THEN dir[Base] ELSE dir[n]]
      BY <1>6 DEF SetsAside, Renames, clockVars
    <2>2. t \in Nat \X Nat /\ t \notin DOMAIN dir
      BY <1>1, <2>1 DEF Owner, Chosen
    <2>3. \A j \in 0 .. t[2] - 1 : <<t[1], j>> \in DOMAIN dir
      BY <2>1 DEF Owner, Chosen
    <2>4. ~setBack => (t[1] <= now /\ \A n \in Rotated : n[1] <= t[1])
      BY <2>1 DEF AgeInv, NamesArePast
    <2>5. \A r \in Sinks : spc'[r] # "rename"
      BY <1>1, <1>6 DEF SetsAside, Moves
    <2> HIDE DEF t
    <2>6. /\ Rotated' = Rotated \cup {t} /\ t \notin Rotated /\ Base \notin DOMAIN dir'
          /\ dir'[t] = dir[Base] /\ \A n \in Rotated : dir'[n] = dir[n]
      BY <1>0, <2>1, <2>2
    <2>7. BaseIsNewest'
      BY <2>6 DEF BaseIsNewest
    <2>8. NamesArePast'
      BY <2>1, <2>4, <2>5, <2>6 DEF AgeInv, NamesArePast
    <2>9. NoGaps'
      <3>1. ASSUME NEW n \in Rotated', \A p \in pruned : p[2] # n[1], NEW j \in 0 .. n[2] - 1
            PROVE  <<n[1], j>> \in DOMAIN dir'
        <4>1. <<n[1], j>> \in DOMAIN dir
          BY <2>3, <2>6, <3>1 DEF AgeInv, NoGaps
        <4>2. <<n[1], j>> # Base
          BY DEF Base
        <4> QED BY <2>1, <4>1, <4>2
      <3> QED BY <2>1, <3>1 DEF NoGaps
    <2>10. NamesSortByAge'
      <3> SUFFICES ASSUME NEW a \in Rotated', NEW b \in Rotated', ~setBack, Older(a, b),
                          a[1] = b[1] => \A p \in pruned : p[2] # a[1]
                   PROVE  dir'[a] < dir'[b]
        BY <2>1 DEF NamesSortByAge
      <3>1. a \in Nat \X Nat /\ b \in Nat \X Nat
        BY <1>0
      <3>2. CASE a \in Rotated /\ b \in Rotated
        BY <2>6, <3>2 DEF AgeInv, NamesSortByAge
      <3>3. CASE a \in Rotated /\ b = t
        BY <2>1, <2>6, <3>3 DEF AgeInv, BaseIsNewest
      <3>4. CASE a = t /\ b \in Rotated
        <4>1. b[1] <= a[1]
          BY <2>4, <3>4
        <4>2. a[1] = b[1] /\ a[2] \in 0 .. b[2] - 1
          BY <3>1, <4>1 DEF Older
        <4>3. <<b[1], a[2]>> \in DOMAIN dir
          BY <3>4, <4>2 DEF AgeInv, NoGaps
        <4>4. <<b[1], a[2]>> = t
          BY <3>1, <3>4, <4>2
        <4> QED BY <2>2, <4>3, <4>4
      <3>5. CASE a = t /\ b = t
        BY <3>1, <3>5 DEF Older
      <3> QED BY <2>6, <3>2, <3>3, <3>4, <3>5
    <2> QED BY <2>7, <2>8, <2>9, <2>10 DEF AgeInv
  <1>7. ASSUME NEW s \in Sinks, NEW removed \in SUBSET Rotated, Trims(s, removed) PROVE AgeInv'
    <2>1. /\ UNCHANGED <<now, setBack>>
          /\ dir' = [n \in DOMAIN dir \ removed |-> dir[n]]
          /\ pruned' = pruned \cup { <<dir[n], n[1]>> : n \in removed }
      BY <1>7 DEF Trims, Prunes, clockVars
    <2>2. removed \subseteq Rotated
      OBVIOUS
    <2>3. /\ Rotated' = Rotated \ removed /\ \A n \in DOMAIN dir' : dir'[n] = dir[n]
          /\ DOMAIN dir' = DOMAIN dir \ removed
      BY <1>0, <2>1
    <2>4. \A r \in Sinks : spc'[r] # "rename"
      BY <1>1, <1>7 DEF Trims, Moves
    <2>5. \A n \in Rotated' : n \in DOMAIN dir' /\ n \in Rotated
      BY <1>0, <2>3
    <2>6. BaseIsNewest'
      BY <2>3, <2>5 DEF AgeInv, BaseIsNewest
    <2>7. NamesArePast'
      BY <2>1, <2>4, <2>5 DEF AgeInv, NamesArePast
    <2>8. pruned \subseteq pruned'
      BY <2>1
    <2>9. NamesSortByAge'
      BY <2>1, <2>3, <2>5, <2>8 DEF AgeInv, NamesSortByAge
    <2>10. NoGaps'
      <3>1. ASSUME NEW n \in Rotated', \A p \in pruned' : p[2] # n[1], NEW j \in 0 .. n[2] - 1
            PROVE  <<n[1], j>> \in DOMAIN dir'
        <4>1. <<n[1], j>> \in DOMAIN dir
          BY <2>5, <2>8, <3>1 DEF AgeInv, NoGaps
        <4>2. <<n[1], j>> \notin removed
          <5>1. ASSUME <<n[1], j>> \in removed PROVE FALSE
            <6>1. <<dir[<<n[1], j>>], <<n[1], j>>[1]>> \in pruned'
              BY <2>1, <5>1
            <6>2. <<dir[<<n[1], j>>], <<n[1], j>>[1]>>[2] = n[1]
              OBVIOUS
            <6> QED BY <3>1, <6>1, <6>2
          <5> QED BY <5>1
        <4> QED BY <2>3, <4>1, <4>2
      <3> QED BY <3>1 DEF NoGaps
    <2> QED BY <2>6, <2>7, <2>9, <2>10 DEF AgeInv
  <1>8. ASSUME NEW s \in Sinks, NEW S, NEW T, Moves(s, S, T), "rename" \notin T
        PROVE  \A r \in Sinks : spc'[r] # "rename"
    BY <1>1, <1>8 DEF Moves
  <1>9. ASSUME NEW s \in Sinks, Passes(s) \/ FailsToOpen(s) PROVE AgeInv'
    BY <1>3, <1>8, <1>9 DEF Passes, FailsToOpen
  <1>10. ASSUME NEW s \in Sinks, Opens(s) PROVE AgeInv'
    BY <1>3, <1>5, <1>8, <1>10 DEF Opens, Keeps
  <1>11. ASSUME NEW s \in Sinks, NEW x, NEW v, NEW w, Drains(s, x, v, w) \/ Drops(s, x) \/ Buffers(s)
         PROVE  AgeInv'
    <2>1. UNCHANGED <<dir, pruned, clockVars>>
      BY <1>11 DEF Drains, Drops, Buffers, Spills, Keeps
    <2>2. \A r \in Sinks : spc'[r] # "rename"
      BY <1>8, <1>11 DEF Drains, Drops, Buffers
    <2> QED BY <1>3, <2>1, <2>2
  <1> QED
    BY <1>2, <1>4, <1>6, <1>7, <1>9, <1>10, <1>11 DEF StepKind, NameStep, StreamStep

LEMMA AgeInvariance ==
  ASSUME OnlySink
  PROVE  Spec => [](Owner /\ AgeInv)
  <1>1. Init => Owner /\ AgeInv
    <2> SUFFICES ASSUME Init PROVE Owner /\ AgeInv
      OBVIOUS
    <2>1. Owner
      BY OwnerAtStart
    <2>2. DOMAIN dir = {OtherFile}
      BY DEF Init, FileInit
    <2>3. Rotated = {} /\ Base \notin DOMAIN dir
      BY <2>1, <2>2, NamesDiffer, RotatedNames DEF Owner
    <2>4. \A s \in Sinks : spc[s] # "rename"
      BY DEF Init, FileInit
    <2> QED BY <2>1, <2>3, <2>4 DEF AgeInv, BaseIsNewest, NamesArePast, NoGaps, NamesSortByAge
  <1>2. ASSUME Owner /\ AgeInv, [Next]_vars PROVE (Owner /\ AgeInv)'
    <2>1. Owner' /\ StepKind
      BY <1>2, OwnerStep
    <2>2. AgeInv'
      BY <1>2, <2>1, AgeStep DEF Owner
    <2> QED BY <2>1, <2>2
  <1> QED BY <1>1, <1>2, PTL DEF Spec

\* The order of the rotated names is the order in which the files were written,
\* unless the clock was set back, and but for the files of one second from which a
\* name was freed by pruning.
THEOREM RotatedNamesSortByAge == OnlySink => (Spec => []NamesSortByAge)
  <1> SUFFICES ASSUME OnlySink PROVE Spec => []NamesSortByAge
    OBVIOUS
  <1>1. Owner /\ AgeInv => NamesSortByAge
    BY DEF AgeInv
  <1> QED BY <1>1, AgeInvariance, PTL

\* Pruning keeps the newest files while the clock is not set back and every rotated
\* file is of a second of its own.
THEOREM PruningKeepsNewest == OnlySink => (Spec => PruneKeepsNewestOfDistinctSeconds)
  <1> SUFFICES ASSUME OnlySink PROVE Spec => PruneKeepsNewestOfDistinctSeconds
    OBVIOUS
  <1> DEFINE Keeping == ~setBack /\ (\A a, b \in Rotated : a[1] = b[1] => a = b) => KeepsNewest
  <1>1. ASSUME Owner /\ AgeInv, [Next]_vars PROVE Keeping
    <2> SUFFICES ASSUME ~setBack, \A a, b \in Rotated : a[1] = b[1] => a = b,
                        NEW s \in Sinks, spc[s] = "prune", spc'[s] = "write", failures' = failures,
                        NEW p \in pruned' \ pruned, NEW n \in Rotated'
                 PROVE  p[1] < dir'[n]
      BY DEF KeepsNewest
    <2>1. PICK removed \in SUBSET Rotated : Trims(s, removed)
      BY <1>1, OwnerStep, PruneStep DEF Owner
    <2>2. removed = Candidates(Rotated) /\ Rotated' = Rotated \ removed
      BY <2>1, PruneRemovesAll
    <2>3. \A a \in removed, b \in Rotated \ removed : Older(a, b)
      BY <1>1, <2>2, CandidatesAreOldest DEF Owner, Oldest
    <2>4. /\ dir' = [m \in DOMAIN dir \ removed |-> dir[m]]
          /\ pruned' = pruned \cup { <<dir[m], m[1]>> : m \in removed }
      BY <2>1 DEF Trims, Prunes
    <2>5. PICK m \in removed : p = <<dir[m], m[1]>>
      BY <2>4
    <2>6. m \in Rotated /\ n \in Rotated /\ Older(m, n) /\ m # n
      BY <2>2, <2>3
    <2>7. dir[m] < dir[n]
      BY <1>1, <2>6 DEF AgeInv, NamesSortByAge
    <2>8. dir'[n] = dir[n]
      BY <2>2, <2>4, <2>6 DEF Rotated
    <2> QED BY <2>5, <2>7, <2>8
  <1>2. Spec => [][Keeping]_vars
    BY <1>1, AgeInvariance, PTL DEF Spec
  <1> QED BY <1>2 DEF PruneKeepsNewestOfDistinctSeconds
-----------------------------------------------------------------------------
(* The order of the lines in all files. *)

\* The lines have rising numbers, up to n.
Rising(lines, n) ==
  /\ \A i \in 1 .. Len(lines) : lines[i].id \in 1 .. n
  /\ \A i, j \in 1 .. Len(lines) : i < j => lines[i].id < lines[j].id

Below(a, b) == \A i \in 1 .. Len(a), j \in 1 .. Len(b) : a[i].id < b[j].id

LEMMA ConcatIs ==
  ASSUME NEW a \in Seq(Lines), NEW b \in Seq(Lines)
  PROVE  /\ a \o b \in Seq(Lines) /\ Len(a) \in Nat /\ Len(b) \in Nat
         /\ \A i \in 1 .. Len(a) : i \in 1 .. Len(a \o b) /\ (a \o b)[i] = a[i]
         /\ \A i \in 1 .. Len(b) : Len(a) + i \in 1 .. Len(a \o b) /\ (a \o b)[Len(a) + i] = b[i]
         /\ \A i \in 1 .. Len(a \o b) : i \in 1 .. Len(a) \/ (\E j \in 1 .. Len(b) : i = Len(a) + j)
  <1>1. /\ a \o b \in Seq(Lines) /\ Len(a \o b) = Len(a) + Len(b) /\ Len(a) \in Nat /\ Len(b) \in Nat
        /\ \A i \in 1 .. Len(a) + Len(b) : (a \o b)[i] = IF i <= Len(a) THEN a[i] ELSE b[i - Len(a)]
    BY ConcatProperties, LenProperties
  <1> DEFINE l == a \o b
             n == Len(a)
             p == Len(b)
  <1>2. /\ l \in Seq(Lines) /\ Len(l) = n + p /\ n \in Nat /\ p \in Nat
        /\ \A i \in 1 .. n + p : l[i] = IF i <= n THEN a[i] ELSE b[i - n]
    BY <1>1
  <1> HIDE DEF l, n, p
  <1>3. \A i \in 1 .. n : i \in 1 .. Len(l) /\ l[i] = a[i]
    BY <1>2
  <1>4. ASSUME NEW j \in 1 .. p PROVE n + j \in 1 .. Len(l) /\ l[n + j] = b[j]
    <2>1. n + j \in 1 .. n + p /\ ~(n + j <= n) /\ (n + j) - n = j
      BY <1>2
    <2> QED BY <1>2, <2>1
  <1>5. ASSUME NEW i \in 1 .. Len(l) PROVE i \in 1 .. n \/ (\E j \in 1 .. p : i = n + j)
    <2>1. CASE i <= n
      BY <1>2, <2>1
    <2>2. CASE ~(i <= n)
      <3>1. i - n \in 1 .. p /\ i = n + (i - n)
        BY <1>2, <2>2
      <3> QED BY <3>1
    <2> QED BY <2>1, <2>2
  <1> QED BY <1>2, <1>3, <1>4, <1>5 DEF l, n, p

LEMMA BelowOfConcat ==
  ASSUME NEW a \in Seq(Lines), NEW b \in Seq(Lines), NEW c
  PROVE  /\ Below(c, a \o b) <=> Below(c, a) /\ Below(c, b)
         /\ Below(a \o b, c) <=> Below(a, c) /\ Below(b, c)
  <1> DEFINE l == a \o b
             n == Len(a)
  <1>1. /\ \A i \in 1 .. n : i \in 1 .. Len(l) /\ l[i] = a[i]
        /\ \A i \in 1 .. Len(b) : n + i \in 1 .. Len(l) /\ l[n + i] = b[i]
        /\ \A i \in 1 .. Len(l) : i \in 1 .. n \/ (\E j \in 1 .. Len(b) : i = n + j)
    BY ConcatIs
  <1> HIDE DEF l
  <1>2. Below(c, l) => Below(c, a) /\ Below(c, b)
    BY ONLY <1>1 DEF Below, n
  <1>3. ASSUME Below(c, a), Below(c, b) PROVE Below(c, l)
    <2>1. ASSUME NEW j \in 1 .. Len(c), NEW i \in 1 .. Len(l) PROVE c[j].id < l[i].id
      <3>1. CASE i \in 1 .. n
        BY ONLY <1>1, <1>3, <2>1, <3>1 DEF Below, n
      <3>2. ASSUME NEW m \in 1 .. Len(b), i = n + m PROVE c[j].id < l[i].id
        BY ONLY <1>1, <1>3, <2>1, <3>2 DEF Below
      <3> QED BY <1>1, <3>1, <3>2
    <2> QED BY <2>1 DEF Below
  <1>4. Below(l, c) => Below(a, c) /\ Below(b, c)
    BY ONLY <1>1 DEF Below, n
  <1>5. ASSUME Below(a, c), Below(b, c) PROVE Below(l, c)
    <2>1. ASSUME NEW i \in 1 .. Len(l), NEW j \in 1 .. Len(c) PROVE l[i].id < c[j].id
      <3>1. CASE i \in 1 .. n
        BY ONLY <1>1, <1>5, <2>1, <3>1 DEF Below, n
      <3>2. ASSUME NEW m \in 1 .. Len(b), i = n + m PROVE l[i].id < c[j].id
        BY ONLY <1>1, <1>5, <2>1, <3>2 DEF Below
      <3> QED BY <1>1, <3>1, <3>2
    <2> QED BY <2>1 DEF Below
  <1> QED BY <1>2, <1>3, <1>4, <1>5 DEF l

LEMMA RisingOfConcat ==
  ASSUME NEW a \in Seq(Lines), NEW b \in Seq(Lines), NEW n
  PROVE  Rising(a \o b, n) <=> Rising(a, n) /\ Rising(b, n) /\ Below(a, b)
  <1> DEFINE l == a \o b
             p == Len(a)
  <1>1. /\ p \in Nat /\ Len(b) \in Nat
        /\ \A i \in 1 .. p : i \in 1 .. Len(l) /\ l[i] = a[i]
        /\ \A i \in 1 .. Len(b) : p + i \in 1 .. Len(l) /\ l[p + i] = b[i]
        /\ \A i \in 1 .. Len(l) : i \in 1 .. p \/ (\E j \in 1 .. Len(b) : i = p + j)
    BY ConcatIs
  <1> HIDE DEF l, p
  <1>2. ASSUME Rising(l, n) PROVE Rising(a, n) /\ Rising(b, n) /\ Below(a, b)
    <2>0. /\ \A i \in 1 .. Len(l) : l[i].id \in 1 .. n
          /\ \A i, j \in 1 .. Len(l) : i < j => l[i].id < l[j].id
      BY <1>2 DEF Rising
    <2>1. Rising(a, n)
      <3>1. /\ \A i \in 1 .. p : a[i].id \in 1 .. n
            /\ \A i, j \in 1 .. p : i < j => a[i].id < a[j].id
        BY ONLY <1>1, <2>0
      <3> QED BY <3>1 DEF Rising, p
    <2>2. Rising(b, n)
      <3>1. \A i, j \in 1 .. Len(b) : i < j => p + i < p + j
        BY <1>1
      <3>2. \A i \in 1 .. Len(b) : b[i].id \in 1 .. n
        BY ONLY <1>1, <2>0
      <3>3. \A i, j \in 1 .. Len(b) : i < j => b[i].id < b[j].id
        BY ONLY <1>1, <2>0, <3>1
      <3> QED BY <3>2, <3>3 DEF Rising
    <2>3. Below(a, b)
      <3>1. \A i \in 1 .. p, j \in 1 .. Len(b) : i < p + j
        BY <1>1
      <3>2. \A i \in 1 .. p, j \in 1 .. Len(b) : a[i].id < b[j].id
        BY ONLY <1>1, <2>0, <3>1
      <3> QED BY <3>2 DEF Below, p
    <2> QED BY <2>1, <2>2, <2>3
  <1>3. ASSUME Rising(a, n), Rising(b, n), Below(a, b) PROVE Rising(l, n)
    <2>0. /\ \A i \in 1 .. p : a[i].id \in 1 .. n
          /\ \A i, j \in 1 .. p : i < j => a[i].id < a[j].id
          /\ \A i \in 1 .. Len(b) : b[i].id \in 1 .. n
          /\ \A i, j \in 1 .. Len(b) : i < j => b[i].id < b[j].id
          /\ \A i \in 1 .. p, j \in 1 .. Len(b) : a[i].id < b[j].id
      BY <1>3 DEF Rising, Below, p
    <2>1. ASSUME NEW i \in 1 .. Len(l) PROVE l[i].id \in 1 .. n
      BY ONLY <1>1, <2>0, <2>1
    <2>2. ASSUME NEW i \in 1 .. Len(l), NEW j \in 1 .. Len(l), i < j PROVE l[i].id < l[j].id
      <3>1. CASE i \in 1 .. p /\ j \in 1 .. p
        BY ONLY <1>1, <2>0, <2>2, <3>1
      <3>2. CASE i \in 1 .. p /\ \E m \in 1 .. Len(b) : j = p + m
        BY ONLY <1>1, <2>0, <3>2
      <3>3. ASSUME NEW k \in 1 .. Len(b), i = p + k, NEW m \in 1 .. Len(b), j = p + m
            PROVE  l[i].id < l[j].id
        <4>1. k < m
          BY <1>1, <2>2, <3>3
        <4> QED BY ONLY <1>1, <2>0, <3>3, <4>1
      <3>4. ASSUME NEW k \in 1 .. Len(b), i = p + k, j \in 1 .. p PROVE FALSE
        BY <1>1, <2>2, <3>4
      <3> QED BY <1>1, <3>1, <3>2, <3>3, <3>4
    <2> QED BY <2>1, <2>2 DEF Rising
  <1> QED BY <1>2, <1>3 DEF l

LEMMA RisingMore ==
  ASSUME NEW lines, NEW n \in Nat, NEW m \in Nat, n <= m, Rising(lines, n)
  PROVE  Rising(lines, m)
  <1>1. \A i \in 1 .. n : i \in 1 .. m
    OBVIOUS
  <1> QED BY <1>1 DEF Rising

LEMMA OneLine ==
  ASSUME NEW l \in Lines
  PROVE  /\ <<l>> \in Seq(Lines) /\ Whole(<<l>>) = IF l.whole THEN {l.id} ELSE {}
         /\ \A n \in Nat : l.id = n + 1 => Rising(<<l>>, n + 1)
         /\ \A lines : \A n \in Nat : Rising(lines, n) /\ l.id = n + 1 => Below(lines, <<l>>)
  <1>1. <<l>> \in Seq(Lines) /\ Len(<<l>>) = 1 /\ <<l>>[1] = l /\ l.id \in Nat
    BY DEF Lines
  <1>2. Whole(<<l>>) = IF l.whole THEN {l.id} ELSE {}
    <2>1. ASSUME NEW y PROVE y \in Whole(<<l>>) <=> l.whole /\ l.id = y
      <3> DEFINE one == <<l>>
      <3>1. y \in Whole(one) <=> \E i \in 1 .. Len(one) : one[i].whole /\ one[i].id = y
        BY <1>1, WholeElements
      <3>2. Len(one) = 1 /\ one[1] = l /\ \A i \in 1 .. 1 : i = 1
        BY <1>1
      <3> HIDE DEF one
      <3>3. y \in Whole(one) <=> l.whole /\ l.id = y
        BY <3>1, <3>2
      <3> QED BY <3>3 DEF one
    <2> QED BY <2>1
  <1>3. ASSUME NEW n \in Nat, l.id = n + 1 PROVE Rising(<<l>>, n + 1)
    BY <1>1, <1>3 DEF Rising
  <1>4. ASSUME NEW lines, NEW n \in Nat, Rising(lines, n), l.id = n + 1 PROVE Below(lines, <<l>>)
    <2>1. \A x \in 1 .. n : x < n + 1
      OBVIOUS
    <2> QED BY <1>1, <1>4, <2>1 DEF Rising, Below
  <1> QED BY <1>1, <1>2, <1>3, <1>4

\* The lines of the files, then the last ones, which are in the buffer.
Ordered(files, last, n) ==
  /\ Rising(last, n)
  /\ \A i \in 1 .. Len(files) : Rising(files[i], n) /\ Below(files[i], last)
  /\ \A i, j \in 1 .. Len(files) : i < j => Below(files[i], files[j])

\* The records on hand.
Kept(files, last) == (UNION { Whole(files[i]) : i \in 1 .. Len(files) }) \cup Whole(last)

\* The numbers are rising, up to n.
Climbs(ret, n) ==
  /\ \A i \in 1 .. Len(ret) : ret[i] \in 1 .. n
  /\ \A i, j \in 1 .. Len(ret) : i < j => ret[i] < ret[j]

\* What the files, the buffer and the history have to do with each other.
LogOK(files, last, n, ret, lost) ==
  /\ Ordered(files, last, n)
  /\ lost \cap Kept(files, last) = {} /\ ToSet(ret) = Kept(files, last) \cup lost
  /\ Climbs(ret, n)

LEMMA KeptElements ==
  ASSUME NEW files, NEW last, NEW y
  PROVE  y \in Kept(files, last) <=> (\E i \in 1 .. Len(files) : y \in Whole(files[i])) \/ y \in Whole(last)
  <1>1. y \in UNION { Whole(files[i]) : i \in 1 .. Len(files) } <=>
          \E i \in 1 .. Len(files) : y \in Whole(files[i])
    BY Zenon
  <1>2. y \in Kept(files, last) <=>
          y \in (UNION { Whole(files[i]) : i \in 1 .. Len(files) }) \/ y \in Whole(last)
    BY Zenon DEF Kept
  <1> QED BY ONLY <1>1, <1>2, Zenon

\* More numbers were given out.
LEMMA LogAges ==
  ASSUME NEW files, NEW last, NEW n \in Nat, NEW m \in Nat, n <= m, NEW ret, NEW lost,
         LogOK(files, last, n, ret, lost)
  PROVE  LogOK(files, last, m, ret, lost)
  <1>1. Ordered(files, last, m)
    BY RisingMore DEF LogOK, Ordered
  <1>2. \A i \in 1 .. n : i \in 1 .. m
    OBVIOUS
  <1>3. Climbs(ret, m)
    BY <1>2 DEF LogOK, Climbs
  <1> QED BY <1>1, <1>3 DEF LogOK

\* A file is created.
LEMMA LogNewFile ==
  ASSUME NEW files \in Seq(Seq(Lines)), NEW last, NEW n, NEW ret, NEW lost,
         LogOK(files, last, n, ret, lost)
  PROVE  LogOK(Append(files, <<>>), last, n, ret, lost)
  <1> DEFINE more == Append(files, <<>>)
             N == Len(files)
  <1>1. /\ N \in Nat /\ Len(more) = N + 1
        /\ \A i \in 1 .. N : more[i] = files[i]
        /\ more[N + 1] = <<>>
    BY LenProperties, AppendProperties
  <1>2. \A i \in 1 .. Len(more) : i \in 1 .. N \/ i = N + 1
    BY <1>1
  <1>3. /\ \A i \in 1 .. N : i \in 1 .. Len(more)
        /\ \A i, j \in 1 .. Len(more) : i < j => i \in 1 .. N
    BY <1>1
  <1> HIDE DEF more, N
  <1>4. Rising(<<>>, n) /\ Whole(<<>>) = {} /\ \A a : Below(a, <<>>) /\ Below(<<>>, a)
    BY DEF Rising, Below, Whole
  <1>5. Ordered(more, last, n)
    <2>1. /\ Rising(last, n)
          /\ \A i \in 1 .. N : Rising(files[i], n) /\ Below(files[i], last)
          /\ \A i, j \in 1 .. N : i < j => Below(files[i], files[j])
      BY DEF LogOK, Ordered, N
    <2>2. \A i \in 1 .. Len(more) : Rising(more[i], n) /\ Below(more[i], last)
      BY ONLY <1>1, <1>2, <1>4, <2>1
    <2>3. ASSUME NEW i \in 1 .. Len(more), NEW j \in 1 .. Len(more), i < j PROVE Below(more[i], more[j])
      <3>1. i \in 1 .. N /\ (j \in 1 .. N \/ j = N + 1)
        BY <1>2, <1>3, <2>3
      <3> QED BY ONLY <1>1, <1>4, <2>1, <2>3, <3>1
    <2> QED BY <2>1, <2>2, <2>3 DEF Ordered
  <1>6. Kept(more, last) = Kept(files, last)
    <2>1. \A y : (\E i \in 1 .. Len(more) : y \in Whole(more[i])) <=> (\E i \in 1 .. N : y \in Whole(files[i]))
      BY ONLY <1>1, <1>2, <1>3, <1>4
    <2>2. \A y : y \in Kept(more, last) <=> y \in Kept(files, last)
      BY ONLY <2>1, KeptElements DEF N
    <2> QED BY <2>2
  <1>7. LogOK(more, last, n, ret, lost)
    BY <1>5, <1>6 DEF LogOK
  <1> QED BY <1>7 DEF more

\* The first lines of the buffer reach the last file.
Flows(files, u, files2) ==
  /\ Len(files) \in Nat \ {0} /\ Len(files2) = Len(files)
  /\ \A i \in 1 .. Len(files) : files2[i] = IF i = Len(files) THEN files[i] \o u ELSE files[i]

LEMMA LogFlows ==
  ASSUME NEW files, NEW u \in Seq(Lines), NEW v \in Seq(Lines), NEW files2,
         NEW n, NEW ret, NEW lost, LogOK(files, u \o v, n, ret, lost),
         Flows(files, u, files2), \A i \in 1 .. Len(files) : files[i] \in Seq(Lines)
  PROVE  LogOK(files2, v, n, ret, lost)
  <1> DEFINE N == Len(files)
  <1>1. /\ N \in Nat \ {0} /\ Len(files2) = N /\ N \in 1 .. N
        /\ \A i \in 1 .. N : i # N => i < N /\ files2[i] = files[i]
        /\ files2[N] = files[N] \o u
        /\ \A i \in 1 .. N : files[i] \in Seq(Lines)
        /\ \A i, j \in 1 .. N : i < j => i # N
    <2>1. /\ N \in Nat \ {0} /\ Len(files2) = N
          /\ \A i \in 1 .. N : files2[i] = IF i = N THEN files[i] \o u ELSE files[i]
          /\ \A i \in 1 .. N : files[i] \in Seq(Lines)
      BY DEF Flows
    <2> HIDE DEF N
    <2>2. /\ N \in 1 .. N /\ \A i \in 1 .. N : i # N => i < N
          /\ \A i, j \in 1 .. N : i < j => i # N
      BY <2>1
    <2> QED BY ONLY <2>1, <2>2
  <1>2. /\ Rising(u \o v, n)
        /\ \A i \in 1 .. N : Rising(files[i], n) /\ Below(files[i], u \o v)
        /\ \A i, j \in 1 .. N : i < j => Below(files[i], files[j])
    BY DEF LogOK, Ordered
  <1> HIDE DEF N
  <1>3. Rising(u, n) /\ Rising(v, n) /\ Below(u, v)
    BY <1>2, RisingOfConcat
  <1>4. \A i \in 1 .. N : Below(files[i], u) /\ Below(files[i], v)
    BY <1>2, BelowOfConcat
  <1>5. Rising(files2[N], n) /\ Below(files2[N], v)
    <2>1. files[N] \in Seq(Lines) /\ Rising(files[N], n) /\ Below(files[N], u) /\ Below(files[N], v)
      BY ONLY <1>1, <1>2, <1>4
    <2>2. Rising(files[N] \o u, n) /\ Below(files[N] \o u, v)
      BY ONLY <1>3, <2>1, u \in Seq(Lines), RisingOfConcat, BelowOfConcat
    <2> QED BY <1>1, <2>2
  <1>6. \A i \in 1 .. N : Rising(files2[i], n) /\ Below(files2[i], v)
    BY ONLY <1>1, <1>2, <1>4, <1>5
  <1>7. ASSUME NEW i \in 1 .. N, NEW j \in 1 .. N, i < j PROVE Below(files2[i], files2[j])
    <2>1. files2[i] = files[i] /\ Below(files[i], files[j]) /\ Below(files[i], u)
      BY ONLY <1>1, <1>2, <1>4, <1>7
    <2>2. CASE j # N
      BY ONLY <1>1, <1>7, <2>1, <2>2
    <2>3. CASE j = N
      <3>1. files[N] \in Seq(Lines)
        BY <1>1
      <3>2. Below(files[i], files[N] \o u)
        BY ONLY <2>1, <2>3, <3>1, u \in Seq(Lines), BelowOfConcat
      <3> QED BY ONLY <1>1, <2>1, <2>3, <3>2
    <2> QED BY <2>2, <2>3
  <1>8. Ordered(files2, v, n)
    BY ONLY <1>1, <1>3, <1>6, <1>7 DEF Ordered
  <1>9. Kept(files2, v) = Kept(files, u \o v)
    <2>1. Whole(u \o v) = Whole(u) \cup Whole(v)
      BY WholeOfConcat
    <2>2. Whole(files2[N]) = Whole(files[N]) \cup Whole(u)
      BY <1>1, WholeOfConcat
    <2>3. \A y : (\E i \in 1 .. N : y \in Whole(files2[i])) <=>
                   (\E i \in 1 .. N : y \in Whole(files[i])) \/ y \in Whole(u)
      <3>1. ASSUME NEW y, NEW i \in 1 .. N, y \in Whole(files2[i])
            PROVE  (\E j \in 1 .. N : y \in Whole(files[j])) \/ y \in Whole(u)
        BY <1>1, <2>2, <3>1
      <3>2. ASSUME NEW y, NEW i \in 1 .. N, y \in Whole(files[i]) PROVE y \in Whole(files2[i])
        BY <1>1, <2>2, <3>2
      <3>3. ASSUME NEW y \in Whole(u) PROVE y \in Whole(files2[N])
        BY <2>2
      <3> QED BY <1>1, <3>1, <3>2, <3>3
    <2>4. \A y : y \in Kept(files2, v) <=> y \in Kept(files, u \o v)
      <3>1. \A y : y \in Whole(u \o v) <=> y \in Whole(u) \/ y \in Whole(v)
        BY <2>1
      <3>2. \A y : y \in Kept(files2, v) <=> (\E i \in 1 .. N : y \in Whole(files2[i])) \/ y \in Whole(v)
        BY ONLY <1>1, KeptElements
      <3>3. \A y : y \in Kept(files, u \o v) <=>
                     (\E i \in 1 .. N : y \in Whole(files[i])) \/ y \in Whole(u \o v)
        BY ONLY KeptElements DEF N
      <3> QED BY ONLY <2>3, <3>1, <3>2, <3>3
    <2> QED BY <2>4
  <1> QED BY <1>8, <1>9 DEF LogOK

\* Lines that went with the buffer.
LEMMA LogCut ==
  ASSUME NEW files, NEW u \in Seq(Lines), NEW v \in Seq(Lines),
         NEW n, NEW ret, NEW lost, LogOK(files, u \o v, n, ret, lost),
         \A i \in 1 .. Len(files) : files[i] \in Seq(Lines)
  PROVE  LogOK(files, u, n, ret, lost \cup (Whole(u \o v) \ Whole(u)))
  <1>1. /\ Rising(u \o v, n)
        /\ \A i \in 1 .. Len(files) : Rising(files[i], n) /\ Below(files[i], u \o v)
        /\ \A i, j \in 1 .. Len(files) : i < j => Below(files[i], files[j])
    BY DEF LogOK, Ordered
  <1>2. Rising(u, n) /\ Rising(v, n) /\ Below(u, v)
    BY <1>1, RisingOfConcat
  <1>3. \A i \in 1 .. Len(files) : Below(files[i], u) /\ Below(files[i], v)
    BY <1>1, BelowOfConcat
  <1>4. Ordered(files, u, n)
    BY <1>1, <1>2, <1>3 DEF Ordered
  <1>5. Whole(u \o v) = Whole(u) \cup Whole(v)
    BY WholeOfConcat
  <1>6. ASSUME NEW a \in Seq(Lines), Rising(a, n), Rising(v, n), Below(a, v), NEW y \in Whole(a) PROVE y \notin Whole(v)
    <2> SUFFICES ASSUME y \in Whole(v) PROVE FALSE
      OBVIOUS
    <2>1. PICK i \in 1 .. Len(a) : a[i].id = y
      BY <1>6, WholeElements
    <2>2. PICK j \in 1 .. Len(v) : v[j].id = y
      BY WholeElements
    <2>3. y < y
      BY <1>6, <2>1, <2>2 DEF Below
    <2>4. a[i] \in Lines
      BY <2>1, ElementOfSeq
    <2>5. y \in Nat
      BY <2>1, <2>4 DEF Lines
    <2> QED BY <2>3, <2>5
  <1>7. ASSUME NEW y \in Kept(files, u) PROVE y \notin Whole(v)
    <2>1. ASSUME NEW i \in 1 .. Len(files), y \in Whole(files[i]) PROVE y \notin Whole(v)
      BY <1>1, <1>2, <1>3, <1>6, <2>1
    <2>2. ASSUME y \in Whole(u) PROVE y \notin Whole(v)
      BY <1>2, <1>6, <2>2
    <2> QED BY <1>7, <2>1, <2>2, KeptElements
  <1>8. \A y : y \in Kept(files, u \o v) <=> y \in Kept(files, u) \/ y \in Whole(v)
    BY ONLY <1>5, KeptElements
  <1>9. \A y : y \in Whole(u) => y \in Kept(files, u)
    BY ONLY KeptElements
  <1>10. lost \cap Kept(files, u \o v) = {} /\ ToSet(ret) = Kept(files, u \o v) \cup lost /\ Climbs(ret, n)
    BY DEF LogOK
  <1> DEFINE new == lost \cup (Whole(u \o v) \ Whole(u))
             K == Kept(files, u)
             V == Whole(v)
             U == Whole(u)
  <1>11. new = lost \cup V
    <2>1. \A y \in U : y \notin V
      BY <1>7, <1>9
    <2> QED BY <1>5, <2>1
  <1> HIDE DEF new, K, V, U
  <1>12. new \cap K = {} /\ ToSet(ret) = K \cup new
    <2>1. Kept(files, u \o v) = K \cup V /\ K \cap V = {}
      BY <1>7, <1>8 DEF K, V
    <2> QED BY ONLY <1>10, <1>11, <2>1
  <1> QED BY <1>4, <1>10, <1>12 DEF LogOK, new, K

\* A line enters the buffer, and its number was not used before.
LEMMA LogAppend ==
  ASSUME NEW files, NEW last \in Seq(Lines), NEW l \in Lines, NEW n \in Nat, l.id = n + 1,
         NEW ret \in Seq(Nat), NEW ret2, NEW lost, LogOK(files, last, n, ret, lost),
         (l.whole /\ ret2 = Append(ret, l.id)) \/ (~l.whole /\ ret2 = ret)
  PROVE  LogOK(files, Append(last, l), n + 1, ret2, lost)
  <1> DEFINE one == <<l>>
             more == last \o one
  <1>1. /\ Rising(last, n) /\ Climbs(ret, n)
        /\ \A i \in 1 .. Len(files) : Rising(files[i], n) /\ Below(files[i], last)
        /\ \A i, j \in 1 .. Len(files) : i < j => Below(files[i], files[j])
        /\ lost \cap Kept(files, last) = {} /\ ToSet(ret) = Kept(files, last) \cup lost
    BY DEF LogOK, Ordered
  <1>2. /\ one \in Seq(Lines) /\ Whole(one) = IF l.whole THEN {l.id} ELSE {}
        /\ Rising(one, n + 1)
        /\ \A lines : Rising(lines, n) => Below(lines, one)
    BY OneLine
  <1>3. Append(last, l) = more
    BY AppendIsConcat
  <1>4. n + 1 \in Nat /\ n <= n + 1
    OBVIOUS
  <1>5. Rising(more, n + 1)
    <2>1. Rising(last, n + 1)
      BY ONLY <1>1, <1>4, n \in Nat, RisingMore
    <2> HIDE DEF one
    <2> QED BY ONLY <1>1, <1>2, <2>1, last \in Seq(Lines), RisingOfConcat DEF more
  <1>6. ASSUME NEW i \in 1 .. Len(files) PROVE Rising(files[i], n + 1) /\ Below(files[i], more)
    <2> HIDE DEF one
    <2>1. Rising(files[i], n) /\ Below(files[i], last) /\ Below(files[i], one)
      BY ONLY <1>1, <1>2, <1>6
    <2>2. Rising(files[i], n + 1)
      BY ONLY <1>4, <2>1, n \in Nat, RisingMore
    <2>3. Below(files[i], more)
      BY ONLY <1>2, <2>1, last \in Seq(Lines), BelowOfConcat DEF more
    <2> QED BY <2>2, <2>3
  <1>7. Ordered(files, more, n + 1)
    BY ONLY <1>1, <1>5, <1>6 DEF Ordered
  <1>8. \A y : y \in Kept(files, more) <=> y \in Kept(files, last) \/ (l.whole /\ y = l.id)
    <2>1. Whole(more) = Whole(last) \cup Whole(one)
      BY <1>2, WholeOfConcat
    <2>2. \A y : y \in Whole(more) <=> y \in Whole(last) \/ (l.whole /\ y = l.id)
      BY <1>2, <2>1
    <2> HIDE DEF more
    <2> QED BY ONLY <2>2, KeptElements
  <1> DEFINE N == Len(ret)
  <1>9. /\ N \in Nat /\ DOMAIN ret = 1 .. N
        /\ DOMAIN Append(ret, l.id) = 1 .. N + 1 /\ Len(Append(ret, l.id)) = N + 1
        /\ \A i \in 1 .. N : Append(ret, l.id)[i] = ret[i]
        /\ Append(ret, l.id)[N + 1] = l.id
    <2>1. l.id \in Nat
      BY DEF Lines
    <2> QED BY <2>1, LenProperties, AppendProperties
  <1>10. /\ \A i \in 1 .. N : ret[i] \in 1 .. n /\ ret[i] \in Nat
         /\ \A i, j \in 1 .. N : i < j => ret[i] < ret[j]
    BY <1>1 DEF Climbs
  <1> HIDE DEF N, more, one
  <1>11. l.id \notin ToSet(ret)
    <2>1. \A i \in 1 .. N : ret[i] # n + 1
      BY <1>10
    <2> QED BY <1>9, <2>1 DEF ToSet
  <1>12. CASE ~l.whole /\ ret2 = ret
    <2>1. Kept(files, more) = Kept(files, last)
      BY <1>8, <1>12
    <2>2. \A i \in 1 .. n : i \in 1 .. n + 1
      OBVIOUS
    <2>3. Climbs(ret, n + 1)
      BY <1>1, <2>2 DEF Climbs
    <2> QED BY <1>1, <1>3, <1>7, <1>12, <2>1, <2>3 DEF LogOK
  <1>13. CASE l.whole /\ ret2 = Append(ret, l.id)
    <2>1. ToSet(ret2) = ToSet(ret) \cup {l.id}
      <3>1. \A i \in 1 .. N + 1 : i \in 1 .. N \/ i = N + 1
        BY <1>9
      <3>2. \A i \in 1 .. N : i \in 1 .. N + 1
        BY <1>9
      <3>3. N + 1 \in 1 .. N + 1
        BY <1>9
      <3> QED BY ONLY <1>9, <1>13, <3>1, <3>2, <3>3 DEF ToSet
    <2>2. Kept(files, more) = Kept(files, last) \cup {l.id}
      BY <1>8, <1>13
    <2>3. lost \cap Kept(files, more) = {} /\ ToSet(ret2) = Kept(files, more) \cup lost
      <3> DEFINE K == Kept(files, last)
      <3> HIDE DEF K
      <3>1. lost \cap K = {} /\ ToSet(ret) = K \cup lost /\ Kept(files, more) = K \cup {l.id}
        BY <1>1, <2>2 DEF K
      <3> QED BY ONLY <1>11, <2>1, <3>1
    <2>4. Climbs(ret2, n + 1)
      <3>1. /\ Len(ret2) = N + 1 /\ \A i \in 1 .. N : ret2[i] = ret[i]
            /\ ret2[N + 1] = n + 1
        BY <1>9, <1>13
      <3>2. \A i \in 1 .. N + 1 : i \in 1 .. N \/ i = N + 1
        BY <1>9
      <3>3. ASSUME NEW i \in 1 .. N + 1 PROVE ret2[i] \in 1 .. n + 1
        BY <1>10, <3>1, <3>2
      <3>4. ASSUME NEW i \in 1 .. N + 1, NEW j \in 1 .. N + 1, i < j PROVE ret2[i] < ret2[j]
        <4>1. i \in 1 .. N
          BY <1>9, <3>4
        <4>2. CASE j \in 1 .. N
          BY ONLY <1>10, <3>1, <3>4, <4>1, <4>2
        <4>3. CASE j = N + 1
          <5>1. ret2[i] \in 1 .. n /\ ret2[j] = n + 1
            BY ONLY <1>10, <3>1, <4>1, <4>3
          <5> QED BY <5>1
        <4> QED BY <3>2, <4>2, <4>3
      <3> QED BY <3>1, <3>3, <3>4 DEF Climbs
    <2> QED BY <1>3, <1>7, <2>3, <2>4 DEF LogOK
  <1> QED BY <1>12, <1>13
-----------------------------------------------------------------------------
(* The numbers of the records. *)

\* A write() is on its way.
Busy(s) == spc[s] \notin {"down", "idle"}

\* The last number of a record that may have been written.
Used(s) == IF Busy(s) THEN lastId - 1 ELSE lastId

Numbered(s) == Busy(s) => line[s].id = lastId /\ lastId > 0

\* No record comes in, and a write() goes on or ends.
Carries ==
  /\ UNCHANGED <<lastId, line>>
  /\ \A s \in Sinks :
       /\ spc'[s] \notin {"down", "idle"} => Busy(s)
       /\ spc'[s] = "write" => spc[s] \in {"write", "prune"}
       /\ spc'[s] = "prune" => spc[s] \in {"prune", "reopen"}
       /\ spc'[s] = "reopen" => spc[s] \in {"reopen", "rename"}

Calls(s, size) ==
  /\ spc[s] = "idle"
  /\ spc' = [spc EXCEPT ![s] = IF MustRotate(s, size) THEN "flush" ELSE "write"]
  /\ lastId' = lastId + 1 /\ line' = [line EXCEPT ![s] = NewLine(size)]
  /\ UNCHANGED <<dir, contents, streamVars>>

LEMMA CallStep ==
  ASSUME Shape, [Next]_vars
  PROVE  Carries \/ \E s \in Sinks, size \in Sizes : Calls(s, size)
  <1> DEFINE Goal == Carries \/ \E s \in Sinks, size \in Sizes : Calls(s, size)
  <1>0. spc \in [Sinks -> SinkLabels]
    BY DEF Shape
  <1>1. ASSUME UNCHANGED <<line, lastId>>, NEW s \in Sinks, NEW l, spc' = [spc EXCEPT ![s] = l],
               l \in {"down", "idle"} \/ Busy(s),
               l = "write" => spc[s] = "prune", l = "prune" => spc[s] = "reopen",
               l = "reopen" => spc[s] = "rename"
        PROVE  Goal
    <2>1. \A t \in Sinks : spc'[t] = IF t = s THEN l ELSE spc[t]
      BY <1>0, <1>1
    <2> QED BY <1>1, <2>1 DEF Carries, Busy
  <1>2. ASSUME UNCHANGED <<line, lastId, spc>> PROVE Goal
    BY <1>2 DEF Carries, Busy
  <1>3. ASSUME NEW t, SetClock(t) PROVE Goal
    BY <1>2, <1>3 DEF SetClock, fileVars
  <1>4. ASSUME NEW s \in Sinks, NEW size \in Sizes, CallWrite(s, size) PROVE Goal
    BY <1>4 DEF CallWrite, Calls, Goto, streamVars
  <1>5. ASSUME NEW s \in Sinks, RotateFlush(s) PROVE Goal
    BY <1>1, <1>5 DEF RotateFlush, Goto, Busy
  <1>6. ASSUME NEW s \in Sinks, RotateClose(s) PROVE Goal
    BY <1>1, <1>6 DEF RotateClose, Goto, Busy
  <1>7. ASSUME NEW s \in Sinks, RotateName(s) PROVE Goal
    BY <1>1, <1>7 DEF RotateName, Goto, Busy
  <1>8. ASSUME NEW s \in Sinks, RotateRename(s) PROVE Goal
    BY <1>1, <1>8 DEF RotateRename, Goto, Busy
  <1>9. ASSUME NEW s \in Sinks, RotateReopen(s) PROVE Goal
    BY <1>1, <1>9 DEF RotateReopen, Goto, Busy
  <1>10. ASSUME NEW s \in Sinks, RotatePrune(s) PROVE Goal
    BY <1>1, <1>10 DEF RotatePrune, Goto, Busy
  <1>11. ASSUME NEW s \in Sinks, WriteLine(s) PROVE Goal
    BY <1>1, <1>11 DEF WriteLine, Goto, Busy
  <1>12. ASSUME NEW s \in Sinks, Construct(s), UNCHANGED line PROVE Goal
    BY <1>1, <1>2, <1>12 DEF Construct, Goto
  <1>13. ASSUME NEW s \in Sinks, Flush(s), UNCHANGED line PROVE Goal
    BY <1>2, <1>13 DEF Flush
  <1>14. ASSUME NEW s \in Sinks, Destroy(s) \/ Crash(s), UNCHANGED line PROVE Goal
    BY <1>1, <1>14 DEF Destroy, Crash, Goto
  <1>15. ASSUME UNCHANGED vars PROVE Goal
    BY <1>2, <1>15 DEF vars, fileVars
  <1> HIDE DEF Goal
  <1>16. Goal
    BY <1>3, <1>4, <1>5, <1>6, <1>7, <1>8, <1>9, <1>10, <1>11, <1>12, <1>13, <1>14, <1>15 DEF Next
  <1> QED BY <1>16 DEF Goal

LEMMA NumberStep ==
  ASSUME OnlySink, Shape, [Next]_vars, NEW s \in Sinks, Numbered(s)
  PROVE  /\ Numbered(s)' /\ Used(s) \in Nat /\ Used(s)' \in Nat /\ Used(s) <= Used(s)'
         /\ Busy(s) /\ ~Busy(s)' => Used(s)' = Used(s) + 1 /\ line[s].id = Used(s) + 1
  <1>0. lastId \in Nat /\ spc \in [Sinks -> SinkLabels] /\ line \in [Sinks -> Lines]
    BY DEF Shape
  <1>1. CASE Carries
    <2>1. UNCHANGED <<lastId, line>> /\ (Busy(s)' => Busy(s))
      BY <1>1 DEF Carries, Busy
    <2>2. Busy(s)' \in BOOLEAN /\ Busy(s) \in BOOLEAN
      BY DEF Busy
    <2> QED BY <1>0, <2>1, <2>2 DEF Numbered, Used
  <1>2. ASSUME NEW t \in Sinks, NEW size \in Sizes, Calls(t, size)
        PROVE  /\ Numbered(s)' /\ Used(s) \in Nat /\ Used(s)' \in Nat /\ Used(s) <= Used(s)'
               /\ ~Busy(s)
    <2>1. t = s
      BY DEF OnlySink
    <2>2. ~Busy(s) /\ Busy(s)' /\ lastId' = lastId + 1 /\ line'[s].id = lastId + 1
      BY <1>0, <1>2, <2>1 DEF Calls, Busy, NewLine
    <2> QED BY <1>0, <2>2 DEF Numbered, Used
  <1> QED BY <1>1, <1>2, CallStep
-----------------------------------------------------------------------------
(* The log: all files in the order of their creation, then the buffer. *)

\* The file at the path is the one created last.
PathIsLast == Base \in DOMAIN dir => dir[Base] = Len(contents)

LogInv ==
  PathIsLast /\ \A s \in Sinks :
                  Numbered(s) /\ LogOK(contents, buffered[s], Used(s), returned, gone)

LEMMA PathIsLastStep ==
  ASSUME Shape, FileEffect, PathIsLast
  PROVE  PathIsLast'
  <1>0. contents \in Seq(Seq(Lines)) /\ target \in [Sinks -> Names]
        /\ \A s \in Sinks : spc[s] = "rename" => target[s] \in Nat \X Nat
    BY DEF Shape, FilesOK
  <1>1. CASE Keeps
    BY <1>1 DEF Keeps, PathIsLast
  <1>2. ASSUME NEW s \in Sinks, NEW lines, Spills(s, lines) PROVE PathIsLast'
    <2>1. Len(contents') = Len(contents) /\ UNCHANGED dir
      BY <1>0, <1>2, LenProperties DEF Spills
    <2> QED BY <2>1 DEF PathIsLast
  <1>3. CASE Creates
    <2>1. Len(contents') = Len(contents) + 1 /\ dir'[Base] = Len(contents) + 1
      BY <1>0, <1>3, AppendProperties DEF Creates
    <2> QED BY <2>1 DEF PathIsLast
  <1>4. ASSUME NEW s \in Sinks, Renames(s) PROVE PathIsLast'
    <2>1. Base # target[s]
      BY <1>0, <1>4, NamesDiffer DEF Renames
    <2>2. Base \notin DOMAIN dir'
      BY <1>4, <2>1 DEF Renames
    <2> QED BY <2>2 DEF PathIsLast
  <1>5. ASSUME NEW removed \in SUBSET Rotated, Prunes(removed) PROVE PathIsLast'
    BY <1>5 DEF Prunes, PathIsLast
  <1> QED BY <1>1, <1>2, <1>3, <1>4, <1>5 DEF FileEffect

\* What a step does to the log, in terms of the lines that the buffer holds.
LEMMA LogStep ==
  ASSUME Owner, StepKind, PathIsLast, NEW s \in Sinks, NEW n \in Nat, NEW m \in Nat, n <= m,
         LogOK(contents, buffered[s], n, returned, gone),
         spc[s] = "write" /\ spc'[s] = "idle" => m = n + 1 /\ line[s].id = n + 1
  PROVE  LogOK(contents', buffered'[s], m, returned', gone')
  <1> DEFINE Goal == LogOK(contents', buffered'[s], m, returned', gone')
  <1>0. /\ \A t \in Sinks : t = s
        /\ contents \in Seq(Seq(Lines)) /\ handle \in [Sinks -> 0 .. Len(contents)]
        /\ buffered \in [Sinks -> Seq(Lines)] /\ spc \in [Sinks -> SinkLabels] /\ returned \in Seq(Nat)
    BY DEF Owner, Shape, FilesOK, OnlySink
  <1>1. \A i \in 1 .. Len(contents) : contents[i] \in Seq(Lines)
    BY <1>0, ElementOfSeq
  <1>2. ASSUME UNCHANGED <<contents, buffered, returned, gone>> PROVE Goal
    BY <1>2, LogAges
  <1>3. ASSUME Opens(s) PROVE Goal
    <2>1. CASE Keeps
      BY <1>2, <1>3, <2>1 DEF Opens, Keeps
    <2>2. CASE Creates
      <3>1. LogOK(Append(contents, <<>>), buffered[s], n, returned, gone)
        BY <1>0, LogNewFile
      <3>2. contents' = Append(contents, <<>>) /\ UNCHANGED <<buffered, returned, gone>>
        BY <1>3, <2>2 DEF Opens, Creates
      <3>3. LogOK(contents', buffered'[s], n, returned', gone')
        BY <3>1, <3>2
      <3> QED BY ONLY <3>3, n \in Nat, m \in Nat, n <= m, LogAges
    <2> QED BY <1>3, <2>1, <2>2 DEF Opens
  <1>4. ASSUME NEW u \in Seq(Lines), Spills(s, u) PROVE Flows(contents, u, contents')
    <2>1. handle[s] = Len(contents) /\ handle[s] # 0
      BY <1>4 DEF Spills, NoFile, Owner, Own, PathIsLast
    <2>2. /\ Len(contents) \in Nat /\ Len(contents') = Len(contents)
          /\ \A i \in 1 .. Len(contents) :
               contents'[i] = IF i = handle[s] THEN contents[i] \o u ELSE contents[i]
      BY <1>0, <1>4, LenProperties DEF Spills
    <2> QED BY <2>1, <2>2 DEF Flows
  <1>5. ASSUME NEW u \in Seq(Lines), NEW v \in Seq(Lines), NEW w \in Seq(Lines), Drains(s, u, v, w)
        PROVE  Goal
    <2> DEFINE uv == u \o v
               lines == uv \o w
    <2>1. /\ Spills(s, u) /\ buffered'[s] = v /\ UNCHANGED returned
          /\ Writes(s, lines) /\ gone' = gone \cup (Whole(lines) \ Whole(uv))
      BY <1>0, <1>5 DEF Drains
    <2>2. uv \in Seq(Lines) /\ buffered[s] \in Seq(Lines) /\ returned \in Seq(Nat)
      BY <1>0, WholeOfConcat
    <2> HIDE DEF lines
    <2>3. LogOK(contents, lines, m, returned, gone)
      <3>1. CASE lines = buffered[s]
        <4>1. LogOK(contents, lines, n, returned, gone)
          BY <3>1
        <4> QED BY ONLY <4>1, n \in Nat, m \in Nat, n <= m, LogAges
      <3>2. ASSUME NEW l \in Lines, ~l.whole, l.id = line[s].id, lines = Append(buffered[s], l),
                   spc[s] = "write", spc'[s] = "idle"
            PROVE  LogOK(contents, lines, m, returned, gone)
        <4>1. m = n + 1 /\ l.id = n + 1
          BY <3>2
        <4>2. LogOK(contents, Append(buffered[s], l), n + 1, returned, gone)
          BY ONLY <2>2, <3>2, <4>1, n \in Nat, LogOK(contents, buffered[s], n, returned, gone), LogAppend
        <4> QED BY ONLY <3>2, <4>1, <4>2
      <3> QED BY <2>1, <3>1, <3>2 DEF Writes
    <2>4. LogOK(contents, uv, m, returned, gone')
      <3> USE DEF lines
      <3> HIDE DEF uv
      <3>1. LogOK(contents, uv \o w, m, returned, gone)
        BY <2>3
      <3>2. LogOK(contents, uv, m, returned, gone \cup (Whole(uv \o w) \ Whole(uv)))
        BY ONLY <1>1, <2>2, <3>1, w \in Seq(Lines), LogCut
      <3> QED BY <2>1, <3>2
    <2>5. Flows(contents, u, contents')
      BY <1>4, <2>1
    <2>6. LogOK(contents', v, m, returned, gone')
      BY ONLY <1>1, <2>4, <2>5, u \in Seq(Lines), v \in Seq(Lines), LogFlows
    <2> QED BY <2>1, <2>6
  <1>6. ASSUME NEW k \in 0 .. Len(buffered[s]), Drops(s, k) PROVE Goal
    <2> DEFINE b == buffered[s]
               u == SubSeq(b, 1, k)
               v == SubSeq(b, k + 1, Len(b))
    <2>1. b \in Seq(Lines) /\ u \in Seq(Lines) /\ v \in Seq(Lines) /\ b = u \o v
      BY <1>0, <1>6, WholeOfParts
    <2>2. /\ (handle[s] = NoFile /\ Keeps) \/ Spills(s, u)
          /\ buffered'[s] = <<>> /\ gone' = gone \cup (Whole(b) \ Whole(u)) /\ UNCHANGED returned
      BY <1>0, <1>6 DEF Drops
    <2>3. LogOK(contents, b, n, returned, gone)
      OBVIOUS
    <2>4. ASSUME handle[s] = NoFile PROVE b = <<>>
      BY <2>4 DEF Owner, Own
    <2> HIDE DEF b, u, v
    <2>5. CASE handle[s] = NoFile /\ Keeps
      <3>1. b = <<>> /\ UNCHANGED contents
        BY <2>4, <2>5 DEF Keeps
      <3>2. Whole(b) = {}
        BY <3>1 DEF Whole
      <3>3. gone' = gone
        BY <2>2, <3>2
      <3>4. LogOK(contents', buffered'[s], n, returned', gone')
        BY <2>2, <2>3, <3>1, <3>3
      <3> QED BY ONLY <3>4, n \in Nat, m \in Nat, n <= m, LogAges
    <2>6. CASE Spills(s, u)
      <3>1. LogOK(contents, u, n, returned, gone')
        <4>1. LogOK(contents, u \o v, n, returned, gone)
          BY <2>1, <2>3
        <4>2. LogOK(contents, u, n, returned, gone \cup (Whole(u \o v) \ Whole(u)))
          BY ONLY <1>1, <2>1, <4>1, LogCut
        <4> QED BY <2>1, <2>2, <4>2
      <3>2. u \o <<>> = u /\ <<>> \in Seq(Lines)
        BY <2>1, ConcatEmptySeq
      <3>3. Flows(contents, u, contents')
        BY <1>4, <2>1, <2>6
      <3>4. LogOK(contents, u \o <<>>, n, returned, gone')
        BY <3>1, <3>2
      <3>5. LogOK(contents', <<>>, n, returned, gone')
        BY ONLY <1>1, <2>1, <3>2, <3>3, <3>4, LogFlows
      <3>6. LogOK(contents', <<>>, m, returned, gone')
        BY ONLY <3>5, n \in Nat, m \in Nat, n <= m, LogAges
      <3> QED BY <2>2, <3>6
    <2> QED BY <2>2, <2>5, <2>6
  <1>7. ASSUME Buffers(s) PROVE Goal
    <2> DEFINE l == line[s]
    <2>1. m = n + 1 /\ l.id = n + 1
      BY <1>0, <1>7 DEF Buffers, Moves
    <2>2. /\ buffered'[s] = Append(buffered[s], l) /\ UNCHANGED <<contents, gone>>
          /\ l.whole /\ returned' = Append(returned, l.id)
      BY <1>0, <1>7 DEF Buffers
    <2>3. buffered[s] \in Seq(Lines) /\ returned \in Seq(Nat) /\ l \in Lines
      BY <1>0 DEF Owner, Shape
    <2> HIDE DEF l
    <2>4. LogOK(contents, Append(buffered[s], l), n + 1, returned', gone)
      BY ONLY <2>1, <2>2, <2>3, n \in Nat, LogOK(contents, buffered[s], n, returned, gone), LogAppend
    <2> QED BY <2>1, <2>2, <2>4
  <1>8. ASSUME Passes(s) \/ FailsToOpen(s) \/ NameStep(s)
        PROVE  UNCHANGED <<contents, buffered, returned, gone>>
    <2>1. ASSUME NEW removed, Trims(s, removed) PROVE UNCHANGED <<contents, buffered, returned, gone>>
      BY <2>1 DEF Trims, Prunes, streamVars
    <2>2. ASSUME SetsAside(s) PROVE UNCHANGED <<contents, buffered, returned, gone>>
      BY <2>2 DEF SetsAside, Renames, streamVars
    <2>3. ASSUME Passes(s) \/ FailsToOpen(s) \/ Picks(s)
          PROVE  UNCHANGED <<contents, buffered, returned, gone>>
      BY <2>3 DEF Passes, FailsToOpen, Picks, streamVars
    <2> QED BY <1>8, <2>1, <2>2, <2>3 DEF NameStep
  <1>9. Waits => UNCHANGED <<contents, buffered, returned, gone>>
    BY DEF Waits, streamVars
  <1> HIDE DEF Goal
  <1>10. ASSUME NEW t \in Sinks, Passes(t) \/ Opens(t) \/ FailsToOpen(t) \/ NameStep(t) \/ StreamStep(t)
         PROVE  Goal
    <2>1. t = s
      BY <1>0
    <2> QED BY <1>2, <1>3, <1>5, <1>6, <1>7, <1>8, <1>10, <2>1 DEF StreamStep
  <1>11. Goal
    BY <1>2, <1>9, <1>10 DEF StepKind
  <1> QED BY <1>11 DEF Goal

LEMMA LogInvStep ==
  ASSUME Owner, LogInv, [Next]_vars
  PROVE  LogInv'
  <1>0. /\ OnlySink /\ Shape /\ PathIsLast
        /\ \A s \in Sinks : Numbered(s) /\ LogOK(contents, buffered[s], Used(s), returned, gone)
    BY DEF Owner, LogInv
  <1>1. StepKind /\ FileEffect
    BY <1>0, ShapeStep
  <1>2. PathIsLast'
    BY <1>0, <1>1, PathIsLastStep
  <1>3. ASSUME NEW s \in Sinks
        PROVE  Numbered(s)' /\ LogOK(contents', buffered'[s], Used(s)', returned', gone')
    <2>1. /\ Numbered(s)' /\ Used(s) \in Nat /\ Used(s)' \in Nat /\ Used(s) <= Used(s)'
          /\ Busy(s) /\ ~Busy(s)' => Used(s)' = Used(s) + 1 /\ line[s].id = Used(s) + 1
      BY <1>0, NumberStep
    <2>2. spc[s] = "write" /\ spc'[s] = "idle" => Used(s)' = Used(s) + 1 /\ line[s].id = Used(s) + 1
      BY <2>1 DEF Busy
    <2>3. LogOK(contents, buffered[s], Used(s), returned, gone)
      BY <1>0
    <2> DEFINE n == Used(s)
               m == Used(s)'
    <2>4. /\ n \in Nat /\ m \in Nat /\ n <= m /\ LogOK(contents, buffered[s], n, returned, gone)
          /\ spc[s] = "write" /\ spc'[s] = "idle" => m = n + 1 /\ line[s].id = n + 1
      BY <2>1, <2>2, <2>3
    <2> HIDE DEF n, m
    <2>5. LogOK(contents', buffered'[s], m, returned', gone')
      BY <1>0, <1>1, <2>4, LogStep
    <2> QED BY <2>1, <2>5 DEF m
  <1> QED BY <1>2, <1>3 DEF LogInv

LEMMA LogAtStart ==
  ASSUME Init
  PROVE  LogInv
  <1>1. Cardinality({OtherFile}) = 1
    BY FS_Singleton
  <1>2. contents = [i \in 1 .. 1 |-> <<>>] /\ dir = [n \in {OtherFile} |-> 1]
    BY <1>1 DEF Init, FileInit
  <1>3. contents = <<(<<>>)>>
    BY <1>2
  <1>4. Len(contents) = 1 /\ contents[1] = <<>> /\ \A i \in 1 .. 1 : i = 1
    BY <1>3
  <1>5. PathIsLast
    BY <1>2, NamesDiffer DEF PathIsLast
  <1>6. /\ returned = <<>> /\ gone = {} /\ lastId = 0
        /\ \A s \in Sinks : buffered[s] = <<>> /\ spc[s] = "down"
    BY DEF Init, FileInit
  <1>7. /\ Rising(<<>>, 0) /\ Below(<<>>, <<>>) /\ Whole(<<>>) = {} /\ Climbs(<<>>, 0) /\ ToSet(<<>>) = {}
    BY DEF Rising, Below, Whole, Climbs, ToSet
  <1>8. Ordered(contents, <<>>, 0)
    <2>1. \A i, j \in 1 .. 1 : ~(i < j)
      OBVIOUS
    <2> QED BY <1>4, <1>7, <2>1 DEF Ordered
  <1>9. Kept(contents, <<>>) = {}
    BY <1>4, <1>7, KeptElements
  <1>10. LogOK(contents, <<>>, 0, <<>>, {})
    BY <1>7, <1>8, <1>9 DEF LogOK
  <1>11. ASSUME NEW s \in Sinks
         PROVE  Numbered(s) /\ LogOK(contents, buffered[s], Used(s), returned, gone)
    <2>1. Numbered(s) /\ Used(s) = 0
      BY <1>6 DEF Numbered, Used, Busy
    <2> QED BY <1>6, <1>10, <2>1
  <1> QED BY <1>5, <1>11 DEF LogInv

LEMMA LogIsInOrder ==
  ASSUME Shape, LogInv
  PROVE  LogInOrder
  <1> SUFFICES ASSUME NEW s \in Sinks
               PROVE  LET log == Append(contents, buffered[s])
                      IN  /\ UNION { Whole(log[i]) : i \in DOMAIN log } = ToSet(returned) \ gone
                          /\ \A i, j \in DOMAIN log : \A k \in DOMAIN log[i], m \in DOMAIN log[j] :
                               i < j \/ (i = j /\ k < m) => log[i][k].id < log[j][m].id
                          /\ \A i, j \in DOMAIN returned : i < j => returned[i] < returned[j]
    BY DEF LogInOrder
  <1> DEFINE log == Append(contents, buffered[s])
             N == Len(contents)
             last == buffered[s]
             n == Used(s)
  <1>1. LogOK(contents, last, n, returned, gone)
    BY DEF LogInv
  <1>2. contents \in Seq(Seq(Lines)) /\ last \in Seq(Lines) /\ returned \in Seq(Nat)
    BY DEF Shape, FilesOK
  <1>3. /\ N \in Nat /\ DOMAIN log = 1 .. N + 1 /\ log \in Seq(Seq(Lines))
        /\ \A i \in 1 .. N : log[i] = contents[i]
        /\ log[N + 1] = last
    BY <1>2, AppendProperties, LenProperties
  <1>4. \A i \in 1 .. N + 1 : log[i] \in Seq(Lines) /\ DOMAIN log[i] = 1 .. Len(log[i])
    <2>1. ASSUME NEW i \in 1 .. N + 1 PROVE log[i] \in Seq(Lines)
      BY <1>3, ElementOfSeq, LenProperties
    <2> QED BY <2>1, LenProperties
  <1> HIDE DEF log, N, last, n
  <1>5. /\ Rising(last, n)
        /\ \A i \in 1 .. N : Rising(contents[i], n) /\ Below(contents[i], last)
        /\ \A i, j \in 1 .. N : i < j => Below(contents[i], contents[j])
        /\ gone \cap Kept(contents, last) = {} /\ ToSet(returned) = Kept(contents, last) \cup gone
        /\ \A i, j \in 1 .. Len(returned) : i < j => returned[i] < returned[j]
    BY <1>1 DEF LogOK, Ordered, Climbs, N
  <1>6. \A i \in 1 .. N + 1 : i \in 1 .. N \/ i = N + 1
    BY <1>3
  <1>7. \A i \in 1 .. N + 1 : Rising(log[i], n)
    BY ONLY <1>3, <1>5, <1>6
  <1>8. ASSUME NEW i \in 1 .. N + 1, NEW j \in 1 .. N + 1, i < j PROVE Below(log[i], log[j])
    <2>1. i \in 1 .. N
      BY <1>3, <1>8
    <2> QED BY ONLY <1>3, <1>5, <1>6, <1>8, <2>1
  <1>9. UNION { Whole(log[i]) : i \in DOMAIN log } = ToSet(returned) \ gone
    <2>1. \A i \in 1 .. N : i \in 1 .. N + 1
      BY <1>3
    <2>2. N + 1 \in 1 .. N + 1
      BY <1>3
    <2>3. \A y : (\E i \in 1 .. N + 1 : y \in Whole(log[i])) <=>
                   (\E i \in 1 .. N : y \in Whole(contents[i])) \/ y \in Whole(last)
      BY ONLY <1>3, <1>6, <2>1, <2>2
    <2>4. \A y : (\E i \in 1 .. N + 1 : y \in Whole(log[i])) <=> y \in Kept(contents, last)
      BY ONLY <2>3, KeptElements DEF N
    <2>5. UNION { Whole(log[i]) : i \in DOMAIN log } = Kept(contents, last)
      BY ONLY <1>3, <2>4
    <2> QED BY ONLY <1>5, <2>5
  <1>10. ASSUME NEW i \in DOMAIN log, NEW j \in DOMAIN log, NEW k \in DOMAIN log[i],
                NEW m \in DOMAIN log[j], i < j \/ (i = j /\ k < m)
         PROVE  log[i][k].id < log[j][m].id
    <2>0. /\ i \in 1 .. N + 1 /\ j \in 1 .. N + 1
          /\ k \in 1 .. Len(log[i]) /\ m \in 1 .. Len(log[j])
      BY ONLY <1>3, <1>4, <1>10
    <2>1. CASE i < j
      <3>1. Below(log[i], log[j])
        BY <1>8, <2>0, <2>1
      <3> QED BY ONLY <2>0, <3>1 DEF Below
    <2>2. CASE i = j /\ k < m
      BY ONLY <1>7, <2>0, <2>2 DEF Rising
    <2> QED BY <1>10, <2>1, <2>2
  <1>11. \A i, j \in DOMAIN returned : i < j => returned[i] < returned[j]
    <2>1. DOMAIN returned = 1 .. Len(returned)
      BY <1>2, LenProperties
    <2> QED BY <1>5, <2>1
  <1> QED BY <1>9, <1>10, <1>11 DEF log

\* The log keeps its order: read in the order of their creation, with the buffer at
\* the end, the files hold every record whose write() returned and that is not gone
\* with a crash or a failed call, and each line is younger than all lines before
\* it.  However rotations, failures, restarts and settings of the clock interleave.
THEOREM LogKeepsOrder == OnlySink => (Spec => []LogInOrder)
  <1> SUFFICES ASSUME OnlySink PROVE Spec => []LogInOrder
    OBVIOUS
  <1> DEFINE Inv == Owner /\ LogInv
  <1>1. Init => Inv
    BY OwnerAtStart, LogAtStart
  <1>2. ASSUME Inv, [Next]_vars PROVE Inv'
    BY <1>2, OwnerStep, LogInvStep
  <1>3. Inv => LogInOrder
    BY LogIsInOrder DEF Owner
  <1> QED BY <1>1, <1>2, <1>3, PTL DEF Spec
-----------------------------------------------------------------------------
(* The size of the files. *)

AllWhole(lines) == \A i \in 1 .. Len(lines) : lines[i].whole

Small(lines) == Len(lines) <= 1 \/ Bytes(lines) < MaxBytes

\* Up to its first torn line, the file is within the threshold.
Fits(lines) ==
  \A a, b \in Seq(Lines) : lines = a \o b /\ AllWhole(a) => Small(a)

\* Up to its first torn line, the file is counted.
Counted(lines, n) ==
  \A a, b \in Seq(Lines) : lines = a \o b /\ AllWhole(a) => Bytes(a) <= n

LEMMA FitsEmpty == Fits(<<>>)
  <1>1. ASSUME NEW a \in Seq(Lines), NEW b \in Seq(Lines), <<>> = a \o b PROVE Len(a) <= 1
    <2>1. Len(<<>>) = Len(a) + Len(b) /\ Len(a) \in Nat /\ Len(b) \in Nat /\ Len(<<>>) = 0
      BY <1>1, ConcatProperties, LenProperties
    <2> QED BY <2>1
  <1> QED BY <1>1 DEF Fits, Small

LEMMA FitsPrefix ==
  ASSUME NEW u \in Seq(Lines), NEW v \in Seq(Lines), Fits(u \o v)
  PROVE  Fits(u)
  <1>1. ASSUME NEW a \in Seq(Lines), NEW b \in Seq(Lines), u = a \o b, AllWhole(a) PROVE Small(a)
    <2>1. u \o v = a \o (b \o v)
      BY <1>1, ConcatAssociative
    <2>2. b \o v \in Seq(Lines)
      BY ConcatProperties
    <2> QED BY <1>1, <2>1, <2>2 DEF Fits
  <1> QED BY <1>1 DEF Fits

LEMMA FitsWhole ==
  ASSUME NEW lines \in Seq(Lines), Fits(lines), AllWhole(lines)
  PROVE  Small(lines)
  <1>1. lines = lines \o <<>> /\ <<>> \in Seq(Lines)
    BY ConcatEmptySeq
  <1> QED BY <1>1 DEF Fits

LEMMA WholeAppend ==
  ASSUME NEW lines \in Seq(Lines), NEW l \in Lines
  PROVE  AllWhole(Append(lines, l)) <=> AllWhole(lines) /\ l.whole
  <1> DEFINE more == Append(lines, l)
             N == Len(lines)
  <1>1. /\ N \in Nat /\ Len(more) = N + 1
        /\ \A i \in 1 .. N : more[i] = lines[i]
        /\ more[N + 1] = l
    BY LenProperties, AppendProperties
  <1>2. /\ \A i \in 1 .. N + 1 : i \in 1 .. N \/ i = N + 1
        /\ \A i \in 1 .. N : i \in 1 .. N + 1
        /\ N + 1 \in 1 .. N + 1
    BY <1>1
  <1> HIDE DEF more, N
  <1>3. AllWhole(more) <=> (\A i \in 1 .. N : lines[i].whole) /\ l.whole
    BY ONLY <1>1, <1>2 DEF AllWhole
  <1> QED BY <1>3 DEF AllWhole, more, N

LEMMA SameStart ==
  ASSUME NEW a \in Seq(Lines), NEW b \in Seq(Lines), NEW l \in Lines, NEW m \in Lines,
         Append(a, l) = Append(b, m)
  PROVE  a = b
  BY AppendInjective, SMT

\* What comes before the last line, or all of it.
LEMMA PrefixOfAppend ==
  ASSUME NEW lines \in Seq(Lines), NEW l \in Lines, NEW a \in Seq(Lines), NEW b \in Seq(Lines),
         Append(lines, l) = a \o b
  PROVE  a = Append(lines, l) \/ \E c \in Seq(Lines) : lines = a \o c
  <1>1. CASE b = <<>>
    <2>1. a \o b = a
      BY <1>1, ConcatEmptySeq
    <2> QED BY <2>1
  <1>2. CASE b # <<>>
    <2>1. PICK c \in Seq(Lines), e \in Lines : b = Append(c, e)
      BY <1>2, SequenceEmptyOrAppend
    <2>2. a \o c \in Seq(Lines) /\ <<e>> \in Seq(Lines)
      BY ConcatProperties
    <2>3. b = c \o <<e>> /\ Append(a \o c, e) = (a \o c) \o <<e>>
      BY <2>1, <2>2, AppendIsConcat
    <2>4. (a \o c) \o <<e>> = a \o (c \o <<e>>)
      BY <2>2, ConcatAssociative
    <2>5. Append(lines, l) = Append(a \o c, e)
      BY <2>3, <2>4
    <2>6. lines = a \o c
      <3> DEFINE q == a \o c
      <3>1. q \in Seq(Lines) /\ Append(lines, l) = Append(q, e)
        BY <2>2, <2>5
      <3> HIDE DEF q
      <3>2. lines = q
        BY ONLY <3>1, lines \in Seq(Lines), l \in Lines, e \in Lines, SameStart
      <3> QED BY <3>2 DEF q
    <2> QED BY <2>6
  <1> QED BY <1>1, <1>2

LEMMA FitsAppend ==
  ASSUME NEW lines \in Seq(Lines), NEW l \in Lines, Fits(lines),
         AllWhole(Append(lines, l)) => Small(Append(lines, l))
  PROVE  Fits(Append(lines, l))
  <1>1. ASSUME NEW a \in Seq(Lines), NEW b \in Seq(Lines), Append(lines, l) = a \o b, AllWhole(a)
        PROVE  Small(a)
    <2>1. a = Append(lines, l) \/ \E c \in Seq(Lines) : lines = a \o c
      BY ONLY <1>1, lines \in Seq(Lines), l \in Lines, PrefixOfAppend, ZenonT(60)
    <2> QED BY <1>1, <2>1 DEF Fits
  <1> QED BY <1>1 DEF Fits

LEMMA CountedMore ==
  ASSUME NEW lines \in Seq(Lines), NEW n \in Nat, NEW m \in Nat, n <= m, Counted(lines, n)
  PROVE  Counted(lines, m)
  <1>1. \A a \in Seq(Lines) : Bytes(a) \in Nat
    BY BytesType
  <1>2. ASSUME NEW a \in Seq(Lines), Bytes(a) <= n PROVE Bytes(a) <= m
    BY <1>1, <1>2
  <1> QED BY <1>2 DEF Counted

LEMMA CountedPrefix ==
  ASSUME NEW u \in Seq(Lines), NEW v \in Seq(Lines), NEW n, Counted(u \o v, n)
  PROVE  Counted(u, n)
  <1>1. ASSUME NEW a \in Seq(Lines), NEW b \in Seq(Lines), u = a \o b, AllWhole(a) PROVE Bytes(a) <= n
    <2>1. u \o v = a \o (b \o v)
      BY <1>1, ConcatAssociative
    <2>2. b \o v \in Seq(Lines)
      BY ConcatProperties
    <2> QED BY <1>1, <2>1, <2>2 DEF Counted
  <1> QED BY <1>1 DEF Counted

LEMMA CountedWhole ==
  ASSUME NEW lines \in Seq(Lines), NEW n, Counted(lines, n), AllWhole(lines)
  PROVE  Bytes(lines) <= n
  <1>1. lines = lines \o <<>> /\ <<>> \in Seq(Lines)
    BY ConcatEmptySeq
  <1> QED BY <1>1 DEF Counted

LEMMA CountedAppend ==
  ASSUME NEW lines \in Seq(Lines), NEW l \in Lines, NEW n \in Nat, NEW m \in Nat, n <= m,
         Counted(lines, n), AllWhole(Append(lines, l)) => Bytes(Append(lines, l)) <= m
  PROVE  Counted(Append(lines, l), m)
  <1>1. Counted(lines, m)
    BY CountedMore
  <1>2. ASSUME NEW a \in Seq(Lines), NEW b \in Seq(Lines), Append(lines, l) = a \o b, AllWhole(a)
        PROVE  Bytes(a) <= m
    <2>1. a = Append(lines, l) \/ \E c \in Seq(Lines) : lines = a \o c
      BY ONLY <1>2, lines \in Seq(Lines), l \in Lines, PrefixOfAppend, ZenonT(60)
    <2> QED BY <1>1, <1>2, <2>1 DEF Counted
  <1> QED BY <1>2 DEF Counted

LEMMA CountedAtOpen ==
  ASSUME NEW lines \in Seq(Lines)
  PROVE  Counted(lines, Bytes(lines))
  BY BytesOfPrefix DEF Counted

\* The lines of the file that the stream is open on, with those in its buffer.
Current(s) == contents[handle[s]] \o buffered[s]

\* The stream's part, if it knew the size of its file: it counts what it wrote, and
\* it has rotated if it had to.
StreamFits(s) ==
  handle[s] # NoFile /\ handle[s] \notin uncounted =>
    /\ Fits(Current(s))
    /\ Counted(Current(s), bytesWritten[s])
    /\ spc[s] = "prune" => Current(s) = <<>>
    /\ spc[s] = "write" => Current(s) = <<>> \/ bytesWritten[s] + line[s].bytes < MaxBytes

FilesFit == \A i \in 1 .. Len(contents) : i \in uncounted \/ Fits(contents[i])

SizeInv ==
  /\ FilesFit
  /\ \A s \in Sinks : StreamFits(s) /\ (spc[s] = "reopen" => Base \notin DOMAIN dir)

\* The file at the path is out of the way when a rotation opens the next one.
LEMMA PathIsFree ==
  ASSUME Shape, Shape', StepKind, Carries, OnlySink, NEW s \in Sinks,
         spc[s] = "reopen" => Base \notin DOMAIN dir, spc'[s] = "reopen"
  PROVE  Base \notin DOMAIN dir'
  <1>0. spc \in [Sinks -> SinkLabels] /\ \A t \in Sinks : t = s
    BY DEF Shape, OnlySink
  <1>1. spc[s] \in {"reopen", "rename"}
    BY DEF Carries
  <1>2. CASE Waits
    <2>1. UNCHANGED <<spc, dir>>
      BY <1>2 DEF Waits
    <2> QED BY <2>1
  <1>3. ASSUME SetsAside(s) PROVE Base \notin DOMAIN dir'
    <2>1. Base # target[s]
      BY <1>3, NamesDiffer DEF SetsAside, Renames, Shape
    <2> QED BY <1>3, <2>1 DEF SetsAside, Renames
  <1>4. ASSUME NEW to, NEW from, Moves(s, from, to), "reopen" \notin to PROVE FALSE
    BY <1>0, <1>4 DEF Moves
  <1>5. ASSUME Passes(s) \/ Opens(s) \/ FailsToOpen(s) \/ Picks(s) PROVE FALSE
    BY <1>4, <1>5 DEF Passes, Opens, FailsToOpen, Picks
  <1>6. ASSUME NEW x, NEW v, NEW w, Trims(s, x) \/ Drains(s, x, v, w) \/ Drops(s, x) \/ Buffers(s)
        PROVE  FALSE
    BY <1>4, <1>6 DEF Trims, Drains, Drops, Buffers
  <1>7. ASSUME NEW t \in Sinks, Passes(t) \/ Opens(t) \/ FailsToOpen(t) \/ NameStep(t) \/ StreamStep(t)
        PROVE  Base \notin DOMAIN dir'
    <2>1. t = s
      BY <1>0
    <2> QED BY <1>3, <1>5, <1>6, <1>7, <2>1 DEF NameStep, StreamStep
  <1> QED BY <1>2, <1>7 DEF StepKind

LEMMA CurrentType ==
  ASSUME Shape, NEW s \in Sinks, handle[s] # NoFile
  PROVE  /\ handle[s] \in 1 .. Len(contents) /\ contents[handle[s]] \in Seq(Lines)
         /\ buffered[s] \in Seq(Lines) /\ Current(s) \in Seq(Lines)
  <1>1. /\ contents \in Seq(Seq(Lines)) /\ handle[s] \in 0 .. Len(contents) /\ buffered[s] \in Seq(Lines)
    BY DEF Shape, FilesOK
  <1>2. handle[s] \in 1 .. Len(contents)
    BY <1>1, LenProperties DEF NoFile
  <1>3. contents[handle[s]] \in Seq(Lines)
    BY <1>1, <1>2, ElementOfSeq
  <1> QED BY <1>1, <1>2, <1>3, ConcatProperties DEF Current

\* Some of the lines that a stream has to write reach its file: no other file changes.
LEMMA SpillFits ==
  ASSUME Shape, FilesFit, NEW s \in Sinks, NEW u \in Seq(Lines), Spills(s, u),
         UNCHANGED uncounted,
         handle[s] \notin uncounted => Fits(contents[handle[s]] \o u)
  PROVE  FilesFit' /\ contents'[handle[s]] = contents[handle[s]] \o u
  <1> DEFINE h == handle[s]
             more == contents[h] \o u
  <1>0. handle[s] # NoFile
    BY DEF Spills
  <1>1. h \in 1 .. Len(contents)
    BY <1>0, CurrentType
  <1>2. /\ Len(contents') = Len(contents)
        /\ \A i \in 1 .. Len(contents) : contents'[i] = IF i = h THEN more ELSE contents[i]
    <2>1. contents \in Seq(Seq(Lines)) /\ contents' = [contents EXCEPT ![h] = more]
      BY DEF Shape, FilesOK, Spills
    <2> HIDE DEF more
    <2> QED BY <2>1, LenProperties
  <1>3. h \notin uncounted => Fits(more)
    OBVIOUS
  <1> HIDE DEF h, more
  <1>4. \A i \in 1 .. Len(contents) : i \in uncounted \/ Fits(contents[i])
    BY DEF FilesFit
  <1>5. \A i \in 1 .. Len(contents') : i \in uncounted' \/ Fits(contents'[i])
    BY <1>2, <1>3, <1>4
  <1> QED BY <1>1, <1>2, <1>5 DEF FilesFit, h, more

\* The lines of a file and those that a stream has yet to write to it, in two parts.
LEMMA SplitCurrent ==
  ASSUME NEW S, NEW a \in Seq(S), NEW b \in Seq(S), NEW c \in Seq(S)
  PROVE  a \o b \in Seq(S) /\ (a \o b) \o c = a \o (b \o c)
  BY ONLY a \in Seq(S), b \in Seq(S), c \in Seq(S), ConcatAssociative, ConcatProperties

\* A call on the stream leaves a beginning of the lines that it had to write, in the
\* file and in the buffer.
LEMMA DrainFits ==
  ASSUME Shape, FilesFit, NEW s \in Sinks, StreamFits(s),
         NEW u \in Seq(Lines), NEW v \in Seq(Lines), NEW w \in Seq(Lines), Drains(s, u, v, w)
  PROVE  FilesFit' /\ StreamFits(s)'
  <1> DEFINE old == contents[handle[s]]
             uv == u \o v
             lines == uv \o w
  <1>0. /\ Spills(s, u) /\ Writes(s, lines) /\ UNCHANGED <<handle, uncounted>>
        /\ handle[s] # NoFile
    BY DEF Drains, Spills
  <1>1. buffered'[s] = v /\ spc'[s] \in {"idle", "close"}
    <2>1. buffered \in [Sinks -> Seq(Lines)] /\ spc \in [Sinks -> SinkLabels]
      BY DEF Shape
    <2>2. buffered' = [buffered EXCEPT ![s] = v]
      BY DEF Drains
    <2>3. spc'[s] \in {"idle", "close"}
      BY <2>1 DEF Drains, Moves
    <2> QED BY <2>1, <2>2, <2>3
  <1>2. /\ bytesWritten[s] \in Nat /\ bytesWritten'[s] \in Nat /\ bytesWritten[s] <= bytesWritten'[s]
    <2>1. bytesWritten \in [Sinks -> Nat]
      BY DEF Shape
    <2>2. PICK n \in Nat : bytesWritten' = [bytesWritten EXCEPT ![s] = bytesWritten[s] + n]
      BY DEF Drains
    <2> QED BY <2>1, <2>2
  <1>3. old \in Seq(Lines) /\ buffered[s] \in Seq(Lines) /\ Current(s) \in Seq(Lines)
    BY <1>0, CurrentType
  <1>4. uv \in Seq(Lines)
    BY ConcatProperties
  <1>5. old \in Seq(Lines)
    BY <1>3
  <1>6. ASSUME handle[s] \notin uncounted
        PROVE  Fits(old \o lines) /\ Counted(old \o lines, bytesWritten[s])
    <2>1. Fits(Current(s)) /\ Counted(Current(s), bytesWritten[s]) /\ Current(s) = old \o buffered[s]
      BY <1>0, <1>6 DEF StreamFits, Current
    <2> HIDE DEF lines, old
    <2>2. CASE lines = buffered[s]
      BY <2>1, <2>2
    <2>3. ASSUME NEW l \in Lines, ~l.whole, lines = Append(buffered[s], l)
          PROVE  Fits(old \o lines) /\ Counted(old \o lines, bytesWritten[s])
      <3> DEFINE q == old \o buffered[s]
                 b == buffered[s]
      <3>1. q \in Seq(Lines) /\ Fits(q) /\ Counted(q, bytesWritten[s])
        BY <1>3, <2>1
      <3>2. old \o lines = Append(q, l)
        <4>1. <<l>> \in Seq(Lines) /\ b \in Seq(Lines)
          BY <1>3
        <4>2. Append(b, l) = b \o <<l>> /\ Append(q, l) = q \o <<l>>
          BY <1>3, <3>1, AppendIsConcat
        <4> DEFINE one == <<l>>
        <4>3. one \in Seq(Lines) /\ b \in Seq(Lines)
          BY <4>1
        <4> HIDE DEF one, b
        <4>4. (old \o b) \o one = old \o (b \o one)
          BY ONLY <1>5, <4>3, SplitCurrent, SMTT(30)
        <4> QED BY <2>3, <4>2, <4>4 DEF one, b
      <3> HIDE DEF q
      <3>3. ~AllWhole(Append(q, l))
        BY <2>3, <3>1, WholeAppend
      <3>4. Fits(Append(q, l))
        BY <3>1, <3>3, FitsAppend
      <3>5. Counted(Append(q, l), bytesWritten[s])
        <4>1. bytesWritten[s] <= bytesWritten[s]
          BY <1>2
        <4> QED BY <1>2, <3>1, <3>3, <4>1, CountedAppend
      <3> QED BY <3>2, <3>4, <3>5
    <2> QED BY <1>0, <2>2, <2>3 DEF Writes
  <1> HIDE DEF old
  <1>7. /\ old \o uv \in Seq(Lines) /\ old \o lines = (old \o uv) \o w
        /\ old \o u \in Seq(Lines) /\ old \o uv = (old \o u) \o v
    <2>1. old \o u \in Seq(Lines) /\ old \o uv = (old \o u) \o v
      BY ONLY <1>5, u \in Seq(Lines), v \in Seq(Lines), SplitCurrent, SMTT(30) DEF uv
    <2> HIDE DEF uv
    <2>2. old \o uv \in Seq(Lines) /\ old \o lines = (old \o uv) \o w
      BY ONLY <1>5, <1>4, w \in Seq(Lines), SplitCurrent, SMTT(30) DEF lines
    <2> QED BY <2>1, <2>2
  <1> DEFINE cu == old \o u
             cuv == old \o uv
  <1>8. ASSUME handle[s] \notin uncounted
        PROVE  Fits(cu) /\ Fits(cuv) /\ Counted(cuv, bytesWritten'[s])
    <2>1. Fits(cuv \o w) /\ Counted(cuv \o w, bytesWritten[s]) /\ cuv \in Seq(Lines)
      BY <1>6, <1>7, <1>8
    <2>2. cu \in Seq(Lines) /\ cuv = cu \o v
      BY <1>7
    <2> HIDE DEF cu, cuv
    <2>3. Fits(cuv) /\ Counted(cuv, bytesWritten[s])
      BY ONLY <2>1, w \in Seq(Lines), FitsPrefix, CountedPrefix
    <2>4. Fits(cu)
      BY ONLY <2>2, <2>3, v \in Seq(Lines), FitsPrefix
    <2>5. Counted(cuv, bytesWritten'[s])
      BY ONLY <1>2, <2>1, <2>3, CountedMore
    <2> QED BY <2>3, <2>4, <2>5
  <1>9. FilesFit' /\ contents'[handle[s]] = cu
    BY <1>0, <1>8, SpillFits DEF old
  <1>10. Current(s)' = cuv
    <2>1. Current(s)' = cu \o v
      BY <1>0, <1>1, <1>9 DEF Current
    <2> QED BY <1>7, <2>1
  <1> HIDE DEF cuv
  <1>11. handle'[s] \notin uncounted' => Fits(Current(s)') /\ Counted(Current(s)', bytesWritten'[s])
    BY ONLY <1>0, <1>8, <1>10
  <1> QED BY <1>1, <1>9, <1>11 DEF StreamFits

\* The line enters the buffer of a sink that has rotated if it had to.
LEMMA BufferFits ==
  ASSUME Shape, NEW s \in Sinks, StreamFits(s), Buffers(s)
  PROVE  StreamFits(s)'
  <1> DEFINE c == Current(s)
             l == line[s]
             more == Append(c, l)
             n == bytesWritten[s]
  <1>0. handle[s] # NoFile /\ spc[s] = "write" /\ UNCHANGED <<contents, handle, uncounted>>
    BY DEF Buffers, Moves
  <1> SUFFICES ASSUME handle[s] \notin uncounted PROVE StreamFits(s)'
    BY <1>0 DEF StreamFits
  <1>1. /\ c \in Seq(Lines) /\ contents[handle[s]] \in Seq(Lines) /\ buffered[s] \in Seq(Lines)
        /\ l \in Lines
    BY <1>0, CurrentType DEF Shape
  <1>2. n \in Nat /\ l.bytes \in Nat /\ MaxBytes \in Nat
    <2>1. \A x \in Lines : x.bytes \in Nat
      BY DEF Lines
    <2>2. bytesWritten[s] \in Nat
      BY DEF Shape
    <2> QED BY <1>1, <2>1, <2>2, RotationAssumption
  <1>3. Fits(c) /\ Counted(c, n) /\ (c = <<>> \/ n + l.bytes < MaxBytes)
    BY <1>0 DEF StreamFits
  <1>4. buffered'[s] = Append(buffered[s], l) /\ spc'[s] = "idle" /\ bytesWritten'[s] = n + l.bytes
    <2>1. /\ buffered \in [Sinks -> Seq(Lines)] /\ spc \in [Sinks -> SinkLabels]
          /\ bytesWritten \in [Sinks -> Nat]
      BY DEF Shape
    <2>2. /\ buffered' = [buffered EXCEPT ![s] = Append(buffered[s], l)]
          /\ bytesWritten' = [bytesWritten EXCEPT ![s] = bytesWritten[s] + l.bytes]
      BY DEF Buffers
    <2>3. spc'[s] = "idle"
      BY <2>1 DEF Buffers, Moves
    <2> QED BY <2>1, <2>2, <2>3
  <1>5. Current(s)' = more
    <2>1. <<l>> \in Seq(Lines)
      BY <1>1
    <2> DEFINE f == contents[handle[s]]
               b == buffered[s]
               one == <<l>>
    <2>2. f \in Seq(Lines) /\ b \in Seq(Lines) /\ one \in Seq(Lines) /\ f \o b \in Seq(Lines)
      BY <1>1, <2>1 DEF Current
    <2>3. Append(b, l) = b \o one /\ Append(f \o b, l) = (f \o b) \o one
      BY <1>1, <2>2, AppendIsConcat
    <2>4. Current(s)' = f \o Append(b, l)
      BY <1>0, <1>4 DEF Current
    <2>5. more = Append(f \o b, l)
      BY DEF Current
    <2> HIDE DEF f, b, one
    <2>6. (f \o b) \o one = f \o (b \o one)
      BY ONLY <2>2, ConcatAssociative
    <2> QED BY ONLY <2>3, <2>4, <2>5, <2>6
  <1>6. /\ Bytes(more) = Bytes(c) + l.bytes /\ Bytes(c) \in Nat /\ Len(more) = Len(c) + 1
        /\ more \in Seq(Lines)
    <2>1. Len(more) = Len(c) + 1 /\ more \in Seq(Lines)
      BY <1>1, AppendProperties
    <2> QED BY <1>1, <2>1, BytesOfAppend, BytesType
  <1>7. AllWhole(more) => AllWhole(c)
    BY <1>1, WholeAppend
  <1>8. c = <<>> => Len(c) = 0
    OBVIOUS
  <1> HIDE DEF c, n, more, l
  <1>9. ASSUME AllWhole(more) PROVE Small(more) /\ Bytes(more) <= n + l.bytes
    <2>1. Bytes(c) <= n
      BY <1>1, <1>3, <1>7, <1>9, CountedWhole
    <2>2. CASE c = <<>>
      BY <1>2, <1>6, <1>8, <2>1, <2>2 DEF Small
    <2>3. CASE n + l.bytes < MaxBytes
      BY <1>2, <1>6, <2>1, <2>3 DEF Small
    <2> QED BY <1>3, <2>2, <2>3
  <1>10. Fits(more)
    BY <1>1, <1>3, <1>9, FitsAppend DEF more
  <1>11. Counted(more, n + l.bytes)
    <2>1. n + l.bytes \in Nat /\ n <= n + l.bytes
      BY <1>2
    <2> QED BY <1>1, <1>2, <1>3, <1>9, <2>1, CountedAppend DEF more
  <1>12. Fits(Current(s)') /\ Counted(Current(s)', bytesWritten'[s])
    BY ONLY <1>4, <1>5, <1>10, <1>11
  <1> QED BY <1>4, <1>12 DEF StreamFits

\* A stream is opened: on what a file has, or on a new file.
LEMMA OpenFits ==
  ASSUME Owner, Carries, FilesFit, NEW s \in Sinks, Opens(s),
         spc[s] = "reopen" => Base \notin DOMAIN dir
  PROVE  FilesFit' /\ StreamFits(s)'
  <1>0. /\ contents \in Seq(Seq(Lines)) /\ handle \in [Sinks -> 0 .. Len(contents)]
        /\ buffered \in [Sinks -> Seq(Lines)] /\ bytesWritten \in [Sinks -> Nat]
        /\ spc \in [Sinks -> SinkLabels] /\ dir \in [DOMAIN dir -> 1 .. Len(contents)]
        /\ Len(contents) \in Nat
    BY LenProperties DEF Owner, Shape, FilesOK
  <1>1. spc[s] \in {"down", "reopen"} /\ spc'[s] \in {"idle", "prune"}
    BY <1>0 DEF Opens, Moves
  <1>2. buffered'[s] = <<>>
    BY <1>1 DEF Owner, Own, Opens
  <1>3. spc'[s] = "prune" => spc[s] = "reopen"
    BY <1>1 DEF Carries
  <1>4. CASE /\ Base \in DOMAIN dir /\ Keeps /\ handle' = [handle EXCEPT ![s] = dir[Base]]
             /\ bytesWritten' = [bytesWritten EXCEPT ![s] = Bytes(contents[dir[Base]])]
             /\ UNCHANGED uncounted
    <2> DEFINE f == dir[Base]
               c == contents[f]
    <2>1. /\ f \in 1 .. Len(contents) /\ UNCHANGED contents /\ handle'[s] = f
          /\ bytesWritten'[s] = Bytes(c)
      BY <1>0, <1>4 DEF Keeps
    <2>2. c \in Seq(Lines)
      BY <1>0, <2>1, ElementOfSeq
    <2> HIDE DEF f
    <2>3. Current(s)' = c
      <3>1. Current(s)' = c \o <<>>
        BY <1>2, <2>1 DEF Current
      <3> HIDE DEF c
      <3> QED BY <2>2, <3>1, ConcatEmptySeq
    <2>4. f \notin uncounted => Fits(c)
      BY <2>1 DEF FilesFit
    <2>5. spc'[s] # "prune"
      BY <1>3, <1>4
    <2> HIDE DEF c
    <2>6. handle'[s] \notin uncounted' => Fits(Current(s)') /\ Counted(Current(s)', bytesWritten'[s])
      BY <1>4, <2>1, <2>2, <2>3, <2>4, CountedAtOpen
    <2>7. StreamFits(s)'
      BY <1>1, <2>5, <2>6 DEF StreamFits
    <2> QED BY <1>4, <2>1, <2>7 DEF FilesFit
  <1>5. CASE /\ Base \in DOMAIN dir /\ Keeps /\ handle' = [handle EXCEPT ![s] = dir[Base]]
             /\ uncounted' = uncounted \cup {dir[Base]}
    <2>1. UNCHANGED contents /\ handle'[s] \in uncounted' /\ uncounted \subseteq uncounted'
      BY <1>0, <1>5 DEF Keeps
    <2>2. StreamFits(s)'
      BY <2>1 DEF StreamFits
    <2> QED BY <2>1, <2>2 DEF FilesFit
  <1>6. CASE /\ Creates /\ handle' = [handle EXCEPT ![s] = Len(contents) + 1]
             /\ bytesWritten' = [bytesWritten EXCEPT ![s] = 0]
             /\ UNCHANGED uncounted
    <2> DEFINE N == Len(contents)
    <2>1. contents' = Append(contents, <<>>) /\ handle'[s] = N + 1 /\ bytesWritten'[s] = 0
      BY <1>0, <1>6 DEF Creates
    <2>2. /\ Len(contents') = N + 1 /\ contents'[N + 1] = <<>>
          /\ \A i \in 1 .. N : contents'[i] = contents[i]
      BY <1>0, <2>1, AppendProperties
    <2>3. \A i \in 1 .. N + 1 : i \in 1 .. N \/ i = N + 1
      BY <1>0
    <2>4. \A i \in 1 .. N : i \in uncounted' \/ Fits(contents[i])
      BY <1>6 DEF FilesFit
    <2> HIDE DEF N
    <2>5. \A i \in 1 .. Len(contents') : i \in uncounted' \/ Fits(contents'[i])
      BY ONLY <2>2, <2>3, <2>4, FitsEmpty
    <2>6. Current(s)' = <<>>
      <3>1. Current(s)' = <<>> \o <<>>
        BY <1>2, <2>1, <2>2 DEF Current
      <3> QED BY <3>1
    <2>7. Bytes(<<>>) = 0
      <3>1. <<>> \in Seq(Lines)
        OBVIOUS
      <3> QED BY <3>1, BytesType
    <2>8. Fits(Current(s)') /\ Counted(Current(s)', bytesWritten'[s]) /\ Current(s)' = <<>>
      <3>1. Counted(<<>>, 0)
        <4>1. <<>> \in Seq(Lines)
          OBVIOUS
        <4> QED BY <2>7, <4>1, CountedAtOpen
      <3> QED BY ONLY <2>1, <2>6, <3>1, FitsEmpty
    <2>9. StreamFits(s)'
      BY <2>8 DEF StreamFits
    <2> QED BY <2>5, <2>9 DEF FilesFit
  <1> QED BY <1>4, <1>5, <1>6 DEF Opens

LEMMA SizeStep ==
  ASSUME Owner, StepKind, Carries, FilesFit, NEW s \in Sinks, StreamFits(s),
         spc[s] = "reopen" => Base \notin DOMAIN dir
  PROVE  FilesFit' /\ StreamFits(s)'
  <1> DEFINE Goal == FilesFit' /\ StreamFits(s)'
  <1>0. /\ \A t \in Sinks : t = s
        /\ Shape /\ handle \in [Sinks -> 0 .. Len(contents)]
        /\ buffered \in [Sinks -> Seq(Lines)] /\ spc \in [Sinks -> SinkLabels]
    BY DEF Owner, Shape, OnlySink
  <1>1. ASSUME UNCHANGED <<contents, handle, buffered, bytesWritten, uncounted>> PROVE Goal
    <2>1. UNCHANGED line
      BY DEF Carries
    <2>2. UNCHANGED Current(s)
      BY <1>1 DEF Current
    <2>3. handle[s] # NoFile /\ spc'[s] = "prune" => spc[s] = "prune"
      BY DEF Carries, Owner, Own
    <2>4. spc'[s] = "write" => spc[s] \in {"write", "prune"}
      BY DEF Carries
    <2>5. StreamFits(s)'
      <3> DEFINE c == Current(s)
      <3>1. Current(s)' = c
        BY <2>2
      <3>2. handle[s] # NoFile /\ handle[s] \notin uncounted =>
              /\ Fits(c) /\ Counted(c, bytesWritten[s])
              /\ spc[s] = "prune" => c = <<>>
              /\ spc[s] = "write" => c = <<>> \/ bytesWritten[s] + line[s].bytes < MaxBytes
        BY DEF StreamFits
      <3> HIDE DEF c
      <3> QED BY <1>1, <2>1, <2>3, <2>4, <3>1, <3>2 DEF StreamFits
    <2> QED BY <1>1, <2>5 DEF FilesFit
  <1>2. ASSUME handle'[s] = NoFile, FilesFit' PROVE Goal
    BY <1>2 DEF StreamFits
  <1>3. ASSUME FailsToOpen(s) PROVE Goal
    <2>1. UNCHANGED <<contents, uncounted>> /\ handle'[s] = NoFile
      BY <1>0, <1>3 DEF FailsToOpen
    <2> QED BY <1>2, <2>1 DEF FilesFit
  <1>4. ASSUME NEW u \in Seq(Lines), NEW v \in Seq(Lines), NEW w \in Seq(Lines), Drains(s, u, v, w)
        PROVE  Goal
    BY <1>0, <1>4, DrainFits
  <1>5. ASSUME NEW k \in 0 .. Len(buffered[s]), Drops(s, k) PROVE Goal
    <2> DEFINE u == SubSeq(buffered[s], 1, k)
               v == SubSeq(buffered[s], k + 1, Len(buffered[s]))
    <2>1. /\ handle'[s] = NoFile /\ UNCHANGED uncounted
          /\ (UNCHANGED contents) \/ Spills(s, u)
      BY <1>0, <1>5 DEF Drops, Keeps
    <2>2. FilesFit'
      <3>1. CASE UNCHANGED contents
        BY <2>1, <3>1 DEF FilesFit
      <3>2. CASE Spills(s, u)
        <4> DEFINE c == contents[handle[s]]
        <4>1. u \in Seq(Lines) /\ v \in Seq(Lines) /\ buffered[s] = u \o v
          BY <1>0, WholeOfParts
        <4>2. handle[s] # NoFile /\ c \in Seq(Lines)
          BY <1>0, <3>2, CurrentType DEF Spills
        <4>3. handle[s] \notin uncounted => Fits(c \o buffered[s])
          BY <4>2 DEF StreamFits, Current
        <4> HIDE DEF c, u, v
        <4>4. c \o buffered[s] = (c \o u) \o v /\ c \o u \in Seq(Lines)
          BY <4>1, <4>2, SplitCurrent
        <4>5. handle[s] \notin uncounted => Fits(c \o u)
          <5> DEFINE q == c \o u
          <5>1. q \in Seq(Lines) /\ (handle[s] \notin uncounted => Fits(q \o v))
            BY <4>3, <4>4
          <5> HIDE DEF q
          <5>2. handle[s] \notin uncounted => Fits(q)
            BY <4>1, <5>1, FitsPrefix
          <5> QED BY <5>2 DEF q
        <4> QED BY <1>0, <2>1, <3>2, <4>1, <4>5, SpillFits DEF c
      <3> QED BY <2>1, <3>1, <3>2
    <2> QED BY <1>2, <2>1, <2>2
  <1>6. ASSUME Buffers(s) PROVE Goal
    <2>1. UNCHANGED <<contents, uncounted>>
      BY <1>6 DEF Buffers
    <2>2. StreamFits(s)'
      BY <1>0, <1>6, BufferFits
    <2> QED BY <2>1, <2>2 DEF FilesFit
  <1>7. ASSUME Opens(s) PROVE Goal
    BY <1>7, OpenFits
  <1>8. ASSUME Passes(s) \/ NameStep(s) PROVE UNCHANGED <<contents, handle, buffered, bytesWritten, uncounted>>
    <2>1. ASSUME NEW removed, Trims(s, removed) PROVE UNCHANGED <<contents, handle, buffered, bytesWritten, uncounted>>
      BY <2>1 DEF Trims, Prunes, streamVars
    <2>2. ASSUME SetsAside(s) PROVE UNCHANGED <<contents, handle, buffered, bytesWritten, uncounted>>
      BY <2>2 DEF SetsAside, Renames, streamVars
    <2>3. ASSUME Passes(s) \/ Picks(s) PROVE UNCHANGED <<contents, handle, buffered, bytesWritten, uncounted>>
      BY <2>3 DEF Passes, Picks, streamVars
    <2> QED BY <1>8, <2>1, <2>2, <2>3 DEF NameStep
  <1>9. Waits => UNCHANGED <<contents, handle, buffered, bytesWritten, uncounted>>
    BY DEF Waits, streamVars
  <1> HIDE DEF Goal
  <1>10. ASSUME NEW t \in Sinks, Passes(t) \/ Opens(t) \/ FailsToOpen(t) \/ NameStep(t) \/ StreamStep(t)
         PROVE  Goal
    <2>1. t = s
      BY <1>0
    <2> QED BY <1>1, <1>3, <1>4, <1>5, <1>6, <1>7, <1>8, <1>10, <2>1 DEF StreamStep
  <1>11. Goal
    BY <1>1, <1>9, <1>10 DEF StepKind
  <1> QED BY <1>11 DEF Goal

\* A write() begins: it goes to the line only if the file has room for it.
LEMMA CallFits ==
  ASSUME Owner, FilesFit, NEW s \in Sinks, StreamFits(s), NEW size \in Sizes, Calls(s, size)
  PROVE  FilesFit' /\ StreamFits(s)' /\ spc'[s] # "reopen"
  <1>0. /\ spc \in [Sinks -> SinkLabels] /\ line \in [Sinks -> Lines] /\ bytesWritten[s] \in Nat
        /\ size \in Nat /\ MaxBytes \in Nat
    BY FileAssumption, RotationAssumption DEF Owner, Shape
  <1>1. /\ UNCHANGED <<contents, handle, buffered, bytesWritten, uncounted>> /\ line'[s].bytes = size
        /\ spc'[s] = IF MustRotate(s, size) THEN "flush" ELSE "write"
    BY <1>0 DEF Calls, streamVars, NewLine
  <1>2. ~MustRotate(s, size) => bytesWritten[s] + size < MaxBytes
    BY <1>0 DEF MustRotate
  <1>3. Current(s)' = Current(s)
    BY <1>1 DEF Current
  <1>4. handle[s] # NoFile /\ handle[s] \notin uncounted =>
          Fits(Current(s)) /\ Counted(Current(s), bytesWritten[s])
    BY DEF StreamFits
  <1>5. handle[s] # NoFile /\ handle[s] \notin uncounted =>
          Fits(Current(s)') /\ Counted(Current(s)', bytesWritten[s])
    BY ONLY <1>3, <1>4
  <1>6. StreamFits(s)'
    BY <1>1, <1>2, <1>5 DEF StreamFits
  <1> QED BY <1>1, <1>6 DEF FilesFit

LEMMA SizeInvStep ==
  ASSUME Owner, SizeInv, [Next]_vars
  PROVE  SizeInv'
  <1>0. /\ OnlySink /\ Shape /\ FilesFit
        /\ \A s \in Sinks : StreamFits(s) /\ (spc[s] = "reopen" => Base \notin DOMAIN dir)
    BY DEF Owner, SizeInv
  <1>1. StepKind /\ Shape'
    BY <1>0, ShapeStep
  <1>2. ASSUME NEW s \in Sinks
        PROVE  FilesFit' /\ StreamFits(s)' /\ (spc'[s] = "reopen" => Base \notin DOMAIN dir')
    <2>1. CASE Carries
      <3>1. FilesFit' /\ StreamFits(s)'
        BY <1>0, <1>1, <2>1, SizeStep
      <3>2. spc'[s] = "reopen" => Base \notin DOMAIN dir'
        BY <1>0, <1>1, <2>1, PathIsFree
      <3> QED BY <3>1, <3>2
    <2>2. ASSUME NEW t \in Sinks, NEW size \in Sizes, Calls(t, size)
          PROVE  FilesFit' /\ StreamFits(s)' /\ spc'[s] # "reopen"
      <3>1. t = s
        BY <1>0 DEF OnlySink
      <3> QED BY <1>0, <2>2, <3>1, CallFits
    <2> QED BY <1>0, <2>1, <2>2, CallStep
  <1>3. CASE Sinks = {}
    <2>1. UNCHANGED <<contents, uncounted>>
      BY <1>1, <1>3 DEF StepKind, Waits, streamVars
    <2> QED BY <1>0, <1>3, <2>1 DEF SizeInv, FilesFit
  <1> QED BY <1>2, <1>3 DEF SizeInv

LEMMA SizeAtStart ==
  ASSUME Init
  PROVE  SizeInv
  <1>1. Cardinality({OtherFile}) = 1
    BY FS_Singleton
  <1>2. contents = [i \in 1 .. 1 |-> <<>>]
    BY <1>1 DEF Init, FileInit
  <1>3. contents = <<(<<>>)>>
    BY <1>2
  <1>4. \A i \in 1 .. Len(contents) : contents[i] = <<>>
    BY <1>3
  <1>5. \A s \in Sinks : handle[s] = NoFile /\ spc[s] = "down"
    BY DEF Init, FileInit
  <1> QED BY <1>4, <1>5, FitsEmpty DEF SizeInv, FilesFit, StreamFits

LEMMA SizeIsBounded ==
  ASSUME Shape, SizeInv
  PROVE  SizeBounded
  <1>0. contents \in Seq(Seq(Lines)) /\ DOMAIN contents = 1 .. Len(contents) /\ Len(contents) \in Nat
    BY LenProperties DEF Shape, FilesOK
  <1>1. ASSUME NEW lines \in Seq(Lines), Fits(lines)
        PROVE  Len(lines) <= 1 \/ Bytes(lines) < MaxBytes \/ \E k \in DOMAIN lines : ~lines[k].whole
    <2>1. DOMAIN lines = 1 .. Len(lines)
      BY LenProperties
    <2>2. CASE AllWhole(lines)
      <3>1. Small(lines)
        BY <1>1, <2>2, FitsWhole
      <3> QED BY <3>1 DEF Small
    <2>3. CASE ~AllWhole(lines)
      BY <2>1, <2>3 DEF AllWhole
    <2> QED BY <2>2, <2>3
  <1>2. ASSUME NEW i \in DOMAIN contents, i \notin uncounted
        PROVE  LET mine == { s \in Sinks : handle[s] = i }
                   lines == contents[i] \o (IF mine = {} THEN <<>> ELSE buffered[CHOOSE s \in mine : TRUE])
               IN  \/ Len(lines) <= 1
                   \/ Bytes(lines) < MaxBytes
                   \/ \E k \in DOMAIN lines : ~lines[k].whole
    <2> DEFINE mine == { s \in Sinks : handle[s] = i }
               lines == contents[i] \o (IF mine = {} THEN <<>> ELSE buffered[CHOOSE s \in mine : TRUE])
               Bounded == \/ Len(lines) <= 1 \/ Bytes(lines) < MaxBytes
                          \/ \E k \in DOMAIN lines : ~lines[k].whole
    <2> SUFFICES Bounded
      OBVIOUS
    <2>1. i \in 1 .. Len(contents) /\ i # NoFile
      BY <1>0 DEF NoFile
    <2>2. CASE mine = {}
      <3>1. contents[i] \in Seq(Lines) /\ Fits(contents[i])
        BY <1>0, <1>2, <2>1, ElementOfSeq DEF SizeInv, FilesFit
      <3>2. lines = contents[i]
        <4>1. lines = contents[i] \o <<>>
          BY <2>2
        <4> QED BY <3>1, <4>1, ConcatEmptySeq
      <3> HIDE DEF lines
      <3> QED BY <1>1, <3>1, <3>2
    <2>3. CASE mine # {}
      <3> DEFINE t == CHOOSE s \in mine : TRUE
      <3>1. t \in mine
        BY <2>3
      <3>2. t \in Sinks /\ handle[t] = i
        BY <3>1
      <3>3. lines = contents[i] \o buffered[t]
        BY <2>3
      <3> HIDE DEF t
      <3>4. Current(t) \in Seq(Lines) /\ Fits(Current(t))
        BY <1>2, <2>1, <3>2, CurrentType DEF SizeInv, StreamFits
      <3>5. lines = Current(t)
        BY <3>2, <3>3 DEF Current
      <3> HIDE DEF lines
      <3> QED BY <1>1, <3>4, <3>5
    <2> QED BY <2>2, <2>3
  <1> QED BY <1>2 DEF SizeBounded

\* "Rotation occurs before writing the line that would cause the file to reach or
\* exceed max_bytes": whatever was torn, lost or left behind by a crash before, a file
\* of whole lines whose size could be told whenever it was opened stays below the
\* threshold unless it holds one line only.
THEOREM FilesStayBelowThreshold == OnlySink => (Spec => []SizeBounded)
  <1> SUFFICES ASSUME OnlySink PROVE Spec => []SizeBounded
    OBVIOUS
  <1> DEFINE Inv == Owner /\ SizeInv
  <1>1. Init => Inv
    BY OwnerAtStart, SizeAtStart
  <1>2. ASSUME Inv, [Next]_vars PROVE Inv'
    BY <1>2, OwnerStep, SizeInvStep
  <1>3. Inv => SizeBounded
    BY SizeIsBounded DEF Owner
  <1> QED BY <1>1, <1>2, <1>3, PTL DEF Spec
=============================================================================
