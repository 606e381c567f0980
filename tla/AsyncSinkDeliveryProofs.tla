----------------------- MODULE AsyncSinkDeliveryProofs -----------------------
(***************************************************************************)
(* What becomes of the records of an AsyncSink, for every value of its     *)
(* constants: they are delivered once and in order, each of them is in the *)
(* end delivered or counted, a flush() is not slept upon, and two of them  *)
(* drain what was accepted before the first.                               *)
(*                                                                         *)
(* Each part of the invariant is proved on top of SinkInv and of the parts *)
(* before it.                                                              *)
(***************************************************************************)
EXTENDS AsyncSinkProofs, FiniteSetTheorems

\* A record is accepted at most once: it is submitted once, one client has it
\* then, and the client gives it away when the queue accepts it.
Fresh ==
  /\ \A k, m \in 1 .. Len(accepted) : accepted[k] = accepted[m] => k = m
  /\ \A k \in 1 .. Len(accepted) : accepted[k] \in submitted
  /\ \A r \in evicted : \E k \in 1 .. Len(accepted) : accepted[k] = r
  /\ \A c \in Producers : pc[c] = "enqueue" =>
       rec[c] \in submitted /\ \A k \in 1 .. Len(accepted) : accepted[k] # rec[c]
  /\ \A c, d \in Producers :
       pc[c] = "enqueue" /\ pc[d] = "enqueue" /\ rec[c] = rec[d] => c = d

\* The clients whose record is neither queued nor counted yet, and those whose
\* loss is not counted yet.
InWrite == { c \in Producers : pc[c] \in {"enqueue", "account"} }

\* Every submitted record is in the line, or counted, or a client will see to it.
Accounting ==
  /\ IsFiniteSet(submitted)
  /\ Cardinality(submitted) = Len(Line) + droppedRecords + Cardinality(InWrite)
  /\ \A c \in Producers : pc[c] = "account" => Drops(result[c]) = 1
  /\ opc = "joined" => wpc = "exited"

\* A kick is remembered until the worker has read the generation that it is for.
Kicks ==
  /\ flushDoneGen <= want
  /\ ~final => lastSeen = flushDoneGen
  /\ \A c \in Producers : gen[c] <= flushRequestGen
  /\ \A c \in Producers :
       pc[c] \in {"kickNotify", "flushTest", "flushSleep"} /\ flushDoneGen < gen[c] =>
         \/ flushKick \/ final
         \/ wpc \in {"drain", "write", "load"}
         \/ wpc \in {"flush", "store"} /\ want >= gen[c]
  /\ FlushNotIgnored

\* The first n accepted records are given up or among the first m of line.
Passed(n, acc, ev, line, m) ==
  \A i \in 1 .. n : acc[i] \in ev \/ \E j \in 1 .. m : line[j] = acc[i]

HandedUpTo(n) == Passed(n, accepted, evicted, handed, Len(handed))

FlushedUpTo(n) == Passed(n, accepted, evicted, handed, covered)

\* The worker reads the generation after it has found the queue empty: what was
\* accepted before a flush() that is over is handed over by then, and so is what
\* was accepted before the previous flush() of a caller that waits.
TwoFlushesOf(c) ==
  /\ asked[c].accepted <= Len(accepted) /\ asked[c].before <= Len(accepted)
  /\ pc[c] \notin FlushPcs => flushDoneGen >= gen[c]
  /\ wpc = "load" /\ flushDoneGen >= gen[c] => HandedUpTo(asked[c].accepted)
  /\ pc[c] \in FlushPcs =>
       /\ wpc = "load" => HandedUpTo(asked[c].before)
       /\ wpc = "flush" /\ ~final /\ want >= gen[c] => HandedUpTo(asked[c].before)
       /\ wpc = "store" /\ want >= gen[c] => FlushedUpTo(asked[c].before)
       /\ flushDoneGen >= gen[c] => FlushedUpTo(asked[c].before)

TwoFlushes == \A c \in Producers : TwoFlushesOf(c)
-----------------------------------------------------------------------------
(* Sequences. *)

\* Handing over the first record of a batch leaves the line as it was.
LEMMA HandOver ==
  ASSUME NEW S, NEW s \in Seq(S), NEW t \in Seq(S), t # <<>>
  PROVE  Append(s, Head(t)) \o Tail(t) = s \o t
  <1>1. Head(t) \in S /\ Tail(t) \in Seq(S)
    BY HeadTailProperties
  <1>2. <<Head(t)>> \in Seq(S) /\ Append(s, Head(t)) = s \o <<Head(t)>>
    BY <1>1, AppendIsConcat
  <1>3. <<Head(t)>> \o Tail(t) = t
    BY <1>1
  <1>4. (s \o <<Head(t)>>) \o Tail(t) = s \o (<<Head(t)>> \o Tail(t))
    BY <1>1, <1>2, ConcatAssociative
  <1> QED BY <1>2, <1>3, <1>4

\* So does moving the first records of the queue to the batch.
LEMMA TakeOver ==
  ASSUME NEW S, NEW s \in Seq(S), NEW t \in Seq(S), NEW n \in 1 .. Len(t)
  PROVE  (s \o SubSeq(t, 1, n)) \o SubSeq(t, n + 1, Len(t)) = s \o t
  <1>0. Len(t) \in Nat
    BY LenProperties
  <1>1. SubSeq(t, 1, n) \in Seq(S)
    <2>1. \A i \in 1 .. n : t[i] \in S
      BY <1>0, ElementOfSeq
    <2> QED BY <1>0, <2>1, SubSeqProperties
  <1>2. SubSeq(t, n + 1, Len(t)) \in Seq(S)
    <2>1. \A i \in n + 1 .. Len(t) : t[i] \in S
      BY <1>0, ElementOfSeq
    <2> QED BY <1>0, <2>1, SubSeqProperties
  <1>3. SubSeq(t, 1, n) \o SubSeq(t, n + 1, Len(t)) = t
    <2>1. SubSeq(t, 1, n) \o SubSeq(t, n + 1, Len(t)) = SubSeq(t, 1, Len(t))
      BY <1>0, ConcatAdjacentSubSeq
    <2>2. SubSeq(t, 1, Len(t)) = t
      BY SubSeqFull
    <2> QED BY <2>1, <2>2
  <1>4. \A x, y \in Seq(S) : (s \o x) \o y = s \o (x \o y)
    BY ConcatAssociative, SMTT(30)
  <1>5. (s \o SubSeq(t, 1, n)) \o SubSeq(t, n + 1, Len(t))
          = s \o (SubSeq(t, 1, n) \o SubSeq(t, n + 1, Len(t)))
    BY <1>1, <1>2, <1>4, Zenon
  <1> QED BY <1>3, <1>5, Zenon

\* A record that joins the queue joins the line at its end.
LEMMA JoinLine ==
  ASSUME NEW S, NEW s \in Seq(S), NEW t \in Seq(S), NEW r \in S
  PROVE  s \o Append(t, r) = Append(s \o t, r)
  <1>1. <<r>> \in Seq(S) /\ Append(t, r) = t \o <<r>>
    BY AppendIsConcat
  <1>2. s \o t \in Seq(S) /\ Append(s \o t, r) = (s \o t) \o <<r>>
    BY AppendIsConcat, ConcatProperties
  <1> QED BY <1>1, <1>2, ConcatAssociative

\* The oldest record of the queue leaves the line: those behind it move up.
LEMMA LeaveLine ==
  ASSUME NEW S, NEW s \in Seq(S), NEW t \in Seq(S), t # <<>>
  PROVE  LET old == s \o t
             new == s \o Tail(t)
         IN  /\ old \in Seq(S) /\ new \in Seq(S)
             /\ Len(new) = Len(old) - 1 /\ Len(s) + 1 \in 1 .. Len(old)
             /\ old[Len(s) + 1] = Head(t)
             /\ \A i \in 1 .. Len(s) : new[i] = old[i]
             /\ \A i \in Len(s) + 1 .. Len(old) - 1 : new[i] = old[i + 1]
  <1>1. /\ Tail(t) \in Seq(S) /\ Len(Tail(t)) = Len(t) - 1
        /\ \A i \in 1 .. Len(Tail(t)) : Tail(t)[i] = t[i + 1]
    BY HeadTailProperties
  <1>2. Len(s) \in Nat /\ Len(t) \in Nat \ {0}
    BY LenProperties, EmptySeq
  <1>3. /\ s \o t \in Seq(S) /\ Len(s \o t) = Len(s) + Len(t)
        /\ \A i \in 1 .. Len(s) + Len(t) :
             (s \o t)[i] = IF i <= Len(s) THEN s[i] ELSE t[i - Len(s)]
    BY ConcatProperties
  <1>4. LET new == s \o Tail(t)
        IN  /\ new \in Seq(S) /\ Len(new) = Len(s) + (Len(t) - 1)
            /\ \A i \in 1 .. Len(s) + (Len(t) - 1) :
                 new[i] = IF i <= Len(s) THEN s[i] ELSE Tail(t)[i - Len(s)]
    BY <1>1, ConcatProperties
  <1>5. Head(t) = t[1]
    OBVIOUS
  <1> DEFINE old == s \o t
             new == s \o Tail(t)
             p == Len(s)
             n == Len(t)
  <1>6. Len(new) = Len(old) - 1 /\ p + 1 \in 1 .. Len(old) /\ old[p + 1] = Head(t)
    BY <1>2, <1>3, <1>4, <1>5
  <1>7. \A i \in 1 .. p : new[i] = old[i]
    BY <1>2, <1>3, <1>4
  <1>8. ASSUME NEW i \in p + 1 .. Len(old) - 1 PROVE new[i] = old[i + 1]
    <2>1. i \in 1 .. p + (n - 1) /\ i + 1 \in 1 .. p + n /\ ~(i <= p) /\ ~(i + 1 <= p)
          /\ i - p \in 1 .. n - 1 /\ (i + 1) - p = (i - p) + 1
      BY <1>2, <1>3
    <2>2. new[i] = Tail(t)[i - p] /\ old[i + 1] = t[(i - p) + 1]
      BY <1>3, <1>4, <2>1
    <2> QED BY <1>1, <2>1, <2>2
  <1> QED BY <1>3, <1>4, <1>6, <1>7, <1>8
-----------------------------------------------------------------------------
(* FifoDelivery. *)

\* FifoDelivery of any line, acceptances and evictions.
Delivers(line, acc, ev) ==
  /\ \A i \in 1 .. Len(line) : line[i] \notin ev /\ \E k \in 1 .. Len(acc) : acc[k] = line[i]
  /\ \A k \in 1 .. Len(acc) : acc[k] \in ev \/ \E i \in 1 .. Len(line) : line[i] = acc[k]
  /\ \A i, j \in 1 .. Len(line), k, m \in 1 .. Len(acc) :
       i < j /\ line[i] = acc[k] /\ line[j] = acc[m] => k < m

\* Its first two conjuncts, as an equality of sets.
SameRecords(line, acc, ev) ==
  { line[i] : i \in 1 .. Len(line) } = { acc[k] : k \in 1 .. Len(acc) } \ ev

LEMMA DeliveredSet ==
  ASSUME NEW line, NEW acc, NEW ev
  PROVE  Delivers(line, acc, ev) <=>
           /\ SameRecords(line, acc, ev)
           /\ \A i, j \in 1 .. Len(line), k, m \in 1 .. Len(acc) :
                i < j /\ line[i] = acc[k] /\ line[j] = acc[m] => k < m
  <1> DEFINE L == { line[i] : i \in 1 .. Len(line) }
             A == { acc[k] : k \in 1 .. Len(acc) }
  <1>1. \A x : x \in L <=> \E i \in 1 .. Len(line) : line[i] = x
    OBVIOUS
  <1>2. \A x : x \in A <=> \E k \in 1 .. Len(acc) : acc[k] = x
    OBVIOUS
  <1> HIDE DEF L, A
  <1>3. L = A \ ev <=> (\A x \in L : x \in A /\ x \notin ev) /\ (\A x \in A : x \in ev \/ x \in L)
    OBVIOUS
  <1>4. (\A x \in L : x \in A /\ x \notin ev) <=>
          \A i \in 1 .. Len(line) : line[i] \notin ev /\ \E k \in 1 .. Len(acc) : acc[k] = line[i]
    BY <1>1, <1>2
  <1>5. (\A x \in A : x \in ev \/ x \in L) <=>
          \A k \in 1 .. Len(acc) : acc[k] \in ev \/ \E i \in 1 .. Len(line) : line[i] = acc[k]
    BY <1>1, <1>2
  <1>6. SameRecords(line, acc, ev) <=> L = A \ ev
    BY DEF SameRecords, L, A
  <1> QED BY <1>3, <1>4, <1>5, <1>6, Zenon DEF Delivers

LEMMA DeliversIsFifo == FifoDelivery <=> Delivers(Line, accepted, evicted)
  <1>1. FifoDelivery <=>
          /\ SameRecords(Line, accepted, evicted)
          /\ \A i, j \in 1 .. Len(Line), k, m \in 1 .. Len(accepted) :
               i < j /\ Line[i] = accepted[k] /\ Line[j] = accepted[m] => k < m
    BY Zenon DEF FifoDelivery, SameRecords, Due
  <1> QED BY ONLY <1>1, DeliveredSet, Zenon

LEMMA DeliversIsFifoNext == Delivers(Line', accepted', evicted') => FifoDelivery'
  <1>1. FifoDelivery' <=>
          /\ SameRecords(Line', accepted', evicted')
          /\ \A i, j \in 1 .. Len(Line'), k, m \in 1 .. Len(accepted') :
               i < j /\ Line'[i] = accepted'[k] /\ Line'[j] = accepted'[m] => k < m
    BY Zenon DEF FifoDelivery, SameRecords, Due
  <1> QED BY ONLY <1>1, DeliveredSet, Zenon

LEMMA DeliversJoin ==
  ASSUME NEW S, NEW line \in Seq(S), NEW acc \in Seq(S), NEW ev, NEW r \in S,
         Delivers(line, acc, ev), r \notin ev, \A k \in 1 .. Len(acc) : acc[k] # r
  PROVE  Delivers(Append(line, r), Append(acc, r), ev)
  <1> DEFINE line2 == Append(line, r)
             acc2 == Append(acc, r)
             n == Len(line)
             a == Len(acc)
  <1>1. /\ n \in Nat /\ Len(line2) = n + 1 /\ line2[n + 1] = r
        /\ \A i \in 1 .. n : line2[i] = line[i]
    BY AppendProperties, LenProperties
  <1>2. /\ a \in Nat /\ Len(acc2) = a + 1 /\ acc2[a + 1] = r
        /\ \A k \in 1 .. a : acc2[k] = acc[k]
    BY AppendProperties, LenProperties
  <1> HIDE DEF line2, acc2, n, a
  <1>3. /\ \A i \in 1 .. n : line[i] \notin ev /\ \E k \in 1 .. a : acc[k] = line[i]
        /\ \A k \in 1 .. a : acc[k] \in ev \/ \E i \in 1 .. n : line[i] = acc[k]
        /\ \A i, j \in 1 .. n, k, m \in 1 .. a :
             i < j /\ line[i] = acc[k] /\ line[j] = acc[m] => k < m
        /\ \A k \in 1 .. a : acc[k] # r
    BY DEF Delivers, n, a
  <1>4. \A i \in 1 .. n + 1 : line2[i] \notin ev /\ \E k \in 1 .. a + 1 : acc2[k] = line2[i]
    <2> TAKE i \in 1 .. n + 1
    <2>1. CASE i = n + 1
      <3>1. a + 1 \in 1 .. a + 1
        BY <1>2
      <3> QED BY <1>1, <1>2, <2>1, <3>1
    <2>2. CASE i # n + 1
      <3>1. i \in 1 .. n
        BY <1>1, <2>2
      <3>2. PICK k \in 1 .. a : acc[k] = line[i]
        BY <1>3, <3>1
      <3>3. k \in 1 .. a + 1
        BY <1>2
      <3> QED BY <1>1, <1>2, <1>3, <3>1, <3>2, <3>3
    <2> QED BY <2>1, <2>2
  <1>5. \A k \in 1 .. a + 1 : acc2[k] \in ev \/ \E i \in 1 .. n + 1 : line2[i] = acc2[k]
    <2> TAKE k \in 1 .. a + 1
    <2>1. CASE k = a + 1
      <3>1. n + 1 \in 1 .. n + 1
        BY <1>1
      <3> QED BY <1>1, <1>2, <2>1, <3>1
    <2>2. CASE k # a + 1
      <3>1. k \in 1 .. a
        BY <1>2, <2>2
      <3>2. CASE acc[k] \in ev
        BY <1>2, <3>1, <3>2
      <3>3. CASE acc[k] \notin ev
        <4>1. PICK i \in 1 .. n : line[i] = acc[k]
          BY <1>3, <3>1, <3>3
        <4>2. i \in 1 .. n + 1
          BY <1>1
        <4> QED BY <1>1, <1>2, <3>1, <4>1, <4>2
      <3> QED BY <3>2, <3>3
    <2> QED BY <2>1, <2>2
  <1>6. \A i, j \in 1 .. n + 1, k, m \in 1 .. a + 1 :
          i < j /\ line2[i] = acc2[k] /\ line2[j] = acc2[m] => k < m
    <2> SUFFICES ASSUME NEW i \in 1 .. n + 1, NEW j \in 1 .. n + 1,
                        NEW k \in 1 .. a + 1, NEW m \in 1 .. a + 1,
                        i < j, line2[i] = acc2[k], line2[j] = acc2[m]
                 PROVE  k < m
      OBVIOUS
    <2>1. i \in 1 .. n /\ line2[i] = line[i] /\ line[i] # r
      <3>1. i \in 1 .. n
        BY <1>1
      <3>2. PICK x \in 1 .. a : acc[x] = line[i]
        BY <1>3, <3>1
      <3> QED BY <1>1, <1>3, <3>1, <3>2
    <2>2. k \in 1 .. a /\ acc2[k] = acc[k]
      <3>1. k # a + 1
        BY <1>2, <2>1
      <3> QED BY <1>2, <3>1
    <2>3. CASE m = a + 1
      BY <1>2, <2>2, <2>3
    <2>4. CASE m # a + 1
      <3>1. m \in 1 .. a /\ acc2[m] = acc[m] /\ acc[m] # r
        BY <1>2, <1>3, <2>4
      <3>2. j # n + 1
        BY <1>1, <3>1
      <3>3. j \in 1 .. n /\ line2[j] = line[j]
        BY <1>1, <3>2
      <3>4. line[i] = acc[k] /\ line[j] = acc[m]
        BY <2>1, <2>2, <3>1, <3>3
      <3>5. \A x, y \in 1 .. n, u, v \in 1 .. a : x < y /\ line[x] = acc[u] /\ line[y] = acc[v] => u < v
        BY <1>3
      <3> QED BY ONLY <2>1, <2>2, <3>1, <3>3, <3>4, <3>5, i < j, Zenon
    <2> QED BY <2>3, <2>4
  <1>7. Len(line2) = n + 1 /\ Len(acc2) = a + 1
    BY <1>1, <1>2
  <1>8. Delivers(line2, acc2, ev)
    BY <1>4, <1>5, <1>6, <1>7 DEF Delivers
  <1> QED BY <1>8 DEF line2, acc2

\* The record at p is given up: those behind it move up by one.
LEMMA DeliversLeave ==
  ASSUME NEW S, NEW line \in Seq(S), NEW acc \in Seq(S), NEW ev, NEW p \in 1 .. Len(line),
         Delivers(line, acc, ev),
         \A k, m \in 1 .. Len(acc) : acc[k] = acc[m] => k = m,
         NEW line2 \in Seq(S), Len(line2) = Len(line) - 1,
         \A i \in 1 .. p - 1 : line2[i] = line[i],
         \A i \in p .. Len(line) - 1 : line2[i] = line[i + 1]
  PROVE  Delivers(line2, acc, ev \cup {line[p]})
  <1> DEFINE n == Len(line)
             a == Len(acc)
             old(i) == IF i < p THEN i ELSE i + 1
  <1>1. n \in Nat /\ a \in Nat
    BY LenProperties
  <1>2. p \in 1 .. n /\ Len(line2) = n - 1
    OBVIOUS
  <1> HIDE DEF n, a
  <1>3. /\ \A i \in 1 .. n : line[i] \notin ev /\ \E k \in 1 .. a : acc[k] = line[i]
        /\ \A k \in 1 .. a : acc[k] \in ev \/ \E i \in 1 .. n : line[i] = acc[k]
        /\ \A i, j \in 1 .. n, k, m \in 1 .. a :
             i < j /\ line[i] = acc[k] /\ line[j] = acc[m] => k < m
        /\ \A k, m \in 1 .. a : acc[k] = acc[m] => k = m
    BY DEF Delivers, n, a
  <1>4. \A i \in 1 .. n - 1 : old(i) \in 1 .. n /\ old(i) # p /\ line2[i] = line[old(i)]
    BY <1>1, <1>2 DEF n
  <1>5. \A i, j \in 1 .. n - 1 : i < j => old(i) < old(j)
    BY <1>1, <1>2
  <1>6. \A j \in 1 .. n : j # p => \E i \in 1 .. n - 1 : old(i) = j
    <2> SUFFICES ASSUME NEW j \in 1 .. n, j # p PROVE \E i \in 1 .. n - 1 : old(i) = j
      OBVIOUS
    <2>1. CASE j < p
      <3>1. j \in 1 .. n - 1 /\ old(j) = j
        BY <1>1, <1>2, <2>1
      <3> QED BY <3>1
    <2>2. CASE j > p
      <3>1. j - 1 \in 1 .. n - 1 /\ old(j - 1) = j
        BY <1>1, <1>2, <2>2
      <3> QED BY <3>1
    <2> QED BY <1>1, <1>2, <2>1, <2>2
  <1> HIDE DEF old
  <1>7. \A i, j \in 1 .. n : i # j => line[i] # line[j]
    <2>1. ASSUME NEW i \in 1 .. n, NEW j \in 1 .. n, i < j PROVE line[i] # line[j]
      <3>1. PICK k \in 1 .. a : acc[k] = line[i]
        BY <1>3
      <3>2. line[j] = acc[k] => k < k
        BY <1>3, <2>1, <3>1
      <3> QED BY <1>1, <3>1, <3>2
    <2>2. \A i, j \in 1 .. n : i # j => i < j \/ j < i
      BY <1>1
    <2> QED BY <2>1, <2>2, Zenon
  <1>8. \A i \in 1 .. n - 1 : /\ line2[i] \notin ev \cup {line[p]}
                              /\ \E k \in 1 .. a : acc[k] = line2[i]
    BY <1>2, <1>3, <1>4, <1>7, SMTT(30)
  <1>9. \A k \in 1 .. a : acc[k] \in ev \cup {line[p]} \/ \E i \in 1 .. n - 1 : line2[i] = acc[k]
    <2> SUFFICES ASSUME NEW k \in 1 .. a, acc[k] \notin ev, acc[k] # line[p]
                 PROVE  \E i \in 1 .. n - 1 : line2[i] = acc[k]
      OBVIOUS
    <2>1. PICK j \in 1 .. n : line[j] = acc[k]
      BY <1>3
    <2>2. PICK i \in 1 .. n - 1 : old(i) = j
      BY <1>6, <2>1
    <2> QED BY <1>4, <2>1, <2>2
  <1>10. \A i, j \in 1 .. n - 1, k, m \in 1 .. a :
           i < j /\ line2[i] = acc[k] /\ line2[j] = acc[m] => k < m
    <2>1. \A i, j \in 1 .. n, k, m \in 1 .. a :
            i < j /\ line[i] = acc[k] /\ line[j] = acc[m] => k < m
      BY <1>3
    <2> QED BY ONLY <1>4, <1>5, <2>1, Zenon
  <1> QED BY <1>2, <1>8, <1>9, <1>10 DEF Delivers, a
-----------------------------------------------------------------------------
(* What a step does to the line. *)

LEMMA LineTypes ==
  ASSUME SinkInv
  PROVE  /\ WellFormed(ring) /\ ring.count \in Nat
         /\ handed \in Seq(Records) /\ batch \in Seq(Records) /\ accepted \in Seq(Records)
         /\ Contents(ring) \in Seq(Records) /\ Len(Contents(ring)) = ring.count
         /\ handed \o batch \in Seq(Records) /\ Line \in Seq(Records)
  <1>1. WellFormed(ring) /\ ring.count \in Nat
    BY WellFormedRing, CapacityPositive DEF SinkInv, QueueInv, WellFormed, Rings
  <1>2. handed \in Seq(Records) /\ batch \in Seq(Records) /\ accepted \in Seq(Records)
    BY DEF SinkInv, TypeOK, QueueTypeOK
  <1>3. Contents(ring) \in Seq(Records) /\ Len(Contents(ring)) = ring.count
    BY <1>1, ContentsType
  <1>4. handed \o batch \in Seq(Records)
    BY <1>2, ConcatProperties
  <1>5. Line \in Seq(Records)
    BY <1>3, <1>4, ConcatProperties DEF Line
  <1> QED BY <1>1, <1>2, <1>3, <1>4, <1>5

\* The queue accepts the record of c, with or without giving up its oldest.
Joins(c) ==
  /\ accepted' = Append(accepted, rec[c])
  /\ evicted' = evicted
  /\ Line' = Append(Line, rec[c])

Displaces(c) ==
  /\ Contents(ring) # <<>>
  /\ accepted' = Append(accepted, rec[c])
  /\ evicted' = evicted \cup {Head(Contents(ring))}
  /\ Line' = Append((handed \o batch) \o Tail(Contents(ring)), rec[c])

LEMMA EnqueueLine ==
  ASSUME SinkInv, NEW c \in Producers, Enqueue(c)
  PROVE  /\ rec[c] \in Records /\ pc[c] = "enqueue"
         /\ \/ /\ UNCHANGED <<Line, accepted, evicted, pc, rec, result>>
            \/ /\ UNCHANGED <<Line, accepted, evicted>>
               /\ EnqueueReturns(c, FALSE, 0) \/ EnqueueReturns(c, FALSE, 1)
            \/ Joins(c) /\ EnqueueReturns(c, TRUE, 0)
            \/ Displaces(c) /\ EnqueueReturns(c, TRUE, 1)
  <1>1. rec[c] \in Records /\ pc[c] = "enqueue"
    BY DEF Enqueue, SinkInv, CallsInOrder
  <1>2. handed' = handed
    BY DEF Enqueue
  <1>3. ASSUME UNCHANGED <<ring, batch>> PROVE Line' = Line
    BY <1>2, <1>3 DEF Line
  <1>4. ASSUME EnqueuePush(rec[c]), accepted' = Append(accepted, rec[c]), evicted' = evicted
        PROVE  Joins(c)
    <2>1. Contents(ring)' = Append(Contents(ring), rec[c])
      BY <1>1, <1>4, LineTypes, PushAppends DEF EnqueuePush
    <2>2. Line' = (handed \o batch) \o Append(Contents(ring), rec[c])
      BY <1>2, <1>4, <2>1 DEF Line, EnqueuePush
    <2>3. (handed \o batch) \o Append(Contents(ring), rec[c])
            = Append((handed \o batch) \o Contents(ring), rec[c])
      BY <1>1, LineTypes, JoinLine
    <2> QED BY <1>4, <2>2, <2>3 DEF Joins, Line
  <1>5. ASSUME EnqueueDropOldest(rec[c]), accepted' = Append(accepted, rec[c]),
               evicted' = evicted \cup {Head(Contents(ring))}
        PROVE  Displaces(c)
    <2>0. ring.count > 0 /\ Contents(ring) # <<>>
      <3>1. ring.count > 0
        BY <1>5, LineTypes, CapacityPositive DEF EnqueueDropOldest, Full
      <3> QED BY <3>1, LineTypes
    <2>1. Contents(ring)' = Append(Tail(Contents(ring)), rec[c])
      BY <1>1, <1>5, <2>0, LineTypes, PopOldestDrops, PushAppends DEF EnqueueDropOldest
    <2>2. Line' = (handed \o batch) \o Append(Tail(Contents(ring)), rec[c])
      BY <1>2, <1>5, <2>1 DEF Line, EnqueueDropOldest
    <2>3. Tail(Contents(ring)) \in Seq(Records)
      BY <2>0, LineTypes, HeadTailProperties
    <2>4. (handed \o batch) \o Append(Tail(Contents(ring)), rec[c])
            = Append((handed \o batch) \o Tail(Contents(ring)), rec[c])
      BY <1>1, <2>3, LineTypes, JoinLine
    <2> QED BY <1>5, <2>0, <2>2, <2>4 DEF Displaces
  <1> QED BY <1>1, <1>3, <1>4, <1>5 DEF Enqueue, EnqueueStopped, EnqueueWait,
                                        EnqueueDropNewest, queueVars

\* A step outside of write() moves records along the line at most.
Quiet ==
  /\ UNCHANGED <<Line, accepted, evicted, submitted, rec, result, droppedRecords>>
  /\ \A c \in Producers :
       pc[c] \in {"enqueue", "account"} \/ pc'[c] \in {"enqueue", "account"} => pc'[c] = pc[c]

LEMMA StepKinds ==
  ASSUME SinkInv, [Next]_vars
  PROVE  \/ \E c \in Producers, r \in Records : CallWrite(c, r)
         \/ \E c \in Producers : Enqueue(c) \/ Account(c)
         \/ Quiet
  <1> USE DEF queueVars, flushVars, workerVars, clientVars, historyVars
  <1>1. ASSUME UNCHANGED <<handed, batch, ring>> PROVE Line' = Line
    BY <1>1 DEF Line
  <1>2. CASE WorkerWrite
    <2>1. handed' \o batch' = handed \o batch
      BY <1>2, LineTypes, HandOver DEF WorkerWrite, UseRecord
    <2>2. Line' = Line
      BY <1>2, <2>1 DEF Line, WorkerWrite, UseRecord
    <2> QED BY <1>2, <2>2 DEF WorkerWrite, Quiet
  <1>3. CASE WorkerDrain
    <2>1. CASE DequeueSome(MaxBatch)
      <3> DEFINE n == BatchSize(MaxBatch)
                 t == Contents(ring)
      <3>0. MaxBatch \in Nat /\ MaxBatch >= 1
        BY SinkAssumption DEF MaxBatch
      <3>1. n \in 1 .. ring.count
        BY <2>1, <3>0, BatchSizeRange DEF DequeueSome, SinkInv, QueueInv
      <3>2. Contents(ring)' = SubSeq(t, n + 1, Len(t))
        BY <2>1, <3>1, LineTypes, PopBatchTakes DEF DequeueSome
      <3>3. batch = <<>>
        BY <1>3 DEF WorkerDrain, SinkInv, CallsInOrder
      <3>4. SubSeq(t, 1, n) \in Seq(Records)
        BY <3>1, TakenIsSequence DEF SinkInv, QueueInv
      <3>5. batch' = SubSeq(t, 1, n)
        BY <2>1, <3>3, <3>4, ConcatEmptySeq DEF DequeueSome
      <3>6. handed' = handed /\ handed \o batch = handed
        BY <1>3, <3>3, LineTypes, ConcatEmptySeq DEF WorkerDrain
      <3> HIDE DEF n
      <3>7. (handed \o SubSeq(t, 1, n)) \o SubSeq(t, n + 1, Len(t)) = handed \o t
        BY <3>1, LineTypes, TakeOver
      <3>8. Line' = Line
        BY <3>2, <3>5, <3>6, <3>7 DEF Line
      <3> QED BY <1>3, <3>8 DEF WorkerDrain, Quiet
    <2>2. CASE DequeueNone
      <3>1. Line' = Line
        BY <1>1, <1>3, <2>2 DEF WorkerDrain, DequeueNone
      <3> QED BY <1>3, <3>1 DEF WorkerDrain, Quiet
    <2> QED BY <1>3, <2>1, <2>2 DEF WorkerDrain
  <1>4. CASE WorkerWait
    BY <1>1, <1>4 DEF WorkerWait, WaitForWorkBlocks, WaitForWorkReturns, Quiet
  <1>5. CASE WorkerLoad \/ WorkerFlush \/ WorkerStore \/ WorkerFence \/ WorkerNotify
    BY <1>1, <1>5 DEF WorkerLoad, WorkerFlush, WorkerStore, WorkerFence, WorkerNotify, Quiet
  <1>6. CASE DestroyBegin \/ DestroyWakes \/ DestroyJoin \/ Finished \/ UNCHANGED vars
    BY <1>1, <1>6 DEF DestroyBegin, DestroyWakes, DestroyJoin, Finished, vars, RequestStop,
         NotifyAllNotEmpty, RequestStopWakesProducers, KickForFlush, Quiet
  <1>7. CASE \E t \in Producers \cup {Consumer} : QueueSpuriousWakeup(t)
    BY <1>1, <1>7 DEF QueueSpuriousWakeup, SpuriousWakeup, Quiet
  <1>8. CASE \E c \in Producers : FlushSpuriousWakeup(c)
    BY <1>1, <1>8 DEF FlushSpuriousWakeup, Quiet
  <1>9. ASSUME NEW c \in Producers,
               \/ CallFlush(c) \/ FlushKick(c) \/ FlushKickNotify(c)
               \/ FlushTest(c) \/ FlushSleep(c)
        PROVE  Quiet
    <2>1. Line' = Line
      BY <1>1, <1>9 DEF CallFlush, FlushKick, FlushKickNotify, FlushTest, FlushSleep,
                        KickForFlush, NotifyAllNotEmpty
    <2>2. /\ pc \in [Producers -> ClientPcs]
          /\ pc[c] \notin {"enqueue", "account"}
          /\ \E p \in ClientPcs \ {"enqueue", "account"} : pc' = [pc EXCEPT ![c] = p]
      BY <1>9 DEF CallFlush, FlushKick, FlushKickNotify, FlushTest, FlushSleep, ClientPcs,
                  SinkInv, TypeOK
    <2> QED BY <1>9, <2>1, <2>2 DEF CallFlush, FlushKick, FlushKickNotify, FlushTest,
                                    FlushSleep, Quiet
  <1> QED
    BY <1>2, <1>3, <1>4, <1>5, <1>6, <1>7, <1>8, <1>9
    DEF Next, ClientCall, ClientStep, WorkerStep
-----------------------------------------------------------------------------
(* Once, and in order. *)

DeliveryInv == Fresh /\ FifoDelivery

LEMMA DeliveryInvInit == Init => DeliveryInv
  <1> SUFFICES ASSUME Init PROVE DeliveryInv
    OBVIOUS
  <1>1. Contents(ring) = <<>>
    BY DEF Init, QueueInit, EmptyRing, Contents
  <1>2. Line = <<>> /\ accepted = <<>> /\ evicted = {}
    BY <1>1 DEF Init, QueueInit, Line
  <1>3. Fresh
    BY <1>2 DEF Init, Fresh
  <1>4. FifoDelivery
    BY <1>2 DEF FifoDelivery, Due
  <1> QED BY <1>3, <1>4 DEF DeliveryInv

\* A record that joins the accepted ones was not among them.
LEMMA FreshJoin ==
  ASSUME SinkInv, Fresh, NEW c \in Producers, pc[c] = "enqueue", rec[c] \in Records,
         accepted' = Append(accepted, rec[c]),
         \/ evicted' = evicted
         \/ \E k \in 1 .. Len(accepted) : evicted' = evicted \cup {accepted[k]},
         submitted' = submitted, NEW d, EnqueueReturns(c, TRUE, d)
  PROVE  Fresh'
  <1> DEFINE a == Len(accepted)
  <1>1. /\ a \in Nat /\ Len(accepted') = a + 1 /\ accepted'[a + 1] = rec[c]
        /\ \A k \in 1 .. a : accepted'[k] = accepted[k]
    BY LineTypes, AppendProperties, LenProperties
  <1>2. /\ \A k, m \in 1 .. a : accepted[k] = accepted[m] => k = m
        /\ \A k \in 1 .. a : accepted[k] \in submitted /\ accepted[k] # rec[c]
        /\ \A r \in evicted : \E k \in 1 .. a : accepted[k] = r
        /\ rec[c] \in submitted
    BY DEF Fresh
  <1>3. \A e \in Producers : pc'[e] = "enqueue" => e # c /\ pc[e] = "enqueue" /\ rec'[e] = rec[e]
    BY DEF EnqueueReturns, SinkInv, TypeOK
  <1>4. \A e \in Producers : pc'[e] = "enqueue" =>
          /\ rec[e] \in submitted /\ rec[e] # rec[c]
          /\ \A k \in 1 .. a : accepted[k] # rec[e]
    BY <1>3 DEF Fresh
  <1> HIDE DEF a
  <1>5. \A k, m \in 1 .. a + 1 : accepted'[k] = accepted'[m] => k = m
    <2> SUFFICES ASSUME NEW k \in 1 .. a + 1, NEW m \in 1 .. a + 1, accepted'[k] = accepted'[m]
                 PROVE  k = m
      OBVIOUS
    <2>1. CASE k = a + 1
      BY <1>1, <1>2, <2>1
    <2>2. CASE m = a + 1
      BY <1>1, <1>2, <2>2
    <2>3. CASE k \in 1 .. a /\ m \in 1 .. a
      BY <1>1, <1>2, <2>3
    <2> QED BY <1>1, <2>1, <2>2, <2>3
  <1>6. \A k \in 1 .. a + 1 : k = a + 1 \/ k \in 1 .. a
    BY <1>1
  <1>7. \A k \in 1 .. a + 1 : accepted'[k] \in submitted
    BY <1>1, <1>2, <1>6
  <1>8. \A r \in evicted' : \E k \in 1 .. a + 1 : accepted'[k] = r
    <2> SUFFICES ASSUME NEW r \in evicted' PROVE \E k \in 1 .. a + 1 : accepted'[k] = r
      OBVIOUS
    <2>1. PICK k \in 1 .. a : accepted[k] = r
      BY <1>2 DEF a
    <2>2. k \in 1 .. a + 1
      BY <1>1
    <2> QED BY <1>1, <2>1, <2>2
  <1>9. \A e \in Producers : pc'[e] = "enqueue" =>
          rec'[e] \in submitted /\ \A k \in 1 .. a + 1 : accepted'[k] # rec'[e]
    BY <1>1, <1>3, <1>4, <1>6
  <1>10. \A e, f \in Producers :
           pc'[e] = "enqueue" /\ pc'[f] = "enqueue" /\ rec'[e] = rec'[f] => e = f
    BY <1>3 DEF Fresh
  <1>11. Len(accepted') = a + 1
    BY <1>1
  <1> QED BY <1>5, <1>7, <1>8, <1>9, <1>10, <1>11 DEF Fresh

LEMMA DeliveryInvStep == SinkInv /\ DeliveryInv /\ [Next]_vars => DeliveryInv'
  <1> SUFFICES ASSUME SinkInv, Fresh, FifoDelivery, [Next]_vars PROVE Fresh' /\ FifoDelivery'
    BY DEF DeliveryInv
  <1>0. ASSUME UNCHANGED <<Line, accepted, evicted>> PROVE FifoDelivery'
    <2>1. Delivers(Line', accepted', evicted')
      BY <1>0, DeliversIsFifo
    <2> QED BY <2>1, DeliversIsFifoNext
  <1>1. CASE Quiet
    <2>1. \A c \in Producers : pc'[c] = "enqueue" => pc[c] = "enqueue"
      BY <1>1 DEF Quiet
    <2>2. Fresh'
      BY <1>1, <2>1 DEF Quiet, Fresh
    <2> QED BY <1>0, <1>1, <2>2 DEF Quiet
  <1>2. ASSUME NEW c \in Producers, NEW r \in Records, CallWrite(c, r)
        PROVE  Fresh' /\ FifoDelivery'
    <2>1. FifoDelivery'
      <3>1. Line' = Line
        BY <1>2 DEF CallWrite, Line, queueVars
      <3> QED BY <1>0, <1>2, <3>1 DEF CallWrite
    <2>2. UNCHANGED <<accepted, evicted>> /\ submitted' = submitted \cup {r} /\ r \notin submitted
      BY <1>2 DEF CallWrite
    <2>3. /\ rec'[c] = r
          /\ \A e \in Producers : e # c => pc'[e] = pc[e] /\ rec'[e] = rec[e]
          /\ \A e \in Producers : pc[e] = "enqueue" => rec[e] # r
      BY <1>2, <2>2 DEF CallWrite, SinkInv, TypeOK, Fresh
    <2>4. Fresh'
      BY <2>2, <2>3 DEF Fresh
    <2> QED BY <2>1, <2>4
  <1>3. ASSUME NEW c \in Producers, Account(c) PROVE Fresh' /\ FifoDelivery'
    <2>1. FifoDelivery'
      <3>1. Line' = Line
        BY <1>3 DEF Account, Line, queueVars, historyVars
      <3> QED BY <1>0, <1>3, <3>1 DEF Account, historyVars
    <2>2. \A e \in Producers : pc'[e] = "enqueue" => pc[e] = "enqueue"
      BY <1>3 DEF Account, SinkInv, TypeOK
    <2>3. Fresh'
      BY <1>3, <2>2 DEF Account, historyVars, Fresh
    <2> QED BY <2>1, <2>3
  <1>4. ASSUME NEW c \in Producers, Enqueue(c) PROVE Fresh' /\ FifoDelivery'
    <2>0. rec[c] \in Records /\ pc[c] = "enqueue" /\ submitted' = submitted
      BY <1>4, EnqueueLine DEF Enqueue
    <2>1. CASE UNCHANGED <<Line, accepted, evicted, pc, rec, result>>
      <3>1. Fresh'
        BY <2>0, <2>1 DEF Fresh
      <3> QED BY <1>0, <2>1, <3>1
    <2>2. CASE /\ UNCHANGED <<Line, accepted, evicted>>
               /\ EnqueueReturns(c, FALSE, 0) \/ EnqueueReturns(c, FALSE, 1)
      <3>1. \A e \in Producers : pc'[e] = "enqueue" => pc[e] = "enqueue" /\ rec'[e] = rec[e]
        BY <2>2 DEF EnqueueReturns, SinkInv, TypeOK
      <3>2. Fresh'
        BY <2>0, <2>2, <3>1 DEF Fresh
      <3> QED BY <1>0, <2>2, <3>2
    <2>3. /\ Delivers(Line, accepted, evicted)
          /\ \A k \in 1 .. Len(accepted) : accepted[k] # rec[c]
          /\ rec[c] \notin evicted
      BY <2>0, DeliversIsFifo DEF Fresh
    <2>4. CASE Joins(c) /\ EnqueueReturns(c, TRUE, 0)
      <3>1. Delivers(Append(Line, rec[c]), Append(accepted, rec[c]), evicted)
        BY <2>0, <2>3, LineTypes, DeliversJoin
      <3>2. Delivers(Line', accepted', evicted')
        BY <2>4, <3>1 DEF Joins
      <3>3. FifoDelivery'
        BY <3>2, DeliversIsFifoNext
      <3>4. Fresh'
        BY <2>0, <2>4, FreshJoin DEF Joins
      <3> QED BY <3>3, <3>4
    <2>5. CASE Displaces(c) /\ EnqueueReturns(c, TRUE, 1)
      <3> DEFINE s == handed \o batch
                 t == Contents(ring)
                 p == Len(s) + 1
                 rest == s \o Tail(t)
      <3>0. s \in Seq(Records) /\ t \in Seq(Records) /\ t # <<>> /\ Line = s \o t
        BY <2>5, LineTypes DEF Displaces, Line
      <3> HIDE DEF s, t
      <3>1. /\ Line \in Seq(Records) /\ rest \in Seq(Records)
            /\ Len(rest) = Len(Line) - 1 /\ p \in 1 .. Len(Line)
            /\ Line[p] = Head(t)
            /\ \A i \in 1 .. Len(s) : rest[i] = Line[i]
            /\ \A i \in p .. Len(Line) - 1 : rest[i] = Line[i + 1]
        BY <3>0, LeaveLine
      <3>2. p - 1 = Len(s) /\ Len(s) \in Nat
        BY <3>0, LenProperties
      <3> HIDE DEF p, rest
      <3>3. \A k, m \in 1 .. Len(accepted) : accepted[k] = accepted[m] => k = m
        BY DEF Fresh
      <3>4. accepted \in Seq(Records)
        BY LineTypes
      <3>5. Delivers(rest, accepted, evicted \cup {Line[p]})
        BY <2>3, <3>1, <3>2, <3>3, <3>4, DeliversLeave
      <3>6. PICK k \in 1 .. Len(accepted) : accepted[k] = Line[p]
        BY <2>3, <3>1 DEF Delivers
      <3>7. rec[c] \notin evicted \cup {Line[p]}
        BY <2>3, <3>6
      <3>8. Delivers(Append(rest, rec[c]), Append(accepted, rec[c]), evicted \cup {Line[p]})
        BY <2>0, <2>3, <3>1, <3>4, <3>5, <3>7, DeliversJoin
      <3>9. /\ accepted' = Append(accepted, rec[c]) /\ Line' = Append(rest, rec[c])
            /\ evicted' = evicted \cup {Line[p]}
        BY <2>5, <3>1 DEF Displaces, s, t, rest
      <3>10. FifoDelivery'
        BY <3>8, <3>9, DeliversIsFifoNext
      <3>11. Fresh'
        BY <2>0, <2>5, <3>6, <3>9, FreshJoin
      <3> QED BY <3>10, <3>11
    <2> QED BY <1>4, <2>1, <2>2, <2>4, <2>5, EnqueueLine
  <1> QED BY <1>1, <1>2, <1>3, <1>4, StepKinds

LEMMA Delivery == Spec => []DeliveryInv
  <1>1. Init => DeliveryInv
    BY DeliveryInvInit
  <1>2. SinkInv /\ DeliveryInv /\ [Next]_vars => DeliveryInv'
    BY DeliveryInvStep
  <1> QED BY <1>1, <1>2, SinkInvariance, PTL DEF Spec

\* Every record that the queue accepted is handed over, in the batch or queued,
\* exactly once and in the order of acceptance, or DropOldest has given it up.
THEOREM SinkDeliversInOrder == Spec => []FifoDelivery
  <1>1. DeliveryInv => FifoDelivery
    BY DEF DeliveryInv
  <1> QED BY <1>1, Delivery, PTL
-----------------------------------------------------------------------------
(* Delivered or counted. *)

LEMMA AccountingInit == Init => Accounting
  <1> SUFFICES ASSUME Init PROVE Accounting
    OBVIOUS
  <1>1. Contents(ring) = <<>>
    BY DEF Init, QueueInit, EmptyRing, Contents
  <1>2. Len(Line) = 0
    BY <1>1 DEF Init, QueueInit, Line
  <1>3. InWrite = {} /\ submitted = {}
    BY DEF Init, InWrite
  <1>4. IsFiniteSet({}) /\ Cardinality({}) = 0
    BY FS_EmptySet
  <1> QED BY <1>2, <1>3, <1>4 DEF Init, Accounting

LEMMA AccountingStep == SinkInv /\ Accounting /\ [Next]_vars => Accounting'
  <1> SUFFICES ASSUME SinkInv, Accounting, [Next]_vars PROVE Accounting'
    OBVIOUS
  <1> DEFINE l == Len(Line)
             w == Cardinality(InWrite)
             s == Cardinality(submitted)
             d == droppedRecords
  <1>1. /\ IsFiniteSet(submitted) /\ IsFiniteSet(InWrite)
        /\ l \in Nat /\ w \in Nat /\ s \in Nat /\ d \in Nat /\ s = l + d + w
    <2>1. IsFiniteSet(InWrite)
      BY SinkAssumption, FS_Subset DEF InWrite
    <2> QED BY <2>1, LineTypes, LenProperties, FS_CardinalityType DEF Accounting, SinkInv, TypeOK
  <1>2. opc' = "joined" => wpc' = "exited"
    BY DEF Accounting, Next, ClientCall, ClientStep, WorkerStep, CallWrite, CallFlush,
           Enqueue, Account, FlushKick, FlushKickNotify, FlushTest, FlushSleep, WorkerWait,
           WorkerDrain, WorkerWrite, WorkerLoad, WorkerFlush, WorkerStore, WorkerFence,
           WorkerNotify, DestroyBegin, DestroyWakes, DestroyJoin, FlushSpuriousWakeup,
           QueueSpuriousWakeup, Finished, vars, workerVars
  <1>3. ASSUME NEW c \in Producers, c \in InWrite, InWrite' = InWrite \ {c}
        PROVE  Cardinality(InWrite)' = w - 1
    BY <1>1, <1>3, FS_RemoveElement
  <1>4. CASE Quiet
    <2>1. InWrite' = InWrite
      BY <1>4 DEF Quiet, InWrite
    <2>2. \A c \in Producers : pc'[c] = "account" => Drops(result'[c]) = 1
      BY <1>4 DEF Quiet, Accounting
    <2> QED BY <1>1, <1>2, <1>4, <2>1, <2>2 DEF Quiet, Accounting
  <1>5. ASSUME NEW c \in Producers, NEW r \in Records, CallWrite(c, r) PROVE Accounting'
    <2>1. Line' = Line /\ droppedRecords' = droppedRecords
      BY <1>5 DEF CallWrite, Line, queueVars
    <2>2. c \notin InWrite /\ InWrite' = InWrite \cup {c}
      BY <1>5 DEF CallWrite, InWrite, SinkInv, TypeOK
    <2>3. Cardinality(InWrite)' = w + 1
      BY <1>1, <2>2, FS_AddElement
    <2>4. IsFiniteSet(submitted)' /\ Cardinality(submitted)' = s + 1
      BY <1>1, <1>5, FS_AddElement DEF CallWrite
    <2>5. \A e \in Producers : pc'[e] = "account" => Drops(result'[e]) = 1
      BY <1>5 DEF CallWrite, SinkInv, TypeOK, Accounting
    <2> QED BY <1>1, <1>2, <2>1, <2>3, <2>4, <2>5 DEF Accounting
  <1>6. ASSUME NEW c \in Producers, Account(c) PROVE Accounting'
    <2>1. Line' = Line /\ submitted' = submitted
      BY <1>6 DEF Account, Line, queueVars, historyVars
    <2>2. c \in InWrite /\ InWrite' = InWrite \ {c}
      BY <1>6 DEF Account, InWrite, SinkInv, TypeOK
    <2>3. droppedRecords' = d + 1
      BY <1>6 DEF Account, Accounting
    <2>4. \A e \in Producers : pc'[e] = "account" => Drops(result'[e]) = 1
      BY <1>6 DEF Account, SinkInv, TypeOK, Accounting
    <2>5. Cardinality(InWrite)' = w - 1
      BY <1>3, <2>2
    <2> QED BY <1>1, <1>2, <2>1, <2>3, <2>4, <2>5 DEF Accounting
  <1>7. ASSUME NEW c \in Producers, Enqueue(c) PROVE Accounting'
    <2>0. /\ submitted' = submitted /\ droppedRecords' = droppedRecords
          /\ rec[c] \in Records /\ pc[c] = "enqueue" /\ c \in InWrite
      BY <1>7, EnqueueLine DEF Enqueue, InWrite
    <2>1. CASE UNCHANGED <<Line, accepted, evicted, pc, rec, result>>
      <3>1. InWrite' = InWrite
        BY <2>1 DEF InWrite
      <3> QED BY <1>1, <1>2, <2>0, <2>1, <3>1 DEF Accounting
    <2>2. ASSUME NEW e \in BOOLEAN, NEW n \in {0, 1}, EnqueueReturns(c, e, n), ~(e /\ n = 0)
          PROVE  /\ InWrite' = InWrite
                 /\ \A x \in Producers : pc'[x] = "account" => Drops(result'[x]) = 1
      <3>1. pc' = [pc EXCEPT ![c] = "account"]
        BY <2>2 DEF EnqueueReturns
      <3>2. InWrite' = InWrite
        BY <2>0, <3>1 DEF InWrite, SinkInv, TypeOK
      <3>3. result' = [result EXCEPT ![c] = [enqueued |-> e, dropped |-> n]]
        BY <2>2 DEF EnqueueReturns
      <3>4. Drops([enqueued |-> e, dropped |-> n]) = 1
        BY <2>2 DEF Drops
      <3>5. result'[c] = [enqueued |-> e, dropped |-> n]
        BY <3>3 DEF SinkInv, TypeOK
      <3>6. \A x \in Producers : x # c => result'[x] = result[x] /\ pc'[x] = pc[x]
        BY <3>1, <3>3 DEF SinkInv, TypeOK
      <3> QED BY <3>2, <3>4, <3>5, <3>6 DEF Accounting
    <2>3. CASE /\ UNCHANGED <<Line, accepted, evicted>>
               /\ EnqueueReturns(c, FALSE, 0) \/ EnqueueReturns(c, FALSE, 1)
      <3>1. /\ InWrite' = InWrite
            /\ \A x \in Producers : pc'[x] = "account" => Drops(result'[x]) = 1
        BY <2>2, <2>3
      <3> QED BY <1>1, <1>2, <2>0, <2>3, <3>1 DEF Accounting
    <2>4. CASE Joins(c) /\ EnqueueReturns(c, TRUE, 0)
      <3>1. pc' = [pc EXCEPT ![c] = "idle"]
        BY <2>4 DEF EnqueueReturns
      <3>2. InWrite' = InWrite \ {c}
        BY <3>1 DEF InWrite, SinkInv, TypeOK
      <3>3. \A x \in Producers : pc'[x] = "account" => pc[x] = "account" /\ result'[x] = result[x]
        BY <2>4, <3>1 DEF EnqueueReturns, SinkInv, TypeOK
      <3>4. Len(Line') = l + 1
        BY <2>0, <2>4, LineTypes, AppendProperties DEF Joins
      <3>5. Cardinality(InWrite)' = w - 1
        BY <1>3, <2>0, <3>2
      <3> QED BY <1>1, <1>2, <2>0, <3>3, <3>4, <3>5 DEF Accounting
    <2>5. CASE Displaces(c) /\ EnqueueReturns(c, TRUE, 1)
      <3>1. /\ InWrite' = InWrite
            /\ \A x \in Producers : pc'[x] = "account" => Drops(result'[x]) = 1
        <4>1. EnqueueReturns(c, TRUE, 1)
          BY <2>5
        <4>2. 1 \in {0, 1} /\ ~(1 = 0)
          OBVIOUS
        <4> QED BY <2>2, <4>1, <4>2
      <3> DEFINE rest == (handed \o batch) \o Tail(Contents(ring))
      <3>2. rest \in Seq(Records) /\ Len(rest) = l - 1
        BY <2>5, LineTypes, LeaveLine DEF Displaces, Line
      <3>3. Line' = Append(rest, rec[c])
        BY <2>5 DEF Displaces
      <3> HIDE DEF rest
      <3>4. Len(Line') = (l - 1) + 1
        BY <2>0, <3>2, <3>3, AppendProperties
      <3> QED BY <1>1, <1>2, <2>0, <3>1, <3>4 DEF Accounting
    <2> QED BY <1>7, <2>1, <2>3, <2>4, <2>5, EnqueueLine
  <1> QED BY <1>4, <1>5, <1>6, <1>7, StepKinds

\* Every record passed to write() has, once the sink is destroyed and no call
\* is left, been handed over or counted as dropped, exactly one of the two.
THEOREM SinkAccountsForAll == Spec => []FinalAccounting
  <1>1. Init => Accounting
    BY AccountingInit
  <1>2. SinkInv /\ Accounting /\ [Next]_vars => Accounting'
    BY AccountingStep
  <1>3. SinkInv /\ Accounting => FinalAccounting
    <2> SUFFICES ASSUME SinkInv, Accounting, opc = "joined", AllIdle
                 PROVE  Cardinality(submitted) = Len(handed) + droppedRecords
      BY DEF FinalAccounting
    <2>1. ring.count = 0 /\ batch = <<>>
      BY DEF Accounting, SinkInv, ExitPath, CallsInOrder
    <2>2. Contents(ring) = <<>>
      BY <2>1, LineTypes, EmptySeq
    <2>3. Line = handed
      BY <2>1, <2>2, LineTypes, ConcatEmptySeq DEF Line
    <2>4. InWrite = {}
      BY DEF InWrite, AllIdle
    <2>5. Cardinality(InWrite) = 0
      BY <2>4, FS_EmptySet
    <2>6. Len(handed) \in Nat /\ droppedRecords \in Nat
      BY LineTypes, LenProperties DEF SinkInv, TypeOK
    <2> QED BY <2>3, <2>5, <2>6 DEF Accounting
  <1> QED BY <1>1, <1>2, <1>3, SinkInvariance, PTL DEF Spec
-----------------------------------------------------------------------------
(* A flush() is seen. *)

LEMMA KicksInit == Init => Kicks
  BY DEF Init, QueueInit, Kicks, FlushNotIgnored

LEMMA KicksStep == SinkInv /\ Kicks /\ [Next]_vars => Kicks'
  <1> SUFFICES ASSUME SinkInv, Kicks, [Next]_vars PROVE Kicks'
    OBVIOUS
  <1> USE DEF queueVars, flushVars, workerVars, clientVars, historyVars
  <1>0. /\ pc \in [Producers -> ClientPcs] /\ gen \in [Producers -> Nat]
        /\ flushRequestGen \in Nat /\ flushDoneGen \in Nat /\ want \in Nat
        /\ flushDoneGen <= flushRequestGen /\ want <= flushRequestGen
        /\ notEmptyWaiters \subseteq {Consumer}
        /\ notEmptyWaiters # {} => wpc = "wait"
        /\ wpc = "wait" => ~final
    BY DEF SinkInv, TypeOK, QueueTypeOK, Generations, CallsInOrder, ExitPath
  <1>1. ASSUME NEW c \in Producers, (\E r \in Records : CallWrite(c, r)) \/ Account(c) PROVE Kicks'
    BY <1>0, <1>1 DEF CallWrite, Account, Kicks, FlushNotIgnored
  <1>2. ASSUME NEW c \in Producers, Enqueue(c) PROVE Kicks'
    <2>1. notEmptyWaiters' \subseteq notEmptyWaiters /\ flushKick' = flushKick
      BY <1>2 DEF Enqueue, EnqueueStopped, EnqueueWait, EnqueueDropNewest,
                  EnqueueDropOldest, EnqueuePush, NotifyOneNotEmpty
    <2>2. UNCHANGED <<flushRequestGen, flushDoneGen, gen, want, lastSeen, final, wpc>>
      BY <1>2 DEF Enqueue
    <2>3. \A e \in Producers :
            pc'[e] \in {"kickNotify", "flushTest", "flushSleep"} => pc'[e] = pc[e]
      BY <1>0, <1>2 DEF Enqueue, EnqueueReturns
    <2> QED BY <2>1, <2>2, <2>3 DEF Kicks, FlushNotIgnored
  <1>3. ASSUME NEW c \in Producers, CallFlush(c) PROVE Kicks'
    BY <1>0, <1>3 DEF CallFlush, Kicks, FlushNotIgnored
  <1>4. ASSUME NEW c \in Producers, FlushKick(c) PROVE Kicks'
    BY <1>0, <1>4 DEF FlushKick, KickForFlush, Kicks, FlushNotIgnored
  <1>5. ASSUME NEW c \in Producers, FlushKickNotify(c) PROVE Kicks'
    BY <1>0, <1>5 DEF FlushKickNotify, NotifyAllNotEmpty, Kicks, FlushNotIgnored
  <1>6. ASSUME NEW c \in Producers, FlushTest(c) \/ FlushSleep(c) PROVE Kicks'
    BY <1>0, <1>6 DEF FlushTest, FlushSleep, Kicks, FlushNotIgnored
  <1>7. CASE WorkerWait
    BY <1>0, <1>7 DEF WorkerWait, WaitForWorkBlocks, WaitForWorkReturns, HasWork, Kicks,
                      FlushNotIgnored
  <1>8. CASE WorkerDrain
    BY <1>0, <1>8 DEF WorkerDrain, DequeueSome, DequeueNone, Kicks, FlushNotIgnored
  <1>9. CASE WorkerWrite
    BY <1>0, <1>9 DEF WorkerWrite, UseRecord, Kicks, FlushNotIgnored
  <1>10. CASE WorkerLoad
    BY <1>0, <1>10 DEF WorkerLoad, Kicks, FlushNotIgnored
  <1>11. CASE WorkerFlush
    BY <1>0, <1>11 DEF WorkerFlush, Kicks, FlushNotIgnored
  <1>12. CASE WorkerStore
    BY <1>0, <1>12 DEF WorkerStore, Kicks, FlushNotIgnored
  <1>13. CASE WorkerFence \/ WorkerNotify
    BY <1>0, <1>13 DEF WorkerFence, WorkerNotify, Kicks, FlushNotIgnored
  <1>14. CASE DestroyBegin \/ DestroyWakes \/ DestroyJoin
    BY <1>0, <1>14 DEF DestroyBegin, DestroyWakes, DestroyJoin, RequestStop,
         NotifyAllNotEmpty, RequestStopWakesProducers, KickForFlush, Kicks, FlushNotIgnored
  <1>15. CASE \/ \E c \in Producers : FlushSpuriousWakeup(c)
              \/ \E t \in Producers \cup {Consumer} : QueueSpuriousWakeup(t)
    BY <1>0, <1>15 DEF FlushSpuriousWakeup, QueueSpuriousWakeup, SpuriousWakeup, Kicks,
                       FlushNotIgnored
  <1>16. CASE Finished \/ UNCHANGED vars
    BY <1>16 DEF Finished, vars, Kicks, FlushNotIgnored
  <1> QED
    BY <1>1, <1>2, <1>3, <1>4, <1>5, <1>6, <1>7, <1>8, <1>9, <1>10, <1>11, <1>12, <1>13,
       <1>14, <1>15, <1>16
    DEF Next, ClientCall, ClientStep, WorkerStep

LEMMA KicksAreKept == Spec => []Kicks
  <1>1. Init => Kicks
    BY KicksInit
  <1>2. SinkInv /\ Kicks /\ [Next]_vars => Kicks'
    BY KicksStep
  <1> QED BY <1>1, <1>2, SinkInvariance, PTL DEF Spec

\* The worker never sleeps on a generation that a caller of flush() waits for.
THEOREM FlushIsNotIgnored == Spec => []FlushNotIgnored
  <1>1. Kicks => FlushNotIgnored
    BY DEF Kicks
  <1> QED BY <1>1, KicksAreKept, PTL
-----------------------------------------------------------------------------
(* Two flush() calls drain. *)

LEMMA AppendKeeps ==
  ASSUME NEW S, NEW s \in Seq(S), NEW e \in S
  PROVE  Len(Append(s, e)) >= Len(s) /\ \A i \in 1 .. Len(s) : Append(s, e)[i] = s[i]
  <1>1. Len(s) \in Nat
    BY LenProperties
  <1> QED BY <1>1, AppendProperties

\* What was accepted, given up, handed over or flushed stays so.
LEMMA HistoryGrows ==
  ASSUME SinkInv, [Next]_vars
  PROVE  /\ Len(accepted') >= Len(accepted)
         /\ \A i \in 1 .. Len(accepted) : accepted'[i] = accepted[i]
         /\ evicted \subseteq evicted'
         /\ Len(handed') >= Len(handed)
         /\ \A i \in 1 .. Len(handed) : handed'[i] = handed[i]
         /\ covered' >= covered
  <1>0. /\ Len(accepted) \in Nat /\ Len(handed) \in Nat
        /\ covered \in Nat /\ covered <= Len(handed)
    BY LineTypes, LenProperties DEF SinkInv, TypeOK, Generations
  <1>1. \/ UNCHANGED <<accepted, evicted>>
        \/ \E c \in Producers : Enqueue(c)
    BY StepKinds DEF Quiet, CallWrite, Account, historyVars
  <1>2. ASSUME NEW c \in Producers, Enqueue(c)
        PROVE  \/ UNCHANGED <<accepted, evicted>>
               \/ /\ rec[c] \in Records /\ accepted' = Append(accepted, rec[c])
                  /\ evicted \subseteq evicted'
    BY <1>2, EnqueueLine DEF Joins, Displaces
  <1>3. \A c \in Producers : rec[c] \in Records =>
          /\ Len(Append(accepted, rec[c])) >= Len(accepted)
          /\ \A i \in 1 .. Len(accepted) : Append(accepted, rec[c])[i] = accepted[i]
    BY LineTypes, AppendKeeps
  <1>4. /\ Len(accepted') >= Len(accepted)
        /\ \A i \in 1 .. Len(accepted) : accepted'[i] = accepted[i]
        /\ evicted \subseteq evicted'
    BY <1>0, <1>1, <1>2, <1>3
  <1>5. CASE WorkerWrite
    <2>1. handed' = Append(handed, Head(batch)) /\ covered' = covered
      BY <1>5 DEF WorkerWrite
    <2>2. Head(batch) \in Records
      BY <1>5, LineTypes, HeadTailProperties DEF WorkerWrite, UseRecord
    <2>3. /\ Len(Append(handed, Head(batch))) >= Len(handed)
          /\ \A i \in 1 .. Len(handed) : Append(handed, Head(batch))[i] = handed[i]
      BY <2>2, LineTypes, AppendKeeps
    <2> QED BY <1>0, <1>4, <2>1, <2>3
  <1>6. CASE ~WorkerWrite
    <2>1. handed' = handed /\ (covered' = covered \/ covered' = Len(handed))
      BY <1>6 DEF Next, ClientCall, ClientStep, WorkerStep, CallWrite, CallFlush,
           Enqueue, Account, FlushKick, FlushKickNotify, FlushTest, FlushSleep, WorkerWait,
           WorkerDrain, WorkerLoad, WorkerFlush, WorkerStore, WorkerFence,
           WorkerNotify, DestroyBegin, DestroyWakes, DestroyJoin, FlushSpuriousWakeup,
           QueueSpuriousWakeup, Finished, vars, historyVars
    <2> QED BY <1>0, <1>4, <2>1
  <1> QED BY <1>5, <1>6

LEMMA PassedStays ==
  ASSUME SinkInv, [Next]_vars, NEW n \in Nat, n <= Len(accepted),
         NEW m \in Nat, m <= Len(handed), NEW m2 \in Nat, m <= m2,
         Passed(n, accepted, evicted, handed, m)
  PROVE  Passed(n, accepted', evicted', handed', m2)
  <1>1. Len(accepted) \in Nat /\ Len(handed) \in Nat
    BY LineTypes, LenProperties
  <1> SUFFICES ASSUME NEW i \in 1 .. n, accepted[i] \notin evicted
               PROVE  \E j \in 1 .. m2 : handed'[j] = accepted'[i]
    <2>1. \A i \in 1 .. n : accepted'[i] = accepted[i] /\ evicted \subseteq evicted'
      BY <1>1, HistoryGrows
    <2> QED BY <2>1 DEF Passed
  <1>2. PICK j \in 1 .. m : handed[j] = accepted[i]
    BY DEF Passed
  <1>3. j \in 1 .. m2 /\ j \in 1 .. Len(handed) /\ i \in 1 .. Len(accepted)
    BY <1>1
  <1>4. handed'[j] = accepted'[i]
    BY <1>2, <1>3, HistoryGrows
  <1> QED BY <1>3, <1>4

\* With nothing in the batch and nothing queued, everything is handed over.
LEMMA DrainedIsHanded ==
  ASSUME SinkInv, FifoDelivery, batch = <<>>, ring.count = 0,
         NEW n \in Nat, n <= Len(accepted)
  PROVE  HandedUpTo(n)
  <1>1. Contents(ring) = <<>>
    BY LineTypes, EmptySeq
  <1>2. Line = handed
    BY <1>1, LineTypes, ConcatEmptySeq DEF Line
  <1>3. Delivers(handed, accepted, evicted)
    BY <1>2, DeliversIsFifo
  <1>4. \A i \in 1 .. n : i \in 1 .. Len(accepted)
    BY LineTypes, LenProperties
  <1> QED BY <1>3, <1>4 DEF Delivers, HandedUpTo, Passed

LEMMA TwoFlushesInit == Init => TwoFlushes
  <1> SUFFICES ASSUME Init, NEW c \in Producers
               PROVE  /\ asked[c].accepted <= Len(accepted) /\ asked[c].before <= Len(accepted)
                      /\ pc[c] = "idle" /\ flushDoneGen >= gen[c] /\ wpc = "wait"
    BY DEF TwoFlushes, TwoFlushesOf, FlushPcs
  <1> QED BY DEF Init

LEMMA TwoFlushesStep ==
  SinkInv /\ DeliveryInv /\ Kicks /\ TwoFlushes /\ [Next]_vars => TwoFlushes'
  <1> SUFFICES ASSUME SinkInv, DeliveryInv, Kicks, TwoFlushes, [Next]_vars, NEW c \in Producers
               PROVE  TwoFlushesOf(c)'
    BY DEF TwoFlushes
  <1> USE DEF queueVars, flushVars, workerVars, clientVars, historyVars
  <1> DEFINE a == asked[c].accepted
             b == asked[c].before
             Handed2(n) == Passed(n, accepted', evicted', handed', Len(handed'))
             Flushed2(n) == Passed(n, accepted', evicted', handed', covered')
  <1>0. /\ a \in Nat /\ b \in Nat /\ gen[c] \in Nat /\ want \in Nat
        /\ flushDoneGen \in Nat /\ flushRequestGen \in Nat
        /\ pc \in [Producers -> ClientPcs]
        /\ asked \in [Producers -> [accepted : Nat, handed : Nat, before : Nat]]
        /\ gen \in [Producers -> Nat]
        /\ Len(accepted) \in Nat /\ Len(handed) \in Nat /\ covered \in Nat
        /\ covered <= Len(handed) /\ want <= flushRequestGen
        /\ flushDoneGen <= flushRequestGen
    BY LineTypes, LenProperties DEF SinkInv, TypeOK, Generations
  <1>1. Len(accepted') \in Nat /\ Len(handed') \in Nat /\ covered' \in Nat
    <2>1. SinkInv'
      BY SinkInvStep
    <2>2. accepted' \in Seq(Records) /\ handed' \in Seq(Records) /\ covered' \in Nat
      BY <2>1 DEF SinkInv, TypeOK
    <2> QED BY <2>2, LenProperties
  <1>2. /\ a <= Len(accepted) /\ b <= Len(accepted)
        /\ pc[c] \notin FlushPcs => flushDoneGen >= gen[c]
        /\ wpc = "load" /\ flushDoneGen >= gen[c] => HandedUpTo(a)
        /\ pc[c] \in FlushPcs =>
             /\ wpc = "load" => HandedUpTo(b)
             /\ wpc = "flush" /\ ~final /\ want >= gen[c] => HandedUpTo(b)
             /\ wpc = "store" /\ want >= gen[c] => FlushedUpTo(b)
             /\ flushDoneGen >= gen[c] => FlushedUpTo(b)
    BY DEF TwoFlushes, TwoFlushesOf
  <1>3. \A n \in Nat : n <= Len(accepted) /\ HandedUpTo(n) => Handed2(n)
    BY <1>0, <1>1, HistoryGrows, PassedStays DEF HandedUpTo
  <1>4. \A n \in Nat : n <= Len(accepted) /\ FlushedUpTo(n) => Flushed2(n)
    BY <1>0, <1>1, HistoryGrows, PassedStays DEF FlushedUpTo
  <1>5. \A n \in Nat : /\ n <= Len(accepted) /\ HandedUpTo(n) /\ covered' = Len(handed)
                       => Flushed2(n)
    <2> SUFFICES ASSUME NEW n \in Nat, n <= Len(accepted), covered' = Len(handed),
                        Passed(n, accepted, evicted, handed, Len(handed))
                 PROVE  Passed(n, accepted', evicted', handed', covered')
      BY DEF HandedUpTo
    <2>1. Len(handed) <= Len(handed) /\ Len(handed) <= covered'
      BY <1>0
    <2> QED BY <1>0, <1>1, <2>1, PassedStays
  <1>6. Len(accepted') >= Len(accepted)
    BY HistoryGrows
  <1>7. batch = <<>> /\ ring.count = 0 => HandedUpTo(a) /\ HandedUpTo(b)
    BY <1>0, <1>2, DrainedIsHanded DEF DeliveryInv
  \* What has to be shown when c makes no call.
  <1> DEFINE Goal ==
        /\ pc'[c] \notin FlushPcs => flushDoneGen' >= gen[c]
        /\ wpc' = "load" /\ flushDoneGen' >= gen[c] => Handed2(a)
        /\ pc'[c] \in FlushPcs =>
             /\ wpc' = "load" => Handed2(b)
             /\ wpc' = "flush" /\ ~final' /\ want' >= gen[c] => Handed2(b)
             /\ wpc' = "store" /\ want' >= gen[c] => Flushed2(b)
             /\ flushDoneGen' >= gen[c] => Flushed2(b)
  <1>8. ASSUME asked'[c] = asked[c], gen'[c] = gen[c], Goal PROVE TwoFlushesOf(c)'
    <2>1. a <= Len(accepted') /\ b <= Len(accepted')
      BY <1>0, <1>1, <1>2, <1>6
    <2> QED BY <1>8, <2>1 DEF TwoFlushesOf, HandedUpTo, FlushedUpTo
  <1> HIDE DEF Handed2, Flushed2
  <1>9. CASE CallFlush(c)
    <2>1. /\ asked'[c].accepted = Len(accepted) /\ asked'[c].before = a
          /\ gen'[c] = flushRequestGen + 1
          /\ UNCHANGED <<flushDoneGen, want, wpc, final, accepted>>
          /\ pc'[c] \in FlushPcs
      BY <1>0, <1>9 DEF CallFlush, FlushPcs
    <2>2. ~(flushDoneGen' >= gen'[c]) /\ ~(want' >= gen'[c])
      BY <1>0, <2>1
    <2>3. wpc' = "load" => Handed2(a)
      <3>1. pc[c] \notin FlushPcs
        BY <1>9 DEF CallFlush, FlushPcs
      <3> QED BY <1>0, <1>2, <1>3, <2>1, <3>1
    <2>4. wpc' = "load" => HandedUpTo(asked[c].before)'
      BY <2>1, <2>3 DEF HandedUpTo, Handed2
    <2>5. asked'[c].accepted <= Len(accepted') /\ asked'[c].before <= Len(accepted')
      BY <1>0, <1>2, <2>1
    <2> QED BY <2>1, <2>2, <2>4, <2>5 DEF TwoFlushesOf
  <1>10. ASSUME UNCHANGED <<wpc, want, flushDoneGen, final>>,
                asked'[c] = asked[c], gen'[c] = gen[c],
                pc'[c] \in FlushPcs => pc[c] \in FlushPcs,
                pc'[c] \notin FlushPcs => pc[c] \notin FlushPcs \/ flushDoneGen >= gen[c]
         PROVE  TwoFlushesOf(c)'
    <2>1. Goal
      BY <1>0, <1>2, <1>3, <1>4, <1>10
    <2> QED BY <1>8, <1>10, <2>1
  <1>11. ASSUME NEW e \in Producers,
                \/ \E r \in Records : CallWrite(e, r)
                \/ Enqueue(e) \/ Account(e) \/ FlushKick(e) \/ FlushKickNotify(e)
                \/ FlushTest(e) \/ FlushSleep(e) \/ (CallFlush(e) /\ e # c)
         PROVE  TwoFlushesOf(c)'
    <2>1. UNCHANGED <<wpc, want, flushDoneGen, final>> /\ asked'[c] = asked[c] /\ gen'[c] = gen[c]
      BY <1>0, <1>11 DEF CallWrite, Enqueue, Account, FlushKick, FlushKickNotify, FlushTest,
                  FlushSleep, CallFlush
    <2>2. /\ pc'[c] \in FlushPcs => pc[c] \in FlushPcs
          /\ pc'[c] \notin FlushPcs => pc[c] \notin FlushPcs \/ flushDoneGen >= gen[c]
      BY <1>0, <1>11 DEF CallWrite, Enqueue, EnqueueReturns, Account, FlushKick,
                  FlushKickNotify, FlushTest, Served, FlushSleep, CallFlush, FlushPcs
    <2> QED BY <1>10, <2>1, <2>2
  <1>12. CASE \/ DestroyBegin \/ DestroyWakes \/ DestroyJoin \/ Finished \/ UNCHANGED vars
              \/ \E e \in Producers : FlushSpuriousWakeup(e)
              \/ \E t \in Producers \cup {Consumer} : QueueSpuriousWakeup(t)
    BY <1>10, <1>12 DEF DestroyBegin, DestroyWakes, DestroyJoin, Finished, vars,
                        FlushSpuriousWakeup, QueueSpuriousWakeup
  <1>13. CASE WorkerWait \/ WorkerWrite \/ WorkerFence \/ WorkerNotify
    <2>1. /\ UNCHANGED <<pc, want, flushDoneGen>> /\ asked'[c] = asked[c] /\ gen'[c] = gen[c]
          /\ wpc' \notin {"load", "flush", "store"}
      BY <1>13 DEF WorkerWait, WorkerWrite, WorkerFence, WorkerNotify
    <2>2. Goal
      BY <1>0, <1>2, <1>4, <2>1
    <2> QED BY <1>8, <2>1, <2>2
  <1>14. CASE WorkerDrain
    <2>1. /\ UNCHANGED <<pc, want, flushDoneGen, final>> /\ asked'[c] = asked[c]
          /\ gen'[c] = gen[c] /\ wpc' # "store" /\ (wpc' = "flush" => final)
      BY <1>14 DEF WorkerDrain
    <2>2. wpc' = "load" => batch = <<>> /\ ring.count = 0
      BY <1>14 DEF WorkerDrain, DequeueNone, SinkInv, CallsInOrder
    <2>3. Goal
      BY <1>0, <1>2, <1>3, <1>4, <1>7, <2>1, <2>2
    <2> QED BY <1>8, <2>1, <2>3
  <1>15. CASE WorkerLoad
    <2>1. /\ UNCHANGED <<pc, flushDoneGen, final, covered, handed>> /\ asked'[c] = asked[c]
          /\ gen'[c] = gen[c] /\ wpc = "load" /\ wpc' # "load"
          /\ wpc' = "store" => covered' = Len(handed)
      BY <1>15 DEF WorkerLoad, SinkInv, ExitPath
    <2>2. Goal
      BY <1>0, <1>2, <1>3, <1>4, <1>5, <2>1
    <2> QED BY <1>8, <2>1, <2>2
  <1>16. CASE WorkerFlush
    <2>1. /\ UNCHANGED <<pc, want, flushDoneGen, final>> /\ asked'[c] = asked[c]
          /\ gen'[c] = gen[c] /\ wpc = "flush" /\ covered' = Len(handed)
          /\ wpc' = IF final THEN "load" ELSE "store"
      BY <1>16 DEF WorkerFlush
    <2>2. final => batch = <<>> /\ ring.count = 0
      BY <1>16 DEF WorkerFlush, SinkInv, ExitPath, CallsInOrder
    <2>3. Goal
      BY <1>0, <1>2, <1>3, <1>4, <1>5, <1>7, <2>1, <2>2
    <2> QED BY <1>8, <2>1, <2>3
  <1>17. CASE WorkerStore
    <2>1. /\ UNCHANGED <<pc, want>> /\ flushDoneGen' = want /\ asked'[c] = asked[c]
          /\ gen'[c] = gen[c] /\ wpc = "store" /\ wpc' \notin {"load", "flush", "store"}
          /\ flushDoneGen <= want
      BY <1>17 DEF WorkerStore, Kicks
    <2>2. Goal
      BY <1>0, <1>2, <1>4, <2>1
    <2> QED BY <1>8, <2>1, <2>2
  <1>18. CASE \E e \in Producers : ClientCall(e) \/ ClientStep(e)
    <2>1. PICK e \in Producers : ClientCall(e) \/ ClientStep(e)
      BY <1>18
    <2>2. CASE CallFlush(e) /\ e = c
      BY <1>9, <2>2
    <2>3. CASE ~(CallFlush(e) /\ e = c)
      <3>1. \/ \E r \in Records : CallWrite(e, r)
            \/ Enqueue(e) \/ Account(e) \/ FlushKick(e) \/ FlushKickNotify(e)
            \/ FlushTest(e) \/ FlushSleep(e) \/ (CallFlush(e) /\ e # c)
        BY <2>1, <2>3 DEF ClientCall, ClientStep
      <3> QED BY <1>11, <3>1
    <2> QED BY <2>2, <2>3
  <1>19. CASE WorkerStep
    BY <1>13, <1>14, <1>15, <1>16, <1>17, <1>19 DEF WorkerStep
  <1> QED BY <1>12, <1>18, <1>19 DEF Next

\* When flush() returns, what was accepted before the caller's previous flush()
\* has been written and flushed.
THEOREM TwoFlushesDrain == Spec => SecondFlushDelivers
  <1>1. Init => TwoFlushes
    BY TwoFlushesInit
  <1>2. SinkInv /\ DeliveryInv /\ Kicks /\ TwoFlushes /\ [Next]_vars => TwoFlushes'
    BY TwoFlushesStep
  <1>3. SinkInv /\ TwoFlushes /\ [Next]_vars =>
          [\A c \in Producers : FlushReturnsTo(c) => Due(asked[c].before) \subseteq Flushed]_vars
    <2> SUFFICES ASSUME SinkInv, TwoFlushes, Next, NEW c \in Producers, FlushReturnsTo(c)
                 PROVE  Due(asked[c].before) \subseteq Flushed
      OBVIOUS
    <2>1. FlushTest(c)
      BY FlushReturnsFromTest
    <2>2. flushDoneGen >= gen[c] /\ pc[c] \in FlushPcs
      BY <2>1 DEF FlushTest, Served, FlushReturnsTo, SinkInv, TypeOK, FlushPcs
    <2>3. FlushedUpTo(asked[c].before)
      BY <2>2 DEF TwoFlushes, TwoFlushesOf
    <2> QED BY <2>3 DEF FlushedUpTo, Passed, Due, Flushed
  <1> QED BY <1>1, <1>2, <1>3, SinkInvariance, Delivery, KicksAreKept, PTL
          DEF Spec, SecondFlushDelivers
=============================================================================
