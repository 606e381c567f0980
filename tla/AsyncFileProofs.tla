---------------------------- MODULE AsyncFileProofs ----------------------------
(***************************************************************************)
(* A FileSink behind an AsyncSink, for any number of clients, records,     *)
(* failures and every capacity: what a flush() promised is on the disk,    *)
(* the lines of the file are in the order in which the queue accepted the  *)
(* records, and after an orderly shutdown the counters tell whether        *)
(* something is missing.                                                   *)
(***************************************************************************)
EXTENDS AsyncFile, AsyncSinkDeliveryProofs

Lines == [id : Nat, bytes : Nat, whole : BOOLEAN]
-----------------------------------------------------------------------------
(* Sequences of lines. *)

LEMMA WholeElements ==
  ASSUME NEW lines \in Seq(Lines), NEW y
  PROVE  y \in File!Whole(lines) <=> \E i \in 1 .. Len(lines) : lines[i].whole /\ lines[i].id = y
  BY LenProperties DEF File!Whole

LEMMA WholeOfConcat ==
  ASSUME NEW a \in Seq(Lines), NEW b \in Seq(Lines)
  PROVE  a \o b \in Seq(Lines) /\ File!Whole(a \o b) = File!Whole(a) \cup File!Whole(b)
  <1>1. /\ a \o b \in Seq(Lines) /\ Len(a \o b) = Len(a) + Len(b)
        /\ Len(a) \in Nat /\ Len(b) \in Nat
        /\ \A i \in 1 .. Len(a) + Len(b) : (a \o b)[i] = IF i <= Len(a) THEN a[i] ELSE b[i - Len(a)]
    BY ConcatProperties, LenProperties
  <1> DEFINE ab == a \o b
  <1>2. /\ ab \in Seq(Lines) /\ Len(ab) = Len(a) + Len(b)
        /\ \A i \in 1 .. Len(a) + Len(b) : ab[i] = IF i <= Len(a) THEN a[i] ELSE b[i - Len(a)]
    BY <1>1
  <1> HIDE DEF ab
  <1>3. ASSUME NEW y \in File!Whole(ab) PROVE y \in File!Whole(a) \cup File!Whole(b)
    <2>1. PICK i \in 1 .. Len(ab) : ab[i].whole /\ ab[i].id = y
      BY <1>2, <1>3, WholeElements
    <2>2. CASE i <= Len(a)
      <3>1. i \in 1 .. Len(a) /\ ab[i] = a[i]
        BY <1>1, <1>2, <2>1, <2>2
      <3> QED BY <2>1, <3>1, WholeElements
    <2>3. CASE ~(i <= Len(a))
      <3>1. i - Len(a) \in 1 .. Len(b) /\ ab[i] = b[i - Len(a)]
        BY <1>1, <1>2, <2>1, <2>3
      <3> QED BY <2>1, <3>1, WholeElements
    <2> QED BY <2>2, <2>3
  <1>4. ASSUME NEW y \in File!Whole(a) PROVE y \in File!Whole(ab)
    <2>1. PICK i \in 1 .. Len(a) : a[i].whole /\ a[i].id = y
      BY <1>4, WholeElements
    <2>2. i \in 1 .. Len(ab) /\ ab[i] = a[i]
      BY <1>1, <1>2, <2>1
    <2> QED BY <1>2, <2>1, <2>2, WholeElements
  <1>5. ASSUME NEW y \in File!Whole(b) PROVE y \in File!Whole(ab)
    <2>1. PICK i \in 1 .. Len(b) : b[i].whole /\ b[i].id = y
      BY <1>5, WholeElements
    <2>2. Len(a) + i \in 1 .. Len(ab) /\ ab[Len(a) + i] = b[i]
      <3>1. /\ Len(a) + i \in 1 .. Len(a) + Len(b) /\ ~(Len(a) + i <= Len(a))
            /\ (Len(a) + i) - Len(a) = i
        BY <1>1, <2>1
      <3> QED BY <1>2, <3>1
    <2> QED BY <1>2, <2>1, <2>2, WholeElements
  <1>6. File!Whole(ab) = File!Whole(a) \cup File!Whole(b)
    BY <1>3, <1>4, <1>5
  <1> QED BY <1>2, <1>6 DEF ab

\* A buffer is what a spill takes and what it leaves.
LEMMA WholeOfParts ==
  ASSUME NEW lines \in Seq(Lines), NEW k \in 0 .. Len(lines)
  PROVE  /\ SubSeq(lines, 1, k) \in Seq(Lines) /\ SubSeq(lines, k + 1, Len(lines)) \in Seq(Lines)
         /\ File!Whole(lines) = File!Whole(SubSeq(lines, 1, k)) \cup File!Whole(SubSeq(lines, k + 1, Len(lines)))
         /\ SubSeq(lines, 1, Len(lines)) = lines
  <1>1. Len(lines) \in Nat /\ k \in Nat /\ \A i \in 1 .. Len(lines) : lines[i] \in Lines
    BY LenProperties
  <1>2. SubSeq(lines, 1, k) \in Seq(Lines)
    <2>1. \A i \in 1 .. k : lines[i] \in Lines
      BY <1>1
    <2> QED BY <1>1, <2>1, SubSeqProperties
  <1>3. SubSeq(lines, k + 1, Len(lines)) \in Seq(Lines)
    <2>1. \A i \in k + 1 .. Len(lines) : lines[i] \in Lines
      BY <1>1
    <2> QED BY <1>1, <2>1, SubSeqProperties
  <1>4. SubSeq(lines, 1, k) \o SubSeq(lines, k + 1, Len(lines)) = SubSeq(lines, 1, Len(lines))
    <2>1. 1 \in 1 .. Len(lines) + 1 /\ k \in 1 - 1 .. Len(lines) /\ Len(lines) \in k .. Len(lines)
      BY <1>1
    <2> QED BY <2>1, ConcatAdjacentSubSeq
  <1>5. SubSeq(lines, 1, Len(lines)) = lines
    BY SubSeqFull
  <1>6. File!Whole(SubSeq(lines, 1, k) \o SubSeq(lines, k + 1, Len(lines))) =
          File!Whole(SubSeq(lines, 1, k)) \cup File!Whole(SubSeq(lines, k + 1, Len(lines)))
    BY <1>2, <1>3, WholeOfConcat
  <1> QED BY <1>2, <1>3, <1>4, <1>5, <1>6
\* What a failed call on the stream leaves of its lines: a part written, a part
\* still in the buffer and a part lost.
LEMMA WrittenKeptLost ==
  ASSUME NEW lines \in Seq(Lines), NEW m \in 0 .. Len(lines), NEW k \in 0 .. m
  PROVE  \E w \in Seq(Lines) :
           /\ SubSeq(lines, 1, k) \in Seq(Lines) /\ SubSeq(lines, k + 1, m) \in Seq(Lines)
           /\ SubSeq(lines, 1, m) = SubSeq(lines, 1, k) \o SubSeq(lines, k + 1, m)
           /\ lines = (SubSeq(lines, 1, k) \o SubSeq(lines, k + 1, m)) \o w
  <1>1. Len(lines) \in Nat /\ m \in Nat /\ k \in Nat /\ \A i \in 1 .. Len(lines) : lines[i] \in Lines
    BY LenProperties
  <1>2. k \in 0 .. Len(lines)
    BY <1>1
  <1>3. SubSeq(lines, 1, k) \in Seq(Lines)
    BY <1>2, WholeOfParts
  <1>4. SubSeq(lines, k + 1, m) \in Seq(Lines)
    <2>1. \A i \in k + 1 .. m : lines[i] \in Lines
      BY <1>1
    <2> QED BY <1>1, <2>1, SubSeqProperties
  <1>5. SubSeq(lines, 1, k) \o SubSeq(lines, k + 1, m) = SubSeq(lines, 1, m)
    <2>1. 1 \in 1 .. Len(lines) + 1 /\ k \in 1 - 1 .. Len(lines) /\ m \in k .. Len(lines)
      BY <1>1
    <2> QED BY <2>1, ConcatAdjacentSubSeq
  <1>6. /\ SubSeq(lines, m + 1, Len(lines)) \in Seq(Lines)
        /\ lines = SubSeq(lines, 1, m) \o SubSeq(lines, m + 1, Len(lines))
    <2>1. /\ SubSeq(lines, m + 1, Len(lines)) \in Seq(Lines) /\ SubSeq(lines, 1, Len(lines)) = lines
      BY WholeOfParts
    <2>2. 1 \in 1 .. Len(lines) + 1 /\ m \in 1 - 1 .. Len(lines) /\ Len(lines) \in m .. Len(lines)
      BY <1>1
    <2> QED BY <2>1, <2>2, ConcatAdjacentSubSeq
  <1> QED BY <1>3, <1>4, <1>5, <1>6
-----------------------------------------------------------------------------
(* The file and the buffer. *)

DiskOf(d, cs) == UNION { File!Whole(cs[d[n]]) : n \in DOMAIN d }

BufferOf(b) == UNION { File!Whole(b[s]) : s \in Sinks }

FilesOK(d, cs) ==
  /\ cs \in Seq(Seq(Lines)) /\ DOMAIN d \subseteq {File!Base}
  /\ d \in [DOMAIN d -> 1 .. Len(cs)]

\* Lines go to the end of the file.
Spilled(d, cs, lines, cs2) == cs2 = [cs EXCEPT ![d[File!Base]] = @ \o lines]

\* The file is created.
Created(d, cs, d2, cs2) ==
  /\ File!Base \notin DOMAIN d /\ cs2 = Append(cs, <<>>)
  /\ d2 = [n \in DOMAIN d \cup {File!Base} |-> IF n = File!Base THEN Len(cs) + 1 ELSE d[n]]

LEMMA DiskAfterSpill ==
  ASSUME NEW d, NEW cs, FilesOK(d, cs), File!Base \in DOMAIN d, NEW lines \in Seq(Lines), NEW cs2,
         Spilled(d, cs, lines, cs2)
  PROVE  FilesOK(d, cs2) /\ DiskOf(d, cs2) = DiskOf(d, cs) \cup File!Whole(lines)
  <1> DEFINE h == d[File!Base]
             more == cs[h] \o lines
  <1>1. cs \in Seq(Seq(Lines)) /\ DOMAIN d = {File!Base} /\ h \in 1 .. Len(cs)
    BY DEF FilesOK
  <1>2. cs[h] \in Seq(Lines)
    BY <1>1, ElementOfSeq
  <1>3. more \in Seq(Lines) /\ File!Whole(more) = File!Whole(cs[h]) \cup File!Whole(lines)
    BY <1>2, WholeOfConcat
  <1>4. cs2 = [cs EXCEPT ![h] = more]
    BY DEF Spilled
  <1> HIDE DEF more
  <1>5. cs2 \in Seq(Seq(Lines)) /\ Len(cs2) = Len(cs) /\ cs2[h] = more
    BY <1>1, <1>3, <1>4, ExceptSeq
  <1>6. FilesOK(d, cs2)
    BY <1>5 DEF FilesOK
  <1>7. DiskOf(d, cs2) = File!Whole(cs2[h]) /\ DiskOf(d, cs) = File!Whole(cs[h])
    BY <1>1 DEF DiskOf
  <1> QED BY <1>3, <1>5, <1>6, <1>7

LEMMA DiskAfterCreate ==
  ASSUME NEW d, NEW cs, FilesOK(d, cs), NEW d2, NEW cs2, Created(d, cs, d2, cs2)
  PROVE  /\ FilesOK(d2, cs2) /\ DiskOf(d2, cs2) = DiskOf(d, cs)
         /\ DOMAIN d2 = {File!Base} /\ d2[File!Base] = Len(cs) + 1
  <1>0. /\ cs2 = Append(cs, <<>>)
        /\ d2 = [n \in DOMAIN d \cup {File!Base} |-> IF n = File!Base THEN Len(cs) + 1 ELSE d[n]]
    BY DEF Created
  <1>1. cs \in Seq(Seq(Lines)) /\ DOMAIN d = {}
    BY DEF FilesOK, Created
  <1>2. <<>> \in Seq(Lines)
    OBVIOUS
  <1>3. /\ cs2 \in Seq(Seq(Lines)) /\ Len(cs2) = Len(cs) + 1 /\ Len(cs) \in Nat
        /\ cs2[Len(cs) + 1] = <<>>
    BY <1>0, <1>1, <1>2, AppendProperties, LenProperties
  <1>4. DOMAIN d2 = {File!Base} /\ d2[File!Base] = Len(cs) + 1
    BY <1>0, <1>1
  <1>5. d2 \in [DOMAIN d2 -> 1 .. Len(cs2)]
    <2>1. Len(cs) + 1 \in 1 .. Len(cs2)
      BY <1>3
    <2> QED BY <1>0, <1>1, <2>1
  <1>6. DiskOf(d2, cs2) = {} /\ DiskOf(d, cs) = {}
    <2>1. File!Whole(<<>>) = {}
      BY DEF File!Whole
    <2> QED BY <1>1, <1>3, <1>4, <2>1 DEF DiskOf
  <1> QED BY <1>3, <1>4, <1>5, <1>6 DEF FilesOK

LEMMA OneSink ==
  ASSUME NEW s \in Sinks
  PROVE  Sinks = {s} /\ \A b : BufferOf(b) = File!Whole(b[s])
  <1>1. Sinks = {s}
    BY AsyncFileAssumption
  <1> QED BY <1>1 DEF BufferOf

\* The types, the stream of a sink that is up, and no stream of one that is not.
FileTypes ==
  /\ FilesOK(dir, contents)
  /\ handle \in [Sinks -> Nat] /\ buffered \in [Sinks -> Seq(Lines)]
  /\ spc \in [Sinks -> {"down", "idle"}]
  /\ failures \in Nat /\ crashes \in Nat /\ lastId \in Nat /\ returned \in Seq(Nat)
  /\ \A s \in Sinks : spc[s] = "idle" =>
       File!Base \in DOMAIN dir /\ handle[s] = dir[File!Base] /\ handle[s] # File!NoFile
  /\ \A s \in Sinks : spc[s] = "down" => buffered[s] = <<>> /\ handle[s] = File!NoFile

Disk == DiskOf(dir, contents)

Buffer == BufferOf(buffered)

\* What the operations of the file sink do, as far as records go.
Opens ==
  /\ UNCHANGED <<returned, gone, lastId, crashes>>
  /\ Disk' = Disk /\ Buffer' = Buffer
  /\ failures' = failures \/ failures' = failures + 1

Appends ==
  /\ returned' = Append(returned, lastId + 1) /\ lastId' = lastId + 1
  /\ Disk' = Disk /\ Buffer' = Buffer \cup {lastId + 1}
  /\ UNCHANGED <<gone, spc, crashes, failures>>

\* A failed call keeps a line on the disk, in the buffer or among those that are gone.
Breaks ==
  /\ failures' = failures + 1
  /\ Disk \subseteq Disk' /\ Disk' \cup Buffer' \cup gone' = Disk \cup Buffer \cup gone
  /\ UNCHANGED <<returned, spc, crashes>>

Tears == Breaks /\ lastId' = lastId + 1

Syncs ==
  /\ Disk' = Disk \cup Buffer /\ Buffer' = {}
  /\ UNCHANGED <<returned, gone, lastId, spc, crashes, failures>>

SyncFails == Breaks /\ lastId' = lastId

GoesDown ==
  /\ Disk \subseteq Disk' /\ Disk' \cup gone' = Disk \cup Buffer \cup gone /\ Buffer' = {}
  /\ \A s \in Sinks : spc[s] = "idle" /\ spc'[s] = "down"
  /\ UNCHANGED <<returned, lastId>>

LEMMA ConstructIs ==
  ASSUME FileTypes, NEW s \in Sinks, File!Construct(s)
  PROVE  FileTypes' /\ Opens
  <1>0. /\ FilesOK(dir, contents) /\ Sinks = {s} /\ spc[s] = "down" /\ buffered[s] = <<>>
        /\ handle \in [Sinks -> Nat] /\ spc \in [Sinks -> {"down", "idle"}] /\ failures \in Nat
        /\ UNCHANGED <<buffered, crashes, lastId, returned, gone>>
    BY OneSink DEF FileTypes, File!Construct, File!OpenLocked, File!OpenFails
  <1>1. Buffer' = Buffer
    BY <1>0 DEF Buffer
  <1>2. CASE File!OpenLocked(s) /\ File!Goto(s, "idle")
    <2>1. spc' = [spc EXCEPT ![s] = "idle"] /\ (failures' = failures \/ failures' = failures + 1)
      BY <1>2 DEF File!Goto, File!OpenLocked, File!SizeAtOpen, File!Fails
    <2>2. /\ FilesOK(dir', contents') /\ Disk' = Disk /\ File!Base \in DOMAIN dir'
          /\ handle' = [handle EXCEPT ![s] = dir'[File!Base]]
      <3>1. CASE File!Base \in DOMAIN dir
        BY <1>0, <1>2, <3>1 DEF File!OpenLocked, Disk
      <3>2. CASE File!Base \notin DOMAIN dir
        <4>1. /\ contents' = Append(contents, <<>>)
              /\ dir' = [n \in DOMAIN dir \cup {File!Base} |->
                           IF n = File!Base THEN Len(contents) + 1 ELSE dir[n]]
              /\ handle' = [handle EXCEPT ![s] = Len(contents) + 1]
          BY <1>2, <3>2 DEF File!OpenLocked
        <4>2. /\ FilesOK(dir', contents') /\ DiskOf(dir', contents') = DiskOf(dir, contents)
              /\ DOMAIN dir' = {File!Base} /\ dir'[File!Base] = Len(contents) + 1
          <5>1. FilesOK(dir, contents) /\ Created(dir, contents, dir', contents')
            BY <1>0, <3>2, <4>1 DEF Created
          <5> QED BY ONLY <4>1, <5>1, DiskAfterCreate
        <4> QED BY <4>1, <4>2 DEF Disk
      <3> QED BY <3>1, <3>2
    <2>3. dir'[File!Base] \in Nat \ {0}
      <3>1. dir'[File!Base] \in 1 .. Len(contents') /\ Len(contents') \in Nat
        BY <2>2, LenProperties DEF FilesOK
      <3> QED BY <3>1
    <2>4. /\ handle' \in [Sinks -> Nat] /\ handle'[s] = dir'[File!Base] /\ handle'[s] # 0
          /\ spc' \in [Sinks -> {"down", "idle"}] /\ spc'[s] = "idle"
      BY <1>0, <2>1, <2>2, <2>3
    <2>5. failures' \in Nat
      BY <1>0, <2>1
    <2>6. FileTypes'
      BY <1>0, <2>2, <2>4, <2>5 DEF FileTypes, File!NoFile
    <2> QED BY <1>0, <1>1, <2>1, <2>2, <2>6 DEF Opens
  <1>3. CASE File!OpenFails(s) /\ UNCHANGED spc
    <2>1. /\ handle' = [handle EXCEPT ![s] = 0] /\ UNCHANGED <<dir, contents, spc>>
          /\ failures' = failures + 1
      BY <1>3 DEF File!OpenFails, File!Fails, File!NoFile
    <2>2. handle' \in [Sinks -> Nat] /\ handle'[s] = 0
      BY <1>0, <2>1
    <2>3. FileTypes'
      BY <1>0, <2>1, <2>2 DEF FileTypes, File!NoFile
    <2> QED BY <1>0, <1>1, <2>1, <2>3 DEF Opens, Disk
  <1> QED BY <1>2, <1>3 DEF File!Construct

LEMMA WholeOfAppend ==
  ASSUME NEW a \in Seq(Lines), NEW x \in Lines, x.whole
  PROVE  Append(a, x) \in Seq(Lines) /\ File!Whole(Append(a, x)) = File!Whole(a) \cup {x.id}
  <1>1. Append(a, x) = a \o <<x>> /\ <<x>> \in Seq(Lines)
    BY AppendIsConcat
  <1>2. File!Whole(<<x>>) = {x.id}
    BY DEF File!Whole
  <1>3. a \o <<x>> \in Seq(Lines) /\ File!Whole(a \o <<x>>) = File!Whole(a) \cup File!Whole(<<x>>)
    BY <1>1, WholeOfConcat
  <1> QED BY <1>1, <1>2, <1>3

LEMMA WholeOfTorn ==
  ASSUME NEW a \in Seq(Lines), NEW x \in Lines, ~x.whole
  PROVE  Append(a, x) \in Seq(Lines) /\ File!Whole(Append(a, x)) = File!Whole(a)
  <1>1. Append(a, x) = a \o <<x>> /\ <<x>> \in Seq(Lines)
    BY AppendIsConcat
  <1>2. File!Whole(<<x>>) = {}
    BY DEF File!Whole
  <1>3. a \o <<x>> \in Seq(Lines) /\ File!Whole(a \o <<x>>) = File!Whole(a) \cup File!Whole(<<x>>)
    BY <1>1, WholeOfConcat
  <1> QED BY <1>1, <1>2, <1>3

\* A call on the stream has failed: u is in the file, v in the buffer and w lost.
Broken(s, lines, u, v, w) ==
  /\ lines = (u \o v) \o w
  /\ Spilled(dir, contents, u, contents')
  /\ buffered' = [buffered EXCEPT ![s] = v]
  /\ gone' = gone \cup (File!Whole(lines) \ File!Whole(u \o v))
  /\ UNCHANGED <<dir, handle, returned>>

\* The lines that a stream had to write: those of the buffer, and maybe a torn one.
ToWrite(s, x, lines) ==
  \/ lines = buffered[s]
  \/ \E torn \in Lines : torn.id = x /\ ~torn.whole /\ lines = Append(buffered[s], torn)

LEMMA StreamBreaks ==
  ASSUME FileTypes, NEW s \in Sinks, spc[s] = "idle", NEW lines \in Seq(Lines), File!StreamFails(s, lines)
  PROVE  \E u, v, w \in Seq(Lines) : Broken(s, lines, u, v, w)
  <1>0. handle[s] = dir[File!Base] /\ Len(lines) \in Nat
    BY LenProperties DEF FileTypes
  <1>1. PICK m \in 0 .. Len(lines) : \E k \in 0 .. m :
          /\ contents' = [contents EXCEPT ![handle[s]] = @ \o SubSeq(lines, 1, k)]
          /\ buffered' = [buffered EXCEPT ![s] = SubSeq(lines, k + 1, m)]
          /\ gone' = gone \cup (File!Whole(lines) \ File!Whole(SubSeq(lines, 1, m)))
    BY DEF File!StreamFails
  <1>2. PICK k \in 0 .. m :
          /\ contents' = [contents EXCEPT ![handle[s]] = @ \o SubSeq(lines, 1, k)]
          /\ buffered' = [buffered EXCEPT ![s] = SubSeq(lines, k + 1, m)]
          /\ gone' = gone \cup (File!Whole(lines) \ File!Whole(SubSeq(lines, 1, m)))
    BY <1>1
  <1> DEFINE u == SubSeq(lines, 1, k)
             v == SubSeq(lines, k + 1, m)
             um == SubSeq(lines, 1, m)
  <1>3. PICK w \in Seq(Lines) : u \in Seq(Lines) /\ v \in Seq(Lines) /\ um = u \o v /\ lines = (u \o v) \o w
    BY WrittenKeptLost
  <1>4. /\ contents' = [contents EXCEPT ![dir[File!Base]] = @ \o u]
        /\ buffered' = [buffered EXCEPT ![s] = v]
        /\ gone' = gone \cup (File!Whole(lines) \ File!Whole(um))
    BY <1>0, <1>2
  <1>5. UNCHANGED <<dir, handle, returned>>
    BY DEF File!StreamFails
  <1> HIDE DEF u, v, um
  <1>6. Broken(s, lines, u, v, w)
    BY <1>3, <1>4, <1>5 DEF Broken, Spilled
  <1> QED BY <1>3, <1>6

LEMMA BrokenIs ==
  ASSUME FileTypes, NEW s \in Sinks, spc[s] = "idle", NEW x, NEW lines, ToWrite(s, x, lines),
         NEW u \in Seq(Lines), NEW v \in Seq(Lines), NEW w \in Seq(Lines), Broken(s, lines, u, v, w),
         UNCHANGED <<spc, crashes>>, failures' = failures + 1, lastId' \in Nat
  PROVE  FileTypes' /\ Breaks
  <1>0. /\ Sinks = {s} /\ buffered \in [Sinks -> Seq(Lines)] /\ buffered[s] \in Seq(Lines)
        /\ \A b : BufferOf(b) = File!Whole(b[s])
        /\ FilesOK(dir, contents) /\ File!Base \in DOMAIN dir /\ failures \in Nat
    BY OneSink DEF FileTypes
  <1>1. File!Whole(lines) = Buffer
    <2>1. CASE lines = buffered[s]
      BY <1>0, <2>1 DEF Buffer
    <2>2. CASE \E torn \in Lines : torn.id = x /\ ~torn.whole /\ lines = Append(buffered[s], torn)
      BY <1>0, <2>2, WholeOfTorn DEF Buffer
    <2> QED BY <2>1, <2>2 DEF ToWrite
  <1>2. /\ Spilled(dir, contents, u, contents') /\ buffered' = [buffered EXCEPT ![s] = v]
        /\ UNCHANGED <<dir, handle, returned>>
        /\ lines = (u \o v) \o w /\ gone' = gone \cup (File!Whole(lines) \ File!Whole(u \o v))
    BY DEF Broken
  <1>3. FilesOK(dir, contents') /\ DiskOf(dir, contents') = DiskOf(dir, contents) \cup File!Whole(u)
    BY ONLY <1>0, <1>2, u \in Seq(Lines), DiskAfterSpill
  <1>4. buffered' \in [Sinks -> Seq(Lines)] /\ buffered'[s] = v
    BY <1>0, <1>2
  <1>5. Disk' = Disk \cup File!Whole(u) /\ Buffer' = File!Whole(v)
    BY <1>0, <1>2, <1>3, <1>4 DEF Disk, Buffer
  <1>6. /\ u \o v \in Seq(Lines) /\ File!Whole(u \o v) = File!Whole(u) \cup File!Whole(v)
    BY WholeOfConcat
  <1>7. File!Whole(lines) = File!Whole(u) \cup File!Whole(v) \cup File!Whole(w)
    <2> DEFINE uv == u \o v
    <2>1. uv \in Seq(Lines) /\ File!Whole(uv) = File!Whole(u) \cup File!Whole(v) /\ lines = uv \o w
      BY <1>2, <1>6
    <2> HIDE DEF uv
    <2>2. File!Whole(lines) = File!Whole(uv) \cup File!Whole(w)
      BY ONLY <2>1, w \in Seq(Lines), WholeOfConcat
    <2> QED BY <2>1, <2>2
  <1>8. Disk \subseteq Disk' /\ Disk' \cup Buffer' \cup gone' = Disk \cup Buffer \cup gone
    BY ONLY <1>1, <1>2, <1>5, <1>6, <1>7
  <1>9. failures' \in Nat /\ FilesOK(dir', contents')
    BY <1>0, <1>2, <1>3
  <1>10. FileTypes'
    BY <1>2, <1>4, <1>9 DEF FileTypes
  <1> QED BY <1>2, <1>8, <1>10 DEF Breaks

LEMMA WriteThrowsIs ==
  ASSUME FileTypes, NEW s \in Sinks, spc[s] = "idle", NEW x \in Lines, File!WriteLineThrows(s, x)
  PROVE  /\ failures' = failures + 1
         /\ \E lines \in Seq(Lines) : ToWrite(s, x.id, lines) /\ File!StreamFails(s, lines)
  <1>0. handle[s] # File!NoFile /\ buffered[s] \in Seq(Lines) /\ x.bytes \in Nat
    BY DEF FileTypes, Lines
  <1>1. /\ failures' = failures + 1
        /\ \E n \in 0 .. x.bytes - 1 :
             File!StreamFails(s, IF n = 0 THEN buffered[s]
                                 ELSE Append(buffered[s], [x EXCEPT !.bytes = n, !.whole = FALSE]))
    BY <1>0 DEF File!WriteLineThrows, File!Fails, File!NoStream
  <1>2. PICK n \in 0 .. x.bytes - 1 :
          File!StreamFails(s, IF n = 0 THEN buffered[s]
                              ELSE Append(buffered[s], [x EXCEPT !.bytes = n, !.whole = FALSE]))
    BY <1>1
  <1>3. CASE n = 0
    BY <1>0, <1>1, <1>2, <1>3 DEF ToWrite
  <1>4. CASE n # 0
    <2> DEFINE torn == [x EXCEPT !.bytes = n, !.whole = FALSE]
    <2>1. torn \in Lines /\ torn.id = x.id /\ ~torn.whole
      <3>1. n \in Nat
        BY <1>0
      <3> QED BY ONLY x \in Lines, <3>1 DEF Lines, torn
    <2>2. File!StreamFails(s, Append(buffered[s], torn))
      BY <1>2, <1>4
    <2> HIDE DEF torn
    <2>3. Append(buffered[s], torn) \in Seq(Lines)
      BY <1>0, <2>1, AppendProperties
    <2> QED BY <1>1, <2>1, <2>2, <2>3 DEF ToWrite
  <1> QED BY <1>3, <1>4

LEMMA WriteIs ==
  ASSUME FileTypes, NEW s \in Sinks, File!Write(s, 2)
  PROVE  FileTypes' /\ (Appends \/ Tears)
  <1> DEFINE x == File!NewLine(2)
  <1>0. /\ spc[s] = "idle" /\ lastId' = lastId + 1 /\ UNCHANGED <<spc, crashes>>
        /\ File!WriteLineLocked(s, x) \/ File!WriteLineThrows(s, x)
    BY DEF File!Write
  <1>1. /\ x \in Lines /\ x.id = lastId + 1 /\ x.whole /\ x.bytes = 2
    BY DEF Lines, File!NewLine, FileTypes
  <1>2. /\ Sinks = {s} /\ handle[s] # File!NoFile /\ buffered \in [Sinks -> Seq(Lines)]
        /\ returned \in Seq(Nat) /\ lastId \in Nat /\ failures \in Nat
        /\ \A b : BufferOf(b) = File!Whole(b[s])
    BY <1>0, OneSink DEF FileTypes
  <1> HIDE DEF x
  <1>3. CASE File!WriteLineLocked(s, x)
    <2>1. /\ buffered' = [buffered EXCEPT ![s] = Append(buffered[s], x)]
          /\ returned' = Append(returned, lastId + 1)
          /\ UNCHANGED <<dir, contents, handle, failures, gone>>
      BY <1>1, <1>3 DEF File!WriteLineLocked
    <2>2. /\ Append(buffered[s], x) \in Seq(Lines)
          /\ File!Whole(Append(buffered[s], x)) = File!Whole(buffered[s]) \cup {lastId + 1}
      BY <1>1, <1>2, WholeOfAppend
    <2>3. buffered' \in [Sinks -> Seq(Lines)] /\ buffered'[s] = Append(buffered[s], x)
      BY <1>2, <2>1, <2>2
    <2>4. returned' \in Seq(Nat) /\ lastId' \in Nat
      BY <1>0, <1>2, <2>1, AppendProperties
    <2>5. Buffer' = Buffer \cup {lastId + 1} /\ Disk' = Disk
      BY <1>2, <2>1, <2>2, <2>3 DEF Buffer, Disk
    <2>6. FileTypes'
      BY <1>0, <1>2, <2>1, <2>3, <2>4 DEF FileTypes
    <2> QED BY <1>0, <2>1, <2>5, <2>6 DEF Appends
  <1>4. CASE File!WriteLineThrows(s, x)
    <2>1. PICK lines \in Seq(Lines) : ToWrite(s, x.id, lines) /\ File!StreamFails(s, lines)
      BY <1>0, <1>1, <1>4, WriteThrowsIs
    <2>2. PICK u \in Seq(Lines), v \in Seq(Lines), w \in Seq(Lines) : Broken(s, lines, u, v, w)
      BY <1>0, <2>1, StreamBreaks
    <2>3. failures' = failures + 1 /\ lastId' \in Nat
      BY <1>0, <1>1, <1>2, <1>4, WriteThrowsIs
    <2>4. FileTypes' /\ Breaks
      BY <1>0, <2>1, <2>2, <2>3, BrokenIs
    <2> QED BY <1>0, <2>4 DEF Tears
  <1> QED BY <1>0, <1>3, <1>4

\* The first lines of the buffer reach the file.
LEMMA SpillIs ==
  ASSUME FileTypes, NEW s \in Sinks, spc[s] = "idle", NEW k \in 0 .. Len(buffered[s]), File!Spill(s, k),
         UNCHANGED dir
  PROVE  /\ FilesOK(dir', contents')
         /\ Disk' = Disk \cup File!Whole(SubSeq(buffered[s], 1, k))
         /\ SubSeq(buffered[s], k + 1, Len(buffered[s])) \in Seq(Lines)
         /\ Buffer = File!Whole(SubSeq(buffered[s], 1, k)) \cup
                       File!Whole(SubSeq(buffered[s], k + 1, Len(buffered[s])))
         /\ SubSeq(buffered[s], 1, Len(buffered[s])) = buffered[s]
         /\ Buffer = File!Whole(buffered[s])
  <1> DEFINE b == buffered[s]
  <1>1. /\ FilesOK(dir, contents) /\ File!Base \in DOMAIN dir /\ handle[s] = dir[File!Base]
        /\ b \in Seq(Lines)
    BY DEF FileTypes
  <1>2. Buffer = File!Whole(b)
    BY OneSink DEF Buffer
  <1>3. /\ SubSeq(b, 1, k) \in Seq(Lines) /\ SubSeq(b, k + 1, Len(b)) \in Seq(Lines)
        /\ File!Whole(b) = File!Whole(SubSeq(b, 1, k)) \cup File!Whole(SubSeq(b, k + 1, Len(b)))
        /\ SubSeq(b, 1, Len(b)) = b
    BY <1>1, WholeOfParts
  <1> DEFINE part == SubSeq(b, 1, k)
  <1>4. Spilled(dir, contents, part, contents')
    BY <1>1 DEF File!Spill, Spilled
  <1>5. part \in Seq(Lines)
    BY <1>3
  <1> HIDE DEF part
  <1>6. FilesOK(dir, contents') /\ DiskOf(dir, contents') = DiskOf(dir, contents) \cup File!Whole(part)
    BY <1>1, <1>4, <1>5, DiskAfterSpill
  <1> QED BY <1>2, <1>3, <1>6 DEF Disk, part

LEMMA FlushIs ==
  ASSUME FileTypes, NEW s \in Sinks, File!Flush(s)
  PROVE  FileTypes' /\ (Syncs \/ SyncFails)
  <1>0. /\ spc[s] = "idle" /\ UNCHANGED <<spc, crashes, lastId>>
        /\ File!FlushLocked(s) \/ File!FlushThrows(s)
    BY DEF File!Flush
  <1>1. /\ Sinks = {s} /\ handle[s] # File!NoFile /\ buffered \in [Sinks -> Seq(Lines)]
        /\ \A b : BufferOf(b) = File!Whole(b[s])
        /\ Len(buffered[s]) \in Nat /\ failures \in Nat
    BY <1>0, OneSink, LenProperties DEF FileTypes
  <1>2. CASE File!FlushLocked(s)
    <2>1. /\ File!Spill(s, Len(buffered[s])) /\ buffered' = [buffered EXCEPT ![s] = <<>>]
          /\ UNCHANGED <<dir, handle, failures, returned, gone>>
      BY <1>2 DEF File!FlushLocked
    <2>2. Len(buffered[s]) \in 0 .. Len(buffered[s])
      BY <1>1
    <2>3. FilesOK(dir', contents') /\ Disk' = Disk \cup Buffer
      BY <1>0, <2>1, <2>2, SpillIs
    <2>4. buffered' \in [Sinks -> Seq(Lines)] /\ buffered'[s] = <<>>
      <3>1. <<>> \in Seq(Lines)
        OBVIOUS
      <3> QED BY <1>1, <2>1, <3>1
    <2>5. Buffer' = {}
      <3>1. File!Whole(<<>>) = {}
        BY DEF File!Whole
      <3> QED BY <1>1, <2>4, <3>1 DEF Buffer
    <2>6. FileTypes'
      BY <1>0, <1>1, <2>1, <2>3, <2>4 DEF FileTypes
    <2> QED BY <1>0, <2>1, <2>3, <2>5, <2>6 DEF Syncs
  <1>3. CASE File!FlushThrows(s)
    <2>1. failures' = failures + 1 /\ File!StreamFails(s, buffered[s]) /\ buffered[s] \in Seq(Lines)
      BY <1>1, <1>3 DEF File!FlushThrows, File!Fails, File!NoStream
    <2>2. PICK u \in Seq(Lines), v \in Seq(Lines), w \in Seq(Lines) : Broken(s, buffered[s], u, v, w)
      BY <1>0, <2>1, StreamBreaks
    <2>3. lastId' \in Nat /\ ToWrite(s, 0, buffered[s])
      BY <1>0 DEF FileTypes, ToWrite
    <2>4. FileTypes' /\ Breaks
      BY <1>0, <2>1, <2>2, <2>3, BrokenIs
    <2> QED BY <1>0, <2>4 DEF SyncFails
  <1> QED BY <1>0, <1>2, <1>3

LEMMA DropIs ==
  ASSUME FileTypes, NEW s \in Sinks, spc[s] = "idle", NEW k \in 0 .. Len(buffered[s]),
         File!DropStream(s, k), File!Goto(s, "down"), UNCHANGED lastId,
         failures' \in Nat, crashes' \in Nat
  PROVE  FileTypes' /\ GoesDown /\ (k = Len(buffered[s]) => gone' = gone /\ Disk' = Disk \cup Buffer)
  <1>1. /\ Sinks = {s} /\ handle[s] # File!NoFile /\ buffered \in [Sinks -> Seq(Lines)]
        /\ handle \in [Sinks -> Nat] /\ spc \in [Sinks -> {"down", "idle"}]
        /\ \A b : BufferOf(b) = File!Whole(b[s])
    BY OneSink DEF FileTypes
  <1>2. /\ File!Spill(s, k) /\ UNCHANGED <<dir, returned>>
        /\ gone' = gone \cup (File!Whole(buffered[s]) \ File!Whole(SubSeq(buffered[s], 1, k)))
        /\ handle' = [handle EXCEPT ![s] = File!NoFile]
        /\ buffered' = [buffered EXCEPT ![s] = <<>>]
        /\ spc' = [spc EXCEPT ![s] = "down"]
    BY <1>1 DEF File!DropStream, File!Goto
  <1>3. /\ FilesOK(dir', contents')
        /\ Disk' = Disk \cup File!Whole(SubSeq(buffered[s], 1, k))
        /\ Buffer = File!Whole(SubSeq(buffered[s], 1, k)) \cup
                      File!Whole(SubSeq(buffered[s], k + 1, Len(buffered[s])))
        /\ Buffer = File!Whole(buffered[s])
        /\ SubSeq(buffered[s], 1, Len(buffered[s])) = buffered[s]
    BY <1>2, SpillIs
  <1>4. /\ buffered' \in [Sinks -> Seq(Lines)] /\ buffered'[s] = <<>>
        /\ handle' \in [Sinks -> Nat] /\ handle'[s] = File!NoFile
        /\ spc' \in [Sinks -> {"down", "idle"}] /\ spc'[s] = "down"
    <2>1. <<>> \in Seq(Lines) /\ File!NoFile \in Nat
      BY DEF File!NoFile
    <2>2. buffered' \in [Sinks -> Seq(Lines)] /\ buffered'[s] = <<>>
      BY <1>1, <1>2, <2>1
    <2>3. handle' \in [Sinks -> Nat] /\ handle'[s] = File!NoFile
      BY <1>1, <1>2, <2>1
    <2>4. spc' \in [Sinks -> {"down", "idle"}] /\ spc'[s] = "down"
      BY <1>1, <1>2
    <2> QED BY <2>2, <2>3, <2>4
  <1>5. Buffer' = {}
    <2>1. File!Whole(<<>>) = {}
      BY DEF File!Whole
    <2> QED BY <1>1, <1>4, <2>1 DEF Buffer
  <1>6. Disk \subseteq Disk' /\ Disk' \cup gone' = Disk \cup Buffer \cup gone
    BY <1>2, <1>3
  <1>7. k = Len(buffered[s]) => gone' = gone /\ Disk' = Disk \cup Buffer
    BY <1>2, <1>3
  <1>8. FileTypes'
    BY <1>1, <1>2, <1>3, <1>4 DEF FileTypes
  <1> QED BY <1>1, <1>2, <1>4, <1>5, <1>6, <1>7, <1>8 DEF GoesDown

LEMMA DestroyIs ==
  ASSUME FileTypes, NEW s \in Sinks, File!Destroy(s)
  PROVE  /\ FileTypes' /\ GoesDown /\ UNCHANGED crashes
         /\ \/ failures' = failures /\ gone' = gone /\ Disk' = Disk \cup Buffer
            \/ failures' = failures + 1
  <1>0. /\ spc[s] = "idle" /\ File!CloseLocked(s) /\ File!Goto(s, "down") /\ UNCHANGED <<crashes, lastId>>
        /\ failures \in Nat /\ crashes \in Nat /\ Len(buffered[s]) \in Nat
    BY LenProperties DEF File!Destroy, FileTypes
  <1>1. CASE File!DropStream(s, Len(buffered[s])) /\ UNCHANGED failures
    <2>1. Len(buffered[s]) \in 0 .. Len(buffered[s])
      BY <1>0
    <2> QED BY <1>0, <1>1, <2>1, DropIs
  <1>2. CASE \E k \in 0 .. Len(buffered[s]) : failures' = failures + 1 /\ File!DropStream(s, k)
    BY <1>0, <1>2, DropIs
  <1> QED BY <1>0, <1>1, <1>2 DEF File!CloseLocked, File!Fails

LEMMA CrashIs ==
  ASSUME FileTypes, NEW s \in Sinks, File!Crash(s)
  PROVE  FileTypes' /\ GoesDown /\ UNCHANGED failures /\ crashes' = crashes + 1
  <1>0. /\ spc[s] = "idle" /\ File!Goto(s, "down") /\ UNCHANGED <<failures, lastId>>
        /\ crashes' = crashes + 1 /\ failures \in Nat /\ crashes \in Nat
        /\ \E k \in 0 .. Len(buffered[s]) : File!DropStream(s, k)
    BY DEF File!Crash, FileTypes
  <1>1. failures' \in Nat /\ crashes' \in Nat
    BY <1>0
  <1> QED BY <1>0, <1>1, DropIs
-----------------------------------------------------------------------------
(* A step of the two. *)

Up == \A s \in Sinks : spc[s] = "idle"

Down == \A s \in Sinks : spc[s] = "down"

LEMMA UpOrDown ==
  ASSUME NEW s \in Sinks
  PROVE  (Up <=> spc[s] = "idle") /\ (Down <=> spc[s] = "down")
  BY OneSink DEF Up, Down

Constructed == Opens /\ opc = "alive" /\ crashes = 0 /\ Down /\ UNCHANGED <<vars, promiseVars>>

Wrote ==
  /\ Up /\ WorkerWrite /\ UNCHANGED promised
  /\ \/ Appends /\ sinkFailures' = sinkFailures /\ clean' = clean \cup {lastId + 1}
     \/ Tears /\ sinkFailures' = sinkFailures + 1 /\ clean' = {}

Synced ==
  /\ Up /\ WorkerFlush /\ UNCHANGED promised
  /\ \/ Syncs /\ sinkFailures' = sinkFailures /\ clean' = clean
     \/ SyncFails /\ sinkFailures' = sinkFailures + 1 /\ clean' = {}

Ended ==
  /\ GoesDown /\ UNCHANGED <<vars, promiseVars>>
  /\ \/ crashes' = crashes + 1 /\ failures' = failures
     \/ opc = "joined" /\ crashes' = crashes /\ failures' = failures /\ gone' = gone
        /\ Disk' = Disk \cup Buffer
     \/ opc = "joined" /\ crashes' = crashes /\ failures' = failures + 1

\* The file is left alone.
Apart ==
  /\ UNCHANGED fileVars
  /\ \/ UNCHANGED <<vars, promiseVars>>
     \/ /\ Up
        /\ \/ \E c \in Producers : EndFlush(c)
           \/ OwnStep /\ UNCHANGED promiseVars

LEMMA FileStepKinds ==
  ASSUME SinkInv, FileTypes, [FileNext]_allVars
  PROVE  FileTypes' /\ (Constructed \/ Wrote \/ Synced \/ Ended \/ Apart)
  <1>0. sinkFailures \in Nat /\ failures \in Nat
    BY DEF SinkInv, TypeOK, FileTypes
  <1>1. ASSUME UNCHANGED fileVars PROVE FileTypes'
    BY <1>1 DEF FileTypes, fileVars
  <1>2. CASE UNCHANGED allVars
    <2>1. UNCHANGED <<vars, fileVars, promiseVars>>
      BY <1>2 DEF allVars
    <2> QED BY <1>1, <2>1 DEF Apart
  <1>3. CASE FileNext
    <2> PICK s \in Sinks :
          \/ ConstructFile(s) \/ DestroyFile(s) \/ Die(s)
          \/ /\ spc[s] = "idle"
             /\ \/ WriteToFile(s)
                \/ FlushFile(s)
                \/ \E c \in Producers : EndFlush(c)
                \/ OwnStep /\ UNCHANGED <<fileVars, promiseVars>>
      BY <1>3 DEF FileNext
    <2>1. CASE ConstructFile(s)
      <3>1. FileTypes' /\ Opens
        BY <2>1, ConstructIs DEF ConstructFile
      <3>2. Down
        BY <2>1, UpOrDown DEF ConstructFile, File!Construct
      <3> QED BY <2>1, <3>1, <3>2 DEF ConstructFile, Constructed
    <2>2. CASE DestroyFile(s)
      BY <2>2, DestroyIs DEF DestroyFile, Ended
    <2>3. CASE Die(s)
      BY <2>3, CrashIs DEF Die, Ended
    <2>4. CASE spc[s] = "idle" /\ WriteToFile(s)
      <3>1. FileTypes' /\ (Appends \/ Tears)
        BY <2>4, WriteIs DEF WriteToFile
      <3>2. sinkFailures' \in Nat
        BY <1>0, <2>4 DEF WriteToFile, WorkerWrite, WrappedCall
      <3>3. /\ Appends => sinkFailures' = sinkFailures /\ failures' = failures /\ lastId' = lastId + 1
            /\ Tears => sinkFailures' = sinkFailures + 1 /\ failures' # failures
        <4>1. /\ Appends => failures' = failures /\ lastId' = lastId + 1
              /\ Tears => failures' = failures + 1
          BY DEF Appends, Tears, Breaks
        <4>2. sinkFailures' - sinkFailures = failures' - failures
          BY <2>4 DEF WriteToFile, Linked
        <4> QED BY <1>0, <3>2, <4>1, <4>2
      <3>4. /\ Appends => clean' = clean \cup {lastId + 1}
            /\ Tears => clean' = {}
        BY <2>4, <3>3 DEF WriteToFile
      <3> QED BY <2>4, <3>1, <3>3, <3>4, UpOrDown DEF Wrote, WriteToFile
    <2>5. CASE spc[s] = "idle" /\ FlushFile(s)
      <3>1. FileTypes' /\ (Syncs \/ SyncFails)
        BY <2>5, FlushIs DEF FlushFile
      <3>2. sinkFailures' \in Nat
        BY <1>0, <2>5 DEF FlushFile, WorkerFlush, WrappedCall
      <3>3. /\ Syncs => sinkFailures' = sinkFailures /\ failures' = failures
            /\ SyncFails => sinkFailures' = sinkFailures + 1 /\ failures' # failures
        <4>1. /\ Syncs => failures' = failures
              /\ SyncFails => failures' = failures + 1
          BY DEF Syncs, SyncFails, Breaks
        <4>2. sinkFailures' - sinkFailures = failures' - failures
          BY <2>5 DEF FlushFile, Linked
        <4> QED BY <1>0, <3>2, <4>1, <4>2
      <3>4. /\ Syncs => clean' = clean
            /\ SyncFails => clean' = {}
        BY <2>5, <3>3 DEF FlushFile
      <3> QED BY <2>5, <3>1, <3>3, <3>4, UpOrDown DEF Synced, FlushFile
    <2>6. CASE spc[s] = "idle" /\ \E c \in Producers : EndFlush(c)
      <3>1. UNCHANGED fileVars
        BY <2>6 DEF EndFlush
      <3> QED BY <1>1, <2>6, <3>1, UpOrDown DEF Apart
    <2>7. CASE spc[s] = "idle" /\ OwnStep /\ UNCHANGED <<fileVars, promiseVars>>
      BY <1>1, <2>7, UpOrDown DEF Apart
    <2> QED BY <2>1, <2>2, <2>3, <2>4, <2>5, <2>6, <2>7
  <1> QED BY <1>2, <1>3

\* A step of the two is a step of the AsyncSink.
LEMMA FileStepIsSinkStep == [FileNext]_allVars => [Next]_vars
  <1> SUFFICES ASSUME [FileNext]_allVars PROVE Next \/ UNCHANGED vars
    OBVIOUS
  <1>1. CASE UNCHANGED allVars
    BY <1>1 DEF allVars
  <1>2. ASSUME NEW s \in Sinks, ConstructFile(s) \/ DestroyFile(s) \/ Die(s) PROVE UNCHANGED vars
    BY <1>2 DEF ConstructFile, DestroyFile, Die
  <1>3. ASSUME NEW s \in Sinks, WriteToFile(s) \/ FlushFile(s) PROVE Next
    BY <1>3 DEF WriteToFile, FlushFile, Next, WorkerStep
  <1>4. ASSUME NEW c \in Producers, EndFlush(c) PROVE Next
    BY <1>4 DEF EndFlush, Next, ClientStep
  <1>5. ASSUME OwnStep PROVE Next
    BY <1>5 DEF OwnStep, Next, ClientCall, ClientStep, WorkerStep
  <1>6. CASE FileNext
    BY <1>2, <1>3, <1>4, <1>5, <1>6 DEF FileNext
  <1> QED BY <1>1, <1>6

\* A FileSink behind an AsyncSink is an AsyncSink: its worker calls the wrapped sink
\* as any, and what is proved of the sink holds of the two.
THEOREM FileIsBehindSink == FileSpec => Spec
  <1>1. FileInit => Init
    BY DEF FileInit
  <1>2. [FileNext]_allVars => [Next]_vars
    BY FileStepIsSinkStep
  <1> QED BY <1>1, <1>2, PTL DEF FileSpec, Spec
-----------------------------------------------------------------------------
(* Where the lines are. *)

LEMMA ToSetOfAppend ==
  ASSUME NEW a \in Seq(Nat), NEW x \in Nat
  PROVE  ToSet(Append(a, x)) = ToSet(a) \cup {x}
  <1> DEFINE b == Append(a, x)
  <1>1. /\ Len(b) = Len(a) + 1 /\ b[Len(a) + 1] = x /\ Len(a) \in Nat
        /\ \A i \in 1 .. Len(a) : b[i] = a[i]
        /\ DOMAIN a = 1 .. Len(a) /\ DOMAIN b = 1 .. Len(b)
    BY AppendProperties, LenProperties
  <1> HIDE DEF b
  <1>2. \A y \in ToSet(b) : y \in ToSet(a) \cup {x}
    <2> SUFFICES ASSUME NEW i \in DOMAIN b PROVE b[i] \in ToSet(a) \cup {x}
      BY DEF ToSet
    <2>1. i \in 1 .. Len(a) \/ i = Len(a) + 1
      BY <1>1
    <2> QED BY <1>1, <2>1 DEF ToSet
  <1>3. \A y \in ToSet(a) : y \in ToSet(b)
    <2> SUFFICES ASSUME NEW i \in DOMAIN a PROVE a[i] \in ToSet(b)
      BY DEF ToSet
    <2>1. i \in DOMAIN b /\ b[i] = a[i]
      BY <1>1
    <2> QED BY <2>1 DEF ToSet
  <1>4. x \in ToSet(b)
    <2>1. Len(a) + 1 \in DOMAIN b
      BY <1>1
    <2> QED BY <1>1, <2>1 DEF ToSet
  <1>5. ToSet(b) = ToSet(a) \cup {x}
    BY <1>2, <1>3, <1>4
  <1> QED BY <1>5 DEF b

\* A line whose write() returned is in the file, in the buffer or gone.
SavedInv ==
  /\ lastId = Len(handed)
  /\ ToSet(returned) = Disk \cup Buffer \cup gone
  /\ ToSet(returned) \subseteq 1 .. lastId

LEMMA SavedInvStep ==
  ASSUME SinkInv, FileTypes, SavedInv, [FileNext]_allVars
  PROVE  SavedInv'
  <1>0. /\ lastId \in Nat /\ crashes \in Nat /\ returned \in Seq(Nat) /\ handed \in Seq(Records)
        /\ lastId = Len(handed) /\ ToSet(returned) = Disk \cup Buffer \cup gone
        /\ ToSet(returned) \subseteq 1 .. lastId
    BY DEF FileTypes, SavedInv, SinkInv, TypeOK
  <1>1. CASE Constructed
    <2>1. handed' = handed
      BY <1>1 DEF Constructed, vars, historyVars
    <2> QED BY <1>0, <1>1, <2>1 DEF Constructed, Opens, SavedInv
  <1>2. CASE Wrote
    <2>1. batch # <<>> /\ batch \in Seq(Records)
      BY <1>2 DEF Wrote, SinkInv, CallsInOrder, WorkerWrite, TypeOK, QueueTypeOK
    <2>2. Len(handed') = lastId + 1
      <3>1. Head(batch) \in Records
        BY <2>1, HeadTailProperties
      <3> QED BY <1>0, <1>2, <3>1, AppendProperties DEF Wrote, WorkerWrite
    <2>3. CASE Appends
      <3>1. ToSet(returned') = ToSet(returned) \cup {lastId + 1}
        BY <1>0, <2>3, ToSetOfAppend DEF Appends
      <3>2. lastId' = Len(handed')
        BY <2>2, <2>3 DEF Appends
      <3>3. ToSet(returned') = Disk' \cup Buffer' \cup gone'
        BY <1>0, <2>3, <3>1 DEF Appends
      <3>4. ToSet(returned') \subseteq 1 .. lastId'
        BY <1>0, <2>3, <3>1 DEF Appends
      <3> QED BY <3>2, <3>3, <3>4 DEF SavedInv
    <2>4. CASE Tears
      <3>1. lastId' = Len(handed') /\ returned' = returned
        BY <2>2, <2>4 DEF Tears, Breaks
      <3>2. ToSet(returned') = Disk' \cup Buffer' \cup gone'
        BY <1>0, <2>4 DEF Tears, Breaks
      <3>3. ToSet(returned') \subseteq 1 .. lastId'
        <4>1. 1 .. lastId \subseteq 1 .. lastId'
          BY <1>0, <2>4 DEF Tears
        <4> QED BY <1>0, <3>1, <4>1
      <3> QED BY <3>1, <3>2, <3>3 DEF SavedInv
    <2> QED BY <1>2, <2>3, <2>4 DEF Wrote
  <1>3. CASE Synced
    <2>1. handed' = handed
      BY <1>3 DEF Synced, WorkerFlush
    <2>2. UNCHANGED <<returned, lastId>>
      BY <1>3 DEF Synced, Syncs, SyncFails, Breaks
    <2>3. Disk' \cup Buffer' \cup gone' = Disk \cup Buffer \cup gone
      BY <1>3 DEF Synced, Syncs, SyncFails, Breaks
    <2> QED BY <1>0, <2>1, <2>2, <2>3 DEF SavedInv
  <1>4. CASE Ended
    <2>1. handed' = handed /\ lastId' = lastId /\ returned' = returned
      BY <1>4 DEF Ended, GoesDown, vars, historyVars
    <2>2. Disk' \cup Buffer' \cup gone' = Disk \cup Buffer \cup gone
      BY <1>4 DEF Ended, GoesDown
    <2> QED BY <1>0, <2>1, <2>2 DEF SavedInv
  <1>5. CASE Apart
    <2>1. /\ UNCHANGED <<returned, gone, lastId>> /\ Disk' = Disk /\ Buffer' = Buffer
      BY <1>5 DEF Apart, fileVars, Disk, Buffer
    <2>2. handed' = handed
      BY <1>5 DEF Apart, OwnStep, EndFlush, vars, historyVars, CallWrite, Enqueue,
           Account, CallFlush, FlushKick, FlushKickNotify, FlushTest, FlushSleep,
           FlushSpuriousWakeup, WorkerWait, WorkerDrain, WorkerLoad, WorkerStore, WorkerFence,
           WorkerNotify, DestroyBegin, DestroyWakes, DestroyJoin, QueueSpuriousWakeup
    <2> QED BY <1>0, <2>1, <2>2 DEF SavedInv
  <1> QED BY <1>1, <1>2, <1>3, <1>4, <1>5, FileStepKinds
-----------------------------------------------------------------------------
(* What flush() promises. *)

\* The worker has flushed the file since c called flush(), and no later step of it
\* can let c return without.
FlushedFor(c) ==
  \/ flushDoneGen >= gen[c]
  \/ wpc = "store" /\ want >= gen[c]
  \/ final /\ wpc \in {"load", "store", "notify", "exited"}

Promise(c) == clean \cap 1 .. asked[c].handed

\* No line that was written since the last counted failure is lost while the stream
\* is open, nor by a destructor whose fclose succeeds.
CleanInv ==
  \/ clean \subseteq Disk \cup Buffer
  \/ Down /\ (crashes > 0 \/ (opc = "joined" /\ failures > sinkFailures))

\* Such lines are on the disk from the moment at which the worker has flushed them for
\* a caller; a stopped queue means that the destructor has begun, so that no new caller
\* finds the worker on its way out.
DiskInv ==
  /\ CleanInv
  /\ stopRequested => opc # "alive"
  /\ promised \subseteq Disk
  /\ \A c \in Producers : pc[c] \in FlushPcs /\ FlushedFor(c) => Promise(c) \subseteq Disk

\* What a step does that is not the worker's flush, seen from a caller of flush().
LEMMA FlushedForEarlier ==
  ASSUME SinkInv, Next, ~WorkerFlush, NEW c \in Producers, ~CallFlush(c),
         pc'[c] \in FlushPcs, FlushedFor(c)'
  PROVE  pc[c] \in FlushPcs /\ FlushedFor(c) /\ asked'[c] = asked[c]
  <1> USE DEF queueVars, flushVars, workerVars, clientVars, historyVars
  <1>0. /\ pc \in [Producers -> ClientPcs] /\ gen \in [Producers -> Nat] /\ flushDoneGen \in Nat
        /\ want \in Nat /\ wpc \in WorkerPcs /\ final \in BOOLEAN /\ rec \in [Producers -> Records \cup {NoRecord}]
        /\ asked \in [Producers -> [accepted : Nat, handed : Nat, before : Nat]]
        /\ final => wpc \in {"drain", "flush", "load", "store", "notify", "exited"}
    BY DEF SinkInv, TypeOK, ExitPath
  <1>1. ASSUME NEW d \in Producers, NEW r \in Records, CallWrite(d, r)
        PROVE  pc[c] \in FlushPcs /\ FlushedFor(c) /\ asked'[c] = asked[c]
    BY <1>0, <1>1 DEF CallWrite, FlushedFor, FlushPcs
  <1>2. ASSUME NEW d \in Producers, CallFlush(d)
        PROVE  pc[c] \in FlushPcs /\ FlushedFor(c) /\ asked'[c] = asked[c]
    <2>1. d # c
      BY <1>2
    <2> QED BY <1>0, <1>2, <2>1 DEF CallFlush, FlushedFor, FlushPcs
  <1>3. ASSUME NEW d \in Producers, Enqueue(d)
        PROVE  pc[c] \in FlushPcs /\ FlushedFor(c) /\ asked'[c] = asked[c]
    <2>1. pc' = pc \/ \E p \in {"idle", "account"} : pc' = [pc EXCEPT ![d] = p]
      BY <1>3 DEF Enqueue, EnqueueReturns
    <2>2. UNCHANGED <<flushDoneGen, gen, wpc, want, final, asked>>
      BY <1>3 DEF Enqueue
    <2> QED BY <1>0, <2>1, <2>2 DEF FlushedFor, FlushPcs
  <1>4. ASSUME NEW d \in Producers,
               \/ Account(d) \/ FlushKick(d) \/ FlushKickNotify(d) \/ FlushTest(d)
               \/ FlushSleep(d) \/ FlushSpuriousWakeup(d)
        PROVE  pc[c] \in FlushPcs /\ FlushedFor(c) /\ asked'[c] = asked[c]
    <2>1. UNCHANGED <<flushDoneGen, gen, wpc, want, final, asked>>
      BY <1>4 DEF Account, FlushKick, FlushKickNotify, FlushTest, FlushSleep, FlushSpuriousWakeup
    <2>2. pc' = pc \/ pc' = [pc EXCEPT ![d] = "idle"] \/ (pc[d] \in FlushPcs /\ \E p \in FlushPcs : pc' = [pc EXCEPT ![d] = p])
      BY <1>4 DEF Account, FlushKick, FlushKickNotify, FlushTest, FlushSleep, FlushSpuriousWakeup, FlushPcs
    <2>3. pc[c] \in FlushPcs
      BY <1>0, <2>2 DEF FlushPcs
    <2> QED BY <2>1, <2>3 DEF FlushedFor
  <1>5. ASSUME UNCHANGED <<pc, gen, asked>>,
               WorkerWait \/ WorkerDrain \/ WorkerWrite \/ WorkerLoad \/ WorkerStore \/ WorkerFence \/ WorkerNotify
        PROVE  pc[c] \in FlushPcs /\ FlushedFor(c) /\ asked'[c] = asked[c]
    <2>1. FlushedFor(c)
      BY <1>0, <1>5 DEF FlushedFor, WorkerWait, WorkerDrain, WorkerWrite, WorkerLoad, WorkerStore,
           WorkerFence, WorkerNotify, WorkerPcs
    <2> QED BY <1>5, <2>1
  <1>6. ASSUME UNCHANGED <<pc, gen, asked, flushDoneGen, wpc, want, final>>
        PROVE  pc[c] \in FlushPcs /\ FlushedFor(c) /\ asked'[c] = asked[c]
    BY <1>6 DEF FlushedFor
  <1>7. CASE WorkerStep
    <2>1. UNCHANGED <<pc, gen, asked>>
      BY <1>7 DEF WorkerStep, WorkerWait, WorkerDrain, WorkerWrite, WorkerLoad, WorkerFlush, WorkerStore,
           WorkerFence, WorkerNotify
    <2> QED BY <1>5, <1>7, <2>1 DEF WorkerStep
  <1>8. CASE DestroyBegin \/ DestroyWakes \/ DestroyJoin \/ Finished
    BY <1>6, <1>8 DEF DestroyBegin, DestroyWakes, DestroyJoin, Finished, vars
  <1>9. CASE \E t \in Producers \cup {Consumer} : QueueSpuriousWakeup(t)
    BY <1>6, <1>9 DEF QueueSpuriousWakeup
  <1> QED BY <1>1, <1>2, <1>3, <1>4, <1>7, <1>8, <1>9 DEF Next, ClientCall, ClientStep

LEMMA OnlyOwnerStops ==
  ASSUME [Next]_vars, stopRequested => opc # "alive"
  PROVE  stopRequested' => opc' # "alive"
  <1> USE DEF queueVars, flushVars, workerVars, clientVars, historyVars
  <1>1. ASSUME UNCHANGED <<stopRequested, opc>> PROVE stopRequested' => opc' # "alive"
    BY <1>1
  <1>2. ASSUME NEW c \in Producers, ClientCall(c) \/ ClientStep(c) PROVE UNCHANGED <<stopRequested, opc>>
    BY <1>2 DEF ClientCall, ClientStep, CallWrite, CallFlush, Enqueue, Account, FlushKick, FlushKickNotify,
         FlushTest, FlushSleep, EnqueueStopped, EnqueueWait, EnqueueDropNewest, EnqueueDropOldest,
         EnqueuePush, KickForFlush, NotifyAllNotEmpty
  <1>3. CASE WorkerStep
    <2>1. UNCHANGED <<stopRequested, opc>>
      BY <1>3 DEF WorkerStep, WorkerWait, WorkerDrain, WorkerWrite, WorkerLoad, WorkerFlush, WorkerStore,
           WorkerFence, WorkerNotify, WaitForWorkBlocks, WaitForWorkReturns, DequeueSome, DequeueNone,
           UseRecord
    <2> QED BY <1>1, <2>1
  <1>4. CASE DestroyBegin
    BY <1>4 DEF DestroyBegin
  <1>5. CASE DestroyWakes \/ DestroyJoin
    BY <1>5 DEF DestroyWakes, DestroyJoin
  <1>6. CASE \E c \in Producers : FlushSpuriousWakeup(c)
    BY <1>1, <1>6 DEF FlushSpuriousWakeup
  <1>7. CASE \E t \in Producers \cup {Consumer} : QueueSpuriousWakeup(t)
    BY <1>1, <1>7 DEF QueueSpuriousWakeup, SpuriousWakeup
  <1>8. CASE UNCHANGED vars
    BY <1>1, <1>8 DEF vars
  <1> QED BY <1>1, <1>2, <1>3, <1>4, <1>5, <1>6, <1>7, <1>8 DEF Next, Finished

LEMMA CleanInvStep ==
  ASSUME SinkInv, FileTypes, failures >= sinkFailures, CleanInv, [FileNext]_allVars
  PROVE  CleanInv'
  <1>0. failures \in Nat /\ sinkFailures \in Nat /\ crashes \in Nat
    BY DEF SinkInv, TypeOK, FileTypes
  <1>1. ~(Up /\ Down)
    BY AsyncFileAssumption DEF Up, Down
  <1>2. CASE Constructed
    <2>1. opc # "joined" /\ ~(crashes > 0) /\ clean' = clean /\ Disk' = Disk /\ Buffer' = Buffer
      BY <1>0, <1>2 DEF Constructed, Opens, promiseVars
    <2> QED BY <2>1 DEF CleanInv
  <1>3. CASE Wrote
    <2>1. clean \subseteq Disk \cup Buffer
      BY <1>1, <1>3 DEF Wrote, CleanInv
    <2> QED BY <1>3, <2>1 DEF Wrote, Appends, CleanInv
  <1>4. CASE Synced
    <2>1. clean \subseteq Disk \cup Buffer
      BY <1>1, <1>4 DEF Synced, CleanInv
    <2> QED BY <1>4, <2>1 DEF Synced, Syncs, CleanInv
  <1>5. CASE Ended
    <2>1. /\ Up /\ Down' /\ clean' = clean /\ opc' = opc /\ sinkFailures' = sinkFailures
      BY <1>5 DEF Ended, GoesDown, Up, Down, vars, promiseVars
    <2>2. clean \subseteq Disk \cup Buffer
      BY <1>1, <2>1 DEF CleanInv
    <2>3. CASE crashes' = crashes + 1
      <3>1. crashes' > 0
        BY <1>0, <2>3
      <3> QED BY <2>1, <3>1 DEF CleanInv
    <2>4. CASE opc = "joined" /\ failures' = failures + 1
      <3>1. failures' > sinkFailures'
        BY <1>0, <2>1, <2>4
      <3> QED BY <2>1, <2>4, <3>1 DEF CleanInv
    <2>5. CASE Disk' = Disk \cup Buffer
      BY <2>1, <2>2, <2>5 DEF CleanInv
    <2> QED BY <1>5, <2>3, <2>4, <2>5 DEF Ended
  <1>6. CASE Apart
    <2>1. /\ clean' = clean /\ Disk' = Disk /\ Buffer' = Buffer
      BY <1>6 DEF Apart, EndFlush, fileVars, promiseVars, Disk, Buffer
    <2>2. CASE clean \subseteq Disk \cup Buffer
      BY <2>1, <2>2 DEF CleanInv
    <2>3. CASE Down
      <3>1. UNCHANGED vars /\ UNCHANGED fileVars
        BY <1>1, <1>6, <2>3 DEF Apart
      <3>2. UNCHANGED <<spc, crashes, failures, opc, sinkFailures>>
        BY <3>1 DEF vars, fileVars
      <3> QED BY <2>1, <3>2 DEF CleanInv, Down
    <2> QED BY <2>2, <2>3 DEF CleanInv
  <1> QED BY <1>2, <1>3, <1>4, <1>5, <1>6, FileStepKinds

LEMMA DiskInvStep ==
  ASSUME SinkInv, FileTypes, SavedInv, failures >= sinkFailures, DiskInv, [FileNext]_allVars
  PROVE  DiskInv'
  <1>0. /\ lastId \in Nat /\ lastId = Len(handed) /\ promised \subseteq Disk
        /\ \A c \in Producers : asked[c].handed \in Nat /\ asked[c].handed <= lastId
    BY DEF FileTypes, SavedInv, SinkInv, TypeOK, DiskInv, Generations
  <1>1. (stopRequested' => opc' # "alive") /\ CleanInv'
    BY FileStepIsSinkStep, OnlyOwnerStops, CleanInvStep DEF DiskInv
  <1>2. Constructed \/ Wrote \/ Synced \/ Ended \/ Apart
    BY FileStepKinds
  <1>3. Disk \subseteq Disk' /\ \A c \in Producers : asked'[c] = asked[c] => Promise(c)' \subseteq Promise(c)
    <2>1. ASSUME clean' = clean \/ clean' = {}, NEW c \in Producers, asked'[c] = asked[c]
          PROVE  Promise(c)' \subseteq Promise(c)
      BY <2>1 DEF Promise
    <2>2. CASE Constructed
      BY <2>1, <2>2 DEF Constructed, Opens, promiseVars
    <2>3. CASE Wrote /\ clean' = {} /\ Tears
      BY <2>1, <2>3 DEF Tears, Breaks
    <2>4. CASE Wrote /\ clean' = clean \cup {lastId + 1} /\ Appends
      <3>1. \A c \in Producers : lastId + 1 \notin 1 .. asked[c].handed
        BY <1>0
      <3> QED BY <2>4, <3>1 DEF Appends, Promise
    <2>5. CASE Synced
      BY <2>1, <2>5 DEF Synced, Syncs, SyncFails, Breaks
    <2>6. CASE Ended
      BY <2>1, <2>6 DEF Ended, GoesDown, promiseVars
    <2>7. CASE Apart
      BY <2>1, <2>7 DEF Apart, EndFlush, fileVars, promiseVars, Disk
    <2> QED BY <1>2, <2>2, <2>3, <2>4, <2>5, <2>6, <2>7 DEF Wrote
  <1>4. ASSUME NEW c \in Producers, ~CallFlush(c), ~WorkerFlush, Next \/ UNCHANGED vars,
               pc'[c] \in FlushPcs, FlushedFor(c)'
        PROVE  Promise(c)' \subseteq Disk'
    <2>1. pc[c] \in FlushPcs /\ FlushedFor(c) /\ asked'[c] = asked[c]
      <3>1. CASE Next
        BY <1>4, <3>1, FlushedForEarlier
      <3>2. CASE UNCHANGED vars
        <4>1. UNCHANGED <<pc, flushDoneGen, gen, wpc, want, final, asked>>
          BY <3>2 DEF vars, flushVars, workerVars, clientVars, historyVars
        <4> QED BY <1>4, <4>1 DEF FlushedFor
      <3> QED BY <1>4, <3>1, <3>2
    <2>2. Promise(c) \subseteq Disk
      BY <2>1 DEF DiskInv
    <2> QED BY <1>3, <2>1, <2>2
  <1>5. /\ [Next]_vars /\ flushRequestGen \in Nat
        /\ WorkerFlush => wpc = "flush" /\ wpc' # "flush"
    BY FileStepIsSinkStep DEF SinkInv, TypeOK, WorkerFlush
  \* c has called flush(): nothing the worker has done counts.
  <1>6. ASSUME NEW c \in Producers, CallFlush(c) PROVE ~FlushedFor(c)'
    <2>1. /\ gen'[c] = flushRequestGen + 1 /\ UNCHANGED <<flushDoneGen, wpc, want, final>>
          /\ opc = "alive"
      BY <1>6 DEF CallFlush, SinkInv, TypeOK, workerVars
    <2>2. /\ flushDoneGen \in Nat /\ want \in Nat /\ flushDoneGen <= flushRequestGen
          /\ want <= flushRequestGen
      BY DEF SinkInv, TypeOK, Generations
    <2>3. ~final
      BY <2>1 DEF DiskInv, SinkInv, ExitPath
    <2> QED BY <1>5, <2>1, <2>2, <2>3 DEF FlushedFor
  <1>7. ASSUME ~WorkerFlush PROVE \A c \in Producers : pc'[c] \in FlushPcs /\ FlushedFor(c)' => Promise(c)' \subseteq Disk'
    BY <1>4, <1>5, <1>6, <1>7
  <1>8. ASSUME wpc = "flush" => wpc' = wpc, UNCHANGED promised PROVE DiskInv'
    <2>1. ~WorkerFlush
      BY <1>5, <1>8
    <2> QED BY <1>0, <1>1, <1>3, <1>7, <1>8, <2>1 DEF DiskInv
  <1>9. CASE Wrote
    BY <1>8, <1>9 DEF Wrote, WorkerWrite
  <1>10. CASE Synced
    <2>1. UNCHANGED promised
      BY <1>10 DEF Synced
    <2>2. CASE Syncs /\ clean' = clean
      <3>1. clean \subseteq Disk \cup Buffer
        <4>1. ~Down
          BY <1>10, AsyncFileAssumption DEF Synced, Up, Down
        <4> QED BY <4>1 DEF DiskInv, CleanInv
      <3>2. \A c \in Producers : Promise(c)' \subseteq Disk'
        BY <2>2, <3>1 DEF Promise, Syncs
      <3> QED BY <1>0, <1>1, <1>3, <2>1, <3>2 DEF DiskInv
    <2>3. CASE clean' = {}
      <3>1. \A c \in Producers : Promise(c)' \subseteq Disk'
        BY <2>3 DEF Promise
      <3> QED BY <1>0, <1>1, <1>3, <2>1, <3>1 DEF DiskInv
    <2> QED BY <1>10, <2>2, <2>3 DEF Synced
  <1>11. ASSUME NEW d \in Producers, EndFlush(d) PROVE DiskInv'
    <2>1. FlushTest(d) /\ UNCHANGED wpc
      BY <1>11 DEF EndFlush, FlushTest, workerVars
    <2>2. ~WorkerFlush
      BY <1>5, <2>1
    <2>3. promised' \subseteq Disk'
      <3>1. CASE FlushReturnsTo(d)
        <4>1. pc[d] \in FlushPcs /\ FlushedFor(d)
          BY <2>1, <3>1 DEF FlushTest, FlushReturnsTo, Served, FlushedFor, FlushPcs, SinkInv, TypeOK
        <4>2. Promise(d) \subseteq Disk
          BY <4>1 DEF DiskInv
        <4>3. promised' = promised \cup Promise(d)
          BY <1>11, <3>1 DEF EndFlush, Promise
        <4> QED BY <1>0, <1>3, <4>2, <4>3
      <3>2. CASE ~FlushReturnsTo(d)
        <4>1. promised' = promised \cup {}
          BY <1>11, <3>2 DEF EndFlush
        <4> QED BY <1>0, <1>3, <4>1
      <3> QED BY <3>1, <3>2
    <2> QED BY <1>1, <1>7, <2>2, <2>3 DEF DiskInv
  <1>12. ASSUME OwnStep, UNCHANGED promiseVars PROVE DiskInv'
    <2>1. wpc = "flush" => wpc' = wpc
      BY <1>12 DEF OwnStep, CallWrite, Enqueue, Account, CallFlush, FlushKick, FlushKickNotify, FlushSleep,
           FlushSpuriousWakeup, WorkerWait, WorkerDrain, WorkerLoad, WorkerStore, WorkerFence,
           WorkerNotify, DestroyBegin, DestroyWakes, DestroyJoin, QueueSpuriousWakeup,
           flushVars, workerVars
    <2> QED BY <1>8, <1>12, <2>1 DEF promiseVars
  <1>13. ASSUME UNCHANGED <<vars, promiseVars>> PROVE DiskInv'
    BY <1>8, <1>13 DEF vars, promiseVars, workerVars
  <1>14. CASE Constructed \/ Ended
    BY <1>13, <1>14 DEF Constructed, Ended
  <1>15. CASE Apart
    BY <1>11, <1>12, <1>13, <1>15 DEF Apart
  <1> QED BY <1>2, <1>9, <1>10, <1>14, <1>15
-----------------------------------------------------------------------------
(* What the counters tell. *)

\* A failed write is counted, and a line is lost only by a failure or a crash.
CountInv ==
  /\ IsFiniteSet(ToSet(returned))
  /\ lastId <= Cardinality(ToSet(returned)) + sinkFailures
  /\ failures >= sinkFailures
  /\ gone # {} => crashes > 0 \/ failures > 0

LEMMA CountInvStep ==
  ASSUME SinkInv, FileTypes, SavedInv, CountInv, [FileNext]_allVars
  PROVE  CountInv'
  <1> DEFINE n == Cardinality(ToSet(returned))
  <1>0. /\ lastId \in Nat /\ crashes \in Nat /\ failures \in Nat /\ sinkFailures \in Nat /\ n \in Nat
        /\ returned \in Seq(Nat) /\ IsFiniteSet(ToSet(returned)) /\ lastId <= n + sinkFailures
    BY FS_CardinalityType DEF FileTypes, SinkInv, TypeOK, CountInv
  <1>1. Constructed \/ Wrote \/ Synced \/ Ended \/ Apart
    BY FileStepKinds
  <1>2. ASSUME UNCHANGED <<returned, lastId>>, sinkFailures' \in Nat, sinkFailures' >= sinkFailures
        PROVE  IsFiniteSet(ToSet(returned')) /\ lastId' <= Cardinality(ToSet(returned')) + sinkFailures'
    BY <1>0, <1>2
  <1>3. ASSUME gone' = gone \/ failures' > 0 \/ crashes' > 0, crashes' \in {crashes, crashes + 1},
               failures' \in {failures, failures + 1}
        PROVE  gone' # {} => crashes' > 0 \/ failures' > 0
    <2>1. /\ failures > 0 => failures' > 0
          /\ crashes > 0 => crashes' > 0
      BY <1>0, <1>3
    <2> QED BY <1>3, <2>1 DEF CountInv
  <1>4. CASE Constructed
    <2>1. /\ sinkFailures' = sinkFailures /\ UNCHANGED <<returned, lastId, gone, crashes>>
          /\ failures' \in {failures, failures + 1}
      BY <1>4 DEF Constructed, Opens, vars
    <2>2. failures' >= sinkFailures'
      BY <1>0, <2>1 DEF CountInv
    <2> QED BY <1>0, <1>2, <1>3, <2>1, <2>2 DEF CountInv
  <1>5. CASE Wrote /\ Appends
    <2>1. /\ sinkFailures' = sinkFailures /\ lastId' = lastId + 1 /\ returned' = Append(returned, lastId + 1)
          /\ UNCHANGED <<gone, crashes, failures>>
      <3>1. failures' = failures /\ ~Tears
        BY <1>0, <1>5 DEF Appends, Tears, Breaks
      <3> QED BY <1>5, <3>1 DEF Wrote, Appends
    <2>2. ToSet(returned') = ToSet(returned) \cup {lastId + 1}
      BY <1>0, <2>1, ToSetOfAppend
    <2>3. lastId + 1 \notin ToSet(returned)
      <3>1. lastId + 1 \notin 1 .. lastId
        BY <1>0
      <3> QED BY <3>1 DEF SavedInv
    <2>4. IsFiniteSet(ToSet(returned')) /\ Cardinality(ToSet(returned')) = n + 1
      BY <1>0, <2>2, <2>3, FS_AddElement
    <2>5. lastId' <= Cardinality(ToSet(returned')) + sinkFailures'
      BY <1>0, <2>1, <2>4
    <2> QED BY <1>0, <2>1, <2>4, <2>5 DEF CountInv
  <1>6. CASE Wrote /\ Tears
    <2>1. /\ sinkFailures' = sinkFailures + 1 /\ lastId' = lastId + 1 /\ failures' = failures + 1
          /\ UNCHANGED <<returned, crashes>>
      <3>1. failures' # failures
        BY <1>0, <1>6 DEF Tears, Breaks
      <3> QED BY <1>6, <3>1 DEF Wrote, Appends, Tears, Breaks
    <2>2. lastId' <= Cardinality(ToSet(returned')) + sinkFailures'
      BY <1>0, <2>1
    <2>3. failures' >= sinkFailures' /\ failures' > 0
      BY <1>0, <2>1 DEF CountInv
    <2> QED BY <1>0, <2>1, <2>2, <2>3 DEF CountInv
  <1>7. CASE Synced
    <2>1. /\ UNCHANGED <<returned, lastId, crashes>>
          /\ \/ sinkFailures' = sinkFailures /\ failures' = failures /\ gone' = gone
             \/ sinkFailures' = sinkFailures + 1 /\ failures' = failures + 1
      BY <1>7 DEF Synced, Syncs, SyncFails, Breaks
    <2>2. /\ sinkFailures' \in Nat /\ sinkFailures' >= sinkFailures /\ failures' >= sinkFailures'
          /\ failures' \in {failures, failures + 1} /\ (gone' = gone \/ failures' > 0)
      BY <1>0, <2>1 DEF CountInv
    <2> QED BY <1>2, <1>3, <2>1, <2>2 DEF CountInv
  <1>8. CASE Ended
    <2>1. sinkFailures' = sinkFailures /\ UNCHANGED <<returned, lastId>>
      BY <1>8 DEF Ended, GoesDown, vars
    <2>2. /\ crashes' \in {crashes, crashes + 1} /\ failures' \in {failures, failures + 1}
          /\ gone' = gone \/ crashes' = crashes + 1 \/ failures' = failures + 1
      BY <1>8 DEF Ended
    <2>3. failures' >= sinkFailures' /\ (gone' = gone \/ failures' > 0 \/ crashes' > 0)
      BY <1>0, <2>1, <2>2 DEF CountInv
    <2> QED BY <1>0, <1>2, <1>3, <2>1, <2>2, <2>3 DEF CountInv
  <1>9. CASE Apart
    <2>1. UNCHANGED <<returned, lastId, gone, crashes, failures>>
      BY <1>9 DEF Apart, fileVars
    <2>2. sinkFailures' = sinkFailures
      BY <1>9 DEF Apart, OwnStep, EndFlush, vars, CallWrite, Enqueue,
           Account, CallFlush, FlushKick, FlushKickNotify, FlushTest, FlushSleep,
           FlushSpuriousWakeup, WorkerWait, WorkerDrain, WorkerLoad, WorkerStore, WorkerFence,
           WorkerNotify, DestroyBegin, DestroyWakes, DestroyJoin, QueueSpuriousWakeup
    <2> QED BY <1>0, <2>1, <2>2 DEF CountInv
  <1> QED BY <1>1, <1>4, <1>5, <1>6, <1>7, <1>8, <1>9 DEF Wrote
-----------------------------------------------------------------------------
(* The order of the lines. *)

Stored(d, cs) == IF File!Base \in DOMAIN d THEN cs[d[File!Base]] ELSE <<>>

\* The ids of the lines rise, up to n.
Rising(lines, n) ==
  /\ \A i \in 1 .. Len(lines) : lines[i].id \in 1 .. n
  /\ \A i, j \in 1 .. Len(lines) : i < j => lines[i].id < lines[j].id

\* The file followed by the buffer has the lines in the order of their writes, and
\* none of those that are gone.
OrderInv == \A s \in Sinks : Rising(Journal(s), lastId) /\ gone \cap File!Whole(Journal(s)) = {}

LEMMA ThreeParts ==
  ASSUME NEW S, NEW a \in Seq(S), NEW b \in Seq(S), NEW c \in Seq(S)
  PROVE  b \o c \in Seq(S) /\ (a \o b) \o c = a \o (b \o c)
  BY ONLY a \in Seq(S), b \in Seq(S), c \in Seq(S), ConcatAssociative, ConcatProperties

LEMMA StoredType ==
  ASSUME NEW d, NEW cs, FilesOK(d, cs)
  PROVE  Stored(d, cs) \in Seq(Lines)
  <1>1. CASE File!Base \in DOMAIN d
    <2>1. cs \in Seq(Seq(Lines)) /\ d[File!Base] \in 1 .. Len(cs)
      BY <1>1 DEF FilesOK
    <2> QED BY <1>1, <2>1, ElementOfSeq DEF Stored
  <1>2. CASE File!Base \notin DOMAIN d
    BY <1>2 DEF Stored
  <1> QED BY <1>1, <1>2

LEMMA StoredAfterSpill ==
  ASSUME NEW d, NEW cs, FilesOK(d, cs), File!Base \in DOMAIN d, NEW lines, NEW cs2,
         Spilled(d, cs, lines, cs2)
  PROVE  Stored(d, cs2) = Stored(d, cs) \o lines
  <1>1. cs \in Seq(Seq(Lines)) /\ d[File!Base] \in 1 .. Len(cs)
    BY DEF FilesOK
  <1>2. d[File!Base] \in DOMAIN cs
    BY <1>1, LenProperties
  <1>3. cs2[d[File!Base]] = cs[d[File!Base]] \o lines
    BY <1>2 DEF Spilled
  <1> QED BY <1>3 DEF Stored

LEMMA RisingGrows ==
  ASSUME NEW lines \in Seq(Lines), NEW n \in Nat, Rising(lines, n)
  PROVE  /\ Rising(lines, n + 1)
         /\ \A x \in Lines : x.id = n + 1 => Rising(Append(lines, x), n + 1)
  <1>1. \A i \in 1 .. Len(lines) : lines[i].id \in 1 .. n + 1
    BY DEF Rising
  <1>2. Rising(lines, n + 1)
    BY <1>1 DEF Rising
  <1>3. ASSUME NEW x \in Lines, x.id = n + 1 PROVE Rising(Append(lines, x), n + 1)
    <2> DEFINE more == Append(lines, x)
    <2>1. /\ Len(more) = Len(lines) + 1 /\ Len(lines) \in Nat /\ more[Len(lines) + 1] = x
          /\ \A i \in 1 .. Len(lines) : more[i] = lines[i]
      BY AppendProperties, LenProperties
    <2> HIDE DEF more
    <2>2. \A i \in 1 .. Len(more) : i \in 1 .. Len(lines) \/ i = Len(lines) + 1
      BY <2>1
    <2>3. \A i \in 1 .. Len(more) : more[i].id \in 1 .. n + 1
      BY <1>1, <1>3, <2>1, <2>2
    <2>4. ASSUME NEW i \in 1 .. Len(more), NEW j \in 1 .. Len(more), i < j
          PROVE  more[i].id < more[j].id
      <3>1. i \in 1 .. Len(lines) /\ (j \in 1 .. Len(lines) \/ j = Len(lines) + 1)
        BY <2>1, <2>2, <2>4
      <3>2. CASE j \in 1 .. Len(lines)
        BY <2>1, <2>4, <3>1, <3>2 DEF Rising
      <3>3. CASE j = Len(lines) + 1
        <4>1. more[i].id \in 1 .. n /\ more[j].id = n + 1
          BY <1>3, <2>1, <3>1, <3>3 DEF Rising
        <4> QED BY <4>1
      <3> QED BY <3>1, <3>2, <3>3
    <2> QED BY <2>3, <2>4 DEF Rising, more
  <1> QED BY <1>2, <1>3

\* Lines that are cut off at the end were no others.
LEMMA RisingCut ==
  ASSUME NEW a \in Seq(Lines), NEW b \in Seq(Lines), NEW n \in Nat, Rising(a \o b, n)
  PROVE  Rising(a, n) /\ File!Whole(a) \cap File!Whole(b) = {}
  <1> DEFINE ab == a \o b
  <1>1. /\ Len(ab) = Len(a) + Len(b) /\ Len(a) \in Nat /\ Len(b) \in Nat
        /\ \A i \in 1 .. Len(a) + Len(b) : ab[i] = IF i <= Len(a) THEN a[i] ELSE b[i - Len(a)]
    BY ConcatProperties, LenProperties
  <1>2. Rising(ab, n)
    OBVIOUS
  <1> HIDE DEF ab
  <1>3. \A i \in 1 .. Len(a) : i \in 1 .. Len(ab) /\ ab[i] = a[i]
    BY <1>1
  <1>4. Rising(a, n)
    BY <1>2, <1>3 DEF Rising
  <1>5. ASSUME NEW i \in 1 .. Len(a), NEW j \in 1 .. Len(b) PROVE a[i].id # b[j].id
    <2>1. /\ Len(a) + j \in 1 .. Len(ab) /\ ~(Len(a) + j <= Len(a)) /\ (Len(a) + j) - Len(a) = j
          /\ i < Len(a) + j
      BY <1>1
    <2>2. ab[Len(a) + j] = b[j]
      BY <1>1, <2>1
    <2>3. ab[i].id < ab[Len(a) + j].id /\ ab[i].id \in 1 .. n /\ ab[Len(a) + j].id \in 1 .. n
      BY <1>2, <1>3, <2>1 DEF Rising
    <2>4. ab[i].id # ab[Len(a) + j].id
      BY <2>3
    <2> QED BY <1>3, <2>2, <2>4
  <1>6. File!Whole(a) \cap File!Whole(b) = {}
    BY <1>5, WholeElements
  <1> QED BY <1>4, <1>6

\* What a step does to the journal: nothing, one more line at its end, or, with a torn
\* line at its end or without, its end is cut off and those lines are gone.
Stands(s) ==
  Journal(s)' = Journal(s) /\ gone' = gone /\ (lastId' = lastId \/ lastId' = lastId + 1)

OneMore(s) ==
  /\ gone' = gone /\ lastId' = lastId + 1
  /\ \E x \in Lines : x.id = lastId + 1 /\ Journal(s)' = Append(Journal(s), x)

CutsOff(s) ==
  \E all, a, b \in Seq(Lines) :
    /\ \/ all = Journal(s) /\ lastId' = lastId
       \/ all = Journal(s) /\ lastId' = lastId + 1
       \/ /\ \E torn \in Lines : torn.id = lastId + 1 /\ ~torn.whole /\ all = Append(Journal(s), torn)
          /\ lastId' = lastId + 1
    /\ all = a \o b /\ Journal(s)' = a
    /\ gone' \subseteq gone \cup File!Whole(b)

LEMMA JournalIs ==
  ASSUME FileTypes, NEW s \in Sinks
  PROVE  /\ Journal(s) = Stored(dir, contents) \o buffered[s]
         /\ Stored(dir, contents) \in Seq(Lines) /\ buffered[s] \in Seq(Lines)
         /\ Journal(s) \in Seq(Lines)
         /\ File!Whole(Journal(s)) = Disk \cup Buffer
  <1>1. Journal(s) = Stored(dir, contents) \o buffered[s]
    BY DEF Journal, Stored
  <1>2. Stored(dir, contents) \in Seq(Lines) /\ buffered[s] \in Seq(Lines)
    BY StoredType DEF FileTypes
  <1>3. /\ Journal(s) \in Seq(Lines)
        /\ File!Whole(Journal(s)) = File!Whole(Stored(dir, contents)) \cup File!Whole(buffered[s])
    BY <1>1, <1>2, WholeOfConcat
  <1>4. Buffer = File!Whole(buffered[s])
    BY OneSink DEF Buffer
  <1>5. Disk = File!Whole(Stored(dir, contents))
    <2>1. CASE File!Base \in DOMAIN dir
      <3>1. DOMAIN dir = {File!Base}
        BY <2>1 DEF FileTypes, FilesOK
      <3> QED BY <2>1, <3>1 DEF Disk, DiskOf, Stored
    <2>2. CASE File!Base \notin DOMAIN dir
      <3>1. DOMAIN dir = {}
        BY <2>2 DEF FileTypes, FilesOK
      <3>2. File!Whole(<<>>) = {}
        BY DEF File!Whole
      <3> QED BY <2>2, <3>1, <3>2 DEF Disk, DiskOf, Stored
    <2> QED BY <2>1, <2>2
  <1> QED BY <1>1, <1>2, <1>3, <1>4, <1>5

LEMMA SpillMoves ==
  ASSUME FileTypes, NEW s \in Sinks, spc[s] = "idle", NEW k \in 0 .. Len(buffered[s]), File!Spill(s, k),
         UNCHANGED dir
  PROVE  /\ SubSeq(buffered[s], 1, k) \in Seq(Lines)
         /\ SubSeq(buffered[s], k + 1, Len(buffered[s])) \in Seq(Lines)
         /\ Stored(dir', contents') = Stored(dir, contents) \o SubSeq(buffered[s], 1, k)
         /\ Journal(s) = (Stored(dir, contents) \o SubSeq(buffered[s], 1, k))
                           \o SubSeq(buffered[s], k + 1, Len(buffered[s]))
  <1> DEFINE b == buffered[s]
             u == SubSeq(b, 1, k)
             v == SubSeq(b, k + 1, Len(b))
  <1>1. /\ FilesOK(dir, contents) /\ File!Base \in DOMAIN dir /\ handle[s] = dir[File!Base]
        /\ b \in Seq(Lines)
    BY DEF FileTypes
  <1>2. u \in Seq(Lines) /\ v \in Seq(Lines)
    BY <1>1, WholeOfParts
  <1>3. Len(b) \in Nat /\ 1 \in 1 .. Len(b) + 1 /\ k \in 1 - 1 .. Len(b) /\ Len(b) \in k .. Len(b)
    BY <1>1, LenProperties
  <1>4. u \o v = b
    BY <1>1, <1>3, ConcatAdjacentSubSeq, SubSeqFull
  <1>5. Spilled(dir, contents, u, contents')
    BY <1>1 DEF File!Spill, Spilled
  <1> HIDE DEF u, v
  <1>6. Stored(dir, contents') = Stored(dir, contents) \o u
    BY ONLY <1>1, <1>5, StoredAfterSpill
  <1>7. Journal(s) = (Stored(dir, contents) \o u) \o v
    <2>1. Stored(dir, contents) \in Seq(Lines) /\ Journal(s) = Stored(dir, contents) \o b
      BY JournalIs
    <2>2. (Stored(dir, contents) \o u) \o v = Stored(dir, contents) \o (u \o v)
      BY ONLY <1>2, <2>1, ThreeParts
    <2> QED BY <1>4, <2>1, <2>2
  <1> QED BY <1>2, <1>6, <1>7 DEF u, v

\* A failed call cuts off the end of the journal.
LEMMA BrokenCutsOff ==
  ASSUME FileTypes, NEW s \in Sinks, spc[s] = "idle", NEW lines \in Seq(Lines),
         ToWrite(s, lastId + 1, lines),
         lastId' = lastId + 1 \/ (lastId' = lastId /\ lines = buffered[s]),
         NEW u \in Seq(Lines), NEW v \in Seq(Lines), NEW w \in Seq(Lines), Broken(s, lines, u, v, w)
  PROVE  CutsOff(s)
  <1> DEFINE old == Stored(dir, contents)
             uv == u \o v
             a == old \o uv
             all == old \o lines
  <1>1. old \in Seq(Lines)
    BY JournalIs
  <1>2. buffered[s] \in Seq(Lines) /\ Journal(s) = old \o buffered[s]
    BY JournalIs
  <1>3. /\ Spilled(dir, contents, u, contents') /\ buffered' = [buffered EXCEPT ![s] = v] /\ UNCHANGED dir
        /\ gone' = gone \cup (File!Whole(lines) \ File!Whole(uv)) /\ lines = uv \o w
    BY DEF Broken
  <1>4. uv \in Seq(Lines)
    BY WholeOfConcat
  <1>5. Stored(dir', contents') = old \o u
    <2>1. FilesOK(dir, contents) /\ File!Base \in DOMAIN dir
      BY DEF FileTypes
    <2>2. Spilled(dir, contents, u, contents')
      BY <1>3
    <2>3. Stored(dir, contents') = Stored(dir, contents) \o u
      BY ONLY <2>1, <2>2, StoredAfterSpill
    <2> QED BY <1>3, <2>3
  <1>6. Journal(s)' = (old \o u) \o v
    <2>1. buffered'[s] = v
      BY <1>3 DEF FileTypes
    <2>2. Journal(s)' = Stored(dir', contents') \o buffered'[s]
      BY DEF Journal, Stored
    <2> QED BY <1>5, <2>1, <2>2
  <1>7. File!Whole(lines) = File!Whole(uv) \cup File!Whole(w)
    <2> HIDE DEF uv
    <2> QED BY ONLY <1>3, <1>4, w \in Seq(Lines), WholeOfConcat
  <1> HIDE DEF old
  <1>8. Journal(s)' = a
    <2>1. (old \o u) \o v = old \o (u \o v)
      BY ONLY <1>1, u \in Seq(Lines), v \in Seq(Lines), ThreeParts, SMTT(30)
    <2> QED BY <1>6, <2>1
  <1> HIDE DEF uv
  <1>9. all = a \o w /\ a \in Seq(Lines) /\ all \in Seq(Lines)
    <2>1. (old \o uv) \o w = old \o (uv \o w)
      BY ONLY <1>1, <1>4, w \in Seq(Lines), ThreeParts, SMTT(30)
    <2>2. old \o uv \in Seq(Lines) /\ old \o lines \in Seq(Lines)
      BY ONLY <1>1, <1>4, lines \in Seq(Lines), WholeOfConcat
    <2> QED BY <1>3, <2>1, <2>2
  <1>10. gone' \subseteq gone \cup File!Whole(w)
    BY <1>3, <1>7
  <1>11. CASE lines = buffered[s]
    <2>1. all = Journal(s) /\ (lastId' = lastId \/ lastId' = lastId + 1)
      BY <1>2, <1>11
    <2> HIDE DEF a, all
    <2> QED BY <1>8, <1>9, <1>10, <2>1 DEF CutsOff
  <1>12. ASSUME NEW torn \in Lines, torn.id = lastId + 1, ~torn.whole, lines = Append(buffered[s], torn),
                lastId' = lastId + 1
         PROVE  CutsOff(s)
    <2>1. old \o Append(buffered[s], torn) = Append(old \o buffered[s], torn)
      BY ONLY <1>1, <1>2, torn \in Lines, JoinLine, SMTT(30)
    <2>2. all = Append(Journal(s), torn)
      BY <1>2, <1>12, <2>1
    <2> HIDE DEF a, all
    <2> QED BY <1>8, <1>9, <1>10, <1>12, <2>2 DEF CutsOff
  <1> QED BY <1>11, <1>12 DEF ToWrite

LEMMA JournalStep ==
  ASSUME FileTypes, NEW s \in Sinks, [FileNext]_allVars
  PROVE  Stands(s) \/ OneMore(s) \/ CutsOff(s)
  <1>0. /\ Sinks = {s} /\ buffered \in [Sinks -> Seq(Lines)] /\ lastId \in Nat
        /\ (spc[s] = "idle" => handle[s] # File!NoFile)
    BY OneSink DEF FileTypes
  <1>1. ASSUME UNCHANGED <<dir, contents, buffered, gone, lastId>> PROVE Stands(s)
    BY <1>1 DEF Stands, Journal
  <1>2. ASSUME File!Construct(s) PROVE Stands(s)
    <2>1. UNCHANGED <<buffered, gone, lastId>>
      BY <1>2 DEF File!Construct, File!OpenLocked, File!OpenFails
    <2>2. Stored(dir', contents') = Stored(dir, contents)
      <3>1. CASE UNCHANGED <<dir, contents>>
        BY <3>1
      <3>2. CASE Created(dir, contents, dir', contents')
        <4>1. FilesOK(dir, contents)
          BY DEF FileTypes
        <4>2. /\ File!Base \in DOMAIN dir' /\ dir'[File!Base] = Len(contents) + 1
              /\ contents' = Append(contents, <<>>) /\ File!Base \notin DOMAIN dir
          <5>1. DOMAIN dir' = {File!Base} /\ dir'[File!Base] = Len(contents) + 1
            BY ONLY <3>2, <4>1, DiskAfterCreate
          <5> QED BY <3>2, <5>1 DEF Created
        <4>3. contents'[Len(contents) + 1] = <<>>
          <5>1. contents \in Seq(Seq(Lines)) /\ <<>> \in Seq(Lines)
            BY DEF FileTypes, FilesOK
          <5> QED BY <4>2, <5>1, AppendProperties
        <4> QED BY <4>2, <4>3 DEF Stored
      <3> QED BY <1>2, <3>1, <3>2 DEF File!Construct, File!OpenLocked, File!OpenFails, Created
    <2> QED BY <2>1, <2>2 DEF Stands, Journal, Stored
  <1>3. ASSUME File!Write(s, 2) PROVE OneMore(s) \/ CutsOff(s)
    <2> DEFINE x == File!NewLine(2)
    <2>1. x \in Lines /\ x.id = lastId + 1
      BY <1>0 DEF Lines, File!NewLine
    <2>2. spc[s] = "idle" /\ lastId' = lastId + 1 /\ (File!WriteLineLocked(s, x) \/ File!WriteLineThrows(s, x))
      BY <1>3 DEF File!Write
    <2> HIDE DEF x
    <2>3. CASE File!WriteLineLocked(s, x)
      <3>1. buffered' = [buffered EXCEPT ![s] = Append(buffered[s], x)] /\ UNCHANGED <<dir, contents, gone>>
        BY <2>3 DEF File!WriteLineLocked
      <3>2. buffered'[s] = Append(buffered[s], x)
        BY <1>0, <3>1
      <3>3. Journal(s)' = Stored(dir, contents) \o Append(buffered[s], x)
        BY <3>1, <3>2 DEF Journal, Stored
      <3>4. Stored(dir, contents) \o Append(buffered[s], x) = Append(Journal(s), x)
        <4>1. /\ Stored(dir, contents) \in Seq(Lines) /\ buffered[s] \in Seq(Lines)
              /\ Journal(s) = Stored(dir, contents) \o buffered[s]
          BY JournalIs
        <4>2. Stored(dir, contents) \o Append(buffered[s], x) = Append(Stored(dir, contents) \o buffered[s], x)
          BY ONLY <2>1, <4>1, JoinLine
        <4> QED BY <4>1, <4>2
      <3> QED BY <2>1, <2>2, <3>1, <3>3, <3>4 DEF OneMore
    <2>4. CASE File!WriteLineThrows(s, x)
      <3>1. PICK lines \in Seq(Lines) : ToWrite(s, lastId + 1, lines) /\ File!StreamFails(s, lines)
        BY <2>1, <2>2, <2>4, WriteThrowsIs
      <3>2. PICK u \in Seq(Lines), v \in Seq(Lines), w \in Seq(Lines) : Broken(s, lines, u, v, w)
        BY <2>2, <3>1, StreamBreaks
      <3> QED BY <2>2, <3>1, <3>2, BrokenCutsOff
    <2> QED BY <2>2, <2>3, <2>4
  <1>4. ASSUME File!Flush(s) PROVE Stands(s) \/ CutsOff(s)
    <2>1. spc[s] = "idle" /\ UNCHANGED lastId /\ Len(buffered[s]) \in Nat /\ buffered[s] \in Seq(Lines)
      BY <1>0, <1>4, LenProperties DEF File!Flush
    <2>2. CASE File!FlushLocked(s)
      <3>1. /\ File!Spill(s, Len(buffered[s])) /\ buffered' = [buffered EXCEPT ![s] = <<>>]
            /\ UNCHANGED <<dir, gone>>
        BY <2>2 DEF File!FlushLocked
      <3>2. Len(buffered[s]) \in 0 .. Len(buffered[s])
        BY <2>1
      <3>3. SubSeq(buffered[s], Len(buffered[s]) + 1, Len(buffered[s])) = <<>>
        BY <2>1, SubSeqEmpty
      <3>4. Journal(s)' = Stored(dir', contents') \o <<>>
        BY <1>0, <3>1 DEF Journal, Stored
      <3> QED BY <2>1, <3>1, <3>2, <3>3, <3>4, SpillMoves DEF Stands
    <2>3. CASE File!FlushThrows(s)
      <3>1. File!StreamFails(s, buffered[s])
        BY <1>0, <2>1, <2>3 DEF File!FlushThrows, File!NoStream
      <3>2. PICK u \in Seq(Lines), v \in Seq(Lines), w \in Seq(Lines) : Broken(s, buffered[s], u, v, w)
        BY <2>1, <3>1, StreamBreaks
      <3>3. ToWrite(s, lastId + 1, buffered[s])
        BY DEF ToWrite
      <3> QED BY <2>1, <3>2, <3>3, BrokenCutsOff
    <2> QED BY <1>4, <2>2, <2>3 DEF File!Flush
  <1>5. ASSUME spc[s] = "idle", NEW k \in 0 .. Len(buffered[s]), File!DropStream(s, k), UNCHANGED lastId
        PROVE  CutsOff(s)
    <2> DEFINE a == Stored(dir, contents) \o SubSeq(buffered[s], 1, k)
               b == SubSeq(buffered[s], k + 1, Len(buffered[s]))
    <2>1. /\ File!Spill(s, k) /\ UNCHANGED dir /\ buffered' = [buffered EXCEPT ![s] = <<>>]
          /\ gone' = gone \cup (File!Whole(buffered[s]) \ File!Whole(SubSeq(buffered[s], 1, k)))
      BY <1>0, <1>5 DEF File!DropStream
    <2>2. a \in Seq(Lines) /\ b \in Seq(Lines) /\ Stored(dir', contents') = a /\ Journal(s) = a \o b
      BY <1>5, <2>1, SpillMoves, JournalIs, ConcatProperties
    <2>3. File!Whole(buffered[s]) = File!Whole(SubSeq(buffered[s], 1, k)) \cup File!Whole(b)
      BY <1>5, WholeOfParts, JournalIs
    <2>4. Journal(s)' = a
      <3>1. buffered'[s] = <<>>
        BY <1>0, <2>1
      <3>2. Journal(s)' = Stored(dir', contents') \o buffered'[s]
        BY DEF Journal, Stored
      <3> QED BY <2>2, <3>1, <3>2, ConcatEmptySeq
    <2>5. gone' \subseteq gone \cup File!Whole(b)
      BY <2>1, <2>3
    <2> HIDE DEF a, b
    <2>6. a \o b \in Seq(Lines)
      BY <2>2, ConcatProperties
    <2> QED BY <1>5, <2>2, <2>4, <2>5, <2>6 DEF CutsOff
  <1>6. ASSUME File!Destroy(s) \/ File!Crash(s) PROVE CutsOff(s)
    <2>1. /\ spc[s] = "idle" /\ UNCHANGED lastId
          /\ \/ File!DropStream(s, Len(buffered[s]))
             \/ \E k \in 0 .. Len(buffered[s]) : File!DropStream(s, k)
      BY <1>0, <1>6 DEF File!Destroy, File!Crash, File!CloseLocked, FileTypes
    <2>2. Len(buffered[s]) \in 0 .. Len(buffered[s])
      BY <1>0, LenProperties
    <2> QED BY <1>5, <2>1, <2>2
  <1>7. CASE UNCHANGED fileVars
    BY <1>1, <1>7 DEF fileVars
  <1>8. CASE \E t \in Sinks : ConstructFile(t) \/ DestroyFile(t) \/ Die(t) \/ WriteToFile(t) \/ FlushFile(t)
    BY <1>0, <1>2, <1>3, <1>4, <1>6, <1>8 DEF ConstructFile, DestroyFile, Die, WriteToFile, FlushFile
  <1> QED BY <1>7, <1>8 DEF FileNext, allVars, EndFlush

LEMMA OrderInvStep ==
  ASSUME FileTypes, SavedInv, OrderInv, [FileNext]_allVars
  PROVE  OrderInv'
  <1> SUFFICES ASSUME NEW s \in Sinks
               PROVE  (Rising(Journal(s), lastId) /\ gone \cap File!Whole(Journal(s)) = {})'
    BY DEF OrderInv
  <1> DEFINE old == Journal(s)
             new == Journal(s)'
  <1>1. /\ old \in Seq(Lines) /\ lastId \in Nat /\ Rising(old, lastId) /\ gone \cap File!Whole(old) = {}
        /\ gone \subseteq 1 .. lastId
    BY JournalIs DEF OrderInv, FileTypes, SavedInv
  <1> SUFFICES Rising(new, lastId') /\ gone' \cap File!Whole(new) = {}
    OBVIOUS
  <1> HIDE DEF old, new
  <1>2. CASE new = old /\ gone' = gone /\ (lastId' = lastId \/ lastId' = lastId + 1)
    BY <1>1, <1>2, RisingGrows
  <1>3. CASE /\ gone' = gone /\ lastId' = lastId + 1
             /\ \E x \in Lines : x.id = lastId + 1 /\ new = Append(old, x)
    <2>1. PICK x \in Lines : x.id = lastId + 1 /\ new = Append(old, x)
      BY <1>3
    <2>2. Rising(new, lastId')
      BY <1>1, <1>3, <2>1, RisingGrows
    <2>3. \A y \in File!Whole(new) : y \in File!Whole(old) \/ y = lastId + 1
      <3>1. new = old \o <<x>> /\ <<x>> \in Seq(Lines)
        BY <1>1, <2>1, AppendIsConcat
      <3>2. File!Whole(new) = File!Whole(old) \cup File!Whole(<<x>>)
        BY <1>1, <3>1, WholeOfConcat
      <3>3. \A y \in File!Whole(<<x>>) : y = x.id
        BY DEF File!Whole
      <3> QED BY <2>1, <3>2, <3>3
    <2>4. lastId + 1 \notin gone
      BY <1>1
    <2> QED BY <1>1, <1>3, <2>2, <2>3, <2>4
  <1>4. ASSUME NEW all \in Seq(Lines), NEW a \in Seq(Lines), NEW b \in Seq(Lines),
               all = a \o b, new = a, gone' \subseteq gone \cup File!Whole(b),
               Rising(all, lastId'), File!Whole(all) = File!Whole(old), lastId' \in Nat
        PROVE  Rising(new, lastId') /\ gone' \cap File!Whole(new) = {}
    <2>1. Rising(a, lastId') /\ File!Whole(a) \cap File!Whole(b) = {}
      BY <1>4, RisingCut
    <2>2. File!Whole(all) = File!Whole(a) \cup File!Whole(b)
      BY <1>4, WholeOfConcat
    <2> QED BY <1>1, <1>4, <2>1, <2>2
  <1>5. ASSUME NEW all \in Seq(Lines),
               \/ all = old /\ lastId' = lastId
               \/ all = old /\ lastId' = lastId + 1
               \/ /\ \E torn \in Lines : torn.id = lastId + 1 /\ ~torn.whole /\ all = Append(old, torn)
                  /\ lastId' = lastId + 1
        PROVE  Rising(all, lastId') /\ File!Whole(all) = File!Whole(old) /\ lastId' \in Nat
    <2>1. lastId' \in Nat
      BY <1>1, <1>5
    <2>2. CASE all = old
      BY <1>1, <1>5, <2>1, <2>2, RisingGrows
    <2>3. ASSUME NEW torn \in Lines, torn.id = lastId + 1, ~torn.whole, all = Append(old, torn),
                 lastId' = lastId + 1
          PROVE  Rising(all, lastId') /\ File!Whole(all) = File!Whole(old)
      BY <1>1, <2>3, RisingGrows, WholeOfTorn
    <2> QED BY <1>5, <2>1, <2>2, <2>3
  <1>6. Stands(s) \/ OneMore(s) \/ CutsOff(s)
    BY JournalStep
  <1>7. CASE Stands(s)
    BY <1>2, <1>7 DEF Stands, old, new
  <1>8. CASE OneMore(s)
    BY <1>3, <1>8 DEF OneMore, old, new
  <1>9. CASE CutsOff(s)
    <2>1. PICK all \in Seq(Lines), a \in Seq(Lines), b \in Seq(Lines) :
            /\ \/ all = old /\ lastId' = lastId
               \/ all = old /\ lastId' = lastId + 1
               \/ /\ \E torn \in Lines : torn.id = lastId + 1 /\ ~torn.whole /\ all = Append(old, torn)
                  /\ lastId' = lastId + 1
            /\ all = a \o b /\ new = a
            /\ gone' \subseteq gone \cup File!Whole(b)
      BY <1>9 DEF CutsOff, old, new
    <2>2. Rising(all, lastId') /\ File!Whole(all) = File!Whole(old) /\ lastId' \in Nat
      BY <1>5, <2>1
    <2> QED BY <1>4, <2>1, <2>2
  <1> QED BY <1>6, <1>7, <1>8, <1>9
-----------------------------------------------------------------------------
(* From the order of the lines and that of the delivery to FileInOrder. *)

\* acc has a before b wherever it has them.
InTurn(acc, a, b) == \A k, m \in 1 .. Len(acc) : acc[k] = a /\ acc[m] = b => k < m

LEMMA LineOfTwo ==
  ASSUME NEW S, NEW h \in Seq(S), NEW w \in Seq(S)
  PROVE  /\ Len(h) \in Nat /\ Len(w) \in Nat /\ Len(h \o w) = Len(h) + Len(w)
         /\ \A i \in 1 .. Len(h) : i \in 1 .. Len(h \o w) /\ (h \o w)[i] = h[i]
         /\ \A j \in 1 .. Len(w) : Len(h) + j \in 1 .. Len(h \o w) /\ (h \o w)[Len(h) + j] = w[j]
         /\ \A i \in 1 .. Len(h \o w) : i \in 1 .. Len(h) \/ (\E j \in 1 .. Len(w) : i = Len(h) + j)
  <1>1. /\ Len(h \o w) = Len(h) + Len(w) /\ Len(h) \in Nat /\ Len(w) \in Nat
        /\ \A i \in 1 .. Len(h) + Len(w) : (h \o w)[i] = IF i <= Len(h) THEN h[i] ELSE w[i - Len(h)]
    BY ConcatProperties, LenProperties
  <1> DEFINE l == h \o w
             n == Len(h)
             p == Len(w)
  <1>2. /\ Len(l) = n + p /\ n \in Nat /\ p \in Nat
        /\ \A i \in 1 .. n + p : l[i] = IF i <= n THEN h[i] ELSE w[i - n]
    BY <1>1
  <1> HIDE DEF l, n, p
  <1>3. \A i \in 1 .. n : i \in 1 .. Len(l) /\ l[i] = h[i]
    BY <1>2
  <1>4. ASSUME NEW j \in 1 .. p PROVE n + j \in 1 .. Len(l) /\ l[n + j] = w[j]
    <2>1. n + j \in 1 .. n + p /\ ~(n + j <= n) /\ (n + j) - n = j
      BY <1>2
    <2> QED BY <1>2, <2>1
  <1>5. ASSUME NEW i \in 1 .. Len(l) PROVE i \in 1 .. n \/ (\E j \in 1 .. p : i = n + j)
    <2>1. CASE i <= n
      BY <1>2, <2>1
    <2>2. CASE ~(i <= n)
      <3>1. i - n \in 1 .. p /\ i = n + (i - n)
        BY <1>2, <2>2
      <3> QED BY <3>1
    <2> QED BY <2>1, <2>2
  <1> QED BY <1>2, <1>3, <1>4, <1>5 DEF l, n, p

LEMMA InTurnInLine ==
  ASSUME NEW line, NEW acc, NEW ev, Delivers(line, acc, ev),
         NEW i \in 1 .. Len(line), NEW j \in 1 .. Len(line), i < j
  PROVE  InTurn(acc, line[i], line[j]) /\ line[i] # line[j]
  <1>1. InTurn(acc, line[i], line[j])
    BY DEF Delivers, InTurn
  <1>2. PICK k \in 1 .. Len(acc) : acc[k] = line[i]
    BY DEF Delivers
  <1>3. ~(k < k)
    BY <1>2
  <1> QED BY <1>1, <1>2, <1>3 DEF InTurn

\* The first conjunct of FileInOrder: kept are the numbers of the lines on record.
NoneElse(h, w, acc, ev, kept) ==
  { h[k] : k \in kept } \cup { w[j] : j \in 1 .. Len(w) }
    = { acc[m] : m \in 1 .. Len(acc) } \ (ev \cup { h[k] : k \in (1 .. Len(h)) \ kept })

LEMMA NothingElse ==
  ASSUME NEW S, NEW h \in Seq(S), NEW w \in Seq(S), NEW acc, NEW ev,
         Delivers(h \o w, acc, ev), NEW kept \in SUBSET (1 .. Len(h))
  PROVE  NoneElse(h, w, acc, ev, kept)
  <1> DEFINE l == h \o w
             n == Len(h)
             p == Len(w)
             lost == (1 .. n) \ kept
             A == { h[k] : k \in kept }
             B == { w[j] : j \in 1 .. p }
             C == { acc[m] : m \in 1 .. Len(acc) }
             D == { h[k] : k \in lost }
  <1>1. /\ \A x : x \in A <=> \E k \in kept : x = h[k]
        /\ \A x : x \in B <=> \E j \in 1 .. p : x = w[j]
        /\ \A x : x \in C <=> \E m \in 1 .. Len(acc) : x = acc[m]
        /\ \A x : x \in D <=> \E k \in lost : x = h[k]
    OBVIOUS
  <1>2. /\ n \in Nat /\ p \in Nat /\ Len(l) = n + p
        /\ \A i \in 1 .. n : i \in 1 .. Len(l) /\ l[i] = h[i]
        /\ \A j \in 1 .. p : n + j \in 1 .. Len(l) /\ l[n + j] = w[j]
        /\ \A i \in 1 .. Len(l) : i \in 1 .. n \/ (\E j \in 1 .. p : i = n + j)
    BY LineOfTwo
  <1>3. Delivers(l, acc, ev) /\ kept \subseteq 1 .. n
    OBVIOUS
  <1> HIDE DEF l, n, p, A, B, C, D
  <1>4. /\ \A i \in 1 .. Len(l) : l[i] \in C /\ l[i] \notin ev
        /\ \A x \in C : x \in ev \/ \E i \in 1 .. Len(l) : l[i] = x
    <2>1. /\ \A i \in 1 .. Len(l) : l[i] \notin ev /\ \E k \in 1 .. Len(acc) : acc[k] = l[i]
          /\ \A k \in 1 .. Len(acc) : acc[k] \in ev \/ \E i \in 1 .. Len(l) : l[i] = acc[k]
      BY ONLY <1>3, Zenon DEF Delivers
    <2>2. ASSUME NEW i \in 1 .. Len(l) PROVE l[i] \in C
      BY <1>1, <2>1
    <2>3. ASSUME NEW x \in C PROVE x \in ev \/ \E i \in 1 .. Len(l) : l[i] = x
      <3>1. PICK k \in 1 .. Len(acc) : x = acc[k]
        BY <1>1, <2>3
      <3> QED BY ONLY <2>1, <3>1
    <2> QED BY <2>1, <2>2, <2>3
  <1>5. \A i, j \in 1 .. Len(l) : i # j => l[i] # l[j]
    <2> SUFFICES ASSUME NEW i \in 1 .. Len(l), NEW j \in 1 .. Len(l), i # j PROVE l[i] # l[j]
      OBVIOUS
    <2>1. i < j \/ j < i
      BY <1>2
    <2>2. ASSUME NEW a \in 1 .. Len(l), NEW b \in 1 .. Len(l), a < b PROVE l[a] # l[b]
      BY ONLY <1>3, <2>2, InTurnInLine
    <2> QED BY <2>1, <2>2
  <1>6. ASSUME NEW x \in A PROVE x \in C /\ x \notin ev /\ x \notin D
    <2>1. PICK k \in kept : x = h[k]
      BY <1>1, <1>6
    <2>2. k \in 1 .. Len(l) /\ l[k] = x
      BY <1>2, <1>3, <2>1
    <2>3. ASSUME NEW q \in lost PROVE h[q] # x
      BY <1>2, <1>5, <2>1, <2>2
    <2> QED BY <1>1, <1>4, <2>2, <2>3
  <1>7. ASSUME NEW x \in B PROVE x \in C /\ x \notin ev /\ x \notin D
    <2>1. PICK j \in 1 .. p : x = w[j]
      BY <1>1, <1>7
    <2>2. n + j \in 1 .. Len(l) /\ l[n + j] = x
      BY <1>2, <2>1
    <2>3. ASSUME NEW q \in lost PROVE h[q] # x
      <3>1. q \in 1 .. Len(l) /\ l[q] = h[q] /\ q # n + j
        BY <1>2
      <3> QED BY <1>5, <2>2, <3>1
    <2> QED BY <1>1, <1>4, <2>2, <2>3
  <1>8. ASSUME NEW x \in C, x \notin ev, x \notin D PROVE x \in A \/ x \in B
    <2>1. PICK i \in 1 .. Len(l) : l[i] = x
      BY <1>4, <1>8
    <2>2. CASE i \in 1 .. n
      BY <1>1, <1>2, <1>8, <2>1, <2>2
    <2>3. CASE \E j \in 1 .. p : i = n + j
      BY <1>1, <1>2, <2>1, <2>3
    <2> QED BY <1>2, <2>2, <2>3
  <1>9. A \cup B = C \ (ev \cup D)
    BY <1>6, <1>7, <1>8
  <1> QED BY <1>9 DEF NoneElse, A, B, C, D, n, p

\* The other conjuncts.
LEMMA LinesInTurn ==
  ASSUME NEW S, NEW h \in Seq(S), NEW w \in Seq(S), NEW acc, NEW ev,
         Delivers(h \o w, acc, ev), NEW lines \in Seq(Lines), Rising(lines, Len(h))
  PROVE  /\ \A i, j \in 1 .. Len(lines) : i < j => InTurn(acc, h[lines[i].id], h[lines[j].id])
         /\ \A i \in 1 .. Len(lines), j \in 1 .. Len(w) : InTurn(acc, h[lines[i].id], w[j])
         /\ \A i, j \in 1 .. Len(w) : i < j => InTurn(acc, w[i], w[j])
  <1> DEFINE l == h \o w
             n == Len(h)
             p == Len(w)
  <1>1. /\ n \in Nat /\ p \in Nat
        /\ \A i \in 1 .. n : i \in 1 .. Len(l) /\ l[i] = h[i]
        /\ \A j \in 1 .. p : n + j \in 1 .. Len(l) /\ l[n + j] = w[j]
    BY LineOfTwo
  <1>2. \A i, j \in 1 .. Len(l) : i < j => InTurn(acc, l[i], l[j])
    BY InTurnInLine
  <1>3. /\ \A i \in 1 .. Len(lines) : lines[i].id \in 1 .. n
        /\ \A i, j \in 1 .. Len(lines) : i < j => lines[i].id < lines[j].id
    BY DEF Rising
  <1> HIDE DEF l, n, p
  <1>4. ASSUME NEW i \in 1 .. Len(lines), NEW j \in 1 .. Len(lines), i < j
        PROVE  InTurn(acc, h[lines[i].id], h[lines[j].id])
    <2>1. lines[i].id \in 1 .. n /\ lines[j].id \in 1 .. n /\ lines[i].id < lines[j].id
      BY <1>3, <1>4
    <2> QED BY ONLY <1>1, <1>2, <2>1
  <1>5. ASSUME NEW i \in 1 .. Len(lines), NEW j \in 1 .. p PROVE InTurn(acc, h[lines[i].id], w[j])
    <2>1. lines[i].id \in 1 .. n
      BY <1>3
    <2>2. lines[i].id < n + j
      BY <1>1, <2>1
    <2> QED BY ONLY <1>1, <1>2, <1>5, <2>1, <2>2
  <1>6. ASSUME NEW i \in 1 .. p, NEW j \in 1 .. p, i < j PROVE InTurn(acc, w[i], w[j])
    <2>1. n + i < n + j
      BY <1>1, <1>6
    <2> QED BY ONLY <1>1, <1>2, <1>6, <2>1
  <1> QED BY <1>4, <1>5, <1>6 DEF n, p
-----------------------------------------------------------------------------
FileInv == FileTypes /\ SavedInv /\ DiskInv /\ CountInv

LEMMA FileInvInit == FileInit => FileInv
  <1> SUFFICES ASSUME FileInit PROVE FileInv
    OBVIOUS
  <1>1. /\ Init /\ dir = [n \in {} |-> 1] /\ contents = [i \in 1 .. Cardinality({}) |-> <<>>]
        /\ handle = [s \in Sinks |-> 0] /\ buffered = [s \in Sinks |-> <<>>]
        /\ spc = [s \in Sinks |-> "down"] /\ failures = 0 /\ crashes = 0 /\ lastId = 0
        /\ returned = <<>> /\ gone = {}
        /\ clean = {} /\ promised = {}
    <2>1. File!Cardinality({}) = Cardinality({})
      BY DEF File!Cardinality, Cardinality
    <2> QED BY <2>1 DEF FileInit, File!FileInit, File!NoFile
  <1>2. contents = <<>>
    BY <1>1, FS_EmptySet
  <1>3. DOMAIN dir = {} /\ FilesOK(dir, contents)
    <2>1. DOMAIN dir = {} /\ <<>> \in Seq(Seq(Lines))
      BY <1>1
    <2>2. \A D : DOMAIN dir = D /\ D = {} => dir \in [D -> 1 .. Len(contents)]
      BY <1>1
    <2> QED BY <1>2, <2>1, <2>2 DEF FilesOK
  <1>4. FileTypes
    <2>1. <<>> \in Seq(Lines) /\ returned \in Seq(Nat)
      BY <1>1
    <2>2. buffered \in [Sinks -> Seq(Lines)]
      BY <1>1, <2>1
    <2> QED BY <1>1, <1>3, <2>1, <2>2 DEF FileTypes, File!NoFile
  <1>5. Disk = {} /\ Buffer = {} /\ ToSet(returned) = {}
    <2>1. Disk = {}
      BY <1>3 DEF Disk, DiskOf
    <2>2. Buffer = {}
      <3>1. File!Whole(<<>>) = {}
        BY DEF File!Whole
      <3> QED BY <1>1, <3>1 DEF Buffer, BufferOf
    <2>3. ToSet(returned) = {}
      BY <1>1 DEF ToSet
    <2> QED BY <2>1, <2>2, <2>3
  <1>6. SavedInv
    <2>1. Len(handed) = 0
      BY <1>1 DEF Init
    <2> QED BY <1>1, <1>5, <2>1 DEF SavedInv
  <1>7. DiskInv
    <2>1. stopRequested = FALSE /\ pc = [c \in Producers |-> "idle"] /\ sinkFailures = 0
      BY <1>1 DEF Init, QueueInit
    <2> QED BY <1>1, <1>5, <2>1 DEF DiskInv, CleanInv, FlushPcs
  <1>8. CountInv
    <2>1. sinkFailures = 0
      BY <1>1 DEF Init
    <2>2. IsFiniteSet(ToSet(returned)) /\ Cardinality(ToSet(returned)) = 0
      BY <1>5, FS_EmptySet
    <2> QED BY <1>1, <2>1, <2>2 DEF CountInv
  <1> QED BY <1>4, <1>6, <1>7, <1>8 DEF FileInv

LEMMA FileInvStep == SinkInv /\ FileInv /\ [FileNext]_allVars => FileInv'
  BY FileStepKinds, SavedInvStep, DiskInvStep, CountInvStep DEF FileInv, CountInv

LEMMA FileInvariance == FileSpec => []FileInv
  <1>1. FileInit => FileInv
    BY FileInvInit
  <1>2. SinkInv /\ FileInv /\ [FileNext]_allVars => FileInv'
    BY FileInvStep
  <1>3. FileSpec => []SinkInv
    BY FileIsBehindSink, SinkInvariance, PTL
  <1> QED BY <1>1, <1>2, <1>3, PTL DEF FileSpec

\* What a client finds on the disk when flush() returns is every record handed over
\* before the call, unless a failure was counted since that hand-over; and it stays
\* there.  For any number of clients, records and failures, whatever a failed call does
\* with the lines of the stream, also after a crash.
THEOREM FlushedIsOnDisk == FileSpec => []FlushReachesDisk
  <1>1. FileInv => FlushReachesDisk
    BY DEF FileInv, DiskInv, FlushReachesDisk, Disk, DiskOf, File!OnDisk
  <1> QED BY <1>1, FileInvariance, PTL

\* After an orderly shutdown the counters tell whether something is missing in the
\* file, and what was written after the last counted failure is there: for every
\* capacity and policy, and whatever a failed call does with the lines of the stream.
THEOREM CountersExplainLosses == FileSpec => []AllAccountedFor
  <1>1. SinkInv /\ FileInv /\ FinalAccounting => AllAccountedFor
    <2> SUFFICES ASSUME SinkInv, FileInv, FinalAccounting, opc = "joined", AllIdle, crashes = 0,
                        \A s \in Sinks : spc[s] = "down", failures = sinkFailures
                 PROVE  /\ Cardinality(File!OnDisk) + droppedRecords <= Cardinality(submitted)
                        /\ sinkFailures = 0 =>
                             Cardinality(File!OnDisk) + droppedRecords = Cardinality(submitted)
                        /\ clean \subseteq File!OnDisk
      BY Zenon DEF AllAccountedFor
    <2> DEFINE n == Cardinality(ToSet(returned))
    <2>1. Cardinality(submitted) = lastId + droppedRecords
      BY DEF FinalAccounting, FileInv, SavedInv
    <2>2. Buffer = {}
      <3>1. File!Whole(<<>>) = {}
        BY DEF File!Whole
      <3> QED BY <3>1 DEF FileInv, FileTypes, Buffer, BufferOf
    <2>3. File!OnDisk = Disk /\ ToSet(returned) = Disk \cup gone /\ ToSet(returned) \subseteq 1 .. lastId
      BY <2>2 DEF FileInv, SavedInv, Disk, DiskOf, File!OnDisk
    <2>4. /\ lastId \in Nat /\ droppedRecords \in Nat /\ sinkFailures \in Nat
          /\ lastId <= n + sinkFailures /\ failures \in Nat /\ ~(crashes > 0)
      BY DEF FileInv, FileTypes, CountInv, SinkInv, TypeOK
    <2>5. IsFiniteSet(1 .. lastId) /\ Cardinality(1 .. lastId) = lastId
      <3>1. Cardinality(1 .. lastId) = IF 1 > lastId THEN 0 ELSE (lastId - 1) + 1
        BY <2>4, FS_Interval
      <3> QED BY <2>4, <3>1, FS_Interval
    <2>6. ASSUME NEW T, T \subseteq 1 .. lastId PROVE Cardinality(T) \in Nat /\ Cardinality(T) <= lastId
      <3>1. T \in SUBSET (1 .. lastId)
        BY <2>6
      <3> QED BY <2>5, <3>1, FS_Subset, FS_CardinalityType
    <2>7. Cardinality(File!OnDisk) \in Nat /\ Cardinality(File!OnDisk) <= lastId
      BY <2>3, <2>6
    <2>8. Cardinality(File!OnDisk) + droppedRecords <= Cardinality(submitted)
      BY <2>1, <2>4, <2>7
    <2>9. ASSUME sinkFailures = 0
          PROVE  Cardinality(File!OnDisk) + droppedRecords = Cardinality(submitted)
      <3>1. gone = {}
        BY <2>4, <2>9 DEF FileInv, CountInv
      <3>2. File!OnDisk = ToSet(returned)
        BY <2>3, <3>1
      <3>3. n \in Nat /\ n = Cardinality(File!OnDisk)
        BY <2>7, <3>2
      <3> HIDE DEF n
      <3> QED BY <2>1, <2>4, <2>7, <2>9, <3>3
    <2>10. clean \subseteq File!OnDisk
      <3>1. ~(failures > sinkFailures)
        BY <2>4
      <3> QED BY <2>2, <2>3, <2>4, <3>1 DEF FileInv, DiskInv, CleanInv
    <2> QED BY <2>8, <2>9, <2>10
  <1>2. FileSpec => []SinkInv /\ []FinalAccounting
    BY FileIsBehindSink, SinkInvariance, SinkAccountsForAll, PTL
  <1> QED BY <1>1, <1>2, FileInvariance, PTL

LEMMA OrderInvariance == FileSpec => []OrderInv
  <1>1. FileInit => OrderInv
    <2> SUFFICES ASSUME FileInit, NEW s \in Sinks
                 PROVE  Rising(Journal(s), lastId) /\ gone \cap File!Whole(Journal(s)) = {}
      BY DEF OrderInv
    <2>1. DOMAIN dir = {} /\ buffered[s] = <<>> /\ gone = {}
      <3>1. dir = [n \in {} |-> 1] /\ buffered = [t \in Sinks |-> <<>>] /\ gone = {}
        BY DEF FileInit, File!FileInit
      <3> QED BY <3>1
    <2>2. Journal(s) = <<>>
      BY <2>1 DEF Journal
    <2> QED BY <2>1, <2>2 DEF Rising
  <1>2. FileInv /\ OrderInv /\ [FileNext]_allVars => OrderInv'
    BY OrderInvStep DEF FileInv
  <1> QED BY <1>1, <1>2, FileInvariance, PTL DEF FileSpec

\* The file followed by the buffer, the batch and the queue has the accepted records in
\* the order of their acceptance, each once, and misses only those whose write threw or
\* that a failed call or a crash took from the buffer, for any number of clients,
\* records, failures and every capacity.
THEOREM FileKeepsOrder == FileSpec => []FileInOrder
  <1>1. SinkInv /\ FileInv /\ OrderInv /\ FifoDelivery => FileInOrder
    <2> SUFFICES ASSUME SinkInv, FileInv, OrderInv, FifoDelivery, NEW s \in Sinks
                 PROVE  LET whole == { i \in DOMAIN Journal(s) : Journal(s)[i].whole }
                            record(i) == handed[Journal(s)[i].id]
                            waiting == batch \o Contents(ring)
                        IN  /\ { record(i) : i \in whole } \cup ToSet(waiting)
                                 = ToSet(accepted) \ (evicted \cup LostInFile)
                            /\ \A i, j \in whole : i < j => Before(record(i), record(j))
                            /\ \A i \in whole, j \in DOMAIN waiting : Before(record(i), waiting[j])
                            /\ \A i, j \in DOMAIN waiting : i < j => Before(waiting[i], waiting[j])
      BY DEF FileInOrder
    <2> DEFINE lines == Journal(s)
               w == batch \o Contents(ring)
               n == Len(handed)
               kept == File!Whole(lines)
               whole == { i \in DOMAIN lines : lines[i].whole }
    <2>1. /\ handed \in Seq(Records) /\ w \in Seq(Records) /\ accepted \in Seq(Records)
          /\ Delivers(handed \o w, accepted, evicted)
      <3>1. /\ handed \in Seq(Records) /\ accepted \in Seq(Records)
            /\ batch \in Seq(Records) /\ Contents(ring) \in Seq(Records)
        BY LineTypes
      <3>2. w \in Seq(Records) /\ (handed \o batch) \o Contents(ring) = handed \o w
        BY ONLY <3>1, ThreeParts DEF w
      <3>3. Line = handed \o w
        BY <3>2 DEF Line
      <3> QED BY <3>1, <3>2, <3>3, DeliversIsFifo
    <2>2. /\ lines \in Seq(Lines) /\ Rising(lines, n) /\ lastId = n
          /\ gone \cap kept = {} /\ ToSet(returned) = kept \cup gone
          /\ ToSet(returned) \subseteq 1 .. n
      BY JournalIs DEF FileInv, SavedInv, OrderInv
    <2>3. DOMAIN handed = 1 .. n /\ DOMAIN accepted = 1 .. Len(accepted) /\ DOMAIN w = 1 .. Len(w)
          /\ DOMAIN lines = 1 .. Len(lines)
      BY <2>1, <2>2
    <2>4. kept \subseteq 1 .. n /\ (DOMAIN handed \ ToSet(returned)) \cup gone = (1 .. n) \ kept
      BY <2>2, <2>3
    <2>5. LostInFile = { handed[k] : k \in (1 .. n) \ kept }
      BY <2>4 DEF LostInFile
    <2>6. \A y : y \in kept <=> \E i \in whole : lines[i].id = y
      BY <2>2, <2>3, WholeElements
    <2>7. ToSet(w) = { w[j] : j \in 1 .. Len(w) } /\ ToSet(accepted) = { accepted[m] : m \in 1 .. Len(accepted) }
      BY <2>3 DEF ToSet
    <2>8. whole \subseteq 1 .. Len(lines)
      BY <2>3
    <2>9. \A a, b : InTurn(accepted, a, b) => Before(a, b)
      BY <2>3 DEF InTurn, Before
    <2> HIDE DEF lines, w, n, kept, whole
    <2>10. { handed[lines[i].id] : i \in whole } = { handed[k] : k \in kept }
      BY <2>6
    <2>11. { handed[lines[i].id] : i \in whole } \cup ToSet(w) = ToSet(accepted) \ (evicted \cup LostInFile)
      <3>1. { handed[k] : k \in kept } \cup { w[j] : j \in 1 .. Len(w) }
              = { accepted[m] : m \in 1 .. Len(accepted) }
                  \ (evicted \cup { handed[k] : k \in (1 .. Len(handed)) \ kept })
        <4>1. kept \in SUBSET (1 .. Len(handed))
          BY <2>4 DEF n
        <4>2. NoneElse(handed, w, accepted, evicted, kept)
          BY ONLY <2>1, <4>1, NothingElse
        <4> QED BY ONLY <4>2 DEF NoneElse
      <3> QED BY <2>5, <2>7, <2>10, <3>1 DEF n
    <2>12. /\ \A i, j \in 1 .. Len(lines) : i < j =>
                InTurn(accepted, handed[lines[i].id], handed[lines[j].id])
           /\ \A i \in 1 .. Len(lines), j \in 1 .. Len(w) : InTurn(accepted, handed[lines[i].id], w[j])
           /\ \A i, j \in 1 .. Len(w) : i < j => InTurn(accepted, w[i], w[j])
      BY ONLY <2>1, <2>2, LinesInTurn DEF n
    <2>13. /\ \A i, j \in whole : i < j => Before(handed[lines[i].id], handed[lines[j].id])
           /\ \A i \in whole, j \in DOMAIN w : Before(handed[lines[i].id], w[j])
           /\ \A i, j \in DOMAIN w : i < j => Before(w[i], w[j])
      BY ONLY <2>3, <2>8, <2>9, <2>12, Zenon
    <2> QED BY ONLY <2>11, <2>13 DEF lines, w, whole
  <1>2. FileSpec => []SinkInv /\ []FifoDelivery
    BY FileIsBehindSink, SinkInvariance, SinkDeliversInOrder, PTL
  <1> QED BY <1>1, <1>2, FileInvariance, OrderInvariance, PTL
================================================================================
