------------------------ MODULE WritePipelineProofs ------------------------
(***************************************************************************)
(* Theorems about WritePipeline, for any number of writes and of           *)
(* disturbances and any size of the pipeline; last of all, that the client *)
(* implements ReliableWrites.                                              *)
(*                                                                         *)
(* First come facts about the rows on disk and about FillWritePipeline,    *)
(* then the inductive invariant: the queue is sorted, the pipeline is its  *)
(* beginning, and what is on the wire is the pipeline.                     *)
(***************************************************************************)
EXTENDS WritePipeline, SequenceTheorems, FiniteSetTheorems, TLAPS

-----------------------------------------------------------------------------
(* The rows on disk.                                                       *)

\* Rows are sorted by id, from 1 on; they are in the order of the calls, too.
Sorted(queue) ==
  /\ \A i \in DOMAIN queue : queue[i].id >= 1
  /\ \A i, j \in DOMAIN queue :
       i < j => queue[i].id < queue[j].id /\ queue[i].write < queue[j].write

\* The batches of `line' are the first ones of `queue'.
Begins(line, queue) ==
  /\ Len(line) <= Len(queue)
  /\ \A i \in 1 .. Len(line) : line[i] = queue[i]

LEMMA BatchFields ==
  ASSUME NEW queue \in Seq(Batches), NEW i \in DOMAIN queue
  PROVE  queue[i] \in Batches /\ queue[i].id \in Nat /\ queue[i].write \in Writes
<1>1. queue[i] \in Batches
  BY ElementOfSeq, LenProperties
<1> QED BY <1>1 DEF Batches

\* IsPrefix, element by element.
LEMMA PrefixIsBeginning ==
  ASSUME NEW S, NEW s \in Seq(S), NEW t \in Seq(S)
  PROVE  IsPrefix(s, t) <=> Begins(s, t)
<1>1. Len(s) \in Nat /\ Len(t) \in Nat
  BY LenProperties
<1>2. SubSeq(s, 1, Len(s)) = s
  BY SubSeqFull
<1>3. ASSUME Len(s) <= Len(t)
      PROVE  s = SubSeq(t, 1, Len(s)) <=> \A i \in 1 .. Len(s) : s[i] = t[i]
  <2>1. /\ SubSeq(t, 1, Len(s)) \in Seq(S)
        /\ Len(SubSeq(t, 1, Len(s))) = Len(s)
        /\ \A i \in 1 .. Len(s) : SubSeq(t, 1, Len(s))[i] = t[i]
    <3>1. \A i \in 1 .. Len(s) : t[i] \in S
      BY <1>1, <1>3, ElementOfSeq
    <3> QED BY <1>1, <3>1, SubSeqProperties
  <2> QED BY <2>1, SeqEqual
<1> QED BY <1>1, <1>2, <1>3 DEF IsPrefix, Begins

\* The number of rows up to an id, if it splits the queue after row n.
LEMMA UpToIs ==
  ASSUME NEW queue \in Seq(Batches), NEW n \in 0 .. Len(queue), NEW id,
         \A i \in 1 .. n : queue[i].id <= id,
         \A i \in n + 1 .. Len(queue) : ~(queue[i].id <= id)
  PROVE  UpTo(queue, id) = n
<1>1. Len(queue) \in Nat /\ DOMAIN queue = 1 .. Len(queue)
  BY LenProperties
<1>2. {i \in DOMAIN queue : queue[i].id <= id} = 1 .. n
  BY <1>1
<1>3. Cardinality(1 .. n) = n
  BY <1>1, FS_Interval
<1> QED BY <1>2, <1>3 DEF UpTo

\* A batch with a new highest id goes to the end of the queue.
LEMMA PutAppends ==
  ASSUME NEW queue \in Seq(Batches), NEW batch \in Batches,
         \A i \in DOMAIN queue : queue[i].id < batch.id
  PROVE  Put(queue, batch) = Append(queue, batch)
<1>1. Len(queue) \in Nat /\ DOMAIN queue = 1 .. Len(queue)
  BY LenProperties
<1>2. batch.id \in Nat /\ \A i \in DOMAIN queue : queue[i].id \in Nat
  BY BatchFields DEF Batches
<1>3. UpTo(queue, batch.id - 1) = Len(queue) /\ UpTo(queue, batch.id) = Len(queue)
  <2>1. \A i \in 1 .. Len(queue) : queue[i].id <= batch.id - 1 /\ queue[i].id <= batch.id
    BY <1>1, <1>2
  <2>2. Len(queue) \in 0 .. Len(queue) /\ Len(queue) + 1 .. Len(queue) = {}
    BY <1>1
  <2>3. UpTo(queue, batch.id - 1) = Len(queue)
    BY <2>1, <2>2, UpToIs
  <2>4. UpTo(queue, batch.id) = Len(queue)
    BY <2>1, <2>2, UpToIs
  <2> QED BY <2>3, <2>4
<1>4. SubSeq(queue, 1, Len(queue)) = queue /\ SubSeq(queue, Len(queue) + 1, Len(queue)) = <<>>
  BY <1>1, SubSeqFull, SubSeqEmpty
<1>5. queue \o <<batch>> \in Seq(Batches)
  BY ConcatProperties
<1> QED BY <1>3, <1>4, <1>5, ConcatEmptySeq, AppendIsConcat DEF Put

\* Removing the first batch leaves the others.
LEMMA RemoveHead ==
  ASSUME NEW queue \in Seq(Batches), queue # <<>>, Sorted(queue)
  PROVE  RemoveMutationBatch(queue, Head(queue).id) = Tail(queue)
<1>1. Len(queue) \in Nat \ {0} /\ DOMAIN queue = 1 .. Len(queue) /\ Head(queue) = queue[1]
  BY LenProperties, EmptySeq
<1>2. \A i \in DOMAIN queue : queue[i].id \in Nat
  BY BatchFields
<1>3. \A i \in 2 .. Len(queue) : queue[1].id < queue[i].id
  BY <1>1 DEF Sorted
<1>4. UpTo(queue, queue[1].id - 1) = 0 /\ UpTo(queue, queue[1].id) = 1
  <2>1. \A i \in 1 .. Len(queue) : ~(queue[i].id <= queue[1].id - 1)
    BY <1>1, <1>2, <1>3
  <2>2. \A i \in 2 .. Len(queue) : ~(queue[i].id <= queue[1].id)
    BY <1>1, <1>2, <1>3
  <2>3. UpTo(queue, queue[1].id - 1) = 0
    BY <1>1, <2>1, UpToIs
  <2>4. UpTo(queue, queue[1].id) = 1
    BY <1>1, <1>2, <2>2, UpToIs
  <2> QED BY <2>3, <2>4
<1>5. SubSeq(queue, 1, 0) = <<>> /\ SubSeq(queue, 2, Len(queue)) = Tail(queue)
  BY <1>1, SubSeqEmpty, TailIsSubSeq
<1>6. Tail(queue) \in Seq(Batches)
  BY HeadTailProperties
<1> QED BY <1>1, <1>4, <1>5, <1>6, ConcatEmptySeq DEF RemoveMutationBatch

LEMMA TailSorted ==
  ASSUME NEW queue \in Seq(Batches), queue # <<>>, Sorted(queue)
  PROVE  Sorted(Tail(queue))
<1>1. /\ Len(queue) \in Nat /\ DOMAIN queue = 1 .. Len(queue)
      /\ DOMAIN Tail(queue) = 1 .. Len(queue) - 1
      /\ \A i \in 1 .. Len(queue) - 1 : Tail(queue)[i] = queue[i + 1]
  BY HeadTailProperties, LenProperties
<1> QED BY <1>1 DEF Sorted

LEMMA TailBegins ==
  ASSUME NEW S, NEW line \in Seq(S), NEW queue \in Seq(S), line # <<>>, Begins(line, queue)
  PROVE  queue # <<>> /\ Head(queue) = Head(line) /\ Begins(Tail(line), Tail(queue))
<1>1. Len(line) \in Nat \ {0} /\ Len(queue) \in Nat \ {0} /\ queue # <<>>
  BY LenProperties, EmptySeq DEF Begins
<1>2. /\ Len(Tail(line)) = Len(line) - 1 /\ Len(Tail(queue)) = Len(queue) - 1
      /\ \A i \in 1 .. Len(line) - 1 : Tail(line)[i] = line[i + 1]
      /\ \A i \in 1 .. Len(queue) - 1 : Tail(queue)[i] = queue[i + 1]
      /\ Head(line) = line[1] /\ Head(queue) = queue[1]
  BY <1>1, HeadTailProperties
<1> QED BY <1>1, <1>2 DEF Begins

\* The first element of t becomes the last one of s.
LEMMA HeadMoves ==
  ASSUME NEW S, NEW s \in Seq(S), NEW t \in Seq(S), t # <<>>
  PROVE  Append(s, Head(t)) \o Tail(t) = s \o t
<1>1. /\ Len(s) \in Nat /\ Len(t) \in Nat \ {0}
      /\ Head(t) \in S /\ Head(t) = t[1]
      /\ Tail(t) \in Seq(S) /\ Len(Tail(t)) = Len(t) - 1
      /\ \A i \in 1 .. Len(t) - 1 : Tail(t)[i] = t[i + 1]
  BY EmptySeq, LenProperties, HeadTailProperties
<1> DEFINE u == Append(s, Head(t))
           v == Tail(t)
<1>2. /\ u \in Seq(S) /\ Len(u) = Len(s) + 1
      /\ \A i \in 1 .. Len(s) : u[i] = s[i]
      /\ u[Len(s) + 1] = t[1]
  BY <1>1, AppendProperties
<1>3. v \in Seq(S) /\ Len(v) = Len(t) - 1 /\ \A i \in 1 .. Len(t) - 1 : v[i] = t[i + 1]
  BY <1>1
<1> HIDE DEF u, v
<1>4. /\ u \o v \in Seq(S) /\ Len(u \o v) = Len(s) + Len(t)
      /\ \A i \in 1 .. Len(s) + Len(t) :
           (u \o v)[i] = IF i <= Len(s) + 1 THEN u[i] ELSE v[i - (Len(s) + 1)]
  <2>1. /\ u \o v \in Seq(S) /\ Len(u \o v) = Len(u) + Len(v)
        /\ \A i \in 1 .. Len(u) + Len(v) :
             (u \o v)[i] = IF i <= Len(u) THEN u[i] ELSE v[i - Len(u)]
    BY <1>2, <1>3, ConcatProperties
  <2>2. Len(u) + Len(v) = Len(s) + Len(t)
    BY <1>1, <1>2, <1>3
  <2> QED BY <1>2, <2>1, <2>2
<1>5. /\ s \o t \in Seq(S) /\ Len(s \o t) = Len(s) + Len(t)
      /\ \A i \in 1 .. Len(s) + Len(t) :
           (s \o t)[i] = IF i <= Len(s) THEN s[i] ELSE t[i - Len(s)]
  BY ConcatProperties
<1>6. ASSUME NEW i \in 1 .. Len(s) + Len(t)
      PROVE  (u \o v)[i] = (s \o t)[i]
  <2>1. CASE i <= Len(s)
    BY <1>1, <1>2, <1>4, <1>5, <2>1
  <2>2. CASE i = Len(s) + 1
    BY <1>1, <1>2, <1>4, <1>5, <2>2
  <2>3. CASE i > Len(s) + 1
    <3>1. i - (Len(s) + 1) \in 1 .. Len(t) - 1 /\ (i - (Len(s) + 1)) + 1 = i - Len(s)
      BY <1>1, <2>3
    <3>2. v[i - (Len(s) + 1)] = t[(i - (Len(s) + 1)) + 1]
      BY <1>3, <3>1
    <3>3. (u \o v)[i] = v[i - (Len(s) + 1)]
      BY <1>1, <1>4, <2>3
    <3>4. (s \o t)[i] = t[i - Len(s)]
      BY <1>1, <1>5, <2>3
    <3> QED BY <3>1, <3>2, <3>3, <3>4
  <2>4. i <= Len(s) \/ i = Len(s) + 1 \/ i > Len(s) + 1
    BY <1>1
  <2> QED BY <2>1, <2>2, <2>3, <2>4
<1> QED BY <1>4, <1>5, <1>6, SeqEqual DEF u, v

LEMMA TailOfConcat ==
  ASSUME NEW S, NEW s \in Seq(S), NEW t \in Seq(S), s # <<>>
  PROVE  Tail(s \o t) = Tail(s) \o t
<1>1. /\ Len(s) \in Nat \ {0} /\ Len(t) \in Nat
      /\ Tail(s) \in Seq(S) /\ Len(Tail(s)) = Len(s) - 1
      /\ \A i \in 1 .. Len(s) - 1 : Tail(s)[i] = s[i + 1]
  BY EmptySeq, LenProperties, HeadTailProperties
<1> DEFINE c == s \o t
           u == Tail(s)
<1>2. /\ c \in Seq(S) /\ Len(c) = Len(s) + Len(t) /\ c # <<>>
      /\ \A i \in 1 .. Len(s) + Len(t) : c[i] = IF i <= Len(s) THEN s[i] ELSE t[i - Len(s)]
  BY <1>1, ConcatProperties, EmptySeq
<1>3. u \in Seq(S) /\ Len(u) = Len(s) - 1 /\ \A i \in 1 .. Len(s) - 1 : u[i] = s[i + 1]
  BY <1>1
<1> HIDE DEF c, u
<1>4. /\ Tail(c) \in Seq(S) /\ Len(Tail(c)) = (Len(s) + Len(t)) - 1
      /\ \A i \in 1 .. (Len(s) + Len(t)) - 1 : Tail(c)[i] = c[i + 1]
  BY <1>2, HeadTailProperties
<1>5. /\ u \o t \in Seq(S) /\ Len(u \o t) = (Len(s) + Len(t)) - 1
      /\ \A i \in 1 .. (Len(s) + Len(t)) - 1 :
           (u \o t)[i] = IF i <= Len(s) - 1 THEN u[i] ELSE t[i - (Len(s) - 1)]
  <2>1. /\ u \o t \in Seq(S) /\ Len(u \o t) = Len(u) + Len(t)
        /\ \A i \in 1 .. Len(u) + Len(t) :
             (u \o t)[i] = IF i <= Len(u) THEN u[i] ELSE t[i - Len(u)]
    BY <1>3, ConcatProperties
  <2>2. Len(u) + Len(t) = (Len(s) + Len(t)) - 1
    BY <1>1, <1>3
  <2> QED BY <1>3, <2>1, <2>2
<1>6. ASSUME NEW i \in 1 .. (Len(s) + Len(t)) - 1
      PROVE  Tail(c)[i] = (u \o t)[i]
  <2>1. i + 1 \in 1 .. Len(s) + Len(t) /\ Tail(c)[i] = c[i + 1]
    BY <1>1, <1>4
  <2>2. CASE i <= Len(s) - 1
    BY <1>1, <1>2, <1>3, <1>5, <2>1, <2>2
  <2>3. CASE ~(i <= Len(s) - 1)
    <3>1. ~(i + 1 <= Len(s)) /\ (i + 1) - Len(s) = i - (Len(s) - 1)
      BY <1>1, <2>3
    <3> QED BY <1>2, <1>5, <2>1, <2>3, <3>1
  <2> QED BY <2>2, <2>3
<1> QED BY <1>4, <1>5, <1>6, SeqEqual DEF c, u

LEMMA ConcatBegins ==
  ASSUME NEW S, NEW s \in Seq(S), NEW t \in Seq(S)
  PROVE  Begins(s, s \o t)
BY ConcatProperties, LenProperties DEF Begins

-----------------------------------------------------------------------------
(* The writes of the batches.                                              *)

LEMMA WritesOfProperties ==
  ASSUME NEW s \in Seq(Batches)
  PROVE  /\ WritesOf(s) \in Seq(Writes)
         /\ Len(WritesOf(s)) = Len(s)
         /\ \A i \in 1 .. Len(s) : WritesOf(s)[i] = s[i].write
         /\ WritesOf(s) = <<>> <=> s = <<>>
<1>1. Len(s) \in Nat /\ DOMAIN s = 1 .. Len(s)
  BY LenProperties
<1>2. \A i \in 1 .. Len(s) : s[i].write \in Writes
  BY <1>1, BatchFields
<1>3. WritesOf(s) \in [1 .. Len(s) -> Writes]
  BY <1>1, <1>2 DEF WritesOf
<1>4. WritesOf(s) \in Seq(Writes)
  BY <1>1, <1>3, SeqDef
<1>5. Len(WritesOf(s)) = Len(s) /\ \A i \in 1 .. Len(s) : WritesOf(s)[i] = s[i].write
  BY <1>1, <1>3, <1>4, LenProperties DEF WritesOf
<1> QED BY <1>4, <1>5, EmptySeq

LEMMA WritesOfConcat ==
  ASSUME NEW s \in Seq(Batches), NEW t \in Seq(Batches)
  PROVE  WritesOf(s \o t) = WritesOf(s) \o WritesOf(t)
<1>1. Len(s) \in Nat /\ Len(t) \in Nat
  BY LenProperties
<1>2. /\ s \o t \in Seq(Batches) /\ Len(s \o t) = Len(s) + Len(t)
      /\ \A i \in 1 .. Len(s) + Len(t) :
           (s \o t)[i] = IF i <= Len(s) THEN s[i] ELSE t[i - Len(s)]
  BY ConcatProperties
<1>3. /\ WritesOf(s) \o WritesOf(t) \in Seq(Writes)
      /\ Len(WritesOf(s) \o WritesOf(t)) = Len(s) + Len(t)
      /\ \A i \in 1 .. Len(s) + Len(t) : (WritesOf(s) \o WritesOf(t))[i] =
           IF i <= Len(s) THEN WritesOf(s)[i] ELSE WritesOf(t)[i - Len(s)]
  <2>1. /\ WritesOf(s) \in Seq(Writes) /\ Len(WritesOf(s)) = Len(s)
        /\ WritesOf(t) \in Seq(Writes) /\ Len(WritesOf(t)) = Len(t)
    BY WritesOfProperties
  <2> DEFINE ws == WritesOf(s)
             wt == WritesOf(t)
  <2> HIDE DEF ws, wt
  <2>2. /\ ws \o wt \in Seq(Writes)
        /\ Len(ws \o wt) = Len(ws) + Len(wt)
        /\ \A i \in 1 .. Len(ws) + Len(wt) :
             (ws \o wt)[i] = IF i <= Len(ws) THEN ws[i] ELSE wt[i - Len(ws)]
    BY <2>1, ConcatProperties DEF ws, wt
  <2> QED BY <2>1, <2>2 DEF ws, wt
<1>4. WritesOf(s \o t) \in Seq(Writes) /\ Len(WritesOf(s \o t)) = Len(s) + Len(t)
  BY <1>2, WritesOfProperties
<1>5. ASSUME NEW i \in 1 .. Len(s) + Len(t)
      PROVE  WritesOf(s \o t)[i] = (WritesOf(s) \o WritesOf(t))[i]
  <2>1. WritesOf(s \o t)[i] = (s \o t)[i].write
    BY <1>2, WritesOfProperties
  <2>2. CASE i <= Len(s)
    BY <1>1, <1>2, <1>3, <2>1, <2>2, WritesOfProperties
  <2>3. CASE ~(i <= Len(s))
    <3>1. i - Len(s) \in 1 .. Len(t)
      BY <1>1, <2>3
    <3> QED BY <1>2, <1>3, <2>1, <2>3, <3>1, WritesOfProperties
  <2> QED BY <2>2, <2>3
<1> QED BY <1>3, <1>4, <1>5, SeqEqual

LEMMA WritesOfTail ==
  ASSUME NEW s \in Seq(Batches), s # <<>>
  PROVE  /\ WritesOf(Tail(s)) = Tail(WritesOf(s))
         /\ Head(WritesOf(s)) = Head(s).write
<1>1. Len(s) \in Nat \ {0} /\ Head(s) = s[1]
  BY EmptySeq
<1>2. /\ Tail(s) \in Seq(Batches) /\ Len(Tail(s)) = Len(s) - 1
      /\ \A i \in 1 .. Len(s) - 1 : Tail(s)[i] = s[i + 1]
  BY HeadTailProperties
<1>3. /\ WritesOf(s) \in Seq(Writes) /\ WritesOf(s) # <<>> /\ Len(WritesOf(s)) = Len(s)
      /\ \A i \in 1 .. Len(s) : WritesOf(s)[i] = s[i].write
  BY WritesOfProperties
<1>4. /\ Tail(WritesOf(s)) \in Seq(Writes) /\ Len(Tail(WritesOf(s))) = Len(s) - 1
      /\ \A i \in 1 .. Len(s) - 1 : Tail(WritesOf(s))[i] = WritesOf(s)[i + 1]
      /\ Head(WritesOf(s)) = WritesOf(s)[1]
  BY <1>3, HeadTailProperties
<1>5. /\ WritesOf(Tail(s)) \in Seq(Writes) /\ Len(WritesOf(Tail(s))) = Len(s) - 1
      /\ \A i \in 1 .. Len(s) - 1 : WritesOf(Tail(s))[i] = Tail(s)[i].write
  BY <1>2, WritesOfProperties
<1>6. \A i \in 1 .. Len(s) - 1 : WritesOf(Tail(s))[i] = Tail(WritesOf(s))[i]
  BY <1>1, <1>2, <1>3, <1>4, <1>5
<1>7. WritesOf(Tail(s)) = Tail(WritesOf(s))
  BY <1>4, <1>5, <1>6, SeqEqual
<1> QED BY <1>1, <1>3, <1>4, <1>7

-----------------------------------------------------------------------------
(* What FillWritePipeline does.                                            *)

\* The pipeline goes on where it was on disk, as far as there are batches and room.
LEMMA AddedProperties ==
  ASSUME NEW line \in Seq(Batches), NEW queue \in Seq(Batches),
         Sorted(queue), Begins(line, queue), Len(line) <= MaxPendingWrites
  PROVE  /\ Added(line, queue) \in Seq(Batches)
         /\ line \o Added(line, queue) \in Seq(Batches)
         /\ Begins(line \o Added(line, queue), queue)
         /\ Len(line \o Added(line, queue)) <= MaxPendingWrites
         /\ line \o Added(line, queue) = <<>> => queue = <<>>
         /\ line \o Added(line, queue) = <<>> <=> line = <<>> /\ Added(line, queue) = <<>>
<1> DEFINE last == IF line = <<>> THEN 0 ELSE Last(line).id
           next == NextMutationBatches(queue, last)
           added == Added(line, queue)
           room == Min2(Len(next), MaxPendingWrites - Len(line))
<1>1. /\ Len(line) \in Nat /\ Len(queue) \in Nat /\ Len(line) <= Len(queue)
      /\ DOMAIN queue = 1 .. Len(queue) /\ MaxPendingWrites \in Nat \ {0}
  BY LenProperties, BoundAssumption DEF Begins
<1>2. UpTo(queue, last) = Len(line)
  <2>1. \A i \in DOMAIN queue : queue[i].id \in Nat /\ queue[i].id >= 1
    BY BatchFields DEF Sorted
  <2>2. CASE line = <<>>
    <3>1. Len(line) = 0
      BY <2>2
    <3>2. \A i \in 1 .. Len(queue) : ~(queue[i].id <= 0)
      BY <1>1, <2>1
    <3> QED BY <1>1, <2>2, <3>1, <3>2, UpToIs
  <2>3. CASE line # <<>>
    <3>1. Len(line) \in 1 .. Len(queue) /\ last = queue[Len(line)].id
      BY <1>1, <2>3, EmptySeq DEF Last, Begins
    <3>2. \A i \in 1 .. Len(line) : queue[i].id <= last
      BY <1>1, <2>1, <3>1 DEF Sorted
    <3>3. \A i \in Len(line) + 1 .. Len(queue) : ~(queue[i].id <= last)
      BY <1>1, <2>1, <3>1 DEF Sorted
    <3> QED BY <1>1, <3>2, <3>3, UpToIs
  <2> QED BY <2>2, <2>3
<1>3. /\ next \in Seq(Batches)
      /\ Len(next) = Len(queue) - Len(line)
      /\ \A i \in 1 .. Len(next) : next[i] = queue[Len(line) + i]
  <2>1. next = SubSeq(queue, Len(line) + 1, Len(queue))
    BY <1>2 DEF NextMutationBatches
  <2>2. \A i \in Len(line) + 1 .. Len(queue) : queue[i] \in Batches
    BY <1>1, ElementOfSeq
  <2> HIDE DEF next
  <2> QED BY <1>1, <2>1, <2>2, SubSeqProperties
<1>4. added = SubSeq(next, 1, room)
  BY DEF Added
<1> HIDE DEF next, added
<1>5. /\ room \in 0 .. Len(next) /\ room <= MaxPendingWrites - Len(line)
      /\ room = 0 => Len(next) = 0 \/ Len(line) = MaxPendingWrites
  BY <1>1, <1>3 DEF Min2
<1> HIDE DEF room
<1>6. /\ added \in Seq(Batches) /\ Len(added) = room
      /\ \A i \in 1 .. room : added[i] = next[i]
  <2>1. \A i \in 1 .. room : next[i] \in Batches
    BY <1>1, <1>3, <1>5, ElementOfSeq
  <2> QED BY <1>1, <1>3, <1>4, <1>5, <2>1, SubSeqProperties
<1>7. /\ line \o added \in Seq(Batches)
      /\ Len(line \o added) = Len(line) + room
      /\ \A i \in 1 .. Len(line) + room :
           (line \o added)[i] = IF i <= Len(line) THEN line[i] ELSE added[i - Len(line)]
  BY <1>6, ConcatProperties
<1>8. Begins(line \o added, queue)
  <2>1. ASSUME NEW i \in 1 .. Len(line) + room
        PROVE  (line \o added)[i] = queue[i]
    <3>1. CASE i <= Len(line)
      BY <1>1, <1>7, <3>1 DEF Begins
    <3>2. CASE ~(i <= Len(line))
      <4>1. i - Len(line) \in 1 .. room /\ Len(line) + (i - Len(line)) = i
        BY <1>1, <1>5, <3>2
      <4>2. i - Len(line) \in 1 .. Len(next)
        BY <1>1, <1>3, <1>5, <4>1
      <4> QED BY <1>3, <1>6, <1>7, <3>2, <4>1, <4>2
    <3> QED BY <3>1, <3>2
  <2>2. Len(line) + room <= Len(queue)
    BY <1>1, <1>3, <1>5
  <2> QED BY <1>7, <2>1, <2>2 DEF Begins
<1>9. line \o added = <<>> => queue = <<>>
  <2>1. line \o added = <<>> => Len(line) + room = 0
    BY <1>7
  <2> QED BY <1>1, <1>3, <1>5, <2>1, EmptySeq
<1>10. line \o added = <<>> <=> line = <<>> /\ added = <<>>
  BY <1>6, ConcatEqualIffEmpty
<1> QED BY <1>1, <1>5, <1>6, <1>7, <1>8, <1>9, <1>10 DEF added

\* A connection that fits the pipeline `line' it is to carry: its stream `s', whether
\* it has shaken hands, and what is under way on it.
Fits(line, s, shaken, sent, answered, ended) ==
  /\ CallbacksFit(s)
  /\ s.idle => shaken /\ line = <<>>
  /\ shaken => IsOpen(s) /\ Begins(answered, WritesOf(line))
  /\ shaken /\ ended = "none" => answered \o sent = WritesOf(line)
  /\ ~shaken => /\ sent \in {<<>>, <<Hello>>} /\ answered \in {<<>>, <<Hello>>}
                /\ sent = <<>> \/ answered = <<>>
  /\ ~IsOpen(s) => sent = <<>> /\ answered = <<>> /\ ended = "none"

-----------------------------------------------------------------------------
(* The inductive invariant.                                                *)

QueueInOrder ==
  /\ Sorted(disk)
  /\ \A i \in DOMAIN disk :
       disk[i].write <= issued /\ (running => disk[i].id < nextBatchId)
  /\ nextBatchId >= 1

\* The connection carries the pipeline, and the pipeline is what is first on disk.
PipelineInOrder ==
  /\ Begins(pipeline, disk)
  /\ Fits(pipeline, stream, handshake, requests, responses, verdict)
  /\ handshake => \A i \in DOMAIN responses : responses[i] \in applied
  /\ ~running => stream = NewStream /\ pipeline = <<>>

CallbacksOnDisk ==
  \A id \in DOMAIN callbacks :
    \E i \in DOMAIN disk : disk[i].id = id /\ disk[i].write = callbacks[id]

\* What a lost connection may still deliver was issued, and none of it overtakes a
\* write that is on disk and has not been applied.
OrphansInOrder ==
  \A o \in orphans :
    /\ o # <<>>
    /\ \A i \in DOMAIN o :
         /\ o[i] <= issued
         /\ \A v \in Queued : v < o[i] => v \in applied \/ \E j \in 1 .. i - 1 : o[j] = v

PipeInv ==
  /\ TypeOK
  /\ QueueInOrder
  /\ PipelineInOrder
  /\ CallbacksOnDisk
  /\ OrphansInOrder
  /\ NothingLost

-----------------------------------------------------------------------------
(* The connection and the pipeline.                                        *)

\* MarkIdle and Start, which end FillWritePipeline, leave a fitting stream fitting.
LEMMA StreamSettles ==
  ASSUME NEW s \in Streams, CallbacksFit(s), NEW empty \in BOOLEAN,
         s.idle => empty
  PROVE  LET marked == IF empty THEN MarkIdle(s) ELSE s
             settled == IF ~IsStarted(marked) /\ ~empty THEN Start(marked) ELSE marked
         IN  /\ settled \in Streams
             /\ CallbacksFit(settled)
             /\ IsOpen(settled) <=> IsOpen(s)
             /\ settled.idle => empty
<1>1. CASE empty
  BY <1>1 DEF MarkIdle, IsOpen, CallbacksFit, Streams
<1>2. CASE ~empty /\ s.state = "Error"
  BY <1>2 DEF Start, BackoffAndTryRestarting, IsStarted, IsOpen, CallbacksFit, Streams
<1>3. CASE ~empty /\ s.state # "Error"
  BY <1>3 DEF Start, RequestCredentials, IsStarted, IsOpen, CallbacksFit, Streams
<1> QED BY <1>1, <1>2, <1>3

\* After FillWritePipeline the connection fits what the pipeline has become.
LEMMA FillKeeps ==
  ASSUME NEW line \in Seq(Batches), NEW queue \in Seq(Batches),
         Sorted(queue), Begins(line, queue), Len(line) <= MaxPendingWrites,
         NEW s \in Streams, NEW shaken \in BOOLEAN,
         NEW sent \in Seq({Hello} \cup Writes),
         responses' \in Seq({Hello} \cup Writes),
         FillWritePipeline(line, queue, s, shaken, sent),
         Fits(line, s, handshake', sent, responses', verdict'),
         IsOpen(s) => handshake' = shaken,
         handshake' \/ ~IsOpen(s) \/ queue # <<>>
  PROVE  /\ pipeline' \in Seq(Batches)
         /\ Len(pipeline') <= MaxPendingWrites
         /\ Begins(pipeline', queue)
         /\ stream' \in Streams
         /\ requests' \in Seq({Hello} \cup Writes)
         /\ Fits(pipeline', stream', handshake', requests', responses', verdict')
<1> DEFINE added == Added(line, queue)
           sending == SendsAtOnce(s, shaken) /\ added # <<>>
           s1 == IF sending THEN Write(s) ELSE s
<1>1. /\ added \in Seq(Batches)
      /\ line \o added \in Seq(Batches)
      /\ Begins(line \o added, queue)
      /\ Len(line \o added) <= MaxPendingWrites
      /\ line \o added = <<>> => queue = <<>>
      /\ line \o added = <<>> <=> line = <<>> /\ added = <<>>
  BY AddedProperties
<1>2. /\ pipeline' = line \o added
      /\ requests' = IF sending THEN sent \o WritesOf(added) ELSE sent
      /\ stream' = LET marked == IF pipeline' = <<>> THEN MarkIdle(s1) ELSE s1
                   IN  IF ~IsStarted(marked) /\ pipeline' # <<>> THEN Start(marked) ELSE marked
  BY DEF FillWritePipeline
<1> HIDE DEF added
<1>3. sending <=> IsOpen(s) /\ handshake' /\ added # <<>>
  BY DEF SendsAtOnce
<1> HIDE DEF sending
<1>4. /\ s1 \in Streams /\ CallbacksFit(s1) /\ (IsOpen(s1) <=> IsOpen(s))
      /\ s1.idle => pipeline' = <<>>
  <2>1. CASE sending
    BY <2>1 DEF Write, CancelIdleCheck, IsOpen, CallbacksFit, Streams, Fits
  <2>2. CASE ~sending
    BY <1>1, <1>2, <1>3, <2>2 DEF IsOpen, CallbacksFit, Fits
  <2> QED BY <2>1, <2>2
<1> HIDE DEF s1
<1>5. /\ stream' \in Streams /\ CallbacksFit(stream') /\ (IsOpen(stream') <=> IsOpen(s))
      /\ stream'.idle => pipeline' = <<>>
  BY <1>2, <1>4, StreamSettles
<1>6. stream'.idle => handshake' /\ pipeline' = <<>>
  BY <1>1, <1>2, <1>5 DEF CallbacksFit
<1>7. /\ WritesOf(added) \in Seq(Writes) /\ WritesOf(line) \in Seq(Writes)
      /\ WritesOf(added) \in Seq({Hello} \cup Writes)
      /\ WritesOf(line) \in Seq({Hello} \cup Writes)
      /\ added = <<>> => WritesOf(added) = <<>>
  BY <1>1, WritesOfProperties, SeqMonotonic
<1>8. requests' \in Seq({Hello} \cup Writes)
  BY <1>2, <1>7, ConcatProperties
<1>9. handshake' => /\ requests' = sent \o WritesOf(added)
                    /\ WritesOf(pipeline') = WritesOf(line) \o WritesOf(added)
  <2>1. ~sending /\ handshake' => added = <<>>
    BY <1>3 DEF Fits
  <2>2. sent \o <<>> = sent
    BY ConcatEmptySeq
  <2> QED BY <1>1, <1>2, <1>7, <2>1, <2>2, WritesOfConcat
<1>10. handshake' => Begins(responses', WritesOf(pipeline'))
  <2> SUFFICES ASSUME handshake'
               PROVE  Begins(responses', WritesOf(line) \o WritesOf(added))
    BY <1>9
  <2>1. Begins(responses', WritesOf(line))
    BY DEF Fits
  <2> DEFINE wl == WritesOf(line)
             wa == WritesOf(added)
  <2> HIDE DEF wl, wa
  <2>2. wl \in Seq(Writes) /\ wa \in Seq(Writes) /\ Begins(responses', wl)
    BY <1>7, <2>1 DEF wl, wa
  <2>3. Begins(responses', wl \o wa)
    <3>1. Len(wl) \in Nat /\ Len(wa) \in Nat /\ Len(responses') \in Nat
      BY <2>2, LenProperties
    <3>2. Len(wl \o wa) = Len(wl) + Len(wa) /\ \A i \in 1 .. Len(wl) : (wl \o wa)[i] = wl[i]
      BY <2>2, <3>1, ConcatProperties
    <3> QED BY <2>2, <3>1, <3>2 DEF Begins
  <2> QED BY <2>3 DEF wl, wa
<1>11. handshake' /\ verdict' = "none" => responses' \o requests' = WritesOf(pipeline')
  <2> SUFFICES ASSUME handshake', verdict' = "none"
               PROVE  responses' \o (sent \o WritesOf(added)) = WritesOf(line) \o WritesOf(added)
    BY <1>9
  <2>1. responses' \o sent = WritesOf(line)
    BY DEF Fits
  <2>2. (responses' \o sent) \o WritesOf(added) = responses' \o (sent \o WritesOf(added))
    <3> DEFINE wa == WritesOf(added)
    <3>1. wa \in Seq({Hello} \cup Writes)
      BY <1>7
    <3> HIDE DEF wa
    <3>2. (responses' \o sent) \o wa = responses' \o (sent \o wa)
      BY <3>1, ConcatAssociative
    <3> QED BY <3>2 DEF wa
  <2> QED BY <2>1, <2>2
<1>12. ~handshake' => requests' = sent
  BY <1>2, <1>3
<1>13. ~IsOpen(s) => requests' = sent
  BY <1>2, <1>3
<1>14. Fits(pipeline', stream', handshake', requests', responses', verdict')
  <2>1. /\ ~handshake' => /\ sent \in {<<>>, <<Hello>>} /\ responses' \in {<<>>, <<Hello>>}
                          /\ sent = <<>> \/ responses' = <<>>
        /\ ~IsOpen(s) => sent = <<>> /\ responses' = <<>> /\ verdict' = "none"
        /\ handshake' => IsOpen(s)
    BY DEF Fits
  <2> QED BY <1>5, <1>6, <1>10, <1>11, <1>12, <1>13, <2>1 DEF Fits
<1> QED BY <1>1, <1>2, <1>5, <1>8, <1>14

\* The other steps of a stream leave it among the streams, and fitting.
LEMMA StreamSteps ==
  ASSUME NEW s \in Streams, CallbacksFit(s)
  PROVE  /\ s.backoff => /\ BackoffElapses(s) \in Streams /\ CallbacksFit(BackoffElapses(s))
                         /\ ~IsOpen(s) /\ ~IsOpen(BackoffElapses(s)) /\ ~BackoffElapses(s).idle
         /\ \A when \in s.asked :
              /\ CredentialsArrive(s, when) \in Streams
              /\ CallbacksFit(CredentialsArrive(s, when))
              /\ CredentialsArrive(s, when).idle = s.idle
              /\ when = "now" => ~IsOpen(s) /\ IsOpen(CredentialsArrive(s, when))
              /\ when # "now" => (IsOpen(CredentialsArrive(s, when)) <=> IsOpen(s))
         /\ Write(s) \in Streams /\ CallbacksFit(Write(s))
         /\ ~Write(s).idle /\ (IsOpen(Write(s)) <=> IsOpen(s))
<1>1. ASSUME s.backoff
      PROVE  /\ BackoffElapses(s) \in Streams /\ CallbacksFit(BackoffElapses(s))
             /\ ~IsOpen(s) /\ ~IsOpen(BackoffElapses(s)) /\ ~BackoffElapses(s).idle
  BY <1>1 DEF BackoffElapses, Start, RequestCredentials, IsOpen, CallbacksFit, Streams
<1>2. ASSUME NEW when \in s.asked
      PROVE  /\ CredentialsArrive(s, when) \in Streams
             /\ CallbacksFit(CredentialsArrive(s, when))
             /\ CredentialsArrive(s, when).idle = s.idle
             /\ when = "now" => ~IsOpen(s) /\ IsOpen(CredentialsArrive(s, when))
             /\ when # "now" => (IsOpen(CredentialsArrive(s, when)) <=> IsOpen(s))
  <2>1. when \in {"now", "before"}
    BY DEF Streams
  <2>2. CASE when = "now"
    BY <2>2 DEF CredentialsArrive, IsOpen, CallbacksFit, Streams
  <2>3. CASE when = "before"
    BY <2>3 DEF CredentialsArrive, IsOpen, CallbacksFit, Streams
  <2> QED BY <2>1, <2>2, <2>3
<1>3. /\ Write(s) \in Streams /\ CallbacksFit(Write(s))
      /\ ~Write(s).idle /\ (IsOpen(Write(s)) <=> IsOpen(s))
  BY DEF Write, CancelIdleCheck, IsOpen, CallbacksFit, Streams
<1> QED BY <1>1, <1>2, <1>3

\* A stream that was closed is not open, and no timer of it runs on.
LEMMA StreamCloses ==
  ASSUME NEW s \in Streams, CallbacksFit(s), NEW graceful \in BOOLEAN
  PROVE  /\ Close(s, graceful) \in Streams /\ CallbacksFit(Close(s, graceful))
         /\ ~IsOpen(Close(s, graceful)) /\ ~Close(s, graceful).idle
         /\ InhibitBackoff(Close(s, graceful)) \in Streams
         /\ CallbacksFit(InhibitBackoff(Close(s, graceful)))
         /\ ~IsOpen(InhibitBackoff(Close(s, graceful)))
         /\ ~InhibitBackoff(Close(s, graceful)).idle
         /\ ~graceful => /\ Start(Close(s, graceful)) \in Streams
                         /\ CallbacksFit(Start(Close(s, graceful)))
                         /\ ~IsOpen(Start(Close(s, graceful)))
                         /\ ~Start(Close(s, graceful)).idle
<1>1. CASE graceful /\ ~IsStarted(s)
  BY <1>1 DEF Close, InhibitBackoff, IsStarted, IsOpen, CallbacksFit, Streams
<1>2. CASE ~(graceful /\ ~IsStarted(s))
  <2> DEFINE c == Close(s, graceful)
  <2>1. c = [state |-> IF graceful THEN "Initial" ELSE "Error",
             asked |-> IF s.asked = {} THEN {} ELSE {"before"},
             backoff |-> FALSE, idle |-> FALSE]
    BY <1>2 DEF Close
  <2> HIDE DEF c
  <2>2. /\ c \in Streams /\ c.state \in {"Initial", "Error"} /\ "now" \notin c.asked
        /\ ~c.backoff /\ ~c.idle /\ (~graceful => c.state = "Error")
    BY <2>1 DEF Streams
  <2>3. CallbacksFit(c) /\ ~IsOpen(c) /\ ~c.idle
    BY <2>2 DEF CallbacksFit, IsOpen
  <2>4. /\ InhibitBackoff(c) \in Streams /\ CallbacksFit(InhibitBackoff(c))
        /\ ~IsOpen(InhibitBackoff(c)) /\ ~InhibitBackoff(c).idle
    BY <2>2 DEF InhibitBackoff, CallbacksFit, IsOpen, Streams
  <2>5. ~graceful => /\ Start(c) \in Streams /\ CallbacksFit(Start(c))
                     /\ ~IsOpen(Start(c)) /\ ~Start(c).idle
    BY <2>2 DEF Start, BackoffAndTryRestarting, CallbacksFit, IsOpen, Streams
  <2> QED BY <2>2, <2>3, <2>4, <2>5 DEF c
<1> QED BY <1>1, <1>2

\* A connection on which nothing was said yet fits any pipeline.
LEMMA NothingSaid ==
  ASSUME NEW line, NEW s, CallbacksFit(s), ~s.idle, ~IsOpen(s)
  PROVE  Fits(line, s, FALSE, <<>>, <<>>, "none")
BY DEF Fits

-----------------------------------------------------------------------------
(* What the invariant says of the wire.                                    *)

LEMMA DiskShape ==
  ASSUME TypeOK
  PROVE  /\ disk \in Seq(Batches) /\ Len(disk) \in Nat /\ DOMAIN disk = 1 .. Len(disk)
         /\ \A i \in DOMAIN disk : disk[i].id \in Nat /\ disk[i].write \in Writes
         /\ pipeline \in Seq(Batches) /\ Len(pipeline) \in Nat
         /\ DOMAIN pipeline = 1 .. Len(pipeline)
         /\ issued \in Nat /\ nextBatchId \in Nat /\ Writes \subseteq Nat
<1>1. disk \in Seq(Batches) /\ pipeline \in Seq(Batches)
  BY DEF TypeOK
<1>2. issued \in Nat /\ nextBatchId \in Nat /\ Writes \subseteq Nat
  BY DEF TypeOK, Writes
<1> QED BY <1>1, <1>2, LenProperties, BatchFields

\* Once hands are shaken, the responses and then the requests are the first rows.
LEMMA WireIsDisk ==
  ASSUME TypeOK, PipelineInOrder, handshake
  PROVE  /\ Len(responses) \in Nat /\ Len(requests) \in Nat
         /\ DOMAIN responses = 1 .. Len(responses)
         /\ DOMAIN requests = 1 .. Len(requests)
         /\ Len(responses) <= Len(pipeline)
         /\ \A i \in 1 .. Len(responses) : i \in DOMAIN disk /\ responses[i] = disk[i].write
         /\ verdict = "none" =>
              /\ requests \in Seq(Writes)
              /\ Len(pipeline) = Len(responses) + Len(requests)
              /\ \A k \in 1 .. Len(requests) :
                   /\ Len(responses) + k \in DOMAIN disk
                   /\ requests[k] = disk[Len(responses) + k].write
<1>1. /\ responses \in Seq({Hello} \cup Writes) /\ requests \in Seq({Hello} \cup Writes)
      /\ Len(responses) \in Nat /\ Len(requests) \in Nat
      /\ DOMAIN responses = 1 .. Len(responses) /\ DOMAIN requests = 1 .. Len(requests)
  <2>1. responses \in Seq({Hello} \cup Writes) /\ requests \in Seq({Hello} \cup Writes)
    BY DEF TypeOK
  <2> QED BY <2>1, LenProperties
<1> DEFINE line == WritesOf(pipeline)
<1>2. /\ line \in Seq(Writes) /\ Len(line) = Len(pipeline)
      /\ \A i \in 1 .. Len(pipeline) : line[i] = pipeline[i].write
  BY DiskShape, WritesOfProperties
<1>3. Begins(responses, line) /\ (verdict = "none" => responses \o requests = line)
  BY DEF PipelineInOrder, Fits
<1> HIDE DEF line
<1>4. \A i \in 1 .. Len(pipeline) : i \in DOMAIN disk /\ line[i] = disk[i].write
  BY <1>2, DiskShape DEF PipelineInOrder, Begins
<1>5. /\ Len(responses) <= Len(pipeline)
      /\ \A i \in 1 .. Len(responses) : i \in DOMAIN disk /\ responses[i] = disk[i].write
  <2>1. Len(responses) <= Len(pipeline) /\ Len(pipeline) \in Nat
    BY <1>2, <1>3, DiskShape DEF Begins
  <2>2. \A i \in 1 .. Len(responses) : i \in 1 .. Len(pipeline) /\ responses[i] = line[i]
    BY <1>1, <1>3, <2>1 DEF Begins
  <2> QED BY <1>4, <2>1, <2>2
<1>6. ASSUME verdict = "none"
      PROVE  /\ requests \in Seq(Writes)
             /\ Len(pipeline) = Len(responses) + Len(requests)
             /\ \A k \in 1 .. Len(requests) :
                  /\ Len(responses) + k \in DOMAIN disk
                  /\ requests[k] = disk[Len(responses) + k].write
  <2>1. /\ Len(line) = Len(responses) + Len(requests)
        /\ \A i \in 1 .. Len(responses) + Len(requests) : line[i] =
             IF i <= Len(responses) THEN responses[i] ELSE requests[i - Len(responses)]
    BY <1>1, <1>3, <1>6, ConcatProperties
  <2>2. ASSUME NEW k \in 1 .. Len(requests)
        PROVE  /\ Len(responses) + k \in DOMAIN disk
               /\ requests[k] = disk[Len(responses) + k].write
    <3>1. /\ Len(responses) + k \in 1 .. Len(responses) + Len(requests)
          /\ ~(Len(responses) + k <= Len(responses))
          /\ (Len(responses) + k) - Len(responses) = k
      BY <1>1
    <3> QED BY <1>2, <1>4, <2>1, <3>1
  <2>3. \A k \in 1 .. Len(requests) : requests[k] \in Writes
    BY <2>2, DiskShape
  <2>4. requests \in [1 .. Len(requests) -> Writes]
    BY <1>1, <2>3, LenProperties
  <2>5. requests \in Seq(Writes)
    BY <1>1, <2>4, SeqDef
  <2> QED BY <1>2, <2>1, <2>2, <2>5
<1> QED BY <1>1, <1>5, <1>6

\* A request overtakes nothing on disk but what is before it on the wire.
LEMMA NoneOvertaken ==
  ASSUME TypeOK, QueueInOrder, PipelineInOrder, handshake, verdict = "none",
         NEW k \in DOMAIN requests
  PROVE  /\ requests[k] \in Writes /\ requests[k] <= issued
         /\ \A v \in Queued :
              v < requests[k] => v \in applied \/ \E j \in 1 .. k - 1 : requests[j] = v
<1> DEFINE n == Len(responses)
<1>1. /\ n \in Nat /\ k \in 1 .. Len(requests) /\ n + k \in DOMAIN disk
      /\ requests[k] = disk[n + k].write
  BY WireIsDisk
<1>2. requests[k] \in Writes /\ requests[k] <= issued
  BY <1>1, DiskShape DEF QueueInOrder
<1>3. ASSUME NEW v \in Queued, v < requests[k]
      PROVE  v \in applied \/ \E j \in 1 .. k - 1 : requests[j] = v
  <2>1. PICK i \in DOMAIN disk : disk[i].write = v
    BY DEF Queued
  <2>2. i < n + k
    <3>1. n + k < i => disk[n + k].write < disk[i].write
      BY <1>1 DEF QueueInOrder, Sorted
    <3> QED BY <1>1, <1>3, <2>1, <3>1, DiskShape
  <2>3. CASE i <= n
    <3>1. responses[i] = v /\ i \in DOMAIN responses
      BY <1>1, <2>1, <2>3, DiskShape, WireIsDisk
    <3> QED BY <3>1 DEF PipelineInOrder
  <2>4. CASE ~(i <= n)
    <3>1. i - n \in 1 .. k - 1 /\ i - n \in 1 .. Len(requests) /\ n + (i - n) = i
      BY <1>1, <2>2, <2>4, DiskShape, WireIsDisk
    <3>2. requests[i - n] = disk[n + (i - n)].write
      BY <3>1, WireIsDisk
    <3> QED BY <2>1, <3>1, <3>2
  <2> QED BY <2>3, <2>4
<1> QED BY <1>2, <1>3

\* Whatever was abandoned, what the server may still get to is in order.
LEMMA OrphansKeep ==
  ASSUME PipeInv, issued' \in Nat, issued <= issued', applied \subseteq applied',
         \A v \in Queued' : v \in Queued \/ v = issued + 1,
         UNCHANGED orphans \/ Abandon
  PROVE  orphans' \subseteq Seq(Writes) /\ OrphansInOrder'
<1> USE DEF PipeInv
<1>1. ASSUME NEW o \in orphans'
      PROVE  /\ o \in Seq(Writes) /\ o # <<>>
             /\ \A i \in DOMAIN o :
                  /\ o[i] \in Writes /\ o[i] <= issued
                  /\ \A v \in Queued :
                       v < o[i] => v \in applied \/ \E j \in 1 .. i - 1 : o[j] = v
  <2>1. CASE o \in orphans
    <3>1. o \in Seq(Writes)
      BY <2>1 DEF TypeOK
    <3>2. \A i \in DOMAIN o : o[i] \in Writes
      BY <3>1, ElementOfSeq, LenProperties
    <3> QED BY <2>1, <3>1, <3>2 DEF OrphansInOrder
  <2>2. CASE o \notin orphans
    <3>1. o = requests /\ handshake /\ verdict = "none" /\ requests # <<>>
      BY <2>2 DEF Abandon
    <3> QED BY <3>1, WireIsDisk, NoneOvertaken
  <2> QED BY <2>1, <2>2
<1>2. ASSUME NEW o \in orphans', NEW i \in DOMAIN o
      PROVE  /\ o[i] <= issued'
             /\ \A v \in Queued' : v < o[i] => v \in applied' \/ \E j \in 1 .. i - 1 : o[j] = v
  <2>1. o[i] \in Nat /\ o[i] <= issued
    BY <1>1, DiskShape
  <2>2. o[i] <= issued'
    BY <2>1, DiskShape
  <2>3. ASSUME NEW v \in Queued', v < o[i]
        PROVE  v \in applied' \/ \E j \in 1 .. i - 1 : o[j] = v
    <3>1. v \in Queued
      BY <2>1, <2>3, DiskShape
    <3> QED BY <1>1, <2>3, <3>1
  <2> QED BY <2>2, <2>3
<1> QED BY <1>1, <1>2 DEF OrphansInOrder

\* A step that leaves the disk and the callbacks alone.
LEMMA DiskUntouched ==
  ASSUME PipeInv, UNCHANGED <<diskVars, running, callbacks, refused>>,
         applied \subseteq applied', UNCHANGED orphans \/ Abandon
  PROVE  /\ orphans' \subseteq Seq(Writes)
         /\ QueueInOrder' /\ CallbacksOnDisk' /\ OrphansInOrder' /\ NothingLost'
<1> USE DEF PipeInv, diskVars
<1>1. Queued' = Queued
  BY DEF Queued
<1>2. QueueInOrder' /\ CallbacksOnDisk'
  BY DEF QueueInOrder, CallbacksOnDisk, Sorted
<1>3. NothingLost'
  BY <1>1 DEF NothingLost
<1>4. orphans' \subseteq Seq(Writes) /\ OrphansInOrder'
  BY <1>1, OrphansKeep, DiskShape
<1> QED BY <1>2, <1>3, <1>4

-----------------------------------------------------------------------------
(* One lemma per kind of step.                                             *)

LEMMA PipeInit == Init => PipeInv
<1> SUFFICES ASSUME Init PROVE PipeInv
  OBVIOUS
<1>1. DOMAIN callbacks = {}
  BY DEF Init, NoCallbacks
<1>2. NewStream \in Streams /\ CallbacksFit(NewStream) /\ ~NewStream.idle /\ ~IsOpen(NewStream)
  BY DEF NewStream, Streams, CallbacksFit, IsOpen
<1>3. TypeOK
  <2>1. DOMAIN callbacks \subseteq Nat /\ \A id \in DOMAIN callbacks : callbacks[id] \in Writes
    BY <1>1
  <2>2. issued \in 0 .. MaxWrites /\ disturbances \in 0 .. MaxDisturbances
    BY BoundAssumption DEF Init
  <2>3. /\ disk \in Seq(Batches) /\ pipeline \in Seq(Batches)
        /\ Len(pipeline) <= MaxPendingWrites
        /\ requests \in Seq({Hello} \cup Writes) /\ responses \in Seq({Hello} \cup Writes)
    BY BoundAssumption, EmptySeq DEF Init
  <2> QED BY <1>2, <2>1, <2>2, <2>3 DEF Init, TypeOK
<1>4. DOMAIN disk = {} /\ Len(pipeline) = 0 /\ Len(disk) = 0
  BY DEF Init
<1>5. QueueInOrder /\ CallbacksOnDisk /\ OrphansInOrder /\ NothingLost
  BY <1>1, <1>4
  DEF Init, QueueInOrder, Sorted, CallbacksOnDisk, OrphansInOrder, NothingLost
<1>6. PipelineInOrder
  <2>1. Fits(<<>>, NewStream, FALSE, <<>>, <<>>, "none")
    BY <1>2, NothingSaid
  <2>2. Begins(pipeline, disk)
    BY <1>4 DEF Begins
  <2> QED BY <2>1, <2>2 DEF Init, PipelineInOrder
<1> QED BY <1>3, <1>5, <1>6 DEF PipeInv

\* What the process held is gone; what is on disk and in the server is not.
LEMMA DieKeeps ==
  ASSUME PipeInv, Die, UNCHANGED <<diskVars, applied, refused>>,
         told' \in [Writes -> {"nothing", "ok", "error"}],
         disturbances' \in 0 .. MaxDisturbances
  PROVE  PipeInv'
<1> USE DEF PipeInv, Die, diskVars
<1>1. DOMAIN callbacks' = {}
  BY DEF NoCallbacks
<1>2. NewStream \in Streams /\ CallbacksFit(NewStream) /\ ~NewStream.idle /\ ~IsOpen(NewStream)
  BY DEF NewStream, Streams, CallbacksFit, IsOpen
<1>3. Queued' = Queued
  BY DEF Queued
<1>4. orphans' \subseteq Seq(Writes) /\ OrphansInOrder'
  BY <1>3, OrphansKeep, DiskShape DEF Hangup
<1>5. TypeOK'
  <2>1. DOMAIN callbacks' \subseteq Nat /\ \A id \in DOMAIN callbacks' : callbacks'[id] \in Writes
    BY <1>1
  <2>2. /\ pipeline' \in Seq(Batches) /\ Len(pipeline') <= MaxPendingWrites
        /\ requests' \in Seq({Hello} \cup Writes) /\ responses' \in Seq({Hello} \cup Writes)
    BY BoundAssumption, EmptySeq DEF Hangup
  <2> QED BY <1>2, <1>4, <2>1, <2>2 DEF Hangup, TypeOK
<1>6. QueueInOrder' /\ CallbacksOnDisk' /\ NothingLost'
  BY <1>1, <1>3 DEF QueueInOrder, Sorted, CallbacksOnDisk, NothingLost
<1>7. PipelineInOrder'
  <2>1. Fits(pipeline', stream', handshake', requests', responses', verdict')
    BY <1>2, NothingSaid DEF Hangup
  <2>2. Begins(<<>>, disk)
    BY DiskShape DEF Begins
  <2> QED BY <2>1, <2>2 DEF PipelineInOrder
<1> QED BY <1>4, <1>5, <1>6, <1>7

LEMMA DeathKeeps == PipeInv /\ (Kill \/ ReadResultAndDie) => PipeInv'
<1> SUFFICES ASSUME PipeInv, Kill \/ ReadResultAndDie PROVE PipeInv'
  OBVIOUS
<1>1. TypeOK
  BY DEF PipeInv
<1>2. disturbances' \in 0 .. MaxDisturbances
  BY <1>1, BoundAssumption DEF Kill, ReadResultAndDie, Disturb, TypeOK
<1>3. CASE Kill
  BY <1>1, <1>2, <1>3, DieKeeps DEF Kill, historyVars, TypeOK
<1>4. CASE ReadResultAndDie
  <2>1. told' \in [Writes -> {"nothing", "ok", "error"}]
    BY <1>1, <1>4 DEF ReadResultAndDie, TypeOK
  <2> QED BY <1>2, <1>4, <2>1, DieKeeps DEF ReadResultAndDie
<1> QED BY <1>3, <1>4

\* Timers and credentials.
LEMMA BackoffKeeps == PipeInv /\ BackoffTimerFires => PipeInv'
<1> SUFFICES ASSUME PipeInv, BackoffTimerFires PROVE PipeInv'
  OBVIOUS
<1> USE DEF PipeInv, BackoffTimerFires, wireVars, historyVars
<1>1. stream \in Streams /\ CallbacksFit(stream) /\ ~IsOpen(stream)
  <2>1. stream \in Streams /\ CallbacksFit(stream)
    BY DEF TypeOK, PipelineInOrder, Fits
  <2> QED BY <2>1, StreamSteps
<1>2. stream' \in Streams /\ CallbacksFit(stream') /\ ~IsOpen(stream') /\ ~stream'.idle
  BY <1>1, StreamSteps
<1>3. ~handshake /\ requests = <<>> /\ responses = <<>> /\ verdict = "none"
  BY <1>1 DEF PipelineInOrder, Fits
<1>4. TypeOK'
  BY <1>2 DEF TypeOK, diskVars
<1>5. Fits(pipeline', stream', handshake', requests', responses', verdict')
  BY <1>2, <1>3 DEF Fits
<1>6. running
  BY DEF PipelineInOrder, NewStream
<1>7. PipelineInOrder'
  BY <1>3, <1>5, <1>6 DEF PipelineInOrder, diskVars
<1> QED BY <1>4, <1>7, DiskUntouched

LEMMA CredentialsKeep ==
  ASSUME PipeInv, NEW when \in {"now", "before"}, CredentialsAnswered(when)
  PROVE  PipeInv'
<1> USE DEF PipeInv, CredentialsAnswered, historyVars
<1> DEFINE s == CredentialsArrive(stream, when)
<1>1. stream \in Streams /\ CallbacksFit(stream) /\ when \in stream.asked
  BY DEF TypeOK, PipelineInOrder, Fits
<1>2. /\ s \in Streams /\ CallbacksFit(s) /\ s.idle = stream.idle
      /\ when = "now" => ~IsOpen(stream) /\ IsOpen(s)
      /\ when # "now" => (IsOpen(s) <=> IsOpen(stream))
  BY <1>1, StreamSteps
<1> HIDE DEF s
<1>3. running
  BY <1>1 DEF PipelineInOrder, NewStream
<1>4. CASE when = "now"
  <2>1. stream' = Write(s) /\ requests' = Append(requests, Hello)
    BY <1>4 DEF s
  <2>2. /\ stream' \in Streams /\ CallbacksFit(stream')
        /\ ~stream'.idle /\ IsOpen(stream')
    BY <1>2, <1>4, <2>1, StreamSteps
  <2>3. ~handshake /\ requests = <<>> /\ responses = <<>>
    BY <1>2, <1>4 DEF PipelineInOrder, Fits
  <2>4. requests' = <<Hello>> /\ requests' \in Seq({Hello} \cup Writes)
    BY <2>1, <2>3
  <2>5. TypeOK'
    BY <2>2, <2>4 DEF TypeOK, diskVars
  <2>6. Fits(pipeline', stream', handshake', requests', responses', verdict')
    BY <2>2, <2>3, <2>4 DEF Fits
  <2>7. PipelineInOrder'
    BY <1>3, <2>3, <2>6 DEF PipelineInOrder, diskVars
  <2> QED BY <2>5, <2>7, DiskUntouched
<1>5. CASE when # "now"
  <2>1. stream' = s /\ UNCHANGED requests
    BY <1>5 DEF s
  <2>2. TypeOK'
    BY <1>2, <2>1 DEF TypeOK, diskVars
  <2>3. Fits(pipeline', stream', handshake', requests', responses', verdict')
    BY <1>2, <1>5, <2>1 DEF PipelineInOrder, Fits
  <2>4. PipelineInOrder'
    BY <1>3, <2>1, <2>3 DEF PipelineInOrder, diskVars
  <2> QED BY <2>2, <2>4, DiskUntouched
<1> QED BY <1>4, <1>5

LEMMA IdleKeeps == PipeInv /\ IdleTimerFires => PipeInv'
<1> SUFFICES ASSUME PipeInv, IdleTimerFires PROVE PipeInv'
  OBVIOUS
<1> USE DEF PipeInv, IdleTimerFires, Hangup, historyVars
<1>1. stream \in Streams /\ CallbacksFit(stream) /\ stream.idle
  BY DEF TypeOK, PipelineInOrder, Fits
<1>2. stream' \in Streams /\ CallbacksFit(stream') /\ ~IsOpen(stream') /\ ~stream'.idle
  BY <1>1, StreamCloses
<1>3. running
  BY <1>1 DEF PipelineInOrder, NewStream
<1>4. /\ orphans' \subseteq Seq(Writes)
      /\ QueueInOrder' /\ CallbacksOnDisk' /\ OrphansInOrder' /\ NothingLost'
  BY DiskUntouched
<1>5. TypeOK'
  BY <1>2, <1>4, EmptySeq DEF TypeOK, diskVars
<1>6. PipelineInOrder'
  BY <1>2, <1>3, NothingSaid DEF PipelineInOrder, diskVars
<1> QED BY <1>4, <1>5, <1>6

\* The server and the network.
LEMMA ServerKeeps == PipeInv /\ (ServerGreets \/ ServerApplies \/ ServerRefuses) => PipeInv'
<1> SUFFICES ASSUME PipeInv, ServerGreets \/ ServerApplies \/ ServerRefuses
             PROVE  PipeInv'
  OBVIOUS
<1> USE DEF PipeInv
<1>1. PICK r \in {Hello} \cup Writes :
        /\ Served(r)
        /\ \/ r = Hello /\ responses' = Append(responses, r) /\ UNCHANGED <<verdict, applied>>
           \/ /\ r \in Writes
              /\ applied' = applied \cup {r}
              /\ responses' = Append(responses, r)
              /\ UNCHANGED verdict
           \/ /\ r \in Writes
              /\ verdict' = "permanent"
              /\ UNCHANGED <<responses, applied>>
  BY DEF ServerGreets, ServerApplies, ServerRefuses
<1>2. /\ requests \in Seq({Hello} \cup Writes) /\ responses \in Seq({Hello} \cup Writes)
      /\ requests # <<>> /\ verdict = "none" /\ requests' = Tail(requests)
      /\ UNCHANGED <<diskVars, clientVars, orphans, refused, told, disturbances>>
      /\ Head(requests) = r
  BY <1>1 DEF Served, TypeOK
<1>3. IsOpen(stream)
  BY <1>2 DEF PipelineInOrder, Fits
<1>4. /\ requests' \in Seq({Hello} \cup Writes)
      /\ Append(responses, r) \in Seq({Hello} \cup Writes)
  BY <1>2, HeadTailProperties, AppendProperties
<1>5. TypeOK'
  BY <1>1, <1>2, <1>4 DEF TypeOK, diskVars, clientVars
<1>6. CASE ~handshake
  <2>1. requests = <<Hello>> /\ responses = <<>>
    BY <1>2, <1>6 DEF PipelineInOrder, Fits
  <2>2. r = Hello /\ r \notin Writes
    BY <1>2, <2>1 DEF Hello, Writes
  <2>3. requests' = <<>> /\ responses' = <<Hello>> /\ verdict' = "none"
    BY <1>1, <1>2, <2>1, <2>2
  <2>4. Fits(pipeline', stream', handshake', requests', responses', verdict')
    BY <1>2, <1>3, <1>6, <2>3 DEF PipelineInOrder, Fits, clientVars
  <2>5. PipelineInOrder'
    BY <1>2, <1>6, <2>3, <2>4 DEF PipelineInOrder, clientVars, diskVars
  <2> QED BY <1>1, <1>2, <1>5, <2>2, <2>5, DiskUntouched DEF clientVars
<1>7. CASE handshake
  <2>1. /\ requests \in Seq(Writes) /\ Len(requests) \in Nat \ {0}
        /\ Len(responses) \in Nat /\ DOMAIN responses = 1 .. Len(responses)
        /\ Len(pipeline) = Len(responses) + Len(requests)
    BY <1>2, <1>7, WireIsDisk, EmptySeq
  <2>2. r \in Writes /\ r # Hello
    <3>1. Head(requests) \in Writes
      BY <1>2, <2>1, HeadTailProperties
    <3> QED BY <1>2, <3>1, BoundAssumption DEF Hello, Writes
  <2>3. responses \o requests = WritesOf(pipeline)
    BY <1>2, <1>7 DEF PipelineInOrder, Fits
  <2>4. Append(responses, r) \o Tail(requests) = WritesOf(pipeline)
    BY <1>2, <2>1, <2>3, <2>2, HeadMoves
  <2>5. Begins(Append(responses, r), WritesOf(pipeline))
    BY <1>2, <1>4, <2>4, ConcatBegins
  <2>6. Fits(pipeline', stream', handshake', requests', responses', verdict')
    BY <1>1, <1>2, <1>3, <1>7, <2>2, <2>4, <2>5 DEF PipelineInOrder, Fits, clientVars
  <2>7. \A i \in DOMAIN responses' : responses'[i] \in applied'
    <3>1. CASE responses' = responses /\ applied' = applied
      BY <1>7, <3>1 DEF PipelineInOrder
    <3>2. CASE responses' = Append(responses, r) /\ applied' = applied \cup {r}
      <4>1. /\ DOMAIN responses' = 1 .. Len(responses) + 1
            /\ \A i \in 1 .. Len(responses) : responses'[i] = responses[i]
            /\ responses'[Len(responses) + 1] = r
        BY <1>2, <3>2, AppendProperties, LenProperties
      <4> QED BY <1>7, <2>1, <3>2, <4>1 DEF PipelineInOrder
    <3> QED BY <1>1, <2>2, <3>1, <3>2
  <2>8. PipelineInOrder'
    BY <1>2, <2>6, <2>7 DEF PipelineInOrder, clientVars, diskVars
  <2>9. applied \subseteq applied'
    BY <1>1
  <2> QED BY <1>2, <1>5, <2>8, <2>9, DiskUntouched DEF clientVars
<1> QED BY <1>6, <1>7

LEMMA BreakKeeps == PipeInv /\ ConnectionBreaks => PipeInv'
<1> SUFFICES ASSUME PipeInv, ConnectionBreaks PROVE PipeInv'
  OBVIOUS
<1> USE DEF PipeInv, ConnectionBreaks
<1>1. IsOpen(stream) /\ verdict' \in {"transient", "permanent"}
  OBVIOUS
<1>2. PICK n \in 0 .. Len(responses) : responses' = SubSeq(responses, 1, n)
  OBVIOUS
<1>3. responses \in Seq({Hello} \cup Writes) /\ Len(responses) \in Nat
        /\ DOMAIN responses = 1 .. Len(responses)
  <2>1. responses \in Seq({Hello} \cup Writes)
    BY DEF TypeOK
  <2> QED BY <2>1, LenProperties
<1>4. /\ responses' \in Seq({Hello} \cup Writes)
      /\ Len(responses') = n /\ DOMAIN responses' = 1 .. n
      /\ \A i \in 1 .. n : i \in DOMAIN responses /\ responses'[i] = responses[i]
  <2>1. \A i \in 1 .. n : responses[i] \in {Hello} \cup Writes
    BY <1>3, ElementOfSeq
  <2>2. /\ responses' \in Seq({Hello} \cup Writes)
        /\ Len(responses') = n
        /\ \A i \in 1 .. n : i \in DOMAIN responses /\ responses'[i] = responses[i]
    BY <1>2, <1>3, <2>1, SubSeqProperties
  <2> QED BY <2>2, LenProperties
<1>5. /\ orphans' \subseteq Seq(Writes)
      /\ QueueInOrder' /\ CallbacksOnDisk' /\ OrphansInOrder' /\ NothingLost'
  BY DiskUntouched DEF clientVars, historyVars
<1>6. disturbances' \in 0 .. MaxDisturbances
  BY BoundAssumption DEF Disturb, TypeOK
<1>7. TypeOK'
  BY <1>1, <1>4, <1>5, <1>6 DEF TypeOK, diskVars, clientVars, historyVars
<1>8. handshake => Begins(responses', WritesOf(pipeline))
  <2>1. Len(WritesOf(pipeline)) \in Nat
    BY DiskShape, WritesOfProperties, LenProperties
  <2> QED BY <1>2, <1>3, <1>4, <2>1 DEF PipelineInOrder, Fits, Begins
<1>9. ~handshake => responses' \in {<<>>, responses}
  <2>1. SUFFICES ASSUME ~handshake PROVE responses' \in {<<>>, responses}
    OBVIOUS
  <2>2. responses = <<>> \/ responses = <<Hello>>
    BY <2>1 DEF PipelineInOrder, Fits
  <2>3. Len(responses) = 0 \/ Len(responses) = 1
    <3>1. Len(<<>>) = 0 /\ Len(<<Hello>>) = 1
      OBVIOUS
    <3> QED BY <2>2, <3>1
  <2>4. CASE n = 0
    BY <1>4, <2>4, EmptySeq
  <2>5. CASE n # 0
    <3>1. n = Len(responses)
      <4>1. n \in Nat /\ n <= Len(responses)
        BY <1>3
      <4>2. CASE Len(responses) = 0
        BY <2>5, <4>1, <4>2
      <4>3. CASE Len(responses) = 1
        BY <2>5, <4>1, <4>3
      <4> QED BY <2>3, <4>2, <4>3
    <3> QED BY <1>2, <1>3, <3>1, SubSeqFull
  <2> QED BY <2>4, <2>5
<1>10. Fits(pipeline', stream', handshake', requests', responses', verdict')
  BY <1>1, <1>8, <1>9 DEF PipelineInOrder, Fits, clientVars
<1>11. PipelineInOrder'
  BY <1>4, <1>10 DEF PipelineInOrder, diskVars, clientVars, historyVars
<1> QED BY <1>5, <1>7, <1>11

LEMMA OrphanKeeps == PipeInv /\ OrphanServed => PipeInv'
<1> SUFFICES ASSUME PipeInv, NEW o \in orphans,
                    applied' = applied \cup {Head(o)},
                    orphans' = (orphans \ {o}) \cup IF Len(o) = 1 THEN {} ELSE {Tail(o)},
                    UNCHANGED <<diskVars, clientVars, requests, responses, verdict, refused,
                                told, disturbances>>
             PROVE  PipeInv'
  BY DEF OrphanServed
<1> USE DEF PipeInv
<1>1. o \in Seq(Writes) /\ o # <<>>
  BY DEF TypeOK, OrphansInOrder
<1>2. Len(o) \in Nat \ {0} /\ DOMAIN o = 1 .. Len(o) /\ Head(o) = o[1] /\ Head(o) \in Writes
  BY <1>1, EmptySeq, LenProperties, HeadTailProperties
<1>3. /\ Tail(o) \in Seq(Writes) /\ DOMAIN Tail(o) = 1 .. Len(o) - 1
      /\ \A i \in 1 .. Len(o) - 1 : Tail(o)[i] = o[i + 1]
      /\ Len(Tail(o)) = Len(o) - 1
  BY <1>1, HeadTailProperties, LenProperties
<1>4. TypeOK'
  BY <1>2, <1>3 DEF TypeOK, diskVars, clientVars
<1>5. Queued' = Queued
  BY DEF Queued, diskVars
<1>6. QueueInOrder' /\ CallbacksOnDisk' /\ NothingLost'
  BY <1>5 DEF QueueInOrder, Sorted, CallbacksOnDisk, NothingLost, diskVars, clientVars
<1>7. PipelineInOrder'
  BY DEF PipelineInOrder, diskVars, clientVars
<1>8. OrphansInOrder'
  <2>1. ASSUME NEW q \in orphans', q \in orphans
        PROVE  /\ q # <<>>
               /\ \A i \in DOMAIN q :
                    /\ q[i] <= issued
                    /\ \A v \in Queued :
                         v < q[i] => v \in applied' \/ \E j \in 1 .. i - 1 : q[j] = v
    BY <2>1 DEF OrphansInOrder
  <2>2. ASSUME Len(o) # 1
        PROVE  /\ Tail(o) # <<>>
               /\ \A i \in DOMAIN Tail(o) :
                    /\ Tail(o)[i] <= issued
                    /\ \A v \in Queued :
                         v < Tail(o)[i] => v \in applied' \/ \E j \in 1 .. i - 1 : Tail(o)[j] = v
    <3>1. Tail(o) # <<>>
      BY <1>2, <1>3, <2>2, EmptySeq
    <3>2. ASSUME NEW i \in DOMAIN Tail(o)
          PROVE  Tail(o)[i] = o[i + 1] /\ i + 1 \in DOMAIN o /\ o[i + 1] <= issued
      BY <1>2, <1>3 DEF OrphansInOrder
    <3>3. ASSUME NEW i \in DOMAIN Tail(o), NEW v \in Queued, v < o[i + 1], v \notin applied'
          PROVE  \E j \in 1 .. i - 1 : Tail(o)[j] = v
      <4>1. PICK j \in 1 .. (i + 1) - 1 : o[j] = v
        BY <3>2, <3>3 DEF OrphansInOrder
      <4>2. j # 1
        BY <1>2, <3>3, <4>1
      <4>3. j - 1 \in 1 .. i - 1 /\ j - 1 \in 1 .. Len(o) - 1 /\ (j - 1) + 1 = j
        BY <1>2, <1>3, <4>1, <4>2
      <4> QED BY <1>3, <4>1, <4>3
    <3> QED BY <3>1, <3>2, <3>3
  <2>3. UNCHANGED issued
    BY DEF diskVars
  <2>4. ASSUME NEW q \in orphans', q \notin orphans
        PROVE  Len(o) # 1 /\ q = Tail(o)
    <3>1. CASE Len(o) = 1
      BY <2>4, <3>1
    <3>2. CASE Len(o) # 1
      BY <2>4, <3>2
    <3> QED BY <3>1, <3>2
  <2>5. ASSUME NEW q \in orphans'
        PROVE  /\ q # <<>>
               /\ \A i \in DOMAIN q :
                    /\ q[i] <= issued
                    /\ \A v \in Queued :
                         v < q[i] => v \in applied' \/ \E j \in 1 .. i - 1 : q[j] = v
    <3>1. CASE q \in orphans
      BY <2>1, <3>1
    <3>2. CASE q \notin orphans
      BY <2>2, <2>4, <3>2
    <3> QED BY <3>1, <3>2
  <2> QED BY <1>5, <2>3, <2>5 DEF OrphansInOrder
<1> QED BY <1>4, <1>6, <1>7, <1>8

\* The first batch leaves the disk, and its completion is called.
LEMMA HeadLeaves ==
  ASSUME PipeInv, pipeline # <<>>, NEW what \in {"ok", "error"},
         disk' = RemoveMutationBatch(disk, Head(pipeline).id),
         NotifyUser(Head(pipeline).id, what),
         UNCHANGED <<running, issued, nextBatchId>>,
         applied \subseteq applied', refused \subseteq refused',
         Head(pipeline).write \in applied' \cup refused',
         UNCHANGED orphans \/ Abandon
  PROVE  /\ disk # <<>> /\ Head(disk) = Head(pipeline) /\ Head(pipeline) \in Batches
         /\ disk' = Tail(disk) /\ disk' \in Seq(Batches)
         /\ Begins(Tail(pipeline), disk')
         /\ DOMAIN callbacks' \subseteq Nat
         /\ \A id \in DOMAIN callbacks' : callbacks'[id] \in Writes
         /\ told' \in [Writes -> {"nothing", "ok", "error"}]
         /\ orphans' \subseteq Seq(Writes)
         /\ QueueInOrder' /\ CallbacksOnDisk' /\ OrphansInOrder' /\ NothingLost'
<1> USE DEF PipeInv
<1>1. /\ disk # <<>> /\ Head(disk) = Head(pipeline)
      /\ Begins(Tail(pipeline), Tail(disk))
  BY DiskShape, TailBegins DEF PipelineInOrder
<1>2. /\ disk' = Tail(disk) /\ Sorted(Tail(disk))
      /\ Head(disk) \in Batches /\ Tail(disk) \in Seq(Batches)
  BY <1>1, DiskShape, RemoveHead, TailSorted, HeadTailProperties DEF QueueInOrder
<1>3. /\ Len(disk) \in Nat \ {0} /\ DOMAIN disk = 1 .. Len(disk)
      /\ Head(disk) = disk[1] /\ DOMAIN disk' = 1 .. Len(disk) - 1
      /\ \A i \in 1 .. Len(disk) - 1 : disk'[i] = disk[i + 1]
  <2>1. disk \in Seq(Batches) /\ Len(disk) \in Nat \ {0} /\ DOMAIN disk = 1 .. Len(disk)
    BY <1>1, DiskShape, EmptySeq
  <2>2. Len(disk') = Len(disk) - 1 /\ \A i \in 1 .. Len(disk) - 1 : disk'[i] = disk[i + 1]
    BY <1>1, <1>2, <2>1, HeadTailProperties
  <2>3. DOMAIN disk' = 1 .. Len(disk')
    BY <1>2, LenProperties
  <2>4. Head(disk) = disk[1]
    BY <2>1
  <2> QED BY <2>1, <2>2, <2>3, <2>4
<1>4. \A i \in DOMAIN disk : i # 1 => i - 1 \in DOMAIN disk' /\ (i - 1) + 1 = i
  BY <1>3
<1>5. /\ Queued' \subseteq Queued
      /\ Queued \subseteq Queued' \cup {Head(pipeline).write}
  <2>1. ASSUME NEW i \in DOMAIN disk, i # 1
        PROVE  i - 1 \in DOMAIN disk' /\ disk'[i - 1] = disk[i]
    <3>1. i - 1 \in 1 .. Len(disk) - 1 /\ i - 1 \in DOMAIN disk' /\ (i - 1) + 1 = i
      BY <1>3, <1>4, <2>1
    <3>2. disk'[i - 1] = disk[(i - 1) + 1]
      BY <1>3, <3>1
    <3> QED BY <3>1, <3>2
  <2>2. \A i \in DOMAIN disk' : i + 1 \in DOMAIN disk /\ disk'[i] = disk[i + 1]
    BY <1>3
  <2>3. disk[1] = Head(pipeline)
    BY <1>1, <1>3
  <2>4. Queued' \subseteq Queued
    BY <2>2 DEF Queued
  <2>5. Queued \subseteq Queued' \cup {Head(pipeline).write}
    BY <2>1, <2>3 DEF Queued
  <2> QED BY <2>4, <2>5
<1>6. QueueInOrder'
  <2>1. \A i \in DOMAIN disk' : i + 1 \in DOMAIN disk /\ disk'[i] = disk[i + 1]
    BY <1>3
  <2> QED BY <1>2, <2>1 DEF QueueInOrder
<1>7. NothingLost'
  BY <1>5 DEF NothingLost
<1>8. orphans' \subseteq Seq(Writes) /\ OrphansInOrder'
  BY <1>5, OrphansKeep, DiskShape
<1>9. /\ DOMAIN callbacks' = DOMAIN callbacks \ {Head(pipeline).id}
      /\ \A b \in DOMAIN callbacks' : b \in DOMAIN callbacks /\ callbacks'[b] = callbacks[b]
  BY DEF NotifyUser
<1>10. /\ DOMAIN callbacks' \subseteq Nat
       /\ \A id \in DOMAIN callbacks' : callbacks'[id] \in Writes
  BY <1>9 DEF TypeOK
<1>11. told' \in [Writes -> {"nothing", "ok", "error"}]
  BY DEF NotifyUser, TypeOK
<1>12. CallbacksOnDisk'
  <2> SUFFICES ASSUME NEW b \in DOMAIN callbacks'
               PROVE  \E i \in DOMAIN disk' : disk'[i].id = b /\ disk'[i].write = callbacks'[b]
    BY DEF CallbacksOnDisk
  <2>1. PICK i \in DOMAIN disk : disk[i].id = b /\ disk[i].write = callbacks[b]
    BY <1>9 DEF CallbacksOnDisk
  <2>2. i # 1
    BY <1>1, <1>3, <1>9, <2>1
  <2>3. i - 1 \in DOMAIN disk' /\ disk'[i - 1] = disk[i]
    <3>1. i - 1 \in 1 .. Len(disk) - 1 /\ i - 1 \in DOMAIN disk' /\ (i - 1) + 1 = i
      BY <1>3, <1>4, <2>2
    <3>2. disk'[i - 1] = disk[(i - 1) + 1]
      BY <1>3, <3>1
    <3> QED BY <3>1, <3>2
  <2> QED BY <1>9, <2>1, <2>3
<1> QED BY <1>1, <1>2, <1>6, <1>7, <1>8, <1>10, <1>11, <1>12

LEMMA ReadResultKeeps == PipeInv /\ ReadResult => PipeInv'
<1> SUFFICES ASSUME PipeInv, ReadResult PROVE PipeInv'
  OBVIOUS
<1> USE DEF PipeInv
<1>1. /\ responses # <<>> /\ handshake /\ pipeline # <<>>
      /\ responses' = Tail(responses)
      /\ NotifyUser(Head(pipeline).id, "ok")
      /\ disk' = RemoveMutationBatch(disk, Head(pipeline).id)
      /\ FillWritePipeline(Tail(pipeline), disk', stream, handshake, requests)
      /\ UNCHANGED <<running, issued, nextBatchId, handshake, verdict, orphans, applied,
                     refused, disturbances>>
  BY DEF ReadResult
<1>2. /\ responses \in Seq({Hello} \cup Writes) /\ requests \in Seq({Hello} \cup Writes)
      /\ stream \in Streams /\ handshake \in BOOLEAN
      /\ Len(pipeline) <= MaxPendingWrites /\ MaxPendingWrites \in Nat
  BY BoundAssumption DEF TypeOK
<1>3. /\ responses' \in Seq({Hello} \cup Writes) /\ Head(responses) = responses[1]
      /\ Len(responses) \in Nat \ {0} /\ DOMAIN responses = 1 .. Len(responses)
      /\ DOMAIN responses' = 1 .. Len(responses) - 1
      /\ \A i \in 1 .. Len(responses) - 1 : responses'[i] = responses[i + 1]
  BY <1>1, <1>2, HeadTailProperties, EmptySeq, LenProperties
\* The result is that of the first batch, and the server has applied it.
<1>4. Head(pipeline).write \in applied
  <2>1. Head(pipeline) = pipeline[1] /\ pipeline[1] = disk[1]
    BY <1>1, DiskShape, EmptySeq DEF PipelineInOrder, Begins
  <2>2. responses[1] = disk[1].write /\ responses[1] \in applied
    BY <1>1, <1>3, WireIsDisk DEF PipelineInOrder
  <2> QED BY <2>1, <2>2
<1>5. /\ disk' \in Seq(Batches) /\ Begins(Tail(pipeline), disk')
      /\ DOMAIN callbacks' \subseteq Nat
      /\ \A id \in DOMAIN callbacks' : callbacks'[id] \in Writes
      /\ told' \in [Writes -> {"nothing", "ok", "error"}]
      /\ orphans' \subseteq Seq(Writes)
      /\ QueueInOrder' /\ CallbacksOnDisk' /\ OrphansInOrder' /\ NothingLost'
  BY <1>1, <1>4, HeadLeaves
<1>6. /\ Tail(pipeline) \in Seq(Batches) /\ Len(Tail(pipeline)) = Len(pipeline) - 1
      /\ WritesOf(Tail(pipeline)) = Tail(WritesOf(pipeline))
  BY <1>1, DiskShape, HeadTailProperties, WritesOfTail
<1>7. Fits(Tail(pipeline), stream, handshake', requests, responses', verdict')
  <2>1. /\ CallbacksFit(stream) /\ ~stream.idle /\ IsOpen(stream)
        /\ Begins(responses, WritesOf(pipeline))
        /\ verdict = "none" => responses \o requests = WritesOf(pipeline)
    BY <1>1 DEF PipelineInOrder, Fits
  <2>2. WritesOf(pipeline) \in Seq({Hello} \cup Writes)
    BY DiskShape, WritesOfProperties, SeqMonotonic
  <2>3. Begins(responses', WritesOf(Tail(pipeline)))
    <3> DEFINE line == WritesOf(pipeline)
    <3>1. /\ line \in Seq({Hello} \cup Writes) /\ Begins(responses, line)
          /\ WritesOf(Tail(pipeline)) = Tail(line)
      BY <1>6, <2>1, <2>2
    <3> HIDE DEF line
    <3>2. Begins(Tail(responses), Tail(line))
      BY <1>1, <1>2, <3>1, TailBegins
    <3> QED BY <1>1, <3>1, <3>2
  <2>4. verdict = "none" => responses' \o requests = WritesOf(Tail(pipeline))
    BY <1>1, <1>2, <1>6, <2>1, TailOfConcat
  <2> QED BY <1>1, <2>1, <2>3, <2>4 DEF Fits
<1>8. /\ pipeline' \in Seq(Batches) /\ Len(pipeline') <= MaxPendingWrites
      /\ Begins(pipeline', disk') /\ stream' \in Streams
      /\ requests' \in Seq({Hello} \cup Writes)
      /\ Fits(pipeline', stream', handshake', requests', responses', verdict')
  <2>1. Len(Tail(pipeline)) <= MaxPendingWrites /\ Sorted(disk')
    BY <1>2, <1>5, <1>6, DiskShape DEF QueueInOrder
  <2> QED BY <1>1, <1>2, <1>3, <1>5, <1>6, <1>7, <2>1, FillKeeps
<1>9. TypeOK'
  BY <1>1, <1>3, <1>5, <1>8 DEF TypeOK
<1>10. PipelineInOrder'
  <2>1. \A i \in DOMAIN responses' : responses'[i] \in applied
    BY <1>1, <1>3 DEF PipelineInOrder
  <2>2. running
    BY <1>1 DEF PipelineInOrder
  <2> QED BY <1>1, <1>8, <2>1, <2>2 DEF PipelineInOrder
<1> QED BY <1>5, <1>9, <1>10

LEMMA ReadHandshakeKeeps == PipeInv /\ ReadHandshake => PipeInv'
<1> SUFFICES ASSUME PipeInv, ReadHandshake PROVE PipeInv'
  OBVIOUS
<1> USE DEF PipeInv
<1>1. /\ ~handshake /\ handshake' = TRUE
      /\ responses # <<>> /\ responses' = Tail(responses)
      /\ stream' = IF pipeline # <<>> THEN Write(stream) ELSE stream
      /\ requests' = requests \o WritesOf(pipeline)
      /\ UNCHANGED <<diskVars, running, callbacks, pipeline, verdict, orphans,
                     historyVars, disturbances>>
  BY DEF ReadHandshake
<1>2. responses = <<Hello>> /\ requests = <<>> /\ IsOpen(stream)
  BY <1>1 DEF PipelineInOrder, Fits
<1>3. WritesOf(pipeline) \in Seq(Writes) /\ WritesOf(pipeline) \in Seq({Hello} \cup Writes)
  BY DiskShape, WritesOfProperties, SeqMonotonic
<1>4. responses' = <<>> /\ requests' = WritesOf(pipeline)
  BY <1>1, <1>2, <1>3, ConcatEmptySeq
<1>5. stream \in Streams /\ CallbacksFit(stream) /\ ~stream.idle
  BY <1>1 DEF TypeOK, PipelineInOrder, Fits
<1>6. stream' \in Streams /\ CallbacksFit(stream') /\ IsOpen(stream') /\ ~stream'.idle
  BY <1>1, <1>2, <1>5, StreamSteps
<1>7. TypeOK'
  BY <1>1, <1>3, <1>4, <1>6, EmptySeq DEF TypeOK, diskVars, historyVars
<1>8. Fits(pipeline', stream', handshake', requests', responses', verdict')
  <2>1. Begins(<<>>, WritesOf(pipeline))
    BY <1>3, LenProperties DEF Begins
  <2>2. <<>> \o WritesOf(pipeline) = WritesOf(pipeline)
    BY <1>3, ConcatEmptySeq
  <2> QED BY <1>1, <1>4, <1>6, <2>1, <2>2 DEF Fits
<1>9. PipelineInOrder'
  <2>1. running
    BY <1>2 DEF PipelineInOrder, NewStream, IsOpen
  <2>2. DOMAIN responses' = {}
    BY <1>4
  <2> QED BY <1>1, <1>8, <2>1, <2>2 DEF PipelineInOrder, diskVars, historyVars
<1> QED BY <1>1, <1>7, <1>9, DiskUntouched DEF historyVars
\* A write goes to the end of the disk, and into the pipeline if there is room.
LEMMA WriteMutationsKeeps == PipeInv /\ WriteMutations => PipeInv'
<1> SUFFICES ASSUME PipeInv, WriteMutations PROVE PipeInv'
  OBVIOUS
<1> USE DEF PipeInv
<1> DEFINE batch == [id |-> nextBatchId, write |-> issued']
<1>1. /\ running /\ issued < MaxWrites /\ issued' = issued + 1
      /\ disk' = Put(disk, batch)
      /\ nextBatchId' = nextBatchId + 1
      /\ callbacks' = [b \in DOMAIN callbacks \cup {nextBatchId} |->
                         IF b = nextBatchId THEN issued' ELSE callbacks[b]]
      /\ FillWritePipeline(pipeline, disk', stream, handshake, requests)
      /\ UNCHANGED <<running, handshake, responses, verdict, orphans, historyVars,
                     disturbances>>
  BY DEF WriteMutations
<1>2. /\ issued' \in Writes /\ issued' \in 0 .. MaxWrites /\ issued' \in Nat
      /\ nextBatchId \in Nat /\ nextBatchId' \in Nat
      /\ batch \in Batches /\ batch.id = nextBatchId /\ batch.write = issued'
  <2>1. issued \in Nat /\ nextBatchId \in Nat /\ MaxWrites \in Nat
    BY DiskShape, BoundAssumption
  <2>2. issued' \in Writes /\ issued' \in 0 .. MaxWrites /\ issued' \in Nat
    BY <1>1, <2>1 DEF Writes
  <2> QED BY <1>1, <2>1, <2>2 DEF Batches
<1> HIDE DEF batch
<1>3. disk' = Append(disk, batch)
  <2>1. \A i \in DOMAIN disk : disk[i].id < batch.id
    BY <1>1, <1>2 DEF QueueInOrder
  <2> QED BY <1>1, <1>2, <2>1, DiskShape, PutAppends
<1>4. /\ disk' \in Seq(Batches) /\ DOMAIN disk' = 1 .. Len(disk) + 1
      /\ Len(disk') = Len(disk) + 1
      /\ \A i \in 1 .. Len(disk) : disk'[i] = disk[i]
      /\ disk'[Len(disk) + 1] = batch
      /\ Len(disk) \in Nat /\ DOMAIN disk = 1 .. Len(disk)
  <2>1. /\ disk' \in Seq(Batches)
        /\ Len(disk') = Len(disk) + 1
        /\ \A i \in 1 .. Len(disk) : disk'[i] = disk[i]
        /\ disk'[Len(disk) + 1] = batch
    BY <1>2, <1>3, DiskShape, AppendProperties
  <2> QED BY <2>1, DiskShape, LenProperties
<1>5. \A i \in DOMAIN disk' : \/ i \in DOMAIN disk /\ disk'[i] = disk[i]
                              \/ i = Len(disk) + 1 /\ disk'[i] = batch
  <2>1. \A i \in 1 .. Len(disk) + 1 : i \in 1 .. Len(disk) \/ i = Len(disk) + 1
    BY <1>4
  <2> QED BY <1>4, <2>1
<1>6. DOMAIN disk \subseteq DOMAIN disk' /\ Len(disk) + 1 \in DOMAIN disk'
  BY <1>4
<1>7. Queued' = Queued \cup {issued'}
  BY <1>2, <1>4, <1>5, <1>6 DEF Queued
<1>8. QueueInOrder'
  <2>1. /\ \A i \in DOMAIN disk : /\ disk[i].id \in Nat /\ disk[i].write \in Nat
                                  /\ disk[i].id >= 1 /\ disk[i].id < nextBatchId
                                  /\ disk[i].write <= issued
        /\ nextBatchId >= 1 /\ issued \in Nat
    BY <1>1, DiskShape DEF QueueInOrder, Sorted
  <2>2. ASSUME NEW i \in DOMAIN disk'
        PROVE  /\ disk'[i].id >= 1 /\ disk'[i].id < nextBatchId'
               /\ disk'[i].write <= issued'
    <3>1. CASE i \in DOMAIN disk /\ disk'[i] = disk[i]
      BY <1>1, <1>2, <2>1, <3>1
    <3>2. CASE disk'[i] = batch
      BY <1>1, <1>2, <2>1, <3>2
    <3> QED BY <1>5, <3>1, <3>2
  <2>3. ASSUME NEW i \in DOMAIN disk', NEW j \in DOMAIN disk', i < j
        PROVE  disk'[i].id < disk'[j].id /\ disk'[i].write < disk'[j].write
    <3>1. i \in DOMAIN disk /\ disk'[i] = disk[i]
      BY <1>4, <2>3
    <3>2. CASE j \in DOMAIN disk /\ disk'[j] = disk[j]
      BY <2>3, <3>1, <3>2 DEF QueueInOrder, Sorted
    <3>3. CASE disk'[j] = batch
      BY <1>1, <1>2, <2>1, <3>1, <3>3
    <3> QED BY <1>5, <3>2, <3>3
  <2>4. nextBatchId' >= 1
    BY <1>1, <2>1, <1>2
  <2> QED BY <2>2, <2>3, <2>4 DEF QueueInOrder, Sorted
<1>9. CallbacksOnDisk'
  <2> SUFFICES ASSUME NEW b \in DOMAIN callbacks'
               PROVE  \E i \in DOMAIN disk' : disk'[i].id = b /\ disk'[i].write = callbacks'[b]
    BY DEF CallbacksOnDisk
  <2>1. CASE b = nextBatchId
    BY <1>1, <1>2, <1>4, <1>6, <2>1
  <2>2. CASE b # nextBatchId
    <3>1. b \in DOMAIN callbacks /\ callbacks'[b] = callbacks[b]
      BY <1>1, <2>2
    <3>2. PICK i \in DOMAIN disk : disk[i].id = b /\ disk[i].write = callbacks[b]
      BY <3>1 DEF CallbacksOnDisk
    <3>3. i \in DOMAIN disk' /\ disk'[i] = disk[i]
      BY <1>4, <1>6
    <3> QED BY <3>1, <3>2, <3>3
  <2> QED BY <2>1, <2>2
<1>10. orphans' \subseteq Seq(Writes) /\ OrphansInOrder'
  <2>1. issued <= issued' /\ applied \subseteq applied'
    BY <1>1, <1>2, DiskShape DEF historyVars
  <2>2. \A v \in Queued' : v \in Queued \/ v = issued + 1
    BY <1>1, <1>7
  <2> QED BY <1>1, <1>2, <2>1, <2>2, OrphansKeep
<1>11. NothingLost'
  <2>1. \A w \in 1 .. issued' : w \in 1 .. issued \/ w = issued'
    BY <1>1, DiskShape
  <2> QED BY <1>1, <1>7, <2>1 DEF NothingLost, historyVars
<1>12. Begins(pipeline, disk')
  BY <1>4, DiskShape DEF PipelineInOrder, Begins
<1>13. /\ pipeline' \in Seq(Batches) /\ Len(pipeline') <= MaxPendingWrites
       /\ Begins(pipeline', disk') /\ stream' \in Streams
       /\ requests' \in Seq({Hello} \cup Writes)
       /\ Fits(pipeline', stream', handshake', requests', responses', verdict')
  <2>1. /\ Len(pipeline) <= MaxPendingWrites /\ stream \in Streams /\ handshake \in BOOLEAN
        /\ requests \in Seq({Hello} \cup Writes) /\ responses' \in Seq({Hello} \cup Writes)
    BY <1>1 DEF TypeOK
  <2>2. Fits(pipeline, stream, handshake', requests, responses', verdict')
    BY <1>1 DEF PipelineInOrder
  <2>3. disk' # <<>>
    BY <1>4, EmptySeq
  <2>4. Sorted(disk')
    BY <1>8 DEF QueueInOrder
  <2> QED BY <1>1, <1>4, <1>12, <2>1, <2>2, <2>3, <2>4, DiskShape, FillKeeps
<1>14. TypeOK'
  <2>1. DOMAIN callbacks' \subseteq Nat /\ \A b \in DOMAIN callbacks' : callbacks'[b] \in Writes
    BY <1>1, <1>2 DEF TypeOK
  <2> QED BY <1>1, <1>2, <1>4, <1>10, <1>13, <2>1 DEF TypeOK, historyVars
<1>15. PipelineInOrder'
  BY <1>1, <1>13 DEF PipelineInOrder, historyVars
<1> QED BY <1>8, <1>9, <1>10, <1>11, <1>14, <1>15

\* The ids go on above those of the disk.
LEMMA NextBatchIdAbove ==
  ASSUME NEW queue \in Seq(Batches), Sorted(queue)
  PROVE  /\ NextBatchId(queue) \in Nat /\ NextBatchId(queue) >= 1
         /\ \A i \in DOMAIN queue : queue[i].id < NextBatchId(queue)
<1>1. Len(queue) \in Nat /\ DOMAIN queue = 1 .. Len(queue)
  BY LenProperties
<1>2. \A i \in DOMAIN queue : queue[i].id \in Nat
  BY BatchFields
<1>3. CASE queue = <<>>
  BY <1>3 DEF NextBatchId
<1>4. CASE queue # <<>>
  <2>1. Len(queue) \in DOMAIN queue
    BY <1>1, <1>4, EmptySeq
  <2>2. NextBatchId(queue) = queue[Len(queue)].id + 1
    BY <1>4 DEF NextBatchId
  <2>3. ASSUME NEW i \in DOMAIN queue
        PROVE  queue[i].id <= queue[Len(queue)].id
    <3>1. CASE i = Len(queue)
      BY <1>2, <2>1, <3>1
    <3>2. CASE i < Len(queue)
      BY <1>2, <2>1, <3>2 DEF Sorted
    <3> QED BY <1>1, <3>1, <3>2
  <2> QED BY <1>2, <2>1, <2>2, <2>3
<1> QED BY <1>3, <1>4

LEMMA LaunchKeeps == PipeInv /\ Launch => PipeInv'
<1> SUFFICES ASSUME PipeInv, Launch PROVE PipeInv'
  OBVIOUS
<1> USE DEF PipeInv
<1>1. /\ ~running /\ running' = TRUE
      /\ nextBatchId' = NextBatchId(disk)
      /\ FillWritePipeline(<<>>, disk, NewStream, FALSE, <<>>)
      /\ UNCHANGED <<issued, disk, callbacks, handshake, responses, verdict, orphans,
                     historyVars, disturbances>>
  BY DEF Launch
<1>2. NewStream \in Streams /\ CallbacksFit(NewStream) /\ ~NewStream.idle /\ ~IsOpen(NewStream)
  BY DEF NewStream, Streams, CallbacksFit, IsOpen
<1>3. ~handshake /\ responses = <<>> /\ verdict = "none"
  BY <1>1, <1>2 DEF PipelineInOrder, Fits
<1>4. /\ pipeline' \in Seq(Batches) /\ Len(pipeline') <= MaxPendingWrites
      /\ Begins(pipeline', disk) /\ stream' \in Streams
      /\ requests' \in Seq({Hello} \cup Writes)
      /\ Fits(pipeline', stream', handshake', requests', responses', verdict')
  <2>1. Fits(<<>>, NewStream, handshake', <<>>, responses', verdict')
    <3>1. Fits(<<>>, NewStream, FALSE, <<>>, <<>>, "none")
      BY <1>2, NothingSaid
    <3>2. handshake' = FALSE
      BY <1>1, <1>3 DEF TypeOK
    <3> QED BY <1>1, <1>3, <3>1, <3>2
  <2>2. /\ <<>> \in Seq(Batches) /\ Len(<<>>) = 0
        /\ <<>> \in Seq({Hello} \cup Writes)
        /\ MaxPendingWrites \in Nat
    BY EmptySeq, BoundAssumption
  <2>3. Begins(<<>>, disk) /\ Len(<<>>) <= MaxPendingWrites
    BY <2>2, DiskShape DEF Begins
  <2>4. responses' \in Seq({Hello} \cup Writes) /\ disk \in Seq(Batches) /\ Sorted(disk)
    BY <1>1, DiskShape DEF TypeOK, QueueInOrder
  <2> QED BY <1>1, <1>2, <2>1, <2>2, <2>3, <2>4, FillKeeps
<1>5. NextBatchId(disk) \in Nat
  BY DiskShape, NextBatchIdAbove DEF QueueInOrder
<1>6. TypeOK'
  BY <1>1, <1>4, <1>5 DEF TypeOK, historyVars
<1>7. Queued' = Queued
  BY <1>1 DEF Queued
<1>8. QueueInOrder'
  BY <1>1, DiskShape, NextBatchIdAbove DEF QueueInOrder, Sorted
<1>9. CallbacksOnDisk' /\ NothingLost' /\ OrphansInOrder'
  BY <1>1, <1>7 DEF CallbacksOnDisk, NothingLost, OrphansInOrder, historyVars
<1>10. PipelineInOrder'
  BY <1>1, <1>3, <1>4 DEF PipelineInOrder
<1> QED BY <1>6, <1>8, <1>9, <1>10

LEMMA RestartKeeps == PipeInv /\ RestartNetwork => PipeInv'
<1> SUFFICES ASSUME PipeInv, RestartNetwork PROVE PipeInv'
  OBVIOUS
<1> USE DEF PipeInv
<1> DEFINE s == InhibitBackoff(Close(stream, TRUE))
<1>1. /\ running /\ Disturb
      /\ handshake' = FALSE
      /\ responses' = <<>> /\ verdict' = "none" /\ Abandon
      /\ FillWritePipeline(<<>>, disk, s, FALSE, <<>>)
      /\ UNCHANGED <<diskVars, running, callbacks, historyVars>>
  BY DEF RestartNetwork, Hangup
<1>2. s \in Streams /\ CallbacksFit(s) /\ ~IsOpen(s) /\ ~s.idle
  <2>1. stream \in Streams /\ CallbacksFit(stream)
    BY DEF TypeOK, PipelineInOrder, Fits
  <2> QED BY <2>1, StreamCloses
<1> HIDE DEF s
<1>3. /\ orphans' \subseteq Seq(Writes)
      /\ QueueInOrder' /\ CallbacksOnDisk' /\ OrphansInOrder' /\ NothingLost'
  BY <1>1, DiskUntouched DEF historyVars
<1>4. /\ pipeline' \in Seq(Batches) /\ Len(pipeline') <= MaxPendingWrites
      /\ Begins(pipeline', disk) /\ stream' \in Streams
      /\ requests' \in Seq({Hello} \cup Writes)
      /\ Fits(pipeline', stream', handshake', requests', responses', verdict')
  <2>1. Fits(<<>>, s, handshake', <<>>, responses', verdict')
    BY <1>1, <1>2, NothingSaid
  <2>2. /\ <<>> \in Seq(Batches) /\ Len(<<>>) = 0
        /\ <<>> \in Seq({Hello} \cup Writes)
        /\ MaxPendingWrites \in Nat
    BY EmptySeq, BoundAssumption
  <2>3. Begins(<<>>, disk) /\ Len(<<>>) <= MaxPendingWrites
    BY <2>2, DiskShape DEF Begins
  <2>4. responses' \in Seq({Hello} \cup Writes) /\ disk \in Seq(Batches) /\ Sorted(disk)
    BY <1>1, <2>2, DiskShape DEF QueueInOrder
  <2> QED BY <1>1, <1>2, <2>1, <2>2, <2>3, <2>4, FillKeeps
<1>5. disturbances' \in 0 .. MaxDisturbances
  BY <1>1, BoundAssumption DEF Disturb, TypeOK
<1>6. responses' \in Seq({Hello} \cup Writes)
  BY <1>1, EmptySeq
<1>7. TypeOK'
  BY <1>1, <1>3, <1>4, <1>5, <1>6 DEF TypeOK, diskVars, historyVars
<1>8. PipelineInOrder'
  BY <1>1, <1>4 DEF PipelineInOrder, diskVars
<1> QED BY <1>3, <1>7, <1>8

LEMMA StreamFinishesKeeps == PipeInv /\ StreamFinishes => PipeInv'
<1> SUFFICES ASSUME PipeInv, StreamFinishes PROVE PipeInv'
  OBVIOUS
<1> USE DEF PipeInv
<1> DEFINE closed == Close(stream, FALSE)
<1>1. /\ verdict # "none" /\ handshake' = FALSE
      /\ responses' = <<>> /\ verdict' = "none" /\ Abandon
      /\ UNCHANGED <<running, issued, nextBatchId, applied, disturbances>>
      /\ \/ handshake /\ pipeline # <<>> /\ verdict = "permanent" /\ HandleWriteError(closed)
         \/ /\ stream' = IF pipeline # <<>> THEN Start(closed) ELSE closed
            /\ requests' = <<>>
            /\ UNCHANGED <<disk, callbacks, pipeline, refused, told>>
  BY DEF StreamFinishes, Hangup
<1>2. /\ closed \in Streams /\ CallbacksFit(closed) /\ ~IsOpen(closed) /\ ~closed.idle
      /\ Start(closed) \in Streams /\ CallbacksFit(Start(closed))
      /\ ~IsOpen(Start(closed)) /\ ~Start(closed).idle
      /\ InhibitBackoff(closed) \in Streams /\ CallbacksFit(InhibitBackoff(closed))
      /\ ~IsOpen(InhibitBackoff(closed)) /\ ~InhibitBackoff(closed).idle
  <2>1. stream \in Streams /\ CallbacksFit(stream)
    BY DEF TypeOK, PipelineInOrder, Fits
  <2> QED BY <2>1, StreamCloses
<1> HIDE DEF closed
<1>3. running
  BY <1>1 DEF PipelineInOrder, Fits, NewStream, IsOpen
<1>4. responses' \in Seq({Hello} \cup Writes)
  BY <1>1, EmptySeq
<1>5. ASSUME pipeline # <<>>, HandleWriteError(closed)
      PROVE  PipeInv'
  <2>1. /\ refused' = refused \cup {Head(pipeline).write}
        /\ disk' = RemoveMutationBatch(disk, Head(pipeline).id)
        /\ NotifyUser(Head(pipeline).id, "error")
        /\ FillWritePipeline(Tail(pipeline), disk', InhibitBackoff(closed), handshake, <<>>)
    BY <1>5 DEF HandleWriteError
  <2>2. /\ Head(pipeline) \in Batches
        /\ disk' \in Seq(Batches) /\ Begins(Tail(pipeline), disk')
        /\ DOMAIN callbacks' \subseteq Nat
        /\ \A id \in DOMAIN callbacks' : callbacks'[id] \in Writes
        /\ told' \in [Writes -> {"nothing", "ok", "error"}]
        /\ orphans' \subseteq Seq(Writes)
        /\ QueueInOrder' /\ CallbacksOnDisk' /\ OrphansInOrder' /\ NothingLost'
    BY <1>1, <1>5, <2>1, HeadLeaves
  <2>3. /\ pipeline' \in Seq(Batches) /\ Len(pipeline') <= MaxPendingWrites
        /\ Begins(pipeline', disk') /\ stream' \in Streams
        /\ requests' \in Seq({Hello} \cup Writes)
        /\ Fits(pipeline', stream', handshake', requests', responses', verdict')
    <3>1. Fits(Tail(pipeline), InhibitBackoff(closed), handshake', <<>>, responses', verdict')
      BY <1>1, <1>2, NothingSaid
    <3>2. /\ Tail(pipeline) \in Seq(Batches) /\ Len(Tail(pipeline)) = Len(pipeline) - 1
      BY <1>5, DiskShape, HeadTailProperties
    <3>3. Len(pipeline) <= MaxPendingWrites /\ MaxPendingWrites \in Nat /\ handshake \in BOOLEAN
      BY BoundAssumption DEF TypeOK
    <3>4. Len(Tail(pipeline)) <= MaxPendingWrites
      BY <3>2, <3>3, DiskShape
    <3>5. <<>> \in Seq({Hello} \cup Writes) /\ Sorted(disk')
      BY <2>2, EmptySeq DEF QueueInOrder
    <3> QED BY <1>2, <1>4, <2>1, <2>2, <3>1, <3>2, <3>3, <3>4, <3>5, FillKeeps
  <2>4. TypeOK'
    <3>1. refused' \subseteq Writes
      BY <2>1, <2>2 DEF TypeOK, Batches
    <3> QED BY <1>1, <1>4, <2>2, <2>3, <3>1 DEF TypeOK
  <2>5. PipelineInOrder'
    BY <1>1, <1>3, <2>3 DEF PipelineInOrder
  <2> QED BY <2>2, <2>4, <2>5
<1>6. ASSUME stream' = IF pipeline # <<>> THEN Start(closed) ELSE closed,
             requests' = <<>>, UNCHANGED <<disk, callbacks, pipeline, refused, told>>
      PROVE  PipeInv'
  <2>1. stream' \in Streams /\ CallbacksFit(stream') /\ ~IsOpen(stream') /\ ~stream'.idle
    BY <1>2, <1>6
  <2>2. /\ orphans' \subseteq Seq(Writes)
        /\ QueueInOrder' /\ CallbacksOnDisk' /\ OrphansInOrder' /\ NothingLost'
    BY <1>1, <1>6, DiskUntouched DEF diskVars
  <2>3. TypeOK'
    BY <1>1, <1>4, <1>6, <2>1, <2>2, EmptySeq DEF TypeOK
  <2>4. PipelineInOrder'
    <3>1. Fits(pipeline', stream', FALSE, <<>>, <<>>, "none")
      BY <2>1, NothingSaid
    <3> QED BY <1>1, <1>3, <1>6, <3>1 DEF PipelineInOrder
  <2> QED BY <2>2, <2>3, <2>4
<1> QED BY <1>1, <1>5, <1>6

-----------------------------------------------------------------------------
(* The invariant holds for ever.                                           *)

LEMMA PipeStep == PipeInv /\ [Next]_vars => PipeInv'
<1> SUFFICES ASSUME PipeInv, [Next]_vars PROVE PipeInv'
  OBVIOUS
<1>1. CASE Launch
  BY <1>1, LaunchKeeps
<1>2. CASE Kill \/ ReadResultAndDie
  BY <1>2, DeathKeeps
<1>3. CASE WriteMutations
  BY <1>3, WriteMutationsKeeps
<1>4. CASE BackoffTimerFires
  BY <1>4, BackoffKeeps
<1>5. CASE \E when \in {"now", "before"} : CredentialsAnswered(when)
  BY <1>5, CredentialsKeep
<1>6. CASE IdleTimerFires
  BY <1>6, IdleKeeps
<1>7. CASE RestartNetwork
  BY <1>7, RestartKeeps
<1>8. CASE ServerGreets \/ ServerApplies \/ ServerRefuses
  BY <1>8, ServerKeeps
<1>9. CASE ConnectionBreaks
  BY <1>9, BreakKeeps
<1>10. CASE OrphanServed
  BY <1>10, OrphanKeeps
<1>11. CASE ReadHandshake
  BY <1>11, ReadHandshakeKeeps
<1>12. CASE ReadResult
  BY <1>12, ReadResultKeeps
<1>13. CASE StreamFinishes
  BY <1>13, StreamFinishesKeeps
<1>14. CASE UNCHANGED vars
  BY <1>14 DEF vars, diskVars, clientVars, wireVars, historyVars, PipeInv, TypeOK,
               QueueInOrder, Sorted, PipelineInOrder, CallbacksOnDisk, OrphansInOrder,
               NothingLost, Queued
<1> QED BY <1>1, <1>2, <1>3, <1>4, <1>5, <1>6, <1>7, <1>8, <1>9, <1>10, <1>11, <1>12,
           <1>13, <1>14 DEF Next

LEMMA PipeAlways == Spec => []PipeInv
BY PipeInit, PipeStep, PTL DEF Spec

\* Every variable keeps its type: the pipeline never outgrows kMaxPendingWrites, and
\* the stream is always in one of its states.
THEOREM PipelineTypes == Spec => []TypeOK
<1>1. PipeInv => TypeOK
  BY DEF PipeInv
<1> QED BY <1>1, PipeAlways, PTL

\* A write leaves the disk only when the server has applied it or it failed for good
\* (RemoveMutationBatch is reached from AcknowledgeBatch and RejectBatch only).
THEOREM NoWriteIsLost == Spec => []NothingLost
<1>1. PipeInv => NothingLost
  BY DEF PipeInv
<1> QED BY <1>1, PipeAlways, PTL

\* No assertion of stream.cc and remote_store.cc fails: callbacks find the stream they
\* were made for, a needed stream is never closed as idle, a result never comes to an
\* empty pipeline, and the pipeline is the beginning of the queue on disk.
THEOREM NoAssertionFails == Spec => []AssertionsHold
<1>1. PipeInv => AssertionsHold
  <2> SUFFICES ASSUME PipeInv PROVE AssertionsHold
    OBVIOUS
  <2> USE DEF PipeInv
  <2>1. CallbacksFit(stream) /\ (stream.idle => pipeline = <<>>)
    BY DEF PipelineInOrder, Fits
  <2>2. handshake /\ responses # <<>> => pipeline # <<>>
    <3>1. SUFFICES ASSUME handshake, responses # <<>> PROVE pipeline # <<>>
      OBVIOUS
    <3>2. responses \in Seq({Hello} \cup Writes)
      BY DEF TypeOK
    <3>3. Len(responses) \in Nat \ {0}
      BY <3>1, <3>2, EmptySeq
    <3>4. Len(responses) <= Len(pipeline)
      BY <3>1, WireIsDisk
    <3> QED BY <3>3, <3>4, DiskShape
  <2>3. IsPrefix(pipeline, disk)
    BY DiskShape, PrefixIsBeginning DEF PipelineInOrder
  <2> QED BY <2>1, <2>2, <2>3 DEF AssertionsHold
<1> QED BY <1>1, PipeAlways, PTL

\* A response of the server is for the first write of the pipeline: what it has
\* answered and has yet to answer is the pipeline, in order (remote_store.cc:460).
THEOREM ResponsesMatchWrites == Spec => []WireMatchesPipeline
<1>1. PipeInv => WireMatchesPipeline
  <2> SUFFICES ASSUME PipeInv PROVE WireMatchesPipeline
    OBVIOUS
  <2> USE DEF PipeInv
  <2>1. handshake => IsPrefix(responses, WritesOf(pipeline))
    <3>1. responses \in Seq({Hello} \cup Writes)
      BY DEF TypeOK
    <3> DEFINE line == WritesOf(pipeline)
    <3>2. line \in Seq({Hello} \cup Writes)
      BY DiskShape, WritesOfProperties, SeqMonotonic
    <3>3. handshake => Begins(responses, line)
      BY DEF PipelineInOrder, Fits
    <3> HIDE DEF line
    <3>4. handshake => IsPrefix(responses, line)
      BY <3>1, <3>2, <3>3, PrefixIsBeginning
    <3> QED BY <3>4 DEF line
  <2> QED BY <2>1 DEF WireMatchesPipeline, PipelineInOrder, Fits
<1> QED BY <1>1, PipeAlways, PTL

-----------------------------------------------------------------------------
(* The refinement: what ReliableWrites calls the queue are the writes on   *)
(* disk, and the live completions are those of callbacks.                  *)

Live == {callbacks[id] : id \in DOMAIN callbacks}

\* A row has a callback exactly if its write has a live completion.
LEMMA LiveRows ==
  ASSUME PipeInv, NEW i \in DOMAIN disk
  PROVE  /\ \A id \in DOMAIN callbacks : callbacks[id] = disk[i].write => id = disk[i].id
         /\ disk[i].id \in DOMAIN callbacks => callbacks[disk[i].id] = disk[i].write
         /\ disk[i].id \in DOMAIN callbacks <=> disk[i].write \in Live
<1> USE DEF PipeInv
<1>1. ASSUME NEW id \in DOMAIN callbacks
      PROVE  callbacks[id] = disk[i].write <=> id = disk[i].id
  <2>1. PICK j \in DOMAIN disk : disk[j].id = id /\ disk[j].write = callbacks[id]
    BY DEF CallbacksOnDisk
  <2>2. CASE i = j
    BY <2>1, <2>2
  <2>3. CASE i < j
    BY <2>1, <2>3, DiskShape DEF QueueInOrder, Sorted
  <2>4. CASE j < i
    BY <2>1, <2>4, DiskShape DEF QueueInOrder, Sorted
  <2> QED BY <2>2, <2>3, <2>4, DiskShape
<1> QED BY <1>1 DEF Live

\* The abstract queue holds the writes of the rows.
LEMMA QueuedRows ==
  ASSUME TypeOK
  PROVE  Promise!Queued = Queued
<1>1. DOMAIN WritesOf(disk) = DOMAIN disk
  BY DEF WritesOf
<1>2. \A i \in DOMAIN disk : WritesOf(disk)[i] = disk[i].write
  BY DEF WritesOf
<1> QED BY <1>1, <1>2 DEF Promise!Queued, Queued

\* When its completion is called, the first batch leaves the abstract queue.
LEMMA HeadSettles ==
  ASSUME PipeInv, pipeline # <<>>, NEW what,
         disk' = RemoveMutationBatch(disk, Head(pipeline).id),
         NotifyUser(Head(pipeline).id, what)
  PROVE  /\ WritesOf(disk) # <<>>
         /\ Head(WritesOf(disk)) = Head(pipeline).write
         /\ WritesOf(disk') = Tail(WritesOf(disk))
         /\ Promise!Tell(Head(WritesOf(disk)), what)
<1> USE DEF PipeInv
<1> DEFINE first == Head(pipeline)
<1>1. disk # <<>> /\ Head(disk) = first /\ disk[1] = first /\ 1 \in DOMAIN disk
  BY DiskShape, TailBegins, EmptySeq DEF PipelineInOrder
<1>2. disk' = Tail(disk)
  BY <1>1, DiskShape, RemoveHead DEF QueueInOrder
<1>3. /\ WritesOf(disk) # <<>> /\ Head(WritesOf(disk)) = first.write
      /\ WritesOf(disk') = Tail(WritesOf(disk))
  BY <1>1, <1>2, DiskShape, WritesOfTail, WritesOfProperties
<1>4. /\ \A id \in DOMAIN callbacks : callbacks[id] = first.write => id = first.id
      /\ first.id \in DOMAIN callbacks => callbacks[first.id] = first.write
      /\ first.id \in DOMAIN callbacks <=> first.write \in Live
  BY <1>1, LiveRows
<1>5. Live' = Live \ {first.write}
  <2>1. /\ DOMAIN callbacks' = DOMAIN callbacks \ {first.id}
        /\ \A b \in DOMAIN callbacks' : callbacks'[b] = callbacks[b]
    BY DEF NotifyUser
  <2> QED BY <1>4, <2>1 DEF Live
<1>6. told' = [told EXCEPT ![first.write] = IF first.write \in Live THEN what ELSE @]
  <2>1. CASE first.id \in DOMAIN callbacks
    BY <1>4, <2>1 DEF NotifyUser
  <2>2. CASE first.id \notin DOMAIN callbacks
    BY <1>4, <2>2 DEF NotifyUser, TypeOK
  <2> QED BY <2>1, <2>2
<1> QED BY <1>3, <1>5, <1>6 DEF Promise!Tell, Live

\* What neither calls a completion nor touches the disk is no step of the promise.
LEMMA Stutters ==
  ASSUME UNCHANGED <<issued, disk, callbacks, applied, told>>
  PROVE  UNCHANGED Promise!vars
BY DEF Promise!vars, WritesOf

\* A process that dies takes the completions with it.
LEMMA DeathIsCrash ==
  ASSUME PipeInv, Kill \/ ReadResultAndDie
  PROVE  Promise!Crash
<1> USE DEF PipeInv
<1>1. callbacks' = NoCallbacks /\ UNCHANGED <<diskVars, applied>>
  BY DEF Kill, ReadResultAndDie, Die, historyVars
<1>2. /\ {callbacks'[id] : id \in DOMAIN callbacks'} = {}
      /\ WritesOf(disk') = WritesOf(disk)
      /\ UNCHANGED <<issued, applied>>
  BY <1>1 DEF NoCallbacks, diskVars
<1>3. CASE Kill
  BY <1>2, <1>3 DEF Kill, historyVars, Promise!Crash
<1>4. CASE ReadResultAndDie
  <2>1. /\ responses # <<>> /\ handshake /\ pipeline # <<>>
        /\ Head(pipeline).id \in DOMAIN callbacks
        /\ told' = [told EXCEPT ![callbacks[Head(pipeline).id]] = "ok"]
    BY <1>4 DEF ReadResultAndDie
  <2>2. /\ disk # <<>> /\ 1 \in DOMAIN disk /\ disk[1] = Head(pipeline)
    BY <2>1, DiskShape, TailBegins, EmptySeq DEF PipelineInOrder
  <2>3. WritesOf(disk) # <<>> /\ Head(WritesOf(disk)) = disk[1].write
    BY <2>2, DiskShape, WritesOfTail, WritesOfProperties
  <2>4. callbacks[Head(pipeline).id] = disk[1].write /\ disk[1].write \in Live
    BY <2>1, <2>2, LiveRows
  <2>5. disk[1].write \in applied
    <3>1. responses \in Seq({Hello} \cup Writes)
      BY DEF TypeOK
    <3>2. 1 \in 1 .. Len(responses) /\ DOMAIN responses = 1 .. Len(responses)
      BY <2>1, <3>1, EmptySeq, LenProperties
    <3>3. responses[1] = disk[1].write
      BY <2>1, <3>2, WireIsDisk
    <3> QED BY <2>1, <3>2, <3>3 DEF PipelineInOrder
  <2> QED BY <1>2, <2>1, <2>3, <2>4, <2>5 DEF Promise!Crash, Live
<1> QED BY <1>3, <1>4

\* A call of setData issues the next write.
LEMMA WriteIsIssued ==
  ASSUME PipeInv, WriteMutations
  PROVE  Promise!Issue
<1> USE DEF PipeInv
<1> DEFINE batch == [id |-> nextBatchId, write |-> issued']
<1>1. /\ running /\ issued < MaxWrites /\ issued' = issued + 1
      /\ disk' = Put(disk, batch)
      /\ callbacks' = [b \in DOMAIN callbacks \cup {nextBatchId} |->
                         IF b = nextBatchId THEN issued' ELSE callbacks[b]]
      /\ UNCHANGED <<applied, told>>
  BY DEF WriteMutations, historyVars
<1>2. batch \in Batches /\ batch.id = nextBatchId /\ batch.write = issued'
  BY <1>1, DiskShape, BoundAssumption DEF Batches, Writes
<1> HIDE DEF batch
<1>3. disk' = Append(disk, batch)
  <2>1. \A i \in DOMAIN disk : disk[i].id < batch.id
    BY <1>1, <1>2 DEF QueueInOrder
  <2> QED BY <1>1, <1>2, <2>1, DiskShape, PutAppends
<1>4. WritesOf(disk') = Append(WritesOf(disk), issued')
  <2>1. /\ disk' \in Seq(Batches) /\ Len(disk') = Len(disk) + 1
        /\ \A i \in 1 .. Len(disk) : disk'[i] = disk[i]
        /\ disk'[Len(disk) + 1] = batch
        /\ Len(disk) \in Nat
    BY <1>2, <1>3, DiskShape, AppendProperties
  <2> DEFINE old == WritesOf(disk)
             new == WritesOf(disk')
  <2>2. /\ old \in Seq(Writes) /\ Len(old) = Len(disk)
        /\ \A i \in 1 .. Len(disk) : old[i] = disk[i].write
    BY DiskShape, WritesOfProperties
  <2>3. /\ new \in Seq(Writes) /\ Len(new) = Len(disk) + 1
        /\ \A i \in 1 .. Len(disk) + 1 : new[i] = disk'[i].write
    BY <2>1, WritesOfProperties
  <2> HIDE DEF old, new
  <2>4. issued' \in Writes
    BY <1>2 DEF Batches
  <2>5. /\ Append(old, issued') \in Seq(Writes) /\ Len(Append(old, issued')) = Len(disk) + 1
        /\ \A i \in 1 .. Len(disk) : Append(old, issued')[i] = old[i]
        /\ Append(old, issued')[Len(disk) + 1] = issued'
    BY <2>2, <2>4, AppendProperties
  <2>6. \A i \in 1 .. Len(disk) + 1 : new[i] = Append(old, issued')[i]
    <3>1. \A i \in 1 .. Len(disk) + 1 : i \in 1 .. Len(disk) \/ i = Len(disk) + 1
      BY <2>1
    <3> QED BY <1>2, <2>1, <2>2, <2>3, <2>5, <3>1
  <2> QED BY <2>3, <2>5, <2>6, SeqEqual DEF old, new
<1>5. Live' = Live \cup {issued'}
  <2>1. nextBatchId \notin DOMAIN callbacks
    <3> SUFFICES ASSUME nextBatchId \in DOMAIN callbacks PROVE FALSE
      OBVIOUS
    <3>1. PICK i \in DOMAIN disk : disk[i].id = nextBatchId
      BY DEF CallbacksOnDisk
    <3> QED BY <1>1, <3>1, DiskShape DEF QueueInOrder
  <2>2. /\ DOMAIN callbacks' = DOMAIN callbacks \cup {nextBatchId}
        /\ callbacks'[nextBatchId] = issued'
        /\ \A b \in DOMAIN callbacks : callbacks'[b] = callbacks[b]
    BY <1>1, <2>1
  <2> QED BY <2>2 DEF Live
<1> QED BY <1>1, <1>4, <1>5 DEF Promise!Issue, Live

\* The server applies nothing before what was written earlier and is still on disk,
\* whether the connection of the request still stands or not.
LEMMA AppliedInOrder ==
  ASSUME PipeInv, ServerApplies \/ OrphanServed
  PROVE  \E w \in 1 .. MaxWrites : Promise!Apply(w)
<1> USE DEF PipeInv
<1>1. ASSUME NEW w \in Writes, w <= issued, \A v \in Queued : v < w => v \in applied,
             applied' = applied \cup {w}, UNCHANGED <<issued, disk, callbacks, told>>
      PROVE  \E x \in 1 .. MaxWrites : Promise!Apply(x)
  <2>1. \A v \in 1 .. w - 1 : v \in applied \/ v \notin Promise!Queued
    BY <1>1, QueuedRows DEF Writes
  <2>2. WritesOf(disk') = WritesOf(disk)
    BY <1>1
  <2>3. Promise!Apply(w)
    BY <1>1, <2>1, <2>2 DEF Promise!Apply
  <2> QED BY <2>3 DEF Writes
<1>2. CASE ServerApplies
  <2>1. PICK w \in Writes :
          /\ verdict = "none" /\ requests # <<>> /\ Head(requests) = w
          /\ applied' = applied \cup {w}
          /\ UNCHANGED <<issued, disk, callbacks, told>>
    BY <1>2 DEF ServerApplies, Served, diskVars, clientVars
  <2>2. requests \in Seq({Hello} \cup Writes)
    BY DEF TypeOK
  <2>3. 1 \in DOMAIN requests /\ requests[1] = w
    BY <2>1, <2>2, EmptySeq, LenProperties
  <2>4. handshake
    BY <2>1, <2>3, BoundAssumption DEF PipelineInOrder, Fits, Hello, Writes
  <2>5. /\ w <= issued
        /\ \A v \in Queued : v < w => v \in applied \/ \E j \in 1 .. 1 - 1 : requests[j] = v
    BY <2>1, <2>3, <2>4, NoneOvertaken
  <2> QED BY <1>1, <2>1, <2>5
<1>3. CASE OrphanServed
  <2>1. PICK o \in orphans : /\ applied' = applied \cup {Head(o)}
                             /\ UNCHANGED <<issued, disk, callbacks, told>>
    BY <1>3 DEF OrphanServed, diskVars, clientVars
  <2>2. o \in Seq(Writes) /\ o # <<>>
    BY DEF TypeOK, OrphansInOrder
  <2>3. 1 \in DOMAIN o /\ Head(o) = o[1] /\ Head(o) \in Writes
    BY <2>2, EmptySeq, LenProperties, HeadTailProperties
  <2>4. /\ o[1] <= issued
        /\ \A v \in Queued : v < o[1] => v \in applied \/ \E j \in 1 .. 1 - 1 : o[j] = v
    BY <2>3 DEF OrphansInOrder
  <2> QED BY <1>1, <2>1, <2>3, <2>4
<1> QED BY <1>2, <1>3

\* A result acknowledges the first write of the queue, which the server has applied.
LEMMA ResultAcknowledges ==
  ASSUME PipeInv, ReadResult
  PROVE  Promise!Acknowledge
<1> USE DEF PipeInv
<1>1. /\ responses # <<>> /\ handshake /\ pipeline # <<>>
      /\ NotifyUser(Head(pipeline).id, "ok")
      /\ disk' = RemoveMutationBatch(disk, Head(pipeline).id)
      /\ UNCHANGED <<issued, applied>>
  BY DEF ReadResult
<1>2. Head(pipeline).write \in applied
  <2>1. responses \in Seq({Hello} \cup Writes)
    BY DEF TypeOK
  <2>2. 1 \in 1 .. Len(responses) /\ DOMAIN responses = 1 .. Len(responses)
    BY <1>1, <2>1, EmptySeq, LenProperties
  <2>3. responses[1] = disk[1].write /\ responses[1] \in applied
    BY <1>1, <2>2, WireIsDisk DEF PipelineInOrder
  <2>4. Head(pipeline) = disk[1]
    BY <1>1, DiskShape, EmptySeq DEF PipelineInOrder, Begins
  <2> QED BY <2>3, <2>4
<1> QED BY <1>1, <1>2, HeadSettles DEF Promise!Acknowledge

\* The end of a call refuses the first write of the queue, or changes nothing.
LEMMA FinishRefuses ==
  ASSUME PipeInv, StreamFinishes
  PROVE  Promise!Refuse \/ UNCHANGED Promise!vars
<1>1. UNCHANGED <<issued, applied>>
  BY DEF StreamFinishes
<1>2. CASE handshake /\ pipeline # <<>> /\ verdict = "permanent"
  <2>1. HandleWriteError(Close(stream, FALSE))
    BY <1>2 DEF StreamFinishes
  <2>2. /\ NotifyUser(Head(pipeline).id, "error")
        /\ disk' = RemoveMutationBatch(disk, Head(pipeline).id)
    BY <2>1 DEF HandleWriteError
  <2> QED BY <1>1, <1>2, <2>2, HeadSettles DEF Promise!Refuse
<1>3. CASE ~(handshake /\ pipeline # <<>> /\ verdict = "permanent")
  BY <1>1, <1>3, Stutters DEF StreamFinishes
<1> QED BY <1>2, <1>3

\* The client keeps the promise that the screens are built on: the writes reach the
\* collection for the first time in the order of the calls of setData, each leaves
\* the queue applied or refused, and a completion that is still held is called once, with
\* the truth, though connections break and their requests are served late.
THEOREM ClientKeepsPromise == Spec => ImplementsReliableWrites
<1>1. Init => Promise!Init
  <2> SUFFICES ASSUME Init PROVE Promise!Init
    OBVIOUS
  <2>1. {callbacks[id] : id \in DOMAIN callbacks} = {}
    BY DEF Init, NoCallbacks
  <2>2. WritesOf(disk) = <<>>
    BY EmptySeq, WritesOfProperties DEF Init
  <2> QED BY <2>1, <2>2 DEF Init, Promise!Init, Writes
<1>2. PipeInv /\ [Next]_vars => [Promise!Next]_(Promise!vars)
  <2> SUFFICES ASSUME PipeInv, [Next]_vars PROVE Promise!Next \/ UNCHANGED Promise!vars
    OBVIOUS
  <2>1. CASE Kill \/ ReadResultAndDie
    BY <2>1, DeathIsCrash DEF Promise!Next
  <2>2. CASE WriteMutations
    BY <2>2, WriteIsIssued DEF Promise!Next
  <2>3. CASE ServerApplies \/ OrphanServed
    BY <2>3, AppliedInOrder DEF Promise!Next
  <2>4. CASE ReadResult
    BY <2>4, ResultAcknowledges DEF Promise!Next
  <2>5. CASE StreamFinishes
    BY <2>5, FinishRefuses DEF Promise!Next
  <2>6. CASE Launch \/ RestartNetwork
    BY <2>6, Stutters DEF Launch, RestartNetwork, diskVars, historyVars
  <2>7. CASE BackoffTimerFires \/ IdleTimerFires
    BY <2>7, Stutters DEF BackoffTimerFires, IdleTimerFires, diskVars, historyVars
  <2>8. CASE \E when \in {"now", "before"} : CredentialsAnswered(when)
    BY <2>8, Stutters DEF CredentialsAnswered, diskVars, historyVars
  <2>9. CASE ServerGreets \/ ServerRefuses \/ ConnectionBreaks
    BY <2>9, Stutters
    DEF ServerGreets, ServerRefuses, Served, ConnectionBreaks, diskVars, clientVars, historyVars
  <2>10. CASE ReadHandshake
    BY <2>10, Stutters DEF ReadHandshake, diskVars, historyVars
  <2>11. CASE UNCHANGED vars
    BY <2>11, Stutters DEF vars, diskVars, clientVars, historyVars
  <2> QED BY <2>1, <2>2, <2>3, <2>4, <2>5, <2>6, <2>7, <2>8, <2>9, <2>10, <2>11 DEF Next
<1> QED BY <1>1, <1>2, PipeAlways, PTL DEF Spec, ImplementsReliableWrites, Promise!Spec

=============================================================================
