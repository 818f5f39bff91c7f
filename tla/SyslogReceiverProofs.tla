------------------------ MODULE SyslogReceiverProofs ------------------------
(***************************************************************************)
(* Proofs about the syslog receiver, for every queue size, batch size and  *)
(* number of messages.  The inductive invariant speaks of the pipe: the    *)
(* batch under way and the queue behind it, as one sequence.               *)
(***************************************************************************)
EXTENDS SyslogReceiver, SequenceTheorems, FiniteSetTheorems, TLAPS

\* A batch exists only while its flush is under way, and is a batch at most.
BatchOfFlush ==
  /\ flushing \/ batch = <<>>
  /\ Len(batch) <= BatchSize

Sorted(s) == \A i, j \in 1 .. Len(s) : i < j => s[i] < s[j]
Above(s, S) == \A m \in S, i \in 1 .. Len(s) : m < s[i]
UpTo(s, S, n) == (\A i \in 1 .. Len(s) : s[i] <= n) /\ (\A m \in S : m <= n)

\* The pipe p is sorted, what is written is older, and nothing is newer than the
\* message received last.
PipeInOrder(p, S, n) == Sorted(p) /\ Above(p, S) /\ UpTo(p, S, n)

IInv ==
  /\ TypeOK
  /\ Bounded
  /\ Counted
  /\ BatchOfFlush
  /\ PipeInOrder(batch \o queue, written, received)

-----------------------------------------------------------------------------
(* Facts about sequences.                                                  *)

\* Splitting a sequence gives two sequences that make it up.
LEMMA Split ==
  ASSUME NEW q \in Seq(Ids), NEW n \in 0 .. Len(q)
  PROVE  /\ SubSeq(q, 1, n) \in Seq(Ids)
         /\ SubSeq(q, n + 1, Len(q)) \in Seq(Ids)
         /\ Len(SubSeq(q, 1, n)) = n
         /\ Len(SubSeq(q, n + 1, Len(q))) = Len(q) - n
         /\ SubSeq(q, 1, n) \o SubSeq(q, n + 1, Len(q)) = q
         /\ \A i \in 1 .. n : SubSeq(q, 1, n)[i] = q[i]
<1>1. Len(q) \in Nat /\ \A i \in 1 .. Len(q) : q[i] \in Ids
  BY LenProperties, ElementOfSeq
<1>2. /\ SubSeq(q, 1, n) \in Seq(Ids)
      /\ Len(SubSeq(q, 1, n)) = n
      /\ \A i \in 1 .. n : SubSeq(q, 1, n)[i] = q[i]
  <2>1. \A i \in 1 .. n : q[i] \in Ids
    BY <1>1
  <2>2. /\ SubSeq(q, 1, n) \in Seq(Ids)
        /\ Len(SubSeq(q, 1, n)) = IF 1 <= n THEN n - 1 + 1 ELSE 0
        /\ \A i \in 1 .. n - 1 + 1 : SubSeq(q, 1, n)[i] = q[1 + i - 1]
    BY <1>1, <2>1, SubSeqProperties
  <2> QED
    BY <1>1, <2>2
<1>3. /\ SubSeq(q, n + 1, Len(q)) \in Seq(Ids)
      /\ Len(SubSeq(q, n + 1, Len(q))) = Len(q) - n
  <2>1. \A i \in n + 1 .. Len(q) : q[i] \in Ids
    BY <1>1
  <2>2. /\ SubSeq(q, n + 1, Len(q)) \in Seq(Ids)
        /\ Len(SubSeq(q, n + 1, Len(q))) =
             IF n + 1 <= Len(q) THEN Len(q) - (n + 1) + 1 ELSE 0
    BY <1>1, <2>1, SubSeqProperties
  <2> QED
    BY <1>1, <2>2
<1>4. SubSeq(q, 1, n) \o SubSeq(q, n + 1, Len(q)) = q
  <2>1. SubSeq(q, 1, n) \o SubSeq(q, n + 1, Len(q)) = SubSeq(q, 1, Len(q))
    <3>1. /\ 1 \in 1 .. Len(q) + 1
          /\ n \in 1 - 1 .. Len(q)
          /\ Len(q) \in n .. Len(q)
      BY <1>1
    <3> QED
      BY <3>1, ConcatAdjacentSubSeq
  <2> QED
    BY <2>1, SubSeqFull
<1> QED
  BY <1>2, <1>3, <1>4

\* The elements of a concatenation.
LEMMA Concat ==
  ASSUME NEW b \in Seq(Ids), NEW q \in Seq(Ids)
  PROVE  /\ b \o q \in Seq(Ids)
         /\ Len(b) \in Nat /\ Len(q) \in Nat
         /\ Len(b \o q) = Len(b) + Len(q)
         /\ \A i \in 1 .. Len(b) : (b \o q)[i] = b[i]
         /\ \A i \in 1 .. Len(q) : (b \o q)[Len(b) + i] = q[i]
         /\ \A i \in 1 .. Len(b) + Len(q) : (b \o q)[i] \in Ids
<1>1. Len(b) \in Nat /\ Len(q) \in Nat
  BY LenProperties
<1>2. /\ b \o q \in Seq(Ids)
      /\ Len(b \o q) = Len(b) + Len(q)
      /\ \A i \in 1 .. Len(b) + Len(q) :
           (b \o q)[i] = IF i <= Len(b) THEN b[i] ELSE q[i - Len(b)]
  BY ConcatProperties
<1>3. \A i \in 1 .. Len(b) : (b \o q)[i] = b[i]
  BY <1>1, <1>2
<1>4. \A i \in 1 .. Len(q) : (b \o q)[Len(b) + i] = q[i]
  <2> TAKE i \in 1 .. Len(q)
  <2>1. Len(b) + i \in 1 .. Len(b) + Len(q) /\ ~(Len(b) + i <= Len(b)) /\ Len(b) + i - Len(b) = i
    BY <1>1
  <2> QED
    BY <1>2, <2>1
<1>5. \A i \in 1 .. Len(b) + Len(q) : (b \o q)[i] \in Ids
  BY <1>2, ElementOfSeq
<1> QED
  BY <1>1, <1>2, <1>3, <1>4, <1>5

\* Appending to the second part appends to the whole.
LEMMA AppendBehind ==
  ASSUME NEW b \in Seq(Ids), NEW q \in Seq(Ids), NEW m \in Ids
  PROVE  b \o Append(q, m) = Append(b \o q, m)
<1>1. Append(q, m) = q \o <<m>> /\ Append(b \o q, m) = (b \o q) \o <<m>>
  BY Concat, AppendIsConcat
<1>2. <<m>> \in Seq(Ids)
  OBVIOUS
<1> QED
  BY <1>1, <1>2, ConcatAssociative

\* A set of elements of a sequence is no larger than the sequence is long.
LEMMA RangeIsSmall ==
  ASSUME NEW b \in Seq(Ids), NEW S \in SUBSET Range(b)
  PROVE  /\ IsFiniteSet(S)
         /\ Cardinality(S) \in Nat
         /\ Cardinality(S) <= Len(b)
<1>1. Len(b) \in Nat /\ b \in [1 .. Len(b) -> Ids] /\ DOMAIN b = 1 .. Len(b)
  BY LenProperties
<1>2. IsFiniteSet(1 .. Len(b)) /\ Cardinality(1 .. Len(b)) = Len(b)
  BY <1>1, FS_Interval
<1>3. b \in Surjection(1 .. Len(b), Range(b))
  BY <1>1 DEF Surjection, Range
<1>4. IsFiniteSet(Range(b)) /\ Cardinality(Range(b)) <= Len(b)
  BY <1>2, <1>3, FS_Surjection
<1>5. IsFiniteSet(S) /\ Cardinality(S) <= Cardinality(Range(b))
  BY <1>4, FS_Subset
<1>6. Cardinality(S) \in Nat /\ Cardinality(Range(b)) \in Nat
  BY <1>4, <1>5, FS_CardinalityType
<1> QED
  BY <1>1, <1>4, <1>5, <1>6

\* Of a batch of b messages n return to the queue and the others are dropped: the
\* sum stays.
LEMMA Returned ==
  ASSUME NEW t \in Nat, NEW s \in Nat, NEW d \in Nat, NEW e \in Nat, NEW u \in Nat,
         NEW q \in Nat, NEW b \in Nat, NEW n \in 0 .. b,
         t = s + d + e + u + q + b
  PROVE  t = s + (d + (b - n)) + e + u + (n + q) + 0
  OBVIOUS

-----------------------------------------------------------------------------
(* What each change of the pipe preserves.                                 *)

\* Taking a batch from q makes q the pipe.
LEMMA Taking ==
  ASSUME NEW q \in Seq(Ids), Len(q) <= MaxQueue, TakeFrom(q)
  PROVE  /\ flushing' = TRUE
         /\ batch' \in Seq(Ids)
         /\ queue' \in Seq(Ids)
         /\ batch' \o queue' = q
         /\ Len(batch') <= BatchSize
         /\ Len(queue') <= MaxQueue
         /\ Len(batch') + Len(queue') = Len(q)
<1> DEFINE n == Lesser(BatchSize, Len(q))
<1>1. Len(q) \in Nat /\ BatchSize \in Nat /\ MaxQueue \in Nat
  BY LenProperties, ReceiverAssumption
<1>2. n \in 0 .. Len(q) /\ n <= BatchSize
  BY <1>1 DEF Lesser
<1>3. flushing' = TRUE /\ batch' = SubSeq(q, 1, n) /\ queue' = SubSeq(q, n + 1, Len(q))
  BY DEF TakeFrom
<1> HIDE DEF n
<1>4. /\ SubSeq(q, 1, n) \in Seq(Ids)
      /\ SubSeq(q, n + 1, Len(q)) \in Seq(Ids)
      /\ Len(SubSeq(q, 1, n)) = n
      /\ Len(SubSeq(q, n + 1, Len(q))) = Len(q) - n
      /\ SubSeq(q, 1, n) \o SubSeq(q, n + 1, Len(q)) = q
  BY <1>2, Split
<1>5. n + (Len(q) - n) = Len(q) /\ Len(q) - n <= MaxQueue
  BY <1>1, <1>2
<1> QED
  BY <1>2, <1>3, <1>4, <1>5

\* A newer message goes to the end.
LEMMA NewestLast ==
  ASSUME NEW p \in Seq(Ids), NEW S \in SUBSET Ids, NEW n \in Nat, n + 1 \in Ids,
         PipeInOrder(p, S, n)
  PROVE  PipeInOrder(Append(p, n + 1), S, n + 1)
<1> DEFINE m == n + 1
           t == Append(p, m)
<1>1. Len(p) \in Nat /\ \A i \in 1 .. Len(p) : p[i] \in Nat
  BY LenProperties, ElementOfSeq, ReceiverAssumption DEF Ids
<1>2. Len(t) = Len(p) + 1 /\ t[Len(p) + 1] = m /\ \A i \in 1 .. Len(p) : t[i] = p[i]
  BY AppendProperties
<1>3. S \subseteq Nat
  BY ReceiverAssumption DEF Ids
<1>4. Sorted(t)
  <2> SUFFICES ASSUME NEW i \in 1 .. Len(t), NEW j \in 1 .. Len(t), i < j
               PROVE  t[i] < t[j]
    BY DEF Sorted
  <2>1. i \in 1 .. Len(p) /\ t[i] = p[i] /\ p[i] <= n
    BY <1>1, <1>2 DEF PipeInOrder, UpTo
  <2>2. CASE j = Len(p) + 1
    BY <1>1, <1>2, <2>1, <2>2
  <2>3. CASE j \in 1 .. Len(p)
    BY <1>2, <2>1, <2>3 DEF PipeInOrder, Sorted
  <2> QED
    BY <1>1, <1>2, <2>2, <2>3
<1>5. Above(t, S)
  <2> SUFFICES ASSUME NEW k \in S, NEW i \in 1 .. Len(t)
               PROVE  k < t[i]
    BY DEF Above
  <2>1. CASE i = Len(p) + 1
    BY <1>1, <1>2, <1>3, <2>1 DEF PipeInOrder, UpTo
  <2>2. CASE i \in 1 .. Len(p)
    BY <1>2, <2>2 DEF PipeInOrder, Above
  <2> QED
    BY <1>1, <1>2, <2>1, <2>2
<1>6. UpTo(t, S, m)
  <2>1. \A k \in S : k <= m
    BY <1>3 DEF PipeInOrder, UpTo
  <2>2. ASSUME NEW i \in 1 .. Len(t) PROVE t[i] <= m
    <3>1. CASE i = Len(p) + 1
      BY <1>2, <3>1
    <3>2. CASE i \in 1 .. Len(p)
      BY <1>1, <1>2, <3>2 DEF PipeInOrder, UpTo
    <3> QED
      BY <1>1, <1>2, <3>1, <3>2
  <2> QED
    BY <2>1, <2>2 DEF UpTo
<1> QED
  BY <1>4, <1>5, <1>6 DEF PipeInOrder

\* Dropping the end of the batch leaves the rest of the pipe in order.
LEMMA ShorterBatch ==
  ASSUME NEW b \in Seq(Ids), NEW q \in Seq(Ids), NEW S \in SUBSET Ids, NEW n \in Nat,
         NEW k \in 0 .. Len(b), PipeInOrder(b \o q, S, n)
  PROVE  PipeInOrder(SubSeq(b, 1, k) \o q, S, n)
<1> DEFINE p == b \o q
           a == SubSeq(b, 1, k)
           t == a \o q
<1>1. /\ Len(b) \in Nat /\ Len(q) \in Nat
      /\ Len(p) = Len(b) + Len(q)
      /\ \A i \in 1 .. Len(b) : p[i] = b[i]
      /\ \A i \in 1 .. Len(q) : p[Len(b) + i] = q[i]
  BY Concat
<1>2. a \in Seq(Ids) /\ Len(a) = k /\ \A i \in 1 .. k : a[i] = b[i]
  BY Split
<1>3. /\ Len(t) = k + Len(q)
      /\ \A i \in 1 .. k : t[i] = a[i]
      /\ \A i \in 1 .. Len(q) : t[k + i] = q[i]
  BY <1>2, Concat
<1> DEFINE f(i) == IF i <= k THEN i ELSE i + (Len(b) - k)
<1>4. \A i \in 1 .. Len(t) : f(i) \in 1 .. Len(p) /\ t[i] = p[f(i)]
  <2> TAKE i \in 1 .. Len(t)
  <2>1. CASE i <= k
    BY <1>1, <1>2, <1>3, <2>1
  <2>2. CASE ~(i <= k)
    <3>1. i - k \in 1 .. Len(q) /\ k + (i - k) = i /\ Len(b) + (i - k) = f(i)
      BY <1>1, <1>3, <2>2
    <3>2. t[i] = q[i - k] /\ p[f(i)] = q[i - k]
      BY <1>1, <1>3, <3>1
    <3>3. f(i) \in 1 .. Len(p)
      BY <1>1, <1>3, <2>2
    <3> QED
      BY <3>2, <3>3
  <2> QED
    BY <2>1, <2>2
<1>5. \A i, j \in 1 .. Len(t) : i < j => f(i) < f(j)
  BY <1>1, <1>3
<1> HIDE DEF f, t, p
<1>6. PipeInOrder(p, S, n)
  BY DEF p
<1>7. PipeInOrder(t, S, n)
  <2>1. Sorted(t)
    BY <1>4, <1>5, <1>6 DEF PipeInOrder, Sorted
  <2>2. Above(t, S)
    BY <1>4, <1>6 DEF PipeInOrder, Above
  <2>3. UpTo(t, S, n)
    BY <1>4, <1>6 DEF PipeInOrder, UpTo
  <2> QED
    BY <2>1, <2>2, <2>3 DEF PipeInOrder
<1> QED
  BY <1>7 DEF t

\* Part of the batch is written and the rest of it is gone.
LEMMA BatchWritten ==
  ASSUME NEW b \in Seq(Ids), NEW q \in Seq(Ids), NEW S \in SUBSET Ids, NEW n \in Nat,
         NEW T \in SUBSET Range(b), PipeInOrder(b \o q, S, n)
  PROVE  PipeInOrder(<<>> \o q, S \cup T, n)
<1> DEFINE p == b \o q
<1>1. /\ Len(b) \in Nat /\ Len(q) \in Nat
      /\ Len(p) = Len(b) + Len(q)
      /\ \A i \in 1 .. Len(b) : p[i] = b[i]
      /\ \A i \in 1 .. Len(q) : p[Len(b) + i] = q[i]
  BY Concat
<1>2. <<>> \o q = q
  BY ConcatEmptySeq
<1> HIDE DEF p
<1>3. PipeInOrder(p, S, n)
  BY DEF p
<1>4. \A i \in 1 .. Len(q) : Len(b) + i \in 1 .. Len(p)
  BY <1>1
<1>5. \A i, j \in 1 .. Len(q) : i < j => Len(b) + i < Len(b) + j
  BY <1>1
<1>6. Sorted(q)
  BY <1>1, <1>3, <1>4, <1>5 DEF PipeInOrder, Sorted
<1>7. \A m \in T : \E i \in 1 .. Len(b) : m = b[i]
  BY LenProperties DEF Range
<1>8. \A m \in T : \E i \in 1 .. Len(b) : m = p[i] /\ i \in 1 .. Len(p)
  BY <1>1, <1>7
<1>9. Above(q, S \cup T)
  <2>1. ASSUME NEW m \in S, NEW i \in 1 .. Len(q) PROVE m < q[i]
    BY <1>1, <1>3, <1>4 DEF PipeInOrder, Above
  <2>2. ASSUME NEW m \in T, NEW i \in 1 .. Len(q) PROVE m < q[i]
    <3>1. PICK j \in 1 .. Len(b) : m = p[j] /\ j \in 1 .. Len(p)
      BY <1>8
    <3>2. j < Len(b) + i
      BY <1>1
    <3> QED
      BY <1>1, <1>3, <1>4, <3>1, <3>2 DEF PipeInOrder, Sorted
  <2> QED
    BY <2>1, <2>2 DEF Above
<1>10. UpTo(q, S \cup T, n)
  <2>1. \A i \in 1 .. Len(q) : q[i] <= n
    BY <1>1, <1>3, <1>4 DEF PipeInOrder, UpTo
  <2>2. \A m \in S \cup T : m <= n
    BY <1>3, <1>8 DEF PipeInOrder, UpTo
  <2> QED
    BY <2>1, <2>2 DEF UpTo
<1> QED
  BY <1>2, <1>6, <1>9, <1>10 DEF PipeInOrder

-----------------------------------------------------------------------------
(* Each action preserves the invariant.                                    *)

USE DEF vars, flushVars, counters, opVars, histVars

LEMMA InitIInv == Init => IInv
<1> SUFFICES ASSUME Init PROVE IInv
  OBVIOUS
<1>1. Len(<<>>) = 0 /\ <<>> \in Seq(Ids) /\ <<>> \o <<>> = <<>>
  OBVIOUS
<1>2. TypeOK
  <2>1. queue \in Seq(Ids) /\ batch \in Seq(Ids) /\ received \in 0 .. MaxMessages
    BY <1>1, ReceiverAssumption DEF Init
  <2>2. rejected \in 0 .. MaxRejected
    BY ReceiverAssumption DEF Init
  <2> QED
    BY <2>1, <2>2 DEF Init, TypeOK
<1>3. Bounded /\ Counted /\ BatchOfFlush
  BY <1>1, ReceiverAssumption DEF Init, Bounded, Counted, BatchOfFlush
<1>4. PipeInOrder(<<>>, {}, 0)
  BY <1>1 DEF PipeInOrder, Sorted, Above, UpTo
<1> QED
  BY <1>1, <1>2, <1>3, <1>4 DEF IInv, Init

\* What an action needs of a batch taken from q while the old batch was empty.
LEMMA TakingQueue ==
  ASSUME IInv, ~flushing, NEW q \in Seq(Ids), Len(q) <= MaxQueue, TakeFrom(q)
  PROVE  /\ queue' \in Seq(Ids) /\ batch' \in Seq(Ids) /\ flushing' \in BOOLEAN
         /\ Bounded' /\ BatchOfFlush'
         /\ batch' \o queue' = q
         /\ Len(queue') + Len(batch') = Len(q)
         /\ batch \o queue = queue
         /\ Len(batch) = 0
<1>1. batch = <<>> /\ queue \in Seq(Ids)
  BY DEF IInv, BatchOfFlush, TypeOK
<1>2. batch \o queue = queue /\ Len(batch) = 0
  BY <1>1, ConcatEmptySeq
<1>3. /\ flushing' = TRUE
      /\ batch' \in Seq(Ids)
      /\ queue' \in Seq(Ids)
      /\ batch' \o queue' = q
      /\ Len(batch') <= BatchSize
      /\ Len(queue') <= MaxQueue
      /\ Len(batch') + Len(queue') = Len(q)
  BY Taking
<1>4. Len(batch') \in Nat /\ Len(queue') \in Nat
  BY <1>3, LenProperties
<1> QED
  BY <1>2, <1>3, <1>4 DEF Bounded, BatchOfFlush

\* A message pushed becomes the end of the pipe.
LEMMA PushKeeps ==
  ASSUME IInv, received < MaxMessages, Push(received + 1), received' = received + 1
  PROVE  /\ queue' \in Seq(Ids) /\ batch' \in Seq(Ids) /\ flushing' \in BOOLEAN
         /\ Bounded' /\ BatchOfFlush'
         /\ Len(queue') + Len(batch') = Len(queue) + Len(batch) + 1
         /\ PipeInOrder(batch' \o queue', written, received')
<1> DEFINE m == received + 1
           q == Append(queue, m)
<1>1. /\ queue \in Seq(Ids) /\ batch \in Seq(Ids) /\ flushing \in BOOLEAN
      /\ received \in Nat /\ written \in SUBSET Ids /\ m \in Ids
      /\ Len(queue) \in Nat /\ Len(batch) \in Nat
      /\ MaxQueue \in Nat
  BY LenProperties, ReceiverAssumption DEF IInv, TypeOK, Ids
<1>2. q \in Seq(Ids) /\ Len(q) = Len(queue) + 1
  BY <1>1, AppendProperties
<1>3. batch \o queue \in Seq(Ids) /\ batch \o q = Append(batch \o queue, m)
  BY <1>1, Concat, AppendBehind
<1>4. PipeInOrder(batch \o queue, written, received)
  BY DEF IInv
<1>5. PipeInOrder(Append(batch \o queue, m), written, m)
  BY <1>1, <1>3, <1>4, NewestLast
<1>6. PipeInOrder(batch \o q, written, m)
  BY <1>3, <1>5
<1>7. Len(q) <= MaxQueue
  BY <1>1, <1>2 DEF Push
<1>8. CASE ~flushing /\ TakeFrom(q)
  <2>1. /\ queue' \in Seq(Ids) /\ batch' \in Seq(Ids) /\ flushing' \in BOOLEAN
        /\ Bounded' /\ BatchOfFlush'
        /\ batch' \o queue' = q
        /\ Len(queue') + Len(batch') = Len(q)
        /\ Len(batch) = 0
    BY <1>2, <1>7, <1>8, TakingQueue
  <2>2. batch = <<>>
    BY <1>8 DEF IInv, BatchOfFlush
  <2>3. batch \o q = q
    BY <1>2, <2>2, ConcatEmptySeq
  <2>4. PipeInOrder(batch' \o queue', written, received')
    BY <1>6, <2>1, <2>3
  <2> HIDE DEF q
  <2>5. Len(queue') + Len(batch') = Len(queue) + Len(batch) + 1
    BY <1>1, <1>2, <2>1
  <2> QED
    BY <2>1, <2>4, <2>5
<1>9. CASE queue' = q /\ UNCHANGED <<flushing, batch>>
  <2>1. Bounded' /\ BatchOfFlush'
    BY <1>7, <1>9 DEF Bounded, BatchOfFlush, IInv
  <2>2. Len(queue') + Len(batch') = Len(queue) + Len(batch) + 1
    BY <1>1, <1>2, <1>9
  <2> QED
    BY <1>1, <1>2, <1>6, <1>9, <2>1, <2>2
<1> QED
  BY <1>8, <1>9 DEF Push

\* Receiving nothing new keeps the pipe in order.
LEMMA OlderPipe ==
  ASSUME IInv
  PROVE  PipeInOrder(batch \o queue, written, received + 1)
<1> DEFINE p == batch \o queue
<1>1. /\ \A i \in 1 .. Len(p) : p[i] \in Nat
      /\ written \subseteq Nat
      /\ received \in Nat
  <2>1. queue \in Seq(Ids) /\ batch \in Seq(Ids) /\ written \subseteq Ids /\ received \in Nat
    BY ReceiverAssumption DEF IInv, TypeOK
  <2>2. Ids \subseteq Nat
    BY ReceiverAssumption DEF Ids
  <2>3. Len(p) = Len(batch) + Len(queue) /\ \A i \in 1 .. Len(batch) + Len(queue) : p[i] \in Ids
    BY <2>1, Concat
  <2> QED
    BY <2>1, <2>2, <2>3
<1> HIDE DEF p
<1>2. PipeInOrder(p, written, received)
  BY DEF IInv, p
<1>3. UpTo(p, written, received + 1)
  BY <1>1, <1>2 DEF PipeInOrder, UpTo
<1>4. PipeInOrder(p, written, received + 1)
  BY <1>2, <1>3 DEF PipeInOrder
<1> QED
  BY <1>4 DEF p

LEMMA ReceiveKeeps == IInv /\ Receive => IInv'
<1> SUFFICES ASSUME IInv, Receive PROVE IInv'
  OBVIOUS
<1>1. /\ queue \in Seq(Ids) /\ batch \in Seq(Ids) /\ flushing \in BOOLEAN
      /\ received \in 0 .. MaxMessages /\ written \in SUBSET Ids
      /\ rejected \in Nat
      /\ stored \in Nat /\ dropped \in Nat /\ parseErrors \in Nat /\ unmatched \in Nat
      /\ Len(queue) \in Nat /\ Len(batch) \in Nat /\ MaxMessages \in Nat
  BY LenProperties, ReceiverAssumption DEF IInv, TypeOK
<1>2. received' = received + 1 /\ received < MaxMessages
  BY DEF Receive
<1>3. /\ queue' \in Seq(Ids) /\ batch' \in Seq(Ids) /\ flushing' \in BOOLEAN
      /\ Bounded' /\ BatchOfFlush'
      /\ PipeInOrder(batch' \o queue', written, received')
      /\ dropped' \in Nat /\ parseErrors' \in Nat
      /\ dropped' + parseErrors' + (Len(queue') + Len(batch')) =
           dropped + parseErrors + (Len(queue) + Len(batch)) + 1
  <2>1. ASSUME UNCHANGED flushVars
        PROVE  /\ queue' \in Seq(Ids) /\ batch' \in Seq(Ids) /\ flushing' \in BOOLEAN
               /\ Bounded' /\ BatchOfFlush'
               /\ PipeInOrder(batch' \o queue', written, received')
    <3>1. PipeInOrder(batch \o queue, written, received + 1)
      BY OlderPipe
    <3> QED
      BY <1>1, <1>2, <2>1, <3>1 DEF IInv, Bounded, BatchOfFlush
  <2>2. CASE dropped' = dropped + 1 /\ UNCHANGED <<flushVars, parseErrors>>
    BY <1>1, <2>1, <2>2
  <2>3. CASE parseErrors' = parseErrors + 1 /\ UNCHANGED <<flushVars, dropped>>
    BY <1>1, <2>1, <2>3
  <2>4. CASE Push(received + 1) /\ UNCHANGED <<dropped, parseErrors>>
    <3>1. /\ queue' \in Seq(Ids) /\ batch' \in Seq(Ids) /\ flushing' \in BOOLEAN
          /\ Bounded' /\ BatchOfFlush'
          /\ Len(queue') + Len(batch') = Len(queue) + Len(batch) + 1
          /\ PipeInOrder(batch' \o queue', written, received')
      BY <1>2, <2>4, PushKeeps
    <3>2. Len(queue') \in Nat /\ Len(batch') \in Nat
      BY <3>1, LenProperties
    <3> QED
      BY <1>1, <2>4, <3>1, <3>2
  <2> QED
    BY <2>2, <2>3, <2>4 DEF Receive
<1>4. UNCHANGED <<stored, timer, listening, op, restart, written, unmatched, rejected>>
  BY DEF Receive
<1>5. Len(queue') \in Nat /\ Len(batch') \in Nat
  BY <1>3, LenProperties
<1>6. TypeOK'
  BY <1>1, <1>2, <1>3, <1>4 DEF IInv, TypeOK
<1>7. Counted'
  <2>1. Counted /\ received \in Nat
    BY <1>1 DEF IInv
  <2>2. /\ stored' = stored /\ unmatched' = unmatched /\ rejected' = rejected
        /\ received' = received + 1
    BY <1>2, <1>4
  <2>3. /\ dropped' \in Nat /\ parseErrors' \in Nat
        /\ dropped' + parseErrors' + (Len(queue') + Len(batch')) =
             dropped + parseErrors + (Len(queue) + Len(batch)) + 1
    BY <1>3
  <2>4. /\ received \in Nat /\ rejected \in Nat /\ stored \in Nat /\ dropped \in Nat
        /\ parseErrors \in Nat /\ unmatched \in Nat
        /\ Len(queue) \in Nat /\ Len(batch) \in Nat
    BY <1>1, <2>1
  <2> QED
    BY <1>5, <2>1, <2>2, <2>3, <2>4, SMTT(120) DEF Counted
<1> QED
  BY <1>3, <1>4, <1>6, <1>7 DEF IInv

\* A step that takes the whole queue as the new pipe.
LEMMA FlushKeeps ==
  ASSUME IInv, ~flushing, TakeFrom(queue),
         UNCHANGED <<counters, histVars, restart>>,
         timer' \in BOOLEAN, listening' \in BOOLEAN,
         op' \in {"none", "close", "flush", "bind"}
  PROVE  IInv'
<1>1. /\ queue \in Seq(Ids) /\ Len(queue) <= MaxQueue
      /\ Len(queue) \in Nat /\ Len(batch) \in Nat
  BY LenProperties DEF IInv, TypeOK, Bounded
<1>2. /\ queue' \in Seq(Ids) /\ batch' \in Seq(Ids) /\ flushing' \in BOOLEAN
      /\ Bounded' /\ BatchOfFlush'
      /\ batch' \o queue' = queue
      /\ Len(queue') + Len(batch') = Len(queue)
      /\ batch \o queue = queue
      /\ Len(batch) = 0
  BY <1>1, TakingQueue
<1>3. Len(queue') \in Nat /\ Len(batch') \in Nat
  BY <1>2, LenProperties
<1>4. TypeOK'
  BY <1>2 DEF IInv, TypeOK
<1>5. Counted'
  <2>1. /\ received \in Nat /\ rejected \in Nat /\ stored \in Nat /\ dropped \in Nat
        /\ parseErrors \in Nat /\ unmatched \in Nat
    BY ReceiverAssumption DEF IInv, TypeOK
  <2>2. Counted
    BY DEF IInv
  <2>3. /\ received' = received /\ rejected' = rejected /\ stored' = stored
        /\ dropped' = dropped /\ parseErrors' = parseErrors /\ unmatched' = unmatched
    OBVIOUS
  <2>4. Len(queue') + Len(batch') = Len(queue) + Len(batch)
    BY <1>1, <1>2
  <2> QED
    BY <1>1, <1>3, <2>1, <2>2, <2>3, <2>4 DEF Counted
<1>6. PipeInOrder(batch' \o queue', written', received')
  BY <1>2 DEF IInv
<1> QED
  BY <1>2, <1>4, <1>5, <1>6 DEF IInv

LEMMA WriteOkKeeps ==
  ASSUME IInv, NEW S \in SUBSET Range(batch), WriteOk(S)
  PROVE  IInv'
<1>1. /\ queue \in Seq(Ids) /\ batch \in Seq(Ids) /\ written \in SUBSET Ids
      /\ received \in Nat /\ rejected \in Nat /\ stored \in Nat /\ dropped \in Nat
      /\ parseErrors \in Nat /\ unmatched \in Nat
      /\ Len(queue) \in Nat /\ Len(batch) \in Nat
  BY LenProperties, ReceiverAssumption DEF IInv, TypeOK
<1>2. Cardinality(S) \in Nat /\ Cardinality(S) <= Len(batch)
  BY <1>1, RangeIsSmall
<1>3. S \subseteq Ids
  BY <1>1, LenProperties, ElementOfSeq DEF Range
<1>4. /\ batch' = <<>> /\ queue' = queue /\ flushing' = FALSE
      /\ stored' = stored + Cardinality(S) /\ written' = written \cup S
      /\ unmatched' = unmatched + (Len(batch) - Cardinality(S))
      /\ UNCHANGED <<received, dropped, parseErrors, opVars, rejected>>
  BY DEF WriteOk
<1>5. batch' \in Seq(Ids) /\ Len(batch') = 0
  BY <1>4, EmptySeq
<1> DEFINE c == Cardinality(S)
           l == Len(batch)
<1>6. /\ received' = received /\ dropped' = dropped /\ parseErrors' = parseErrors
      /\ rejected' = rejected /\ timer' = timer /\ listening' = listening
      /\ op' = op /\ restart' = restart
  BY <1>4
<1>7. stored' \in Nat /\ unmatched' \in Nat /\ stored' + unmatched' = stored + unmatched + l
  <2>1. stored' = stored + c /\ unmatched' = unmatched + (l - c)
    BY <1>4
  <2>2. stored \in Nat /\ unmatched \in Nat /\ c \in Nat /\ l \in Nat /\ c <= l
    BY <1>1, <1>2
  <2> HIDE DEF c, l
  <2> QED
    BY <2>1, <2>2
<1>10. TypeOK'
  <2>1. written' \subseteq Ids
    BY <1>1, <1>3, <1>4
  <2> QED
    BY <1>1, <1>4, <1>5, <1>6, <1>7, <2>1 DEF IInv, TypeOK
<1>11. Counted'
  <2>1. Counted
    BY DEF IInv
  <2>2. Len(queue') = Len(queue)
    BY <1>4
  <2>3. /\ received \in Nat /\ rejected \in Nat /\ stored \in Nat /\ dropped \in Nat
        /\ parseErrors \in Nat /\ unmatched \in Nat
        /\ Len(queue) \in Nat /\ Len(batch) \in Nat
    BY <1>1
  <2> QED
    BY <1>5, <1>6, <1>7, <2>1, <2>2, <2>3, SMTT(120) DEF Counted
<1>8. Bounded' /\ BatchOfFlush'
  BY <1>4, <1>5, ReceiverAssumption DEF IInv, Bounded, BatchOfFlush
<1>9. PipeInOrder(batch' \o queue', written', received')
  <2>1. PipeInOrder(<<>> \o queue, written \cup S, received)
    BY <1>1, BatchWritten DEF IInv
  <2> QED
    BY <1>4, <2>1
<1> QED
  BY <1>10, <1>11, <1>8, <1>9 DEF IInv

LEMMA WriteFailsKeeps ==
  ASSUME IInv, WriteFails
  PROVE  IInv'
<1> DEFINE n == Lesser(MaxQueue - Len(queue), Len(batch))
           b == SubSeq(batch, 1, n)
<1>1. /\ queue \in Seq(Ids) /\ batch \in Seq(Ids) /\ written \in SUBSET Ids
      /\ received \in Nat /\ rejected \in Nat /\ stored \in Nat /\ dropped \in Nat
      /\ parseErrors \in Nat /\ unmatched \in Nat
      /\ Len(queue) \in Nat /\ Len(batch) \in Nat
      /\ MaxQueue \in Nat /\ BatchSize \in Nat /\ Len(queue) <= MaxQueue
  BY LenProperties, ReceiverAssumption DEF IInv, TypeOK, Bounded
<1>2. n \in 0 .. Len(batch) /\ n <= MaxQueue - Len(queue)
  BY <1>1 DEF Lesser
<1>3. /\ batch' = <<>> /\ queue' = b \o queue /\ flushing' = FALSE
      /\ dropped' = dropped + (Len(batch) - n)
      /\ UNCHANGED <<received, stored, parseErrors, opVars, histVars>>
  BY DEF WriteFails, Requeued
<1> HIDE DEF n
<1>4. b \in Seq(Ids) /\ Len(b) = n
  BY <1>1, <1>2, Split
<1>5. queue' \in Seq(Ids) /\ Len(queue') = n + Len(queue)
  BY <1>1, <1>3, <1>4, Concat
<1>6. batch' \in Seq(Ids) /\ Len(batch') = 0 /\ batch' \o queue' = b \o queue
  BY <1>3, <1>5, EmptySeq, ConcatEmptySeq
<1> HIDE DEF b
<1>11. /\ received' = received /\ stored' = stored /\ parseErrors' = parseErrors
       /\ rejected' = rejected /\ unmatched' = unmatched /\ written' = written
       /\ timer' = timer /\ listening' = listening /\ op' = op /\ restart' = restart
  BY <1>3
<1>12. dropped' \in Nat /\ dropped' + n = dropped + Len(batch)
  BY <1>1, <1>2, <1>3
<1>7. TypeOK'
  BY <1>1, <1>3, <1>5, <1>6, <1>11, <1>12 DEF IInv, TypeOK
<1>8. Counted'
  <2>1. received + rejected = stored + dropped + parseErrors + unmatched + Len(queue) + Len(batch)
    BY DEF IInv, Counted
  <2>2. received + rejected \in Nat
    BY <1>1
  <2>3. received + rejected =
          stored + (dropped + (Len(batch) - n)) + parseErrors + unmatched + (n + Len(queue)) + 0
    BY <1>1, <1>2, <2>1, <2>2, Returned
  <2>4. dropped' = dropped + (Len(batch) - n) /\ Len(queue') = n + Len(queue) /\ Len(batch') = 0
    BY <1>3, <1>5, <1>6
  <2> QED
    BY <1>11, <2>3, <2>4 DEF Counted
<1>9. Bounded' /\ BatchOfFlush'
  BY <1>1, <1>2, <1>3, <1>5, <1>6 DEF Bounded, BatchOfFlush
<1>10. PipeInOrder(b \o queue, written, received)
  BY <1>1, <1>2, ShorterBatch DEF IInv, b
<1> QED
  BY <1>3, <1>6, <1>7, <1>8, <1>9, <1>10 DEF IInv

\* A step that leaves the pipe alone and counts at most a refusal.
LEMMA OthersKeep ==
  ASSUME IInv,
         \/ Reject
         \/ \E r \in BOOLEAN : Stop(r)
         \/ Closed /\ UNCHANGED flushVars
         \/ Flushed
         \/ Listen
         \/ Bound
         \/ UNCHANGED vars
  PROVE  IInv'
<1>1. UNCHANGED <<flushVars, received, stored, parseErrors, written, unmatched>>
  BY DEF Reject, Stop, Closed, Flushed, Listen, Bound
<1>2. /\ timer' \in BOOLEAN /\ listening' \in BOOLEAN /\ restart' \in BOOLEAN
      /\ op' \in {"none", "close", "flush", "bind"}
  BY DEF Reject, Stop, Closed, Flushed, Listen, Bound, IInv, TypeOK
<1>3. /\ rejected' - rejected = dropped' - dropped
      /\ rejected' \in 0 .. MaxRejected /\ dropped' \in Nat
  BY ReceiverAssumption DEF Reject, Stop, Closed, Flushed, Listen, Bound, IInv, TypeOK
<1>4. TypeOK'
  BY <1>1, <1>2, <1>3 DEF IInv, TypeOK
<1>5. Counted'
  <2>1. /\ received \in Nat /\ rejected \in Nat /\ stored \in Nat /\ dropped \in Nat
        /\ parseErrors \in Nat /\ unmatched \in Nat
        /\ Len(queue) \in Nat /\ Len(batch) \in Nat
    BY ReceiverAssumption, LenProperties DEF IInv, TypeOK
  <2>2. rejected' \in Nat /\ Counted
    BY <1>3, ReceiverAssumption DEF IInv
  <2>3. /\ received' = received /\ stored' = stored /\ parseErrors' = parseErrors
        /\ unmatched' = unmatched /\ queue' = queue /\ batch' = batch
    BY <1>1
  <2>4. rejected' - rejected = dropped' - dropped /\ dropped' \in Nat
    BY <1>3
  <2> QED
    BY <2>1, <2>2, <2>3, <2>4, SMTT(120) DEF Counted
<1>6. Bounded' /\ BatchOfFlush' /\ PipeInOrder(batch' \o queue', written', received')
  BY <1>1 DEF IInv, Bounded, BatchOfFlush
<1> QED
  BY <1>4, <1>5, <1>6 DEF IInv

LEMMA NextIInv == IInv /\ [Next]_vars => IInv'
<1> SUFFICES ASSUME IInv, [Next]_vars PROVE IInv'
  OBVIOUS
<1>1. CASE Receive
  BY <1>1, ReceiveKeeps
<1>2. CASE Flush
  <2>1. /\ ~flushing /\ TakeFrom(queue) /\ UNCHANGED <<counters, histVars, restart>>
        /\ timer' \in BOOLEAN /\ listening' \in BOOLEAN
        /\ op' \in {"none", "close", "flush", "bind"}
    BY <1>2 DEF Flush, IInv, TypeOK
  <2> QED
    BY <2>1, FlushKeeps
<1>3. CASE \E S \in SUBSET Range(batch) : WriteOk(S)
  BY <1>3, WriteOkKeeps
<1>4. CASE WriteFails
  BY <1>4, WriteFailsKeeps
<1>5. CASE Closed
  <2>1. CASE UNCHANGED flushVars
    BY <1>5, <2>1, OthersKeep
  <2>2. CASE ~flushing /\ op' = "flush" /\ TakeFrom(queue)
    <3>1. /\ UNCHANGED <<counters, histVars, restart>>
          /\ timer' \in BOOLEAN /\ listening' \in BOOLEAN
      BY <1>5 DEF Closed, IInv, TypeOK
    <3> QED
      BY <2>2, <3>1, FlushKeeps
  <2> QED
    BY <1>5, <2>1, <2>2 DEF Closed
<1>6. CASE \/ Reject
           \/ \E r \in BOOLEAN : Stop(r)
           \/ Flushed
           \/ Listen
           \/ Bound
           \/ UNCHANGED vars
  BY <1>6, OthersKeep
<1> QED
  BY <1>1, <1>2, <1>3, <1>4, <1>5, <1>6 DEF Next

-----------------------------------------------------------------------------
(* The theorems.                                                           *)

\* The invariant holds of every state the receiver reaches.
THEOREM Invariance == Spec => []IInv
<1>1. Init => IInv
  BY InitIInv
<1>2. IInv /\ [Next]_vars => IInv'
  BY NextIInv
<1> QED
  BY <1>1, <1>2, PTL DEF Spec

\* The variables keep their types; in particular no counter goes below zero.
THEOREM TypeCorrect == Spec => []TypeOK
<1>1. IInv => TypeOK
  BY DEF IInv
<1> QED
  BY <1>1, Invariance, PTL

\* The queue never outgrows its limit, for every limit and batch size, and every
\* message received is accounted for by the counters, the queue and the batch
\* under way.
THEOREM MessagesConserved == Spec => []Conservation
<1>1. IInv => Conservation
  BY DEF IInv, Conservation
<1> QED
  BY <1>1, Invariance, PTL

\* Messages are written in the order they came.
THEOREM WrittenInOrder == Spec => []InOrder
<1>1. IInv => InOrder
  <2> SUFFICES ASSUME IInv PROVE InOrder
    OBVIOUS
  <2> DEFINE p == batch \o queue
  <2>1. PipeInOrder(p, written, received)
    BY DEF IInv
  <2>2. p \in Seq(Ids)
    BY Concat DEF IInv, TypeOK
  <2>3. DOMAIN p = 1 .. Len(p)
    BY <2>2, LenProperties
  <2>4. \A m \in written : m \in Nat
    BY ReceiverAssumption DEF IInv, TypeOK, Ids
  <2> HIDE DEF p
  <2>5. \A m \in written, i \in DOMAIN p : m < p[i]
    BY <2>1, <2>3 DEF PipeInOrder, Above
  <2>6. \A i, j \in DOMAIN p : i < j => p[i] < p[j]
    BY <2>1, <2>3 DEF PipeInOrder, Sorted
  <2>7. \A m \in written : m \notin Range(p)
    BY <2>4, <2>5 DEF Range
  <2> QED
    BY <2>5, <2>6, <2>7 DEF InOrder, p
<1> QED
  BY <1>1, Invariance, PTL
=============================================================================
