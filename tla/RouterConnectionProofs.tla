----------------------- MODULE RouterConnectionProofs -----------------------
(***************************************************************************)
(* Proofs about one client's connection to a router, for every number of   *)
(* commands and of rows, and every way the network may cut the stream.     *)
(***************************************************************************)
EXTENDS RouterConnection, FiniteSetTheorems, SequenceTheorems, TLAPS

-----------------------------------------------------------------------------
(* The inductive invariant                                                 *)

\* Where the caller and the router stand: one command is pending exactly while
\* its caller is in command() or login(), what was not asked for has not begun,
\* and the router has not begun what it does not answer yet.
Order ==
  /\ outcome[cmd] = "pending" <=> pc \in {"write", "read", "wait"}
  /\ pc = "connect" => outcome[cmd] = "none"
  /\ state = "idle" => pc = "idle" /\ outcome[cmd] = "none"
  /\ outcome[cmd] = "none" => cmd = 0
  /\ \A n \in Exchanges : n > cmd => outcome[n] = "none" /\ got[n] = <<>>
  /\ \A n \in Exchanges : n > cmd \/ n > turn => said[n] = "nothing" /\ rows[n] = 0
  /\ turn <= cmd + 1
  /\ said[turn] = "done" => turn = MaxCommands

\* The p-th sentence of the answer to n, and whether the router may have said it.
Sentence(n, p) ==
  [for |-> n,
   type |-> IF p <= rows[n] THEN "re" ELSE IF p = rows[n] + 1 THEN said[n] ELSE "done",
   no |-> IF p <= rows[n] THEN p ELSE rows[n] + 1]

Uttered(n, p) ==
  \/ p <= rows[n]
  \/ p = rows[n] + 1 /\ said[n] # "nothing"
  \/ p = rows[n] + 2 /\ said[n] = "trap" /\ turn > n

\* s is a stretch of the answer to n that begins after its q-th sentence.
Stretch(n, s, q) ==
  \A i \in 1 .. Len(s) : Uttered(n, q + i) /\ s[i] = Sentence(n, q + i)

\* Every chunk, and then what is under way, takes up the answer to n where the
\* part before it ends; the first where the rows read so far end.  The sentences
\* under way are the last the router said, as long as the socket is open.
Stream(n, start) ==
  /\ start[1] = Len(got[n])
  /\ \A j \in 1 .. Len(chunks) :
       start[j + 1] = start[j] + Len(chunks[j]) /\ Stretch(n, chunks[j], start[j])
  /\ Stretch(n, wire, start[Len(chunks) + 1])
  /\ up /\ turn = n =>
       start[Len(chunks) + 1] + Len(wire) = rows[n] + (IF said[n] = "nothing" THEN 0 ELSE 1)

Starts == [1 .. Len(chunks) + 1 -> Nat]

\* Every command before n succeeded.
Clean(n) == \A m \in 0 .. n - 1 : outcome[m] = "ok"

\* What is on its way, as long as no command has failed: nothing before the login
\* and after an answer, and the answer to the command while one is pending.
OnItsWay ==
  Clean(cmd) =>
    /\ outcome[cmd] = "none" =>
         chunks = <<>> /\ wire = <<>> /\ got[cmd] = <<>> /\ said[cmd] = "nothing" /\ rows[cmd] = 0 /\ turn = cmd
    /\ outcome[cmd] = "ok" => chunks = <<>> /\ wire = <<>> /\ said[cmd] = "done"
    /\ outcome[cmd] = "pending" => turn >= cmd /\ \E start \in Starts : Stream(cmd, start)

\* What a command has read after others that succeeded.
HasRead(n) ==
  /\ got[n] = Answer(n, Len(got[n]))
  /\ Len(got[n]) <= rows[n]
  /\ outcome[n] = "ok" => said[n] = "done" /\ Len(got[n]) = rows[n]

RInv ==
  /\ TypeOK
  /\ Order
  /\ OnItsWay
  /\ \A n \in Exchanges : n <= cmd /\ Clean(n) => HasRead(n)

-----------------------------------------------------------------------------
(* The constants, and sequences                                            *)

LEMMA Sizes ==
  /\ MaxCommands \in Nat /\ MaxRows \in Nat
  /\ Exchanges = 0 .. MaxCommands /\ Commands = 1 .. MaxCommands
  /\ \A n \in Exchanges : n \in Nat
BY ConnectionAssumption DEF Exchanges, Commands

\* The places of a finite set of numbers: every one up to its size is taken.
LEMMA PlacesTaken ==
  ASSUME NEW R \in SUBSET Nat, IsFiniteSet(R)
  PROVE  /\ Cardinality(R) \in Nat
         /\ \A k \in 1 .. Cardinality(R) : \E i \in R : Cardinality({j \in R : j <= i}) = k
<1> DEFINE n == Cardinality(R)
           T == 1 .. n
           P(i) == {j \in R : j <= i}
           f == [i \in R |-> Cardinality(P(i))]
<1>1. n \in Nat
  BY FS_CardinalityType
<1>2. ASSUME NEW i \in R
      PROVE  IsFiniteSet(P(i)) /\ Cardinality(P(i)) \in T
  <2>1. IsFiniteSet(P(i)) /\ Cardinality(P(i)) <= n
    <3>1. P(i) \in SUBSET R
      OBVIOUS
    <3> QED
      BY <3>1, FS_Subset
  <2>2. Cardinality(P(i)) \in Nat /\ (Cardinality(P(i)) = 0 => P(i) = {})
    BY <2>1, FS_CardinalityType, FS_EmptySet
  <2>3. i \in P(i)
    OBVIOUS
  <2>4. Cardinality(P(i)) # 0
    BY <2>2, <2>3
  <2> QED
    BY <1>1, <2>1, <2>2, <2>4
<1>3. ASSUME NEW i \in R, NEW j \in R, i < j
      PROVE  Cardinality(P(i)) # Cardinality(P(j))
  <2>1. P(i) \in SUBSET P(j) /\ j \in P(j) /\ j \notin P(i)
    <3>1. i \in Nat /\ j \in Nat /\ i <= j /\ ~(j <= i)
      BY <1>3
    <3>2. ASSUME NEW a \in R, a <= i PROVE a <= j
      <4>1. a \in Nat
        OBVIOUS
      <4> QED
        BY <3>1, <3>2, <4>1
    <3>3. P(i) \subseteq P(j)
      BY <3>2
    <3>4. j \in P(j)
      BY <3>1
    <3>5. j \notin P(i)
      BY <3>1
    <3> HIDE DEF P
    <3> QED
      BY <3>3, <3>4, <3>5
  <2>2. Cardinality(P(j)) = Cardinality(P(i)) => P(j) = P(i)
    BY <1>2, <2>1, FS_Subset
  <2> QED
    BY <2>1, <2>2
<1>4. f \in Injection(R, T)
  <2>1. f \in [R -> T]
    BY <1>2
  <2>2. ASSUME NEW i \in R, NEW j \in R, f[i] = f[j] PROVE i = j
    <3>1. Cardinality(P(i)) = Cardinality(P(j))
      BY <2>2
    <3>2. i < j \/ i = j \/ j < i
      OBVIOUS
    <3> HIDE DEF P
    <3> QED
      BY <1>3, <3>1, <3>2
  <2> HIDE DEF f, T
  <2> QED
    BY <2>1, <2>2 DEF Injection, IsInjective
<1>5. IsFiniteSet(T) /\ Cardinality(T) = n
  BY <1>1, FS_Interval
<1>6. f \in Surjection(R, T)
  <2> HIDE DEF f, T
  <2> QED
    BY <1>4, <1>5, FS_Injection DEF n
<1>7. \A k \in T : \E i \in R : f[i] = k
  <2> HIDE DEF f, T
  <2> QED
    BY <1>6 DEF Surjection
<1> QED
  BY <1>1, <1>7

\* The rows heard are replies of the chunk.
LEMMA RowsOfType ==
  ASSUME NEW c \in Seq(Reply), NEW S \in SUBSET DOMAIN c
  PROVE  RowsOf(c, S) \in Seq(Reply)
<1> DEFINE R == {i \in S : c[i].type = "re"}
           nth(k) == CHOOSE i \in R : Cardinality({j \in R : j <= i}) = k
<1>1. Len(c) \in Nat /\ DOMAIN c = 1 .. Len(c) /\ \A i \in 1 .. Len(c) : c[i] \in Reply
  OBVIOUS
<1>2. IsFiniteSet(1 .. Len(c)) /\ R \in SUBSET (1 .. Len(c)) /\ R \in SUBSET Nat
  BY <1>1, FS_Interval
<1>3. IsFiniteSet(R)
  BY <1>2, FS_Subset
<1>4. /\ Cardinality(R) \in Nat
      /\ \A k \in 1 .. Cardinality(R) : \E i \in R : Cardinality({j \in R : j <= i}) = k
  BY <1>2, <1>3, PlacesTaken
<1>5. \A k \in 1 .. Cardinality(R) : nth(k) \in R
  BY <1>4
<1>6. \A k \in 1 .. Cardinality(R) : c[nth(k)] \in Reply
  BY <1>1, <1>2, <1>5
<1>7. RowsOf(c, S) = [k \in 1 .. Cardinality(R) |-> c[nth(k)]]
  BY DEF RowsOf
<1> HIDE DEF R, nth
<1> QED
  BY <1>4, <1>6, <1>7

\* When the rows heard are the first m replies of a chunk, they are read in order.
LEMMA RowsOfPrefix ==
  ASSUME NEW c \in Seq(Reply), NEW m \in Nat, m <= Len(c), NEW S \in SUBSET DOMAIN c,
         {i \in S : c[i].type = "re"} = 1 .. m
  PROVE  RowsOf(c, S) = [k \in 1 .. m |-> c[k]]
<1> DEFINE R == {i \in S : c[i].type = "re"}
           nth(k) == CHOOSE i \in R : Cardinality({j \in R : j <= i}) = k
<1>1. Cardinality(R) = m
  <2>1. Cardinality(1 .. m) = m
    BY FS_Interval
  <2> QED
    BY <2>1
<1>2. ASSUME NEW i \in 1 .. m PROVE Cardinality({j \in R : j <= i}) = i
  <2>1. {j \in R : j <= i} = 1 .. i
    OBVIOUS
  <2>2. Cardinality(1 .. i) = i
    BY FS_Interval
  <2> QED
    BY <2>1, <2>2
<1>3. ASSUME NEW k \in 1 .. m PROVE nth(k) = k
  <2>1. k \in R /\ \A i \in R : Cardinality({j \in R : j <= i}) = i
    BY <1>2
  <2> HIDE DEF R
  <2> QED
    BY <2>1
<1>4. RowsOf(c, S) = [k \in 1 .. Cardinality(R) |-> c[nth(k)]]
  BY DEF RowsOf
<1> HIDE DEF R, nth
<1> QED
  BY <1>1, <1>3, <1>4

\* The i-th row of an answer; rows in a row are the beginning of it.
RowNo(n, i) == [for |-> n, type |-> "re", no |-> i]

LEMMA IsAnswer ==
  ASSUME NEW n, NEW s \in Seq(Reply)
  PROVE  s = Answer(n, Len(s)) <=> \A i \in 1 .. Len(s) : s[i] = RowNo(n, i)
<1>1. Len(s) \in Nat /\ s = [i \in 1 .. Len(s) |-> s[i]]
  OBVIOUS
<1> QED
  BY <1>1 DEF Answer, RowNo

-----------------------------------------------------------------------------
(* What most steps leave alone                                             *)

\* What was read stays true when no command succeeds and the router only adds to
\* an answer it has not ended.
LEMMA ReadsKept ==
  ASSUME RInv, TypeOK', cmd' = cmd, got' = got,
         \A n \in Exchanges : outcome'[n] = outcome[n] \/ (n = cmd /\ outcome'[n] # "ok"),
         \A n \in Exchanges : said'[n] = said[n] \/ said[n] = "nothing",
         \A n \in Exchanges : rows'[n] = rows[n] \/ (said[n] = "nothing" /\ rows'[n] >= rows[n])
  PROVE  \A n \in Exchanges : n <= cmd' /\ Clean(n)' => HasRead(n)'
<1> SUFFICES ASSUME NEW n \in Exchanges, n <= cmd, Clean(n)'
             PROVE  HasRead(n)'
  OBVIOUS
<1>1. n \in Nat /\ cmd \in Exchanges /\ cmd \in Nat /\ \A m \in 0 .. n - 1 : m \in Exchanges /\ m # cmd
  BY Sizes DEF RInv, TypeOK
<1>2. Clean(n)
  BY <1>1 DEF Clean
<1>3. HasRead(n)
  BY <1>2 DEF RInv
<1>4. rows[n] \in Nat /\ rows'[n] \in Nat /\ Len(got[n]) \in Nat
  BY Sizes DEF RInv, TypeOK
<1>5. got'[n] = Answer(n, Len(got'[n])) /\ Len(got'[n]) <= rows'[n]
  BY <1>3, <1>4 DEF HasRead
<1>6. outcome'[n] = "ok" => said'[n] = "done" /\ Len(got'[n]) = rows'[n]
  <2> SUFFICES ASSUME outcome'[n] = "ok" PROVE said'[n] = "done" /\ Len(got'[n]) = rows'[n]
    OBVIOUS
  <2>1. outcome[n] = "ok"
    OBVIOUS
  <2>2. said[n] = "done" /\ Len(got[n]) = rows[n]
    BY <1>3, <2>1 DEF HasRead
  <2> QED
    BY <2>2
<1>7. Answer(n, Len(got'[n])) = Answer(n, Len(got[n])) /\ Answer(n, Len(got[n]))' = Answer(n, Len(got'[n]))
  BY DEF Answer
<1> QED
  BY <1>5, <1>6, <1>7 DEF HasRead

\* What is on its way stays so when only the caller moves on.
LEMMA WayKept ==
  ASSUME RInv, UNCHANGED <<chunks, wire, cmd, outcome, got, turn, said, rows, up>>
  PROVE  OnItsWay'
<1>1. \A n, p : Sentence(n, p)' = Sentence(n, p) /\ (Uttered(n, p)' <=> Uttered(n, p))
  BY DEF Sentence, Uttered
<1>2. \A n, s, q : Stretch(n, s, q) => Stretch(n, s, q)'
  BY <1>1 DEF Stretch
<1>3. \A n, start : Stream(n, start) => Stream(n, start)'
  BY <1>2 DEF Stream
<1>4. Starts' = Starts /\ (Clean(cmd)' <=> Clean(cmd))
  BY DEF Starts, Clean
<1> QED
  BY <1>3, <1>4 DEF RInv, OnItsWay

\* Nothing is promised any more once a command has failed.
LEMMA WayOfFailed ==
  ASSUME cmd' = cmd, outcome'[cmd] = "error"
  PROVE  OnItsWay'
BY DEF OnItsWay

LEMMA InitRInv == Init => RInv
<1> SUFFICES ASSUME Init PROVE RInv
  OBVIOUS
<1>1. 0 \in Exchanges /\ \A n \in Exchanges : n \in Nat /\ (n <= 0 <=> n = 0)
  BY Sizes
<1>2. TypeOK
  BY <1>1, Sizes DEF Init, TypeOK, States, Final
<1>3. Order
  BY <1>1, Sizes DEF Init, Order
<1>4. OnItsWay
  BY <1>1 DEF Init, OnItsWay
<1>5. HasRead(0)
  BY <1>1 DEF Init, HasRead, Answer
<1> QED
  BY <1>1, <1>2, <1>3, <1>4, <1>5 DEF RInv, Init

\* Steps of the caller that change neither an outcome nor the stream.
LEMMA QuietKeeps ==
  ASSUME RInv, Connect \/ Written \/ Block \/ Expire \/ Close \/ CloseEnds
  PROVE  RInv'
<1>1. UNCHANGED <<chunks, wire, cmd, outcome, got, turn, said, rows, up>>
  BY DEF Connect, Written, Block, Expire, Close, CloseEnds, routerVars
<1>2. TypeOK'
  <2>1. state' \in States /\ late' \in BOOLEAN /\ pc' \in {"idle", "connect", "write", "read", "wait"}
        /\ (pc' = "idle" => pc = "idle")
    BY DEF RInv, TypeOK, Connect, Written, Block, Expire, Close, CloseEnds, States
  <2> QED
    BY <1>1, <2>1 DEF RInv, TypeOK
<1>3. Order'
  <2>1. /\ pc' \in {"write", "read", "wait"} <=> pc \in {"write", "read", "wait"}
        /\ pc' = "connect" => outcome[cmd] = "none"
        /\ state' = "idle" => pc' = "idle" /\ outcome[cmd] = "none"
    BY DEF RInv, Order, Connect, Written, Block, Expire, Close, CloseEnds
  <2> QED
    BY <1>1, <2>1 DEF RInv, Order
<1>4. OnItsWay'
  BY <1>1, WayKept
<1>5. \A n \in Exchanges : n <= cmd' /\ Clean(n)' => HasRead(n)'
  BY <1>1, <1>2, ReadsKept
<1> QED
  BY <1>2, <1>3, <1>4, <1>5 DEF RInv

\* A connection that is not made, and a command that ends with an error.
LEMMA ErrorKeeps ==
  ASSUME RInv, ConnectFails \/ WriteFails \/ ReadEnds
  PROVE  RInv'
<1>1. /\ UNCHANGED <<chunks, wire, cmd, got, turn, said, rows, up>>
      /\ outcome' = [outcome EXCEPT ![cmd] = "error"] /\ pc' = "idle"
      /\ state' \in {state, "error"} /\ state # "idle"
  BY DEF RInv, Order, ConnectFails, WriteFails, ReadEnds, End, routerVars
<1>2. TypeOK'
  <2>1. late' \in BOOLEAN /\ state' \in States
    BY <1>1 DEF RInv, TypeOK, ConnectFails, WriteFails, ReadEnds, End, States
  <2> QED
    BY <1>1, <2>1 DEF RInv, TypeOK
<1>3. /\ outcome'[cmd] = "error" /\ cmd \in Exchanges /\ cmd \in Nat
      /\ \A n \in Exchanges : n # cmd => outcome'[n] = outcome[n]
  BY <1>1, Sizes DEF RInv, TypeOK
<1>4. Order'
  BY <1>1, <1>3 DEF RInv, Order
<1>5. OnItsWay'
  BY <1>1, <1>3, WayOfFailed
<1>6. \A n \in Exchanges : n <= cmd' /\ Clean(n)' => HasRead(n)'
  BY <1>1, <1>2, <1>3, ReadsKept
<1> QED
  BY <1>2, <1>4, <1>5, <1>6 DEF RInv

-----------------------------------------------------------------------------
(* The login and the commands begin                                        *)

\* With nothing on its way, the answer that is to come begins at once.
LEMMA NothingYet ==
  ASSUME NEW n, chunks' = <<>>, wire' = <<>>, got'[n] = <<>>, rows'[n] = 0, said'[n] = "nothing"
  PROVE  \E start \in Starts' : Stream(n, start)'
<1> DEFINE s == [i \in 1 .. 1 |-> 0]
<1>1. s \in [1 .. 1 -> Nat] /\ s[1] = 0
  OBVIOUS
<1> HIDE DEF s
<1>2. Len(chunks') = 0 /\ Len(wire') = 0 /\ Len(got'[n]) = 0
  OBVIOUS
<1>3. s \in Starts'
  BY <1>1, <1>2 DEF Starts
<1>4. Stream(n, s)'
  BY <1>1, <1>2 DEF Stream, Stretch
<1> QED
  BY <1>3, <1>4

LEMMA ConnectedKeeps ==
  ASSUME RInv, Connected PROVE RInv'
<1>1. /\ pc = "connect" /\ pc' = "read" /\ state' = "authenticating"
      /\ outcome' = [outcome EXCEPT ![0] = "pending"]
      /\ UNCHANGED <<chunks, cmd, late, got, turn, said, rows, wire>> /\ up' = TRUE
  BY DEF Connected, routerVars
<1>2. cmd = 0 /\ outcome[0] = "none" /\ 0 \in Exchanges
  BY <1>1, Sizes DEF RInv, Order
<1>3. TypeOK'
  BY <1>1, <1>2 DEF RInv, TypeOK, States
<1>4. outcome'[0] = "pending" /\ \A n \in Exchanges : n # 0 => outcome'[n] = outcome[n]
  BY <1>1, <1>2 DEF RInv, TypeOK
<1>5. Order'
  BY <1>1, <1>2, <1>4, Sizes DEF RInv, Order
<1>6. OnItsWay'
  <2>1. Clean(cmd)
    BY <1>2 DEF Clean
  <2>2. chunks = <<>> /\ wire = <<>> /\ got[0] = <<>> /\ said[0] = "nothing" /\ rows[0] = 0 /\ turn = 0
    BY <1>2, <2>1 DEF RInv, OnItsWay
  <2>3. \E start \in Starts' : Stream(0, start)'
    BY <1>1, <2>2, NothingYet
  <2>4. cmd' = 0 /\ turn' >= 0 /\ outcome'[cmd'] = "pending"
    BY <1>1, <1>2, <1>4, <2>2
  <2> QED
    BY <2>3, <2>4 DEF OnItsWay
<1>7. \A n \in Exchanges : n <= cmd' /\ Clean(n)' => HasRead(n)'
  BY <1>1, <1>2, <1>3, <1>4, ReadsKept
<1> QED
  BY <1>3, <1>5, <1>6, <1>7 DEF RInv

LEMMA CommandKeeps ==
  ASSUME RInv, Command PROVE RInv'
<1>1. /\ pc = "idle" /\ state = "authenticated" /\ cmd < MaxCommands /\ cmd' = cmd + 1 /\ pc' = "write"
      /\ outcome' = [outcome EXCEPT ![cmd + 1] = "pending"] /\ late' = FALSE
      /\ UNCHANGED <<state, up, chunks, got, turn, said, rows, wire>>
  BY DEF Command, routerVars
<1>2. /\ cmd \in Exchanges /\ cmd \in Nat /\ cmd' \in Exchanges /\ cmd' \in Nat /\ turn \in Nat
      /\ \A n \in Exchanges : n \in Nat
  BY <1>1, Sizes DEF RInv, TypeOK
<1>3. /\ outcome' \in [Exchanges -> {"none", "pending", "ok", "error"}] /\ outcome'[cmd'] = "pending"
      /\ \A n \in Exchanges : n # cmd' => outcome'[n] = outcome[n]
  BY <1>1, <1>2 DEF RInv, TypeOK
<1>4. TypeOK'
  <2>1. \A n \in Exchanges : outcome'[n] = "pending" => n = cmd' /\ pc' # "idle"
    BY <1>1, <1>3 DEF RInv, TypeOK
  <2> QED
    BY <1>1, <1>2, <1>3, <2>1 DEF RInv, TypeOK
<1>5. Order'
  <2>1. \A n \in Exchanges : n > cmd' => n > cmd
    BY <1>1, <1>2
  <2>2. \A n \in Exchanges : n > cmd' => outcome'[n] = "none" /\ got'[n] = <<>>
    <3>1. ASSUME NEW n \in Exchanges, n > cmd' PROVE n > cmd /\ n # cmd'
      BY <1>2, <2>1, <3>1
    <3>2. \A n \in Exchanges : n > cmd => outcome[n] = "none" /\ got[n] = <<>>
      BY DEF RInv, Order
    <3> QED
      BY <1>1, <1>3, <3>1, <3>2
  <2>3. \A n \in Exchanges : n > cmd' \/ n > turn' => said'[n] = "nothing" /\ rows'[n] = 0
    BY <1>1, <2>1 DEF RInv, Order
  <2>4. turn' <= cmd' + 1
    BY <1>1, <1>2 DEF RInv, Order
  <2> QED
    BY <1>1, <1>3, <2>2, <2>3, <2>4 DEF RInv, Order
<1>6. OnItsWay'
  <2> SUFFICES ASSUME Clean(cmd)' PROVE turn' >= cmd' /\ \E start \in Starts' : Stream(cmd, start)'
    BY <1>3 DEF OnItsWay
  <2>1. \A m \in 0 .. cmd : m \in Exchanges /\ outcome[m] = "ok"
    <3>1. \A m \in 0 .. cmd : m \in 0 .. cmd' - 1 /\ m \in Exchanges /\ m # cmd'
      BY <1>1, <1>2, Sizes
    <3> QED
      BY <1>3, <3>1 DEF Clean
  <2>2. Clean(cmd) /\ outcome[cmd] = "ok"
    BY <1>2, <2>1 DEF Clean
  <2>3. chunks = <<>> /\ wire = <<>> /\ said[cmd] = "done"
    BY <2>2 DEF RInv, OnItsWay
  <2>4. got[cmd'] = <<>> /\ said[cmd'] = "nothing" /\ rows[cmd'] = 0
    BY <1>1, <1>2 DEF RInv, Order
  <2>5. turn >= cmd'
    <3>1. ~(cmd > turn)
      BY <1>2, <2>3 DEF RInv, Order
    <3>2. turn # cmd
      BY <1>1, <1>2, <2>3, Sizes DEF RInv, Order
    <3> QED
      BY <1>1, <1>2, <3>1, <3>2
  <2>6. PICK n : n = cmd'
    OBVIOUS
  <2>7. \E start \in Starts' : Stream(n, start)'
    BY <1>1, <2>3, <2>4, <2>6, NothingYet
  <2> QED
    BY <1>1, <2>5, <2>6, <2>7
<1>7. \A n \in Exchanges : n <= cmd' /\ Clean(n)' => HasRead(n)'
  <2> SUFFICES ASSUME NEW n \in Exchanges, n <= cmd', Clean(n)'
               PROVE  HasRead(n)'
    OBVIOUS
  <2>1. CASE n = cmd'
    <3>1. got'[n] = <<>> /\ rows'[n] = 0 /\ outcome'[n] # "ok"
      BY <1>1, <1>2, <1>3, <2>1 DEF RInv, Order
    <3> QED
      BY <3>1 DEF HasRead, Answer
  <2>2. CASE n # cmd'
    <3>1. n <= cmd /\ outcome'[n] = outcome[n]
      BY <1>1, <1>2, <1>3, <2>2
    <3>2. \A m \in 0 .. n - 1 : m \in Exchanges /\ m # cmd'
      BY <1>1, <1>2, <3>1, Sizes
    <3>3. Clean(n)
      BY <1>3, <3>2 DEF Clean
    <3>4. HasRead(n)
      BY <3>1, <3>3 DEF RInv
    <3> QED
      BY <1>1, <3>1, <3>4 DEF HasRead, Answer
  <2> QED
    BY <2>1, <2>2
<1> QED
  BY <1>4, <1>5, <1>6, <1>7 DEF RInv

-----------------------------------------------------------------------------
(* The socket                                                              *)

\* What is under way, and each chunk, is a sequence of replies; a chunk has one.
LEMMA Streams ==
  ASSUME TypeOK
  PROVE  /\ chunks \in Seq(Seq(Reply) \ {<<>>}) /\ Len(chunks) \in Nat
         /\ \A j \in 1 .. Len(chunks) : chunks[j] \in Seq(Reply) /\ Len(chunks[j]) \in Nat \ {0}
         /\ wire \in Seq(Reply) /\ Len(wire) \in Nat
<1>1. chunks \in Seq(Seq(Reply) \ {<<>>}) /\ wire \in Seq(Reply)
  BY DEF TypeOK
<1>2. Len(chunks) \in Nat /\ \A j \in 1 .. Len(chunks) : chunks[j] \in Seq(Reply) \ {<<>>}
  BY <1>1
<1>3. \A s \in Seq(Reply) : Len(s) \in Nat /\ (s # <<>> => Len(s) # 0)
  OBVIOUS
<1> QED
  BY <1>1, <1>2, <1>3

\* The first of what is under way becomes the last chunk.
LEMMA DeliverKeeps ==
  ASSUME RInv, NEW k \in DOMAIN wire, Deliver(k) PROVE RInv'
<1> DEFINE c == SubSeq(wire, 1, k)
<1>1. /\ up /\ chunks' = Append(chunks, c) /\ wire' = SubSeq(wire, k + 1, Len(wire))
      /\ pc' = (IF pc = "wait" THEN "read" ELSE pc)
      /\ UNCHANGED <<state, up, cmd, late, outcome, got, turn, said, rows>>
  BY DEF Deliver, Wake, routerVars
<1>2. /\ chunks \in Seq(Seq(Reply) \ {<<>>}) /\ Len(chunks) \in Nat
      /\ wire \in Seq(Reply) /\ Len(wire) \in Nat /\ k \in 1 .. Len(wire)
  BY Streams DEF RInv
<1>3. /\ c \in Seq(Reply) \ {<<>>} /\ Len(c) = k /\ \A i \in 1 .. k : c[i] = wire[i]
  <2>1. \A i \in 1 .. k : wire[i] \in Reply
    BY <1>2
  <2>2. /\ c \in Seq(Reply) /\ Len(c) = k /\ \A i \in 1 .. k : c[i] = wire[i]
    BY <1>2, <2>1, SubSeqProperties
  <2> HIDE DEF c
  <2> QED
    BY <1>2, <2>2
<1>4. /\ wire' \in Seq(Reply) /\ Len(wire') = Len(wire) - k
      /\ \A i \in 1 .. Len(wire') : wire'[i] = wire[k + i]
  <2>1. \A i \in k + 1 .. Len(wire) : wire[i] \in Reply
    BY <1>2
  <2>2. /\ SubSeq(wire, k + 1, Len(wire)) \in Seq(Reply)
        /\ Len(SubSeq(wire, k + 1, Len(wire))) = IF k + 1 <= Len(wire) THEN Len(wire) - (k + 1) + 1 ELSE 0
        /\ \A i \in 1 .. Len(wire) - (k + 1) + 1 :
             SubSeq(wire, k + 1, Len(wire))[i] = wire[k + 1 + i - 1]
    BY <1>2, <2>1, SubSeqProperties
  <2>3. Len(wire') = Len(wire) - k
    BY <1>1, <1>2, <2>2
  <2>4. ASSUME NEW i \in 1 .. Len(wire') PROVE wire'[i] = wire[k + i]
    <3>1. i \in 1 .. Len(wire) - (k + 1) + 1 /\ k + 1 + i - 1 = k + i
      BY <1>2, <2>3
    <3> QED
      BY <1>1, <2>2, <3>1
  <2> QED
    BY <1>1, <2>2, <2>3, <2>4
<1> HIDE DEF c
<1>5. /\ chunks' \in Seq(Seq(Reply) \ {<<>>}) /\ Len(chunks') = Len(chunks) + 1
      /\ \A j \in 1 .. Len(chunks) : chunks'[j] = chunks[j]
      /\ chunks'[Len(chunks) + 1] = c
  BY <1>1, <1>2, <1>3, AppendProperties
<1>6. TypeOK'
  <2>1. pc' \in {"idle", "connect", "write", "read", "wait"} /\ (pc' = "idle" => pc = "idle")
    BY <1>1 DEF RInv, TypeOK
  <2> QED
    BY <1>1, <1>4, <1>5, <2>1 DEF RInv, TypeOK
<1>7. Order'
  <2>1. /\ pc' \in {"write", "read", "wait"} <=> pc \in {"write", "read", "wait"}
        /\ (pc' = "connect" <=> pc = "connect") /\ (pc' = "idle" <=> pc = "idle")
    BY <1>1
  <2> QED
    BY <1>1, <2>1 DEF RInv, Order
<1>8. OnItsWay'
  <2> SUFFICES ASSUME Clean(cmd)
               PROVE  /\ outcome[cmd] \notin {"none", "ok"}
                      /\ outcome[cmd] = "pending" => turn >= cmd /\ \E start \in Starts' : Stream(cmd, start)'
    <3>1. Clean(cmd)' <=> Clean(cmd)
      BY <1>1 DEF Clean
    <3> QED
      BY <1>1, <3>1 DEF OnItsWay
  <2>1. outcome[cmd] \notin {"none", "ok"}
    <3>1. wire # <<>>
      BY <1>2
    <3> QED
      BY <3>1 DEF RInv, OnItsWay
  <2>2. ASSUME outcome[cmd] = "pending"
        PROVE  turn >= cmd /\ \E start \in Starts' : Stream(cmd, start)'
    <3>1. turn >= cmd /\ \E start \in Starts : Stream(cmd, start)
      BY <2>2 DEF RInv, OnItsWay
    <3>2. PICK start \in Starts : Stream(cmd, start)
      BY <3>1
    <3>3. PICK m : m = Len(chunks)
      OBVIOUS
    <3>12. PICK next : next = [j \in 1 .. m + 2 |-> IF j = m + 2 THEN start[m + 1] + k ELSE start[j]]
      OBVIOUS
    <3>4. /\ m \in Nat /\ start \in [1 .. m + 1 -> Nat] /\ start[m + 1] \in Nat
          /\ start[1] = Len(got[cmd])
      BY <1>2, <3>2, <3>3 DEF Starts, Stream
    <3>5. /\ next \in [1 .. m + 2 -> Nat]
          /\ \A j \in 1 .. m + 1 : next[j] = start[j]
          /\ next[m + 2] = start[m + 1] + k
      BY <1>2, <3>4, <3>12
    <3>6. Len(chunks') = m + 1 /\ next \in Starts'
      BY <1>5, <3>3, <3>4, <3>5 DEF Starts
    <3>7. \A n, s, q : Stretch(n, s, q)' <=> Stretch(n, s, q)
      <4>1. \A n, p : Sentence(n, p)' = Sentence(n, p) /\ (Uttered(n, p)' <=> Uttered(n, p))
        BY <1>1 DEF Sentence, Uttered
      <4> QED
        BY <4>1 DEF Stretch
    <3>8. \A j \in 1 .. m + 1 :
            next[j + 1] = next[j] + Len(chunks'[j]) /\ Stretch(cmd, chunks'[j], next[j])
      <4>1. ASSUME NEW j \in 1 .. m
            PROVE  next[j + 1] = next[j] + Len(chunks'[j]) /\ Stretch(cmd, chunks'[j], next[j])
        <5>1. chunks'[j] = chunks[j] /\ next[j] = start[j] /\ next[j + 1] = start[j + 1]
          BY <1>5, <3>3, <3>4, <3>5
        <5>2. start[j + 1] = start[j] + Len(chunks[j]) /\ Stretch(cmd, chunks[j], start[j])
          BY <3>2, <3>3 DEF Stream
        <5> QED
          BY <5>1, <5>2
      <4>2. next[m + 2] = next[m + 1] + Len(chunks'[m + 1]) /\ Stretch(cmd, chunks'[m + 1], next[m + 1])
        <5>1. chunks'[m + 1] = c /\ next[m + 1] = start[m + 1]
          BY <1>5, <3>3, <3>4, <3>5
        <5>2. Stretch(cmd, wire, start[m + 1])
          BY <3>2, <3>3 DEF Stream
        <5>3. Stretch(cmd, c, start[m + 1])
          BY <1>2, <1>3, <5>2 DEF Stretch
        <5> QED
          BY <1>3, <3>5, <5>1, <5>3
      <4>3. \A j \in 1 .. m + 1 : j \in 1 .. m \/ j = m + 1
        BY <3>4
      <4>4. (m + 1) + 1 = m + 2
        BY <3>4
      <4> QED
        BY <4>1, <4>2, <4>3, <4>4
    <3>9. Stretch(cmd, wire', next[m + 2])
      <4>1. Stretch(cmd, wire, start[m + 1])
        BY <3>2, <3>3 DEF Stream
      <4>2. \A i \in 1 .. Len(wire') : k + i \in 1 .. Len(wire) /\ start[m + 1] + (k + i) = next[m + 2] + i
        <5>1. PICK x, l : x = start[m + 1] /\ l = Len(wire)
          OBVIOUS
        <5>2. x \in Nat /\ l \in Nat /\ k \in 1 .. l /\ next[m + 2] = x + k /\ Len(wire') = l - k
          BY <1>2, <1>3, <1>4, <3>4, <3>5, <5>1
        <5>3. \A i \in 1 .. l - k : k + i \in 1 .. l /\ x + (k + i) = (x + k) + i
          BY <5>2
        <5> QED
          BY <5>1, <5>2, <5>3
      <4>3. Stretch(cmd, wire', next[m + 2])
        <5>1. ASSUME NEW i \in 1 .. Len(wire')
              PROVE  Uttered(cmd, next[m + 2] + i) /\ wire'[i] = Sentence(cmd, next[m + 2] + i)
          <6>1. Uttered(cmd, start[m + 1] + (k + i)) /\ wire[k + i] = Sentence(cmd, start[m + 1] + (k + i))
            BY <4>1, <4>2 DEF Stretch
          <6> QED
            BY <1>4, <4>2, <6>1
        <5> QED
          BY <5>1 DEF Stretch
      <4> QED
        BY <4>3
    <3>10. next[m + 2] + Len(wire') = start[m + 1] + Len(wire)
      BY <1>2, <1>4, <3>4, <3>5
    <3>11. Stream(cmd, next)'
      <4>1. up /\ turn = cmd => start[m + 1] + Len(wire) = rows[cmd] + (IF said[cmd] = "nothing" THEN 0 ELSE 1)
        BY <3>2, <3>3 DEF Stream
      <4>2. next[1] = start[1]
        BY <3>4, <3>5
      <4>3. Len(chunks') + 1 = m + 2
        BY <3>4, <3>6
      <4>4. next[1] = Len(got'[cmd])
        BY <1>1, <3>4, <4>2
      <4>5. \A j \in 1 .. Len(chunks') :
              next[j + 1] = next[j] + Len(chunks'[j]) /\ Stretch(cmd, chunks'[j], next[j])
        BY <3>6, <3>8
      <4>6. Stretch(cmd, wire', next[Len(chunks') + 1])
        BY <3>9, <4>3
      <4>7. up' /\ turn' = cmd => next[Len(chunks') + 1] + Len(wire') = rows'[cmd] + (IF said'[cmd] = "nothing" THEN 0 ELSE 1)
        BY <1>1, <3>10, <4>1, <4>3
      <4> QED
        BY <1>1, <3>7, <4>4, <4>5, <4>6, <4>7 DEF Stream
    <3> QED
      BY <3>1, <3>6, <3>11
  <2> QED
    BY <2>1, <2>2
<1>9. \A n \in Exchanges : n <= cmd' /\ Clean(n)' => HasRead(n)'
  BY <1>1, <1>6, ReadsKept
<1> QED
  BY <1>6, <1>7, <1>8, <1>9 DEF RInv

LEMMA SocketClosesKeeps ==
  ASSUME RInv, SocketCloses PROVE RInv'
<1>1. /\ up' = FALSE /\ wire' = <<>> /\ pc' = (IF pc = "wait" THEN "read" ELSE pc)
      /\ UNCHANGED <<state, chunks, cmd, late, outcome, got, turn, said, rows>>
  BY DEF SocketCloses, Wake, routerVars
<1>2. TypeOK'
  <2>1. pc' \in {"idle", "connect", "write", "read", "wait"} /\ (pc' = "idle" => pc = "idle")
    BY <1>1 DEF RInv, TypeOK
  <2>2. wire' \in Seq(Reply)
    BY <1>1
  <2> QED
    BY <1>1, <2>1, <2>2 DEF RInv, TypeOK
<1>3. Order'
  <2>1. /\ pc' \in {"write", "read", "wait"} <=> pc \in {"write", "read", "wait"}
        /\ (pc' = "connect" <=> pc = "connect") /\ (pc' = "idle" <=> pc = "idle")
    BY <1>1
  <2> QED
    BY <1>1, <2>1 DEF RInv, Order
<1>4. OnItsWay'
  <2>1. \A n, p : Sentence(n, p)' = Sentence(n, p) /\ (Uttered(n, p)' <=> Uttered(n, p))
    BY <1>1 DEF Sentence, Uttered
  <2>2. \A n, s, q : Stretch(n, s, q) => Stretch(n, s, q)'
    BY <2>1 DEF Stretch
  <2>3. \A n, q : Stretch(n, wire, q)'
    BY <1>1 DEF Stretch
  <2>4. \A n, start : Stream(n, start) => Stream(n, start)'
    BY <1>1, <2>2, <2>3 DEF Stream
  <2>5. Starts' = Starts /\ (Clean(cmd)' <=> Clean(cmd))
    BY <1>1 DEF Starts, Clean
  <2> QED
    BY <1>1, <2>4, <2>5 DEF RInv, OnItsWay
<1>5. \A n \in Exchanges : n <= cmd' /\ Clean(n)' => HasRead(n)'
  BY <1>1, <1>2, ReadsKept
<1> QED
  BY <1>2, <1>3, <1>4, <1>5 DEF RInv

-----------------------------------------------------------------------------
(* The router                                                              *)

\* What the router says is the next sentence of the answer to the command under
\* way: a row, the sentence that ends the answer, or the one after a trap.
LEMMA SaidKeeps ==
  ASSUME RInv, NEW n \in Exchanges, n = turn, n <= cmd, up,
         outcome[n] = "none" => said[n] = "trap",
         UNCHANGED <<up, chunks, cmd, outcome, got>>,
         NEW r \in Reply, wire' = Append(wire, r),
         NEW e \in Nat,
         \A p \in 1 .. e : Sentence(n, p)' = Sentence(n, p) /\ Uttered(n, p)',
         \A p \in Nat : Uttered(n, p) => p <= e,
         e = rows[n] + (IF said[n] = "nothing" THEN 0 ELSE 1),
         r = Sentence(n, e + 1)', Uttered(n, e + 1)',
         turn' >= n,
         turn' = n => e + 1 = rows'[n] + (IF said'[n] = "nothing" THEN 0 ELSE 1),
         said[n] \in {"nothing", "trap"}
  PROVE  OnItsWay'
<1>1. /\ cmd \in Exchanges /\ cmd \in Nat /\ n \in Nat /\ got[cmd] \in Seq(Reply) /\ Len(got[cmd]) \in Nat
      /\ Len(chunks) \in Nat /\ wire \in Seq(Reply) /\ Len(wire) \in Nat
      /\ \A j \in 1 .. Len(chunks) : chunks[j] \in Seq(Reply) /\ Len(chunks[j]) \in Nat
  <2>1. cmd \in Exchanges /\ got[cmd] \in Seq(Reply)
    BY DEF RInv, TypeOK
  <2>2. cmd \in Nat /\ n \in Nat /\ Len(got[cmd]) \in Nat
    BY <2>1, Sizes
  <2>3. /\ Len(chunks) \in Nat /\ wire \in Seq(Reply) /\ Len(wire) \in Nat
        /\ \A j \in 1 .. Len(chunks) : chunks[j] \in Seq(Reply) /\ Len(chunks[j]) \in Nat
    BY Streams DEF RInv
  <2> QED
    BY <2>1, <2>2, <2>3
<1>2. /\ Len(wire') = Len(wire) + 1 /\ wire'[Len(wire) + 1] = r
      /\ \A i \in 1 .. Len(wire) : wire'[i] = wire[i]
  BY <1>1, AppendProperties
<1> SUFFICES ASSUME Clean(cmd)
             PROVE  /\ outcome[cmd] \notin {"none", "ok"}
                    /\ outcome[cmd] = "pending" => turn' >= cmd /\ \E start \in Starts' : Stream(cmd, start)'
  <2>1. Clean(cmd)' <=> Clean(cmd)
    BY DEF Clean
  <2> QED
    BY <2>1 DEF OnItsWay
<1>3. ASSUME cmd > n PROVE FALSE
  <2>1. outcome[n] = "ok"
    BY <1>1, <1>3, Sizes DEF Clean
  <2>2. \A m \in 0 .. n - 1 : m \in 0 .. cmd - 1
    BY <1>1, <1>3
  <2>3. Clean(n)
    BY <2>2 DEF Clean
  <2>4. HasRead(n)
    BY <2>3 DEF RInv
  <2> QED
    BY <2>1, <2>4 DEF HasRead
<1>4. n = cmd
  BY <1>1, <1>3
<1>5. outcome[cmd] \notin {"none", "ok"}
  BY <1>4 DEF RInv, OnItsWay
<1>6. ASSUME outcome[cmd] = "pending" PROVE \E start \in Starts' : Stream(cmd, start)'
  <2>1. PICK start \in Starts : Stream(n, start)
    BY <1>4, <1>6 DEF RInv, OnItsWay
  <2>2. PICK m : m = Len(chunks)
    OBVIOUS
  <2>3. m \in Nat /\ start \in [1 .. m + 1 -> Nat] /\ start \in Starts' /\ \A j \in 1 .. m + 1 : start[j] \in Nat
    BY <1>1, <2>1, <2>2 DEF Starts
  <2>4. start[m + 1] + Len(wire) = e
    BY <2>1, <2>2 DEF Stream
  <2>5. \A s \in Seq(Reply), q \in Nat : Stretch(n, s, q) => Stretch(n, s, q)'
    <3> SUFFICES ASSUME NEW s \in Seq(Reply), NEW q \in Nat, Stretch(n, s, q), NEW i \in 1 .. Len(s)
                 PROVE  Uttered(n, q + i)' /\ s[i] = Sentence(n, q + i)'
      BY DEF Stretch
    <3>1. Uttered(n, q + i) /\ s[i] = Sentence(n, q + i)
      BY DEF Stretch
    <3>2. q + i \in Nat /\ q + i >= 1
      OBVIOUS
    <3>3. q + i \in 1 .. e
      BY <3>1, <3>2
    <3> QED
      BY <3>1, <3>3
  <2>6. ASSUME NEW j \in 1 .. m
        PROVE  start[j + 1] = start[j] + Len(chunks[j]) /\ Stretch(n, chunks[j], start[j])'
    <3>1. start[j + 1] = start[j] + Len(chunks[j]) /\ Stretch(n, chunks[j], start[j])
      BY <2>1, <2>2 DEF Stream
    <3>2. chunks[j] \in Seq(Reply) /\ start[j] \in Nat
      BY <1>1, <2>2, <2>3
    <3>3. PICK s, q : s = chunks[j] /\ q = start[j]
      OBVIOUS
    <3>4. Stretch(n, s, q)'
      BY <2>5, <3>1, <3>2, <3>3
    <3>5. chunks'[j] = s
      BY <3>3
    <3> QED
      BY <3>1, <3>3, <3>4, <3>5
  <2>7. Stretch(n, wire, start[m + 1])'
    <3>1. PICK q : q = start[m + 1]
      OBVIOUS
    <3>2. q \in Nat /\ q + Len(wire) = e /\ Stretch(n, wire, q)
      BY <2>1, <2>2, <2>3, <2>4, <3>1 DEF Stream
    <3>3. ASSUME NEW i \in 1 .. Len(wire) PROVE Uttered(n, q + i)' /\ wire'[i] = Sentence(n, q + i)'
      <4>1. Uttered(n, q + i) /\ wire[i] = Sentence(n, q + i)
        BY <3>2 DEF Stretch
      <4>2. q + i \in 1 .. e
        BY <1>1, <3>2
      <4> QED
        BY <1>2, <4>1, <4>2
    <3>4. PICK l : l = Len(wire)
      OBVIOUS
    <3>5. l \in Nat /\ q + l = e /\ q + (l + 1) = e + 1 /\ Len(wire') = l + 1 /\ wire'[l + 1] = r
      BY <1>1, <1>2, <3>2, <3>4
    <3>6. Uttered(n, q + (l + 1))' /\ wire'[l + 1] = Sentence(n, q + (l + 1))'
      BY <3>5
    <3>7. \A i \in 1 .. Len(wire') : Uttered(n, q + i)' /\ wire'[i] = Sentence(n, q + i)'
      <4>1. \A i \in 1 .. l + 1 : i \in 1 .. l \/ i = l + 1
        BY <3>5
      <4> QED
        BY <3>3, <3>4, <3>5, <3>6, <4>1
    <3> QED
      BY <3>1, <3>7 DEF Stretch
  <2>8. Stream(n, start)'
    <3>1. start[1] = Len(got[n])
      BY <2>1 DEF Stream
    <3>2. turn' = n => start[m + 1] + Len(wire') = rows'[n] + (IF said'[n] = "nothing" THEN 0 ELSE 1)
      BY <1>1, <1>2, <2>3, <2>4
    <3> QED
      BY <2>2, <2>6, <2>7, <3>1, <3>2 DEF Stream
  <2> QED
    BY <1>4, <2>3, <2>8
<1> QED
  BY <1>4, <1>5, <1>6

LEMMA RowKeeps ==
  ASSUME RInv, Row PROVE RInv'
<1> DEFINE n == turn
           r == [for |-> turn, type |-> "re", no |-> rows[turn] + 1]
<1>1. /\ up /\ turn <= cmd /\ outcome[turn] # "none" /\ turn > 0 /\ said[turn] = "nothing"
      /\ rows[turn] < MaxRows /\ wire' = Append(wire, r)
      /\ rows' = [rows EXCEPT ![turn] = @ + 1]
      /\ UNCHANGED <<state, up, chunks, pc, cmd, late, outcome, got, turn, said>>
  BY DEF Row, Asked, Say, clientVars
<1>2. /\ turn \in Exchanges /\ turn \in Nat /\ rows[turn] \in Nat /\ MaxRows \in Nat /\ MaxCommands \in Nat
      /\ rows \in [Exchanges -> 0 .. MaxRows] /\ wire \in Seq(Reply) /\ cmd \in Nat
  BY Sizes DEF RInv, TypeOK
<1>3. r \in Reply
  BY <1>1, <1>2 DEF Reply
<1>4. /\ rows' \in [Exchanges -> 0 .. MaxRows] /\ rows'[turn] = rows[turn] + 1
      /\ \A m \in Exchanges : m # turn => rows'[m] = rows[m]
  BY <1>1, <1>2
<1>5. TypeOK'
  <2>1. wire' \in Seq(Reply)
    BY <1>1, <1>2, <1>3, AppendProperties
  <2> QED
    BY <1>1, <1>4, <2>1 DEF RInv, TypeOK
<1>6. Order'
  <2>1. \A m \in Exchanges : m > cmd \/ m > turn => m # turn
    BY <1>1, <1>2, Sizes
  <2>2. \A m \in Exchanges : m > cmd' \/ m > turn' => said'[m] = "nothing" /\ rows'[m] = 0
    BY <1>1, <1>4, <2>1 DEF RInv, Order
  <2> QED
    BY <1>1, <2>2 DEF RInv, Order
<1>7. OnItsWay'
  <2>1. PICK k : k = turn
    OBVIOUS
  <2>2. PICK e \in Nat : e = rows[k]
    BY <1>2, <2>1
  <2>3. said[k] = "nothing" /\ said'[k] = "nothing" /\ rows'[k] = e + 1 /\ k \in Exchanges /\ k \in Nat
    BY <1>1, <1>2, <1>4, <2>1, <2>2
  <2>4. \A p \in 1 .. e : Sentence(k, p)' = Sentence(k, p) /\ Uttered(k, p)'
    BY <2>2, <2>3 DEF Sentence, Uttered
  <2>5. \A p \in Nat : Uttered(k, p) => p <= e
    BY <2>2, <2>3 DEF Uttered
  <2>6. r = Sentence(k, e + 1)' /\ Uttered(k, e + 1)'
    BY <2>1, <2>2, <2>3 DEF Sentence, Uttered
  <2>7. r \in Reply /\ wire' = Append(wire, r)
    BY <1>1, <1>3
  <2> HIDE DEF r
  <2>8. e = rows[k] + 0 /\ e + 1 = rows'[k] + 0 /\ turn' >= k
    BY <1>1, <2>1, <2>2, <2>3
  <2> QED
    BY <1>1, <2>1, <2>3, <2>4, <2>5, <2>6, <2>7, <2>8, SaidKeeps
<1>8. \A m \in Exchanges : m <= cmd' /\ Clean(m)' => HasRead(m)'
  BY <1>1, <1>2, <1>4, <1>5, ReadsKept
<1> QED
  BY <1>5, <1>6, <1>7, <1>8 DEF RInv

LEMMA FinishKeeps ==
  ASSUME RInv, NEW t \in Final, Finish(t) PROVE RInv'
<1> DEFINE r == [for |-> turn, type |-> t, no |-> rows[turn] + 1]
<1>1. /\ up /\ turn <= cmd /\ outcome[turn] # "none" /\ said[turn] = "nothing" /\ wire' = Append(wire, r)
      /\ said' = [said EXCEPT ![turn] = t]
      /\ turn' = (IF t = "done" /\ turn < MaxCommands THEN turn + 1 ELSE turn)
      /\ UNCHANGED <<state, up, chunks, pc, cmd, late, outcome, got, rows>>
  BY DEF Finish, Asked, Say, clientVars
<1>2. /\ turn \in Exchanges /\ turn \in Nat /\ rows[turn] \in 0 .. MaxRows /\ MaxRows \in Nat /\ MaxCommands \in Nat
      /\ said \in [Exchanges -> Final \cup {"nothing"}] /\ wire \in Seq(Reply) /\ cmd \in Nat
      /\ turn <= MaxCommands
  BY Sizes DEF RInv, TypeOK
<1>3. r \in Reply
  BY <1>1, <1>2 DEF Reply
<1>4. /\ said' \in [Exchanges -> Final \cup {"nothing"}] /\ said'[turn] = t /\ t # "nothing"
      /\ \A m \in Exchanges : m # turn => said'[m] = said[m]
  BY <1>1, <1>2 DEF Final
<1>5. turn' \in Exchanges /\ turn' \in Nat /\ turn' >= turn /\ (turn' > turn => turn' = turn + 1)
  BY <1>1, <1>2, Sizes
<1>6. TypeOK'
  <2>1. wire' \in Seq(Reply)
    BY <1>1, <1>2, <1>3, AppendProperties
  <2> QED
    BY <1>1, <1>4, <1>5, <2>1 DEF RInv, TypeOK
<1>7. Order'
  <2>1. \A m \in Exchanges : m > cmd \/ m > turn' => m # turn /\ (m > cmd \/ m > turn)
    BY <1>1, <1>2, <1>5, Sizes
  <2>2. \A m \in Exchanges : m > cmd' \/ m > turn' => said'[m] = "nothing" /\ rows'[m] = 0
    BY <1>1, <1>4, <2>1 DEF RInv, Order
  <2>3. turn' <= cmd' + 1
    BY <1>1, <1>2, <1>5
  <2>4. said'[turn'] = "done" => turn' = MaxCommands
    <3>1. CASE turn' = turn
      BY <1>1, <1>2, <1>4, <3>1
    <3>2. CASE turn' # turn
      <4>1. turn' > turn /\ turn' # turn
        BY <1>2, <1>5, <3>2
      <4>2. said[turn'] = "nothing"
        BY <1>5, <4>1 DEF RInv, Order
      <4> QED
        BY <1>4, <1>5, <4>1, <4>2
    <3> QED
      BY <3>1, <3>2
  <2> QED
    BY <1>1, <2>2, <2>3, <2>4 DEF RInv, Order
<1>8. OnItsWay'
  <2>1. PICK k : k = turn
    OBVIOUS
  <2>2. PICK e \in Nat : e = rows[k]
    BY <1>2, <2>1
  <2>3. said[k] = "nothing" /\ said'[k] = t /\ t # "nothing" /\ rows'[k] = e /\ k \in Exchanges /\ k \in Nat
    BY <1>1, <1>2, <1>4, <2>1, <2>2
  <2>4. \A p \in 1 .. e : Sentence(k, p)' = Sentence(k, p) /\ Uttered(k, p)'
    BY <2>2, <2>3 DEF Sentence, Uttered
  <2>5. \A p \in Nat : Uttered(k, p) => p <= e
    BY <2>2, <2>3 DEF Uttered
  <2>6. r = Sentence(k, e + 1)' /\ Uttered(k, e + 1)'
    BY <2>1, <2>2, <2>3 DEF Sentence, Uttered
  <2>7. r \in Reply /\ wire' = Append(wire, r)
    BY <1>1, <1>3
  <2> HIDE DEF r
  <2>8. e = rows[k] + 0 /\ e + 1 = rows'[k] + 1 /\ turn' >= k
    BY <1>5, <2>1, <2>2, <2>3
  <2> QED
    BY <1>1, <2>1, <2>3, <2>4, <2>5, <2>6, <2>7, <2>8, SaidKeeps
<1>9. \A m \in Exchanges : m <= cmd' /\ Clean(m)' => HasRead(m)'
  BY <1>1, <1>2, <1>4, <1>6, ReadsKept
<1> QED
  BY <1>6, <1>7, <1>8, <1>9 DEF RInv

LEMMA AfterTrapKeeps ==
  ASSUME RInv, AfterTrap PROVE RInv'
<1> DEFINE r == [for |-> turn, type |-> "done", no |-> rows[turn] + 1]
<1>1. /\ up /\ said[turn] = "trap" /\ turn < MaxCommands /\ turn' = turn + 1
      /\ wire' = Append(wire, r) \/ wire' = wire
      /\ UNCHANGED <<state, up, chunks, pc, cmd, late, outcome, got, said, rows>>
  BY DEF AfterTrap, Say, clientVars
<1>2. /\ turn \in Exchanges /\ turn \in Nat /\ rows[turn] \in 0 .. MaxRows /\ MaxRows \in Nat /\ MaxCommands \in Nat
      /\ wire \in Seq(Reply) /\ cmd \in Exchanges /\ cmd \in Nat
  BY Sizes DEF RInv, TypeOK
<1>3. r \in Reply
  BY <1>2 DEF Reply, Final
<1>4. turn' \in Exchanges /\ turn' \in Nat /\ turn' > turn /\ turn <= cmd
  <2>1. ~(turn > cmd)
    BY <1>1, <1>2 DEF RInv, Order
  <2> QED
    BY <1>1, <1>2, <2>1, Sizes
<1>5. TypeOK'
  <2>1. wire' \in Seq(Reply)
    BY <1>1, <1>2, <1>3, AppendProperties
  <2> QED
    BY <1>1, <1>4, <2>1 DEF RInv, TypeOK
<1>6. Order'
  <2>1. \A m \in Exchanges : m > turn' => m > turn
    BY <1>2, <1>4, Sizes
  <2>2. \A m \in Exchanges : m > cmd' \/ m > turn' => said'[m] = "nothing" /\ rows'[m] = 0
    BY <1>1, <2>1 DEF RInv, Order
  <2>3. said[turn'] = "nothing"
    BY <1>4 DEF RInv, Order
  <2>4. turn' <= cmd' + 1
    BY <1>1, <1>2, <1>4
  <2> QED
    BY <1>1, <2>2, <2>3, <2>4 DEF RInv, Order
<1>7. PICK k : k = turn
  OBVIOUS
<1>8. \A p : Sentence(k, p)' = Sentence(k, p) /\ (Uttered(k, p) => Uttered(k, p)')
  BY <1>1, <1>4, <1>7 DEF Sentence, Uttered
<1>9. ASSUME wire' = Append(wire, r) PROVE OnItsWay'
  <2>1. PICK e \in Nat : e = rows[k] + 1
    BY <1>2, <1>7
  <2>2. said[k] = "trap" /\ said'[k] = "trap" /\ rows'[k] = rows[k] /\ k \in Exchanges /\ k \in Nat /\ rows[k] \in Nat
    BY <1>1, <1>2, <1>7
  <2>3. \A p \in 1 .. e : Sentence(k, p)' = Sentence(k, p) /\ Uttered(k, p)'
    BY <1>8, <2>1, <2>2 DEF Uttered
  <2>4. \A p \in Nat : Uttered(k, p) => p <= e
    BY <1>2, <1>7, <2>1, <2>2 DEF Uttered
  <2>5. e + 1 = rows[k] + 2 /\ ~(e + 1 <= rows[k]) /\ e + 1 # rows[k] + 1
    BY <2>1, <2>2
  <2>6. r = Sentence(k, e + 1)' /\ Uttered(k, e + 1)'
    BY <1>4, <1>7, <2>2, <2>5 DEF Sentence, Uttered
  <2>7. turn' >= k /\ turn' # k
    BY <1>2, <1>4, <1>7
  <2>8. r \in Reply /\ wire' = Append(wire, r)
    BY <1>3, <1>9
  <2> HIDE DEF r
  <2> QED
    BY <1>1, <1>4, <1>7, <2>1, <2>2, <2>3, <2>4, <2>6, <2>7, <2>8, SaidKeeps
<1>10. ASSUME wire' = wire PROVE OnItsWay'
  <2>1. Starts' = Starts /\ (Clean(cmd)' <=> Clean(cmd))
    BY <1>1 DEF Starts, Clean
  <2>2. ASSUME Clean(cmd) PROVE outcome[cmd] # "none"
    BY <1>1, <2>2 DEF RInv, OnItsWay
  <2>3. ASSUME Clean(cmd), outcome[cmd] = "pending"
        PROVE  turn' >= cmd /\ \E start \in Starts : Stream(cmd, start)'
    <3>1. turn >= cmd /\ \E start \in Starts : Stream(cmd, start)
      BY <2>3 DEF RInv, OnItsWay
    <3>2. k = cmd
      BY <1>2, <1>4, <1>7, <3>1
    <3>3. \A s, q : Stretch(k, s, q) => Stretch(k, s, q)'
      BY <1>8 DEF Stretch
    <3>4. turn' # k /\ turn' >= k
      BY <1>2, <1>4, <1>7
    <3>5. ASSUME NEW start, Stream(k, start) PROVE Stream(k, start)'
      BY <1>1, <1>10, <3>3, <3>4, <3>5 DEF Stream
    <3> QED
      BY <1>1, <3>1, <3>2, <3>4, <3>5
  <2> QED
    BY <1>1, <1>10, <2>1, <2>2, <2>3 DEF RInv, OnItsWay
<1>11. \A m \in Exchanges : m <= cmd' /\ Clean(m)' => HasRead(m)'
  BY <1>1, <1>5, ReadsKept
<1> QED
  BY <1>1, <1>5, <1>6, <1>9, <1>10, <1>11 DEF RInv

-----------------------------------------------------------------------------
(* The reader                                                              *)

\* A chunk that is a stretch of the answer to the command under way: it is heard
\* up to the sentence that ends the answer, and the rows of it are what precedes.
LEMMA HeardOfStretch ==
  ASSUME NEW c \in Seq(Reply), NEW g \in Nat, NEW w \in Nat, rows[cmd] = w, g <= w,
         said[cmd] \in Final \cup {"nothing"}, Stretch(cmd, c, g)
  PROVE  /\ \A i \in 1 .. Len(c) : g + i <= w => c[i] = RowNo(cmd, g + i)
         /\ g + Len(c) <= w =>
              /\ \A i \in Heard(c) : c[i].type = "re"
              /\ RowsOf(c, Heard(c)) = [k \in 1 .. Len(c) |-> c[k]]
         /\ g + Len(c) > w =>
              /\ (w - g) + 1 \in Heard(c) /\ c[(w - g) + 1].type = said[cmd] /\ said[cmd] \in Final
              /\ \A i \in Heard(c) : i # (w - g) + 1 => c[i].type = "re"
              /\ RowsOf(c, Heard(c)) = [k \in 1 .. w - g |-> c[k]]
<1> DEFINE e == (w - g) + 1
<1>1. Len(c) \in Nat /\ DOMAIN c = 1 .. Len(c) /\ w - g \in Nat /\ e \in Nat \ {0} /\ g + e = w + 1
  OBVIOUS
<1>2. ASSUME NEW i \in 1 .. Len(c) PROVE Accepted(cmd, c[i])
  <2>1. c[i] = Sentence(cmd, g + i)
    BY DEF Stretch
  <2>2. c[i].for = cmd
    BY <2>1 DEF Sentence
  <2> QED
    BY <2>2 DEF Accepted
<1>3. ASSUME NEW i \in 1 .. Len(c), g + i <= w
      PROVE  c[i] = RowNo(cmd, g + i) /\ c[i].type = "re"
  BY <1>3 DEF Stretch, Sentence, RowNo
<1>4. Heard(c) = {i \in 1 .. Len(c) : \A j \in 1 .. Len(c) : j < i => c[j].type \notin Final}
  <2>1. {i \in DOMAIN c : Accepted(cmd, c[i])} = 1 .. Len(c)
    BY <1>1, <1>2
  <2> QED
    BY <2>1 DEF Heard
<1>5. "re" \notin Final
  BY DEF Final
<1>6. ASSUME g + Len(c) <= w
      PROVE  /\ \A i \in Heard(c) : c[i].type = "re"
             /\ RowsOf(c, Heard(c)) = [k \in 1 .. Len(c) |-> c[k]]
  <2>1. \A i \in 1 .. Len(c) : c[i].type = "re"
    <3>1. \A i \in 1 .. Len(c) : g + i <= w
      BY <1>1, <1>6
    <3> QED
      BY <1>3, <3>1
  <2>2. Heard(c) = 1 .. Len(c)
    BY <1>4, <1>5, <2>1
  <2>3. {i \in Heard(c) : c[i].type = "re"} = 1 .. Len(c)
    BY <2>1, <2>2
  <2>4. Heard(c) \in SUBSET DOMAIN c /\ Len(c) <= Len(c)
    BY <1>1, <2>2
  <2> QED
    BY <1>1, <2>1, <2>2, <2>3, <2>4, RowsOfPrefix
<1>7. ASSUME g + Len(c) > w
      PROVE  /\ e \in Heard(c) /\ c[e].type = said[cmd] /\ said[cmd] \in Final
             /\ \A i \in Heard(c) : i # e => c[i].type = "re"
             /\ RowsOf(c, Heard(c)) = [k \in 1 .. w - g |-> c[k]]
  <2>1. e \in 1 .. Len(c)
    BY <1>1, <1>7
  <2>2. Uttered(cmd, w + 1) /\ c[e] = Sentence(cmd, w + 1)
    BY <1>1, <2>1 DEF Stretch
  <2>3. c[e].type = said[cmd] /\ said[cmd] \in Final
    BY <2>2 DEF Uttered, Sentence
  <2>4. \A i \in 1 .. Len(c) : i < e => c[i].type = "re"
    <3>1. \A i \in 1 .. Len(c) : i < e => g + i <= w
      BY <1>1
    <3> QED
      BY <1>3, <3>1
  <2>5. \A i \in 1 .. Len(c) : i \in Heard(c) <=> i <= e
    <3>1. ASSUME NEW i \in 1 .. Len(c), i <= e PROVE i \in Heard(c)
      <4>1. \A j \in 1 .. Len(c) : j < i => j < e
        BY <1>1, <3>1
      <4> QED
        BY <1>4, <1>5, <2>4, <4>1
    <3>2. ASSUME NEW i \in 1 .. Len(c), i \in Heard(c) PROVE i <= e
      <4>1. ~(e < i)
        BY <1>4, <2>1, <2>3, <3>2
      <4> QED
        BY <1>1, <4>1
    <3> QED
      BY <3>1, <3>2
  <2>6. Heard(c) \in SUBSET DOMAIN c
    BY <1>1, <1>4
  <2>7. \A i \in Heard(c) : i \in 1 .. Len(c) /\ (i = e \/ i < e)
    BY <1>1, <2>1, <2>5, <2>6
  <2>8. \A i \in Heard(c) : i # e => c[i].type = "re"
    BY <2>4, <2>7
  <2>9. {i \in Heard(c) : c[i].type = "re"} = 1 .. w - g
    <3>1. c[e].type # "re"
      BY <1>5, <2>3
    <3>2. \A i : i \in Heard(c) /\ c[i].type = "re" => i \in 1 .. w - g
      BY <1>1, <2>7, <3>1
    <3>3. \A i \in 1 .. w - g : i \in 1 .. Len(c) /\ i < e /\ i <= e
      BY <1>1, <2>1
    <3>4. \A i \in 1 .. w - g : i \in Heard(c) /\ c[i].type = "re"
      BY <2>4, <2>5, <3>3
    <3> QED
      BY <3>2, <3>4
  <2>10. w - g <= Len(c) /\ e \in Heard(c)
    BY <1>1, <2>1, <2>5
  <2> QED
    BY <1>1, <2>3, <2>6, <2>8, <2>9, <2>10, RowsOfPrefix
<1> QED
  BY <1>3, <1>6, <1>7

\* The rows of an answer followed by the next ones are rows of the answer.
LEMMA Appended ==
  ASSUME NEW n, NEW s \in Seq(Reply), s = Answer(n, Len(s)),
         NEW d \in Seq(Reply), \A i \in 1 .. Len(d) : d[i] = RowNo(n, Len(s) + i)
  PROVE  Len(s \o d) = Len(s) + Len(d) /\ s \o d = Answer(n, Len(s) + Len(d))
<1>1. PICK m : m = Len(d)
  OBVIOUS
<1>2. m \in Nat /\ \A i \in 1 .. m : d[i] = RowNo(n, Len(s) + i)
  BY <1>1
<1>3. PICK t : t = s \o d
  OBVIOUS
<1>4. /\ t \in Seq(Reply) /\ Len(t) = Len(s) + m /\ Len(s) \in Nat
      /\ \A i \in 1 .. Len(s) + m : t[i] = IF i <= Len(s) THEN s[i] ELSE d[i - Len(s)]
  <2>2. /\ s \o d \in Seq(Reply) /\ Len(s \o d) = Len(s) + Len(d)
        /\ \A i \in 1 .. Len(s) + Len(d) : (s \o d)[i] = IF i <= Len(s) THEN s[i] ELSE d[i - Len(s)]
    BY ConcatProperties
  <2>3. Len(s) \in Nat
    OBVIOUS
  <2>4. t \in Seq(Reply) /\ Len(t) = Len(s) + Len(d) /\ Len(d) = m
    BY <1>1, <1>3, <2>2
  <2>5. \A i \in 1 .. Len(s) + Len(d) : t[i] = IF i <= Len(s) THEN s[i] ELSE d[i - Len(s)]
    BY <1>3, <2>2
  <2> QED
    BY <2>3, <2>4, <2>5
<1>5. \A i \in 1 .. Len(s) : s[i] = RowNo(n, i)
  BY IsAnswer
<1>6. ASSUME NEW i \in 1 .. Len(t) PROVE t[i] = RowNo(n, i)
  <2>1. CASE i <= Len(s)
    <3>1. i \in 1 .. Len(s) /\ i \in 1 .. Len(s) + m
      BY <1>4, <2>1
    <3>2. t[i] = s[i]
      BY <1>4, <2>1, <3>1
    <3> QED
      BY <1>5, <3>1, <3>2
  <2>2. CASE i > Len(s)
    <3>1. i - Len(s) \in 1 .. m /\ Len(s) + (i - Len(s)) = i
      <4>1. Len(s) \in Nat /\ m \in Nat /\ i \in 1 .. Len(s) + m
        BY <1>2, <1>4
      <4>2. PICK l : l = Len(s)
        OBVIOUS
      <4>3. i - l \in 1 .. m /\ l + (i - l) = i
        BY <2>2, <4>1, <4>2
      <4> QED
        BY <4>2, <4>3
    <3>2. t[i] = d[i - Len(s)]
      <4>1. i \in 1 .. Len(s) + m /\ Len(s) \in Nat /\ ~(i <= Len(s))
        BY <1>2, <1>4, <2>2
      <4> QED
        BY <1>4, <4>1
    <3> QED
      BY <1>2, <3>1, <3>2
  <2> QED
    BY <1>4, <2>1, <2>2
<1>7. t = Answer(n, Len(t))
  BY <1>4, <1>6, IsAnswer
<1> QED
  BY <1>1, <1>3, <1>4, <1>7

LEMMA ReadChunkKeeps ==
  ASSUME RInv, ReadChunk PROVE RInv'
<1>1. PICK c, h : c = Head(chunks) /\ h = Heard(c)
  OBVIOUS
<1> DEFINE read == got[cmd] \o RowsOf(c, h)
<1>2. /\ pc = "read" /\ chunks # <<>> /\ chunks' = Tail(chunks)
      /\ got' = [got EXCEPT ![cmd] = read]
      /\ UNCHANGED <<up, cmd, turn, said, rows, wire>>
      /\ \/ /\ \E i \in h : c[i].type \in {"done"}
            /\ pc' = "idle" /\ late' = FALSE /\ outcome' = [outcome EXCEPT ![cmd] = "ok"]
            /\ state' \in {"authenticated", state}
         \/ /\ \E i \in h : c[i].type \in {"trap", "fatal"}
            /\ pc' = "idle" /\ late' = FALSE /\ outcome' = [outcome EXCEPT ![cmd] = "error"]
            /\ state' = state
         \/ /\ ~\E i \in h : c[i].type \in Final
            /\ \/ pc' = "idle" /\ late' = FALSE /\ outcome' = [outcome EXCEPT ![cmd] = "error"]
               \/ pc' = pc /\ late' = late /\ outcome' = outcome
            /\ state' = state
  BY <1>1 DEF ReadChunk, End, routerVars
<1> HIDE DEF read
<1>3. /\ cmd \in Exchanges /\ cmd \in Nat /\ got \in [Exchanges -> Seq(Reply)]
      /\ outcome \in [Exchanges -> {"none", "pending", "ok", "error"}]
      /\ rows[cmd] \in Nat /\ said[cmd] \in Final \cup {"nothing"}
      /\ wire \in Seq(Reply) /\ Len(wire) \in Nat /\ state \in States /\ late \in BOOLEAN
  <2>1. cmd \in Exchanges /\ rows \in [Exchanges -> 0 .. MaxRows]
    BY DEF RInv, TypeOK
  <2>2. cmd \in Nat /\ rows[cmd] \in Nat
    BY <2>1, Sizes
  <2> QED
    BY <2>1, <2>2, Streams DEF RInv, TypeOK
<1>4. PICK o \in {"ok", "error", "pending"} :
        /\ outcome' = [outcome EXCEPT ![cmd] = o]
        /\ o = "ok" => \E i \in h : c[i].type = "done"
        /\ o = "pending" => pc' = "read" /\ ~\E i \in h : c[i].type \in Final
        /\ o # "pending" => pc' = "idle"
  <2>1. outcome[cmd] = "pending"
    BY <1>2 DEF RInv, Order
  <2>2. [outcome EXCEPT ![cmd] = "pending"] = outcome
    BY <1>3, <2>1
  <2> QED
    BY <1>2, <2>2
<1>5. /\ outcome' \in [Exchanges -> {"none", "pending", "ok", "error"}] /\ outcome'[cmd] = o
      /\ \A n \in Exchanges : n # cmd => outcome'[n] = outcome[n]
  BY <1>3, <1>4
<1>6. /\ chunks \in Seq(Seq(Reply) \ {<<>>}) /\ Len(chunks) \in Nat \ {0}
      /\ c = chunks[1] /\ c \in Seq(Reply) /\ Len(c) \in Nat \ {0} /\ DOMAIN c = 1 .. Len(c)
      /\ chunks' \in Seq(Seq(Reply) \ {<<>>}) /\ Len(chunks') = Len(chunks) - 1
      /\ \A j \in 1 .. Len(chunks') : chunks'[j] = chunks[j + 1]
  <2>1. chunks \in Seq(Seq(Reply) \ {<<>>}) /\ Len(chunks) \in Nat
    BY Streams DEF RInv
  <2>2. Len(chunks) # 0 /\ c = chunks[1]
    BY <1>1, <1>2, <2>1
  <2>3. c \in Seq(Reply) /\ Len(c) \in Nat \ {0}
    BY <2>1, <2>2, Streams DEF RInv
  <2>4. DOMAIN c = 1 .. Len(c)
    BY <2>3
  <2> QED
    BY <1>2, <2>1, <2>2, <2>3, <2>4, HeadTailProperties
<1>7. RowsOf(c, h) \in Seq(Reply) /\ read \in Seq(Reply) /\ got' \in [Exchanges -> Seq(Reply)] /\ got'[cmd] = read
      /\ \A n \in Exchanges : n # cmd => got'[n] = got[n]
  <2>1. h \in SUBSET DOMAIN c
    BY <1>1 DEF Heard
  <2>2. RowsOf(c, h) \in Seq(Reply)
    BY <1>6, <2>1, RowsOfType
  <2>3. read \in Seq(Reply)
    BY <1>3, <2>2, ConcatProperties DEF read
  <2> QED
    BY <1>2, <1>3, <2>2, <2>3
<1>8. TypeOK'
  <2>1. /\ pc' \in {"idle", "connect", "write", "read", "wait"} /\ state' \in States /\ late' \in BOOLEAN
    BY <1>2, <1>3 DEF States
  <2>2. \A n \in Exchanges : outcome'[n] = "pending" => n = cmd' /\ pc' # "idle"
    BY <1>2, <1>4, <1>5 DEF RInv, TypeOK
  <2> QED
    BY <1>2, <1>5, <1>6, <1>7, <2>1, <2>2 DEF RInv, TypeOK
<1>9. Order'
  <2>1. outcome'[cmd'] = "pending" <=> pc' \in {"write", "read", "wait"}
    BY <1>2, <1>4, <1>5
  <2>2. outcome'[cmd'] # "none" /\ pc' # "connect" /\ state' # "idle"
    BY <1>2, <1>4, <1>5 DEF RInv, Order
  <2>3. \A n \in Exchanges : n > cmd' => outcome'[n] = "none" /\ got'[n] = <<>>
    <3>1. \A n \in Exchanges : n > cmd => n # cmd /\ outcome[n] = "none" /\ got[n] = <<>>
      BY <1>3, Sizes DEF RInv, Order
    <3> QED
      BY <1>2, <1>5, <1>7, <3>1
  <2> QED
    BY <1>2, <2>1, <2>2, <2>3 DEF RInv, Order
<1>10. Clean(cmd)' <=> Clean(cmd)
  <2>1. \A m \in 0 .. cmd - 1 : m \in Exchanges /\ m # cmd
    BY <1>3, Sizes
  <2> QED
    BY <1>2, <1>5, <2>1 DEF Clean
<1>11. ASSUME NEW n \in Exchanges, n <= cmd, n # cmd, Clean(n)' PROVE HasRead(n)'
  <2>1. \A m \in 0 .. n - 1 : m \in Exchanges /\ m # cmd
    BY <1>3, <1>11, Sizes
  <2>2. Clean(n)
    BY <1>5, <1>11, <2>1 DEF Clean
  <2>3. HasRead(n)
    BY <1>11, <2>2 DEF RInv
  <2> QED
    BY <1>2, <1>5, <1>7, <1>11, <2>3 DEF HasRead, Answer
<1>12. ASSUME Clean(cmd)
       PROVE  /\ HasRead(cmd)'
              /\ o = "ok" => chunks' = <<>> /\ wire' = <<>> /\ said'[cmd] = "done"
              /\ o = "pending" => turn' >= cmd /\ \E start \in Starts' : Stream(cmd, start)'
  <2>1. turn >= cmd /\ \E start \in Starts : Stream(cmd, start)
    BY <1>2, <1>12 DEF RInv, Order, OnItsWay
  <2>2. PICK start \in Starts : Stream(cmd, start)
    BY <2>1
  <2>3. HasRead(cmd)
    BY <1>3, <1>12 DEF RInv
  <2>4. PICK g, w, m : g = Len(got[cmd]) /\ w = rows[cmd] /\ m = Len(chunks)
    OBVIOUS
  <2>5. g \in Nat /\ w \in Nat /\ g <= w /\ m \in Nat \ {0} /\ got[cmd] \in Seq(Reply) /\ got[cmd] = Answer(cmd, g)
    BY <1>3, <1>6, <2>3, <2>4 DEF HasRead
  <2>6. /\ start \in [1 .. m + 1 -> Nat] /\ start[1] = g
        /\ \A j \in 1 .. m : start[j + 1] = start[j] + Len(chunks[j]) /\ Stretch(cmd, chunks[j], start[j])
        /\ Stretch(cmd, wire, start[m + 1])
        /\ up /\ turn = cmd => start[m + 1] + Len(wire) = w + (IF said[cmd] = "nothing" THEN 0 ELSE 1)
    BY <2>2, <2>4 DEF Stream, Starts
  <2>7. Stretch(cmd, c, g) /\ start[2] = g + Len(c)
    <3>1. 1 \in 1 .. m /\ 1 + 1 = 2
      BY <2>5
    <3> QED
      BY <1>6, <2>6, <3>1
  <2>8. /\ \A i \in 1 .. Len(c) : g + i <= w => c[i] = RowNo(cmd, g + i)
        /\ g + Len(c) <= w =>
             /\ \A i \in h : c[i].type = "re"
             /\ RowsOf(c, h) = [k \in 1 .. Len(c) |-> c[k]]
        /\ g + Len(c) > w =>
             /\ (w - g) + 1 \in h /\ c[(w - g) + 1].type = said[cmd] /\ said[cmd] \in Final
             /\ \A i \in h : i # (w - g) + 1 => c[i].type = "re"
             /\ RowsOf(c, h) = [k \in 1 .. w - g |-> c[k]]
    <3>1. /\ c \in Seq(Reply) /\ rows[cmd] = w /\ said[cmd] \in Final \cup {"nothing"}
          /\ Stretch(cmd, c, g)
      BY <1>3, <1>6, <2>4, <2>7
    <3>2. g \in Nat /\ w \in Nat /\ g <= w
      BY <2>5
    <3>3. /\ \A i \in 1 .. Len(c) : g + i <= w => c[i] = RowNo(cmd, g + i)
          /\ g + Len(c) <= w =>
               /\ \A i \in Heard(c) : c[i].type = "re"
               /\ RowsOf(c, Heard(c)) = [k \in 1 .. Len(c) |-> c[k]]
          /\ g + Len(c) > w =>
               /\ (w - g) + 1 \in Heard(c) /\ c[(w - g) + 1].type = said[cmd] /\ said[cmd] \in Final
               /\ \A i \in Heard(c) : i # (w - g) + 1 => c[i].type = "re"
               /\ RowsOf(c, Heard(c)) = [k \in 1 .. w - g |-> c[k]]
      BY <3>1, <3>2, HeardOfStretch
    <3>4. h = Heard(c)
      BY <1>1
    <3> QED
      BY <3>3, <3>4
  <2>9. CASE g + Len(c) <= w
    <3>1. o # "ok"
      BY <1>4, <2>8, <2>9
    <3>2. \A i \in 1 .. Len(c) : c[i] = RowNo(cmd, g + i)
      <4>1. \A i \in 1 .. Len(c) : g + i <= w
        BY <1>6, <2>5, <2>9
      <4> QED
        BY <2>8, <4>1
    <3>3. Len(read) = g + Len(c) /\ read = Answer(cmd, Len(read))
      <4>1. PICK d : d = RowsOf(c, h)
        OBVIOUS
      <4>2. d \in Seq(Reply) /\ Len(d) = Len(c) /\ \A i \in 1 .. Len(d) : d[i] = RowNo(cmd, g + i)
        BY <1>6, <1>7, <2>8, <2>9, <3>2, <4>1
      <4>3. got[cmd] \in Seq(Reply) /\ got[cmd] = Answer(cmd, Len(got[cmd])) /\ Len(got[cmd]) = g
        BY <2>4, <2>5
      <4>4. Len(got[cmd] \o d) = g + Len(d) /\ got[cmd] \o d = Answer(cmd, g + Len(d))
        <5>1. PICK s : s = got[cmd]
          OBVIOUS
        <5>2. s \in Seq(Reply) /\ s = Answer(cmd, Len(s)) /\ Len(s) = g
          BY <4>3, <5>1
        <5>3. \A i \in 1 .. Len(d) : d[i] = RowNo(cmd, Len(s) + i)
          BY <4>2, <5>2
        <5>4. d \in Seq(Reply)
          BY <4>2
        <5>5. Len(s \o d) = Len(s) + Len(d) /\ s \o d = Answer(cmd, Len(s) + Len(d))
          BY <5>2, <5>3, <5>4, Appended
        <5> QED
          BY <5>1, <5>2, <5>5
      <4> QED
        BY <4>1, <4>2, <4>4 DEF read
    <3>4. HasRead(cmd)'
      <4>1. got'[cmd'] = read /\ outcome'[cmd'] = o /\ rows'[cmd'] = w /\ cmd' = cmd
        BY <1>2, <1>5, <1>7, <2>4
      <4>2. read = Answer(cmd, Len(read)) /\ Len(read) <= w
        BY <2>9, <3>3
      <4> QED
        BY <3>1, <4>1, <4>2 DEF HasRead, Answer
    <3>5. \E s \in Starts' : Stream(cmd, s)'
      <4>1. PICK s : s = [j \in 1 .. m |-> start[j + 1]]
        OBVIOUS
      <4>2. /\ s \in [1 .. m -> Nat] /\ s[1] = g + Len(c) /\ s[m] = start[m + 1]
            /\ \A j \in 1 .. m : s[j] = start[j + 1]
        BY <2>5, <2>6, <2>7, <4>1
      <4>3. Len(chunks') = m - 1 /\ m - 1 \in Nat /\ (m - 1) + 1 = m
        BY <1>6, <2>4, <2>5
      <4>4. s \in Starts'
        BY <4>2, <4>3 DEF Starts
      <4>5. \A n, t, q : Stretch(n, t, q)' <=> Stretch(n, t, q)
        <5>1. \A n, p : Sentence(n, p)' = Sentence(n, p) /\ (Uttered(n, p)' <=> Uttered(n, p))
          BY <1>2 DEF Sentence, Uttered
        <5> QED
          BY <5>1 DEF Stretch
      <4>6. ASSUME NEW j \in 1 .. m - 1
            PROVE  s[j + 1] = s[j] + Len(chunks'[j]) /\ Stretch(cmd, chunks'[j], s[j])
        <5>1. j \in 1 .. m /\ j + 1 \in 1 .. m
          BY <2>5
        <5>2. start[(j + 1) + 1] = start[j + 1] + Len(chunks[j + 1]) /\ Stretch(cmd, chunks[j + 1], start[j + 1])
          BY <2>6, <5>1
        <5>3. chunks'[j] = chunks[j + 1] /\ s[j] = start[j + 1] /\ s[j + 1] = start[(j + 1) + 1]
          BY <1>6, <4>2, <4>3, <5>1
        <5> QED
          BY <5>2, <5>3
      <4>7. Stream(cmd, s)'
        <5>1. Stretch(cmd, wire', s[Len(chunks') + 1])
          BY <1>2, <2>6, <4>2, <4>3
        <5>2. s[1] = Len(got'[cmd])
          BY <1>7, <3>3, <4>2
        <5>3. up' /\ turn' = cmd =>
                s[Len(chunks') + 1] + Len(wire') = rows'[cmd] + (IF said'[cmd] = "nothing" THEN 0 ELSE 1)
          BY <1>2, <2>4, <2>6, <4>2, <4>3
        <5> QED
          BY <1>2, <4>3, <4>5, <4>6, <5>1, <5>2, <5>3 DEF Stream
      <4> QED
        BY <4>4, <4>7
    <3> QED
      BY <1>2, <2>1, <3>1, <3>4, <3>5
  <2>10. CASE g + Len(c) > w
    <3> DEFINE e == (w - g) + 1
    <3>1. e \in h /\ c[e].type = said[cmd] /\ said[cmd] \in Final /\ \A i \in h : i # e => c[i].type = "re"
      BY <2>8, <2>10
    <3>2. o # "pending"
      BY <1>4, <3>1
    <3>3. o = "ok" => said[cmd] = "done"
      BY <1>4, <3>1
    <3>4. w - g \in Nat /\ w - g <= Len(c) /\ g + (w - g) = w /\ \A i \in 1 .. w - g : i \in 1 .. Len(c) /\ g + i <= w
      BY <1>6, <2>5, <2>10
    <3>5. Len(read) = w /\ read = Answer(cmd, Len(read))
      <4>1. PICK d : d = RowsOf(c, h)
        OBVIOUS
      <4>2. d \in Seq(Reply) /\ Len(d) = w - g /\ \A i \in 1 .. Len(d) : d[i] = RowNo(cmd, g + i)
        BY <1>7, <2>8, <2>10, <3>4, <4>1
      <4>3. got[cmd] \in Seq(Reply) /\ got[cmd] = Answer(cmd, Len(got[cmd])) /\ Len(got[cmd]) = g
        BY <2>4, <2>5
      <4>4. Len(got[cmd] \o d) = g + Len(d) /\ got[cmd] \o d = Answer(cmd, g + Len(d))
        <5>1. PICK s : s = got[cmd]
          OBVIOUS
        <5>2. s \in Seq(Reply) /\ s = Answer(cmd, Len(s)) /\ Len(s) = g
          BY <4>3, <5>1
        <5>3. \A i \in 1 .. Len(d) : d[i] = RowNo(cmd, Len(s) + i)
          BY <4>2, <5>2
        <5>4. d \in Seq(Reply)
          BY <4>2
        <5>5. Len(s \o d) = Len(s) + Len(d) /\ s \o d = Answer(cmd, Len(s) + Len(d))
          BY <5>2, <5>3, <5>4, Appended
        <5> QED
          BY <5>1, <5>2, <5>5
      <4> QED
        BY <3>4, <4>1, <4>2, <4>4 DEF read
    <3>6. HasRead(cmd)'
      <4>1. got'[cmd'] = read /\ outcome'[cmd'] = o /\ rows'[cmd'] = w /\ said' = said /\ cmd' = cmd
        BY <1>2, <1>5, <1>7, <2>4
      <4>2. read = Answer(cmd, Len(read)) /\ Len(read) = w /\ w \in Nat
        BY <2>5, <3>5
      <4> QED
        BY <3>3, <4>1, <4>2 DEF HasRead, Answer
    <3>7. ASSUME o = "ok" PROVE chunks' = <<>> /\ wire' = <<>> /\ said'[cmd] = "done"
      <4>1. said[cmd] = "done" /\ \A p \in Nat : Uttered(cmd, p) => p <= w + 1
        BY <2>4, <2>5, <3>3, <3>7 DEF Uttered
      <4>2. start[2] = w + 1
        <5>1. Uttered(cmd, g + Len(c))
          BY <1>6, <2>7 DEF Stretch
        <5>2. g + Len(c) \in Nat
          BY <1>6, <2>5
        <5>3. g + Len(c) <= w + 1
          BY <4>1, <5>1, <5>2
        <5> QED
          BY <1>6, <2>5, <2>7, <2>10, <5>3
      <4>3. m = 1
        <5>1. ASSUME m # 1 PROVE FALSE
          <6>1. 2 \in 1 .. m
            BY <2>5, <5>1
          <6>2. Stretch(cmd, chunks[2], start[2]) /\ Len(chunks[2]) \in Nat \ {0}
            BY <2>4, <2>6, <6>1, Streams DEF RInv
          <6>3. Uttered(cmd, (w + 1) + 1)
            BY <4>2, <6>2 DEF Stretch
          <6> QED
            BY <2>5, <4>1, <6>3
        <5> QED
          BY <5>1
      <4>4. Len(wire) = 0
        <5>1. ASSUME Len(wire) # 0 PROVE FALSE
          <6>1. Stretch(cmd, wire, w + 1) /\ 1 \in 1 .. Len(wire)
            BY <1>3, <2>6, <4>2, <4>3, <5>1
          <6>2. Uttered(cmd, (w + 1) + 1)
            BY <6>1 DEF Stretch
          <6> QED
            BY <2>5, <4>1, <6>2
        <5> QED
          BY <5>1
      <4>5. chunks' = <<>>
        BY <1>6, <2>4, <4>3
      <4>6. wire = <<>>
        BY <1>3, <4>4
      <4> QED
        BY <1>2, <4>1, <4>5, <4>6
    <3> QED
      BY <3>2, <3>6, <3>7
  <2> QED
    BY <1>6, <2>5, <2>9, <2>10
<1>13. OnItsWay'
  BY <1>2, <1>5, <1>10, <1>12 DEF OnItsWay
<1>14. \A n \in Exchanges : n <= cmd' /\ Clean(n)' => HasRead(n)'
  <2>2. ASSUME NEW n \in Exchanges, n = cmd, Clean(n)' PROVE HasRead(n)'
    BY <1>2, <1>10, <1>12, <2>2 DEF Clean, HasRead, Answer
  <2> QED
    BY <1>2, <1>11, <2>2
<1> QED
  BY <1>8, <1>9, <1>13, <1>14 DEF RInv

-----------------------------------------------------------------------------
(* The theorems                                                            *)

LEMMA NextRInv ==
  ASSUME RInv, [Next]_vars PROVE RInv'
<1>1. CASE Connect \/ Written \/ Block \/ Expire \/ Close \/ CloseEnds
  BY <1>1, QuietKeeps
<1>2. CASE Connected
  BY <1>2, ConnectedKeeps
<1>3. CASE ConnectFails \/ WriteFails \/ ReadEnds
  BY <1>3, ErrorKeeps
<1>4. CASE Command
  BY <1>4, CommandKeeps
<1>5. CASE ReadChunk
  BY <1>5, ReadChunkKeeps
<1>6. ASSUME NEW k \in DOMAIN wire, Deliver(k) PROVE RInv'
  BY <1>6, DeliverKeeps
<1>7. CASE SocketCloses
  BY <1>7, SocketClosesKeeps
<1>8. CASE Row
  BY <1>8, RowKeeps
<1>9. ASSUME NEW t \in Final, Finish(t) PROVE RInv'
  BY <1>9, FinishKeeps
<1>10. CASE AfterTrap
  BY <1>10, AfterTrapKeeps
<1>11. CASE UNCHANGED vars
  <2>1. UNCHANGED <<state, up, chunks, pc, cmd, late, outcome, got, turn, said, rows, wire>>
    BY <1>11 DEF vars, clientVars, routerVars
  <2>2. TypeOK'
    BY <2>1 DEF RInv, TypeOK
  <2>3. Order'
    BY <2>1 DEF RInv, Order
  <2>4. Clean(cmd)' <=> Clean(cmd)
    BY <2>1 DEF Clean
  <2>5. Starts' = Starts /\ \A start : Stream(cmd, start)' <=> Stream(cmd, start)
    BY <2>1 DEF Starts, Stream, Stretch, Sentence, Uttered
  <2>6. OnItsWay'
    BY <2>1, <2>4, <2>5 DEF RInv, OnItsWay
  <2>7. ASSUME NEW n \in Exchanges, n <= cmd, Clean(n)' PROVE HasRead(n)'
    <3>1. Clean(n)
      BY <2>1, <2>7 DEF Clean
    <3> QED
      BY <2>1, <2>7, <3>1 DEF RInv, HasRead, Answer
  <2>8. \A n \in Exchanges : n <= cmd' /\ Clean(n)' => HasRead(n)'
    BY <2>1, <2>7
  <2> QED
    BY <2>2, <2>3, <2>6, <2>8 DEF RInv
<1> QED
  BY <1>1, <1>2, <1>3, <1>4, <1>5, <1>6, <1>7, <1>8, <1>9, <1>10, <1>11 DEF Next, Read

\* Where a connection stands, and that what is on its way to the client, as long
\* as no command has failed, is the answer to the command it waits for.
THEOREM RInvariance == Spec => []RInv
<1>1. Init => RInv
  BY InitRInv
<1>2. RInv /\ [Next]_vars => RInv'
  BY NextRInv
<1> QED
  BY <1>1, <1>2, PTL DEF Spec

\* Every variable of a connection has its type, and only the command issued last
\* is ever pending.
THEOREM ConnectionTypeCorrect == Spec => []TypeOK
<1>1. RInv => TypeOK
  BY DEF RInv
<1> QED
  BY <1>1, RInvariance, PTL

\* Before the first command that fails, every command reads the rows sent for it
\* in their order, and one that succeeds has read them all.
THEOREM AnswersAlwaysMatch == Spec => []AnswersMatch
<1>1. ASSUME RInv PROVE AnswersMatch
  <2>1. SUFFICES ASSUME NEW n \in Commands, \A m \in 0 .. n - 1 : outcome[m] = "ok"
                 PROVE  /\ got[n] = Answer(n, Len(got[n]))
                        /\ outcome[n] = "ok" => said[n] = "done" /\ Len(got[n]) = rows[n]
    BY DEF AnswersMatch
  <2>2. n \in Exchanges /\ n \in Nat /\ cmd \in Nat
    BY <1>1, Sizes DEF RInv, TypeOK, Exchanges
  <2>3. CASE n <= cmd
    BY <1>1, <2>1, <2>2, <2>3 DEF RInv, Clean, HasRead
  <2>4. CASE n > cmd
    <3>1. got[n] = <<>> /\ outcome[n] = "none"
      BY <1>1, <2>2, <2>4 DEF RInv, Order
    <3>2. Len(<<>>) = 0 /\ Answer(n, 0) = <<>>
      BY DEF Answer
    <3> QED
      BY <3>1, <3>2
  <2> QED
    BY <2>2, <2>3, <2>4
<1> QED
  BY <1>1, RInvariance, PTL
=============================================================================
