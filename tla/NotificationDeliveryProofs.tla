---------------------- MODULE NotificationDeliveryProofs ----------------------
(***************************************************************************)
(* Proofs about the delivery queue of notifications, for every number of   *)
(* channels, deliveries and worker activations that are live together.     *)
(***************************************************************************)
EXTENDS NotificationDelivery, FiniteSetTheorems, TLAPS

-----------------------------------------------------------------------------
(* The constants, sequences, and the lists the store makes                 *)

LEMMA Bounds ==
  /\ MaxDeliveries \in Nat /\ MaxWorkers \in Nat /\ MaxCalls \in Nat /\ KeepStored \in Nat \ {0}
  /\ Ids \subseteq Nat \ {0} /\ IsFiniteSet(Ids)
  /\ Workers \subseteq Nat /\ IsFiniteSet(Workers)
  /\ InApp \cap External = {} /\ Channels # {} /\ IsFiniteSet(Channels)
<1>1. MaxDeliveries \in Nat /\ MaxWorkers \in Nat
  BY NotificationAssumption
<1>2. IsFiniteSet(1 .. MaxDeliveries) /\ IsFiniteSet(1 .. MaxWorkers)
  BY <1>1, FS_Interval
<1> QED
  BY <1>1, <1>2, NotificationAssumption DEF Ids, Workers, Channels

\* A list without repetitions, its first delivery and the others.
LEMMA Rest ==
  ASSUME NEW S, NEW q \in Seq(S), q # <<>>
  PROVE  /\ Len(q) \in Nat \ {0} /\ Head(q) \in S /\ Head(q) = q[1]
         /\ Tail(q) \in Seq(S) /\ Len(Tail(q)) = Len(q) - 1
         /\ \A i \in 1 .. Len(Tail(q)) : i + 1 \in 1 .. Len(q) /\ Tail(q)[i] = q[i + 1]
         /\ Len(q) = 1 => Tail(q) = <<>>
         /\ IsInjective(q) =>
              /\ IsInjective(Tail(q))
              /\ \A i \in 1 .. Len(Tail(q)) : Tail(q)[i] # Head(q)
<1>1. Len(q) \in Nat \ {0}
  OBVIOUS
<1>2. /\ Head(q) \in S /\ Head(q) = q[1]
      /\ Tail(q) \in Seq(S) /\ Len(Tail(q)) = Len(q) - 1
      /\ \A i \in 1 .. Len(Tail(q)) : i + 1 \in 1 .. Len(q) /\ Tail(q)[i] = q[i + 1]
  BY <1>1
<1>3. Len(q) = 1 => Tail(q) = <<>>
  <2> SUFFICES ASSUME Len(q) = 1 PROVE Tail(q) = <<>>
    OBVIOUS
  <2> DEFINE r == Tail(q)
  <2>1. Len(r) = 0 /\ r \in Seq(S)
    BY <1>2
  <2> HIDE DEF r
  <2>2. r = <<>>
    BY <2>1
  <2> QED
    BY <2>2 DEF r
<1>4. ASSUME IsInjective(q)
      PROVE  IsInjective(Tail(q)) /\ \A i \in 1 .. Len(Tail(q)) : Tail(q)[i] # Head(q)
  <2>1. \A i, j \in 1 .. Len(q) : q[i] = q[j] => i = j
    BY <1>4 DEF IsInjective
  <2>2. DOMAIN Tail(q) = 1 .. Len(Tail(q))
    BY <1>2
  <2>3. \A i, j \in 1 .. Len(Tail(q)) : Tail(q)[i] = Tail(q)[j] => i = j
    BY <1>1, <1>2, <2>1
  <2>4. \A i \in 1 .. Len(Tail(q)) : Tail(q)[i] # Head(q)
    BY <1>1, <1>2, <2>1
  <2> QED
    BY <2>2, <2>3, <2>4 DEF IsInjective
<1> QED
  BY <1>1, <1>2, <1>3, <1>4

\* The places of different deliveries are different, in the order of Before.
LEMMA PlaceOrders ==
  ASSUME NEW S \in SUBSET Ids, NEW tm \in [Ids -> Nat], NEW d \in S, NEW e \in S, Before(tm, d, e)
  PROVE  Place(S, tm, d) < Place(S, tm, e)
<1> DEFINE D == {a \in S : Before(tm, a, d)}
           E == {a \in S : Before(tm, a, e)}
<1>1. \A a \in Ids : tm[a] \in Nat /\ a \in Nat
  BY Bounds
<1>2. \A a \in S : Before(tm, a, d) => Before(tm, a, e)
  BY <1>1 DEF Before
<1>3. ~Before(tm, d, d)
  BY <1>1 DEF Before
<1>4. D \in SUBSET E /\ d \in E /\ d \notin D
  BY <1>2, <1>3
<1>5. IsFiniteSet(S) /\ E \in SUBSET S
  BY Bounds, FS_Subset
<1>6. IsFiniteSet(E)
  BY <1>5, FS_Subset
<1>7. IsFiniteSet(D) /\ Cardinality(D) <= Cardinality(E) /\ (Cardinality(E) = Cardinality(D) => E = D)
  BY <1>4, <1>6, FS_Subset
<1>8. Cardinality(D) \in Nat /\ Cardinality(E) \in Nat
  BY <1>6, <1>7, FS_CardinalityType
<1>9. Cardinality(D) < Cardinality(E)
  BY <1>4, <1>7, <1>8
<1> QED
  BY <1>8, <1>9 DEF Place

\* Every place up to the number of deliveries is taken, by one of them.
LEMMA PlacesTaken ==
  ASSUME NEW S \in SUBSET Ids, NEW tm \in [Ids -> Nat]
  PROVE  /\ Cardinality(S) \in Nat
         /\ \A i \in 1 .. Cardinality(S) : \E d \in S : Place(S, tm, d) = i
<1> DEFINE n == Cardinality(S)
           T == 1 .. n
           f == [d \in S |-> Place(S, tm, d)]
<1>1. IsFiniteSet(S)
  BY Bounds, FS_Subset
<1>2. n \in Nat
  BY <1>1, FS_CardinalityType
<1>3. ASSUME NEW d \in S PROVE Place(S, tm, d) \in T
  <2> DEFINE D == {a \in S : Before(tm, a, d)}
  <2>1. d \notin D
    BY Bounds DEF Before
  <2>2. D \in SUBSET S /\ D # S
    BY <2>1
  <2>3. IsFiniteSet(D) /\ Cardinality(D) <= n /\ (n = Cardinality(D) => S = D)
    BY <1>1, <2>2, FS_Subset
  <2>4. Cardinality(D) \in Nat
    BY <2>3, FS_CardinalityType
  <2>5. Cardinality(D) + 1 \in 1 .. n
    BY <1>2, <2>2, <2>3, <2>4
  <2> QED
    BY <2>5 DEF Place
<1>4. ASSUME NEW d \in S, NEW e \in S, d # e PROVE Place(S, tm, d) # Place(S, tm, e)
  <2>1. Before(tm, d, e) \/ Before(tm, e, d)
    <3>1. tm[d] \in Nat /\ tm[e] \in Nat /\ d \in Nat /\ e \in Nat
      BY Bounds
    <3> QED
      BY <1>4, <3>1 DEF Before
  <2>2. Place(S, tm, d) \in Int /\ Place(S, tm, e) \in Int
    BY <1>3
  <2> QED
    BY <2>1, <2>2, PlaceOrders
<1>5. f \in Injection(S, T)
  <2>1. f \in [S -> T]
    BY <1>3
  <2>2. \A d, e \in S : f[d] = f[e] => d = e
    BY <1>4
  <2> HIDE DEF f, T
  <2> QED
    BY <2>1, <2>2 DEF Injection, IsInjective
<1>6. IsFiniteSet(T) /\ Cardinality(T) = n
  BY <1>2, FS_Interval
<1>7. f \in Surjection(S, T)
  <2> HIDE DEF f, T
  <2> QED
    BY <1>1, <1>5, <1>6, FS_Injection DEF n
<1>8. \A i \in T : \E d \in S : f[d] = i
  <2> HIDE DEF f, T
  <2> QED
    BY <1>7 DEF Surjection
<1> QED
  BY <1>2, <1>8

\* What a list of the store is: deliveries of the set, each once, and not none
\* unless there are none or none was asked for.
LEMMA ListedType ==
  ASSUME NEW S \in SUBSET Ids, NEW tm \in [Ids -> Nat], NEW limit \in Nat
  PROVE  /\ Listed(S, tm, limit) \in Seq(S)
         /\ Listed(S, tm, limit) \in Seq(Ids)
         /\ IsInjective(Listed(S, tm, limit))
         /\ S # {} /\ limit # 0 => Listed(S, tm, limit) # <<>>
<1> DEFINE n == IF limit < Cardinality(S) THEN limit ELSE Cardinality(S)
           at(i) == CHOOSE d \in S : Place(S, tm, d) = i
           l == [i \in 1 .. n |-> at(i)]
<1>1. Cardinality(S) \in Nat /\ n \in Nat /\ \A i \in 1 .. n : \E d \in S : Place(S, tm, d) = i
  BY PlacesTaken
<1>2. \A i \in 1 .. n : at(i) \in S /\ Place(S, tm, at(i)) = i
  BY <1>1
<1>3. Listed(S, tm, limit) = l
  BY DEF Listed
<1>4. S # {} /\ limit # 0 => n # 0
  <2>1. IsFiniteSet(S)
    BY Bounds, FS_Subset
  <2>2. Cardinality(S) = 0 <=> S = {}
    BY <2>1, FS_EmptySet
  <2> QED
    BY <1>1, <2>2
<1> HIDE DEF at, n
<1>5. l \in Seq(S) /\ l \in Seq(Ids) /\ DOMAIN l = 1 .. n /\ Len(l) = n
  BY <1>1, <1>2
<1>6. IsInjective(l)
  BY <1>2, <1>5 DEF IsInjective
<1>7. n # 0 => l # <<>>
  <2>1. PICK r \in Seq(S) : r = l /\ Len(r) = n
    BY <1>5
  <2>2. n # 0 => r # <<>>
    BY <2>1
  <2> QED
    BY <2>1, <2>2
<1> QED
  BY <1>3, <1>4, <1>5, <1>6, <1>7

-----------------------------------------------------------------------------
(* The inductive invariant                                                 *)

Statuses == {"none", "pending", "sent", "failed", "skipped", "dropped"}

NTypes ==
  /\ channel \in [Channels -> {"enabled", "disabled", "deleted"}]
  /\ size \in 0 .. MaxDeliveries
  /\ to \in [Ids -> Channels]
  /\ time \in [Ids -> Nat]
  /\ status \in [Ids -> Statuses]
  /\ \A d \in Ids : status[d] = "none" <=> d > size
  /\ attempts \in [Ids -> Nat] /\ received \in [Ids -> Nat]
  /\ uncounted \in [Ids -> Nat] /\ asked \in [Ids -> Nat]
  /\ sending \in [Workers -> {"no", "request", "answer"}]
  /\ allow \in [Workers -> BOOLEAN]
  /\ alone \in BOOLEAN
  /\ batch \in [Ids -> 0 .. size]

\* A list holds each delivery once, all of them in the store; a worker without a
\* list has no request under way.
Lists ==
  /\ todo \in [Workers -> Seq(Ids)]
  /\ \A w \in Workers :
       /\ IsInjective(todo[w])
       /\ \A i \in 1 .. Len(todo[w]) : status[todo[w][i]] \notin {"none", "dropped"}
       /\ Free(w) => sending[w] = "no"

Counted ==
  /\ \A d \in Ids :
       /\ received[d] <= attempts[d] + Cardinality(Awaited(d)) + uncounted[d]
       /\ status[d] = "none" => received[d] = 0
       /\ status[d] = "sent" /\ to[d] \in External => received[d] > 0
  /\ \A w \in Workers : sending[w] = "answer" => received[Head(todo[w])] > 0

\* With one activation at a time, what it holds is pending; and a pending delivery
\* that awaits no answer may be received once more.
Requested ==
  /\ \A v, w \in Workers : ~Free(v) /\ ~Free(w) => v = w
  /\ \A w \in Workers : \A i \in 1 .. Len(todo[w]) : status[todo[w][i]] = "pending"
  /\ \A d \in Ids :
       /\ received[d] <= 1 + asked[d] + uncounted[d]
       /\ status[d] = "pending" /\ Awaited(d) = {} => received[d] <= asked[d] + uncounted[d]

NInv == NTypes /\ Lists /\ Counted /\ (alone => Requested)

LEMMA InitNInv == Init => NInv
<1> SUFFICES ASSUME Init PROVE NInv
  OBVIOUS
<1>1. size = 0 /\ \A d \in Ids : status[d] = "none" /\ received[d] = 0
                                /\ attempts[d] = 0 /\ uncounted[d] = 0 /\ asked[d] = 0
  BY DEF Init
<1>2. \A w \in Workers : todo[w] = <<>> /\ sending[w] = "no"
  BY DEF Init
<1>3. NTypes
  <2>1. \A d \in Ids : d > 0
    BY Bounds
  <2>2. /\ to \in [Ids -> Channels] /\ 0 \in 0 .. MaxDeliveries
    BY Bounds DEF Init
  <2> QED
    BY <1>1, <2>1, <2>2 DEF Init, NTypes, Statuses
<1>4. Lists
  <2>1. todo \in [Workers -> Seq(Ids)]
    BY DEF Init
  <2>2. IsInjective(<<>>) /\ Len(<<>>) = 0
    BY DEF IsInjective
  <2> QED
    BY <1>2, <2>1, <2>2 DEF Lists
<1>5. \A d \in Ids : Awaited(d) = {}
  BY <1>2 DEF Awaited
<1>6. Counted
  BY <1>1, <1>2, <1>5, FS_EmptySet DEF Counted
<1>7. Requested
  BY <1>1, <1>2, <1>5 DEF Requested, Free
<1> QED
  BY <1>3, <1>4, <1>6, <1>7 DEF NInv

-----------------------------------------------------------------------------
(* A worker begins on a list                                               *)

\* What the numbers of messages, and of workers that await an answer, are.
LEMMA Numbers ==
  ASSUME NTypes, NEW d \in Ids
  PROVE  /\ received[d] \in Nat /\ attempts[d] \in Nat /\ uncounted[d] \in Nat /\ asked[d] \in Nat
         /\ IsFiniteSet(Awaited(d)) /\ Cardinality(Awaited(d)) \in Nat
<1>1. Awaited(d) \in SUBSET Workers
  BY DEF Awaited
<1>2. IsFiniteSet(Awaited(d))
  BY <1>1, Bounds, FS_Subset
<1> QED
  BY <1>2, FS_CardinalityType DEF NTypes

LEMMA BeginKeeps ==
  ASSUME NInv, NEW w \in Workers, NEW l \in Seq(Ids), NEW a \in BOOLEAN,
         FirstFree(w), Begin(w, l, a), IsInjective(l),
         \A i \in 1 .. Len(l) : status'[l[i]] = "pending",
         UNCHANGED <<channel, attempts, received, uncounted>>,
         size' \in 0 .. MaxDeliveries,
         to' \in [Ids -> Channels], time' \in [Ids -> Nat], asked' \in [Ids -> Nat],
         status' \in [Ids -> Statuses], batch' \in [Ids -> 0 .. size'],
         \A d \in Ids : status'[d] = "none" <=> d > size',
         \A d \in Ids : status[d] # "none" => to'[d] = to[d],
         \A d \in Ids : status'[d] = status[d] \/ status'[d] = "pending",
         \A d \in Ids : asked'[d] >= asked[d],
         \A d \in Ids : status'[d] = "pending" =>
                          status[d] \in {"none", "pending"} \/ asked'[d] > asked[d],
         l = <<>> => status' = status
  PROVE  NInv'
<1>1. /\ todo' = [todo EXCEPT ![w] = l] /\ allow' = [allow EXCEPT ![w] = a]
      /\ sending' = [sending EXCEPT ![w] = "no"]
      /\ alone' = (alone /\ (l = <<>> \/ \A v \in Workers : Free(v)))
      /\ todo[w] = <<>>
  BY DEF Begin, FirstFree, Free
<1>2. sending[w] = "no"
  BY <1>1 DEF NInv, Lists, Free
<1>3. /\ todo' \in [Workers -> Seq(Ids)] /\ todo'[w] = l
      /\ \A v \in Workers : v # w => todo'[v] = todo[v]
      /\ sending' = sending
  BY <1>1, <1>2 DEF NInv, NTypes, Lists
<1>4. NTypes'
  BY <1>1, <1>3, ZenonT(40) DEF NInv, NTypes
<1>5. Lists'
  <2>1. ASSUME NEW v \in Workers
        PROVE  /\ IsInjective(todo'[v])
               /\ \A i \in 1 .. Len(todo'[v]) : status'[todo'[v][i]] \notin {"none", "dropped"}
               /\ todo'[v] = <<>> => sending'[v] = "no"
    <3>1. CASE v = w
      BY <1>2, <1>3, <3>1
    <3>2. CASE v # w
      <4>1. todo'[v] = todo[v] /\ todo[v] \in Seq(Ids)
        BY <1>3, <3>2 DEF NInv, Lists
      <4>2. \A i \in 1 .. Len(todo[v]) : todo[v][i] \in Ids
        BY <4>1
      <4>3. \A i \in 1 .. Len(todo[v]) : status[todo[v][i]] \notin {"none", "dropped"}
        BY DEF NInv, Lists
      <4>4. \A i \in 1 .. Len(todo[v]) : status'[todo[v][i]] \notin {"none", "dropped"}
        BY <4>2, <4>3
      <4> QED
        BY <1>3, <4>1, <4>4 DEF NInv, Lists, Free
    <3> QED
      BY <3>1, <3>2
  <2> QED
    BY <1>3, <2>1 DEF Lists, Free
<1>6. ASSUME NEW d PROVE Awaited(d)' = Awaited(d)
  <2>1. \A v \in Workers : sending[v] = "answer" => todo'[v] = todo[v]
    BY <1>2, <1>3
  <2>2. \A v \in Workers : sending[v] = "answer" => Head(todo'[v]) = Head(todo[v])
    BY <2>1
  <2> QED
    BY <1>3, <2>2 DEF Awaited
<1>7. Counted'
  <2>1. ASSUME NEW d \in Ids
        PROVE  /\ received[d] <= attempts[d] + Cardinality(Awaited(d)) + uncounted[d]
               /\ status'[d] = "none" => received[d] = 0
               /\ status'[d] = "sent" /\ to'[d] \in External => received[d] > 0
    BY DEF NInv, Counted
  <2>2. \A v \in Workers : sending[v] = "answer" => v # w /\ received[Head(todo[v])] > 0
    BY <1>2 DEF NInv, Counted
  <2> QED
    BY <1>3, <1>6, <2>1, <2>2 DEF Counted
<1>8. ASSUME alone' PROVE Requested'
  <2>1. Requested /\ (l = <<>> \/ \A v \in Workers : todo[v] = <<>>)
    BY <1>1, <1>8 DEF NInv, Free
  <2>2. \A v, u \in Workers : todo'[v] # <<>> /\ todo'[u] # <<>> => v = u
    BY <1>1, <1>3, <2>1 DEF Requested, Free
  <2>3. ASSUME NEW v \in Workers PROVE \A i \in 1 .. Len(todo'[v]) : status'[todo'[v][i]] = "pending"
    <3>1. CASE v = w
      BY <1>3, <3>1
    <3>2. CASE v # w /\ l = <<>>
      <4>1. todo'[v] = todo[v] /\ status' = status
        BY <1>3, <3>2
      <4> QED
        BY <2>1, <4>1 DEF Requested
    <3>3. CASE v # w /\ todo[v] = <<>>
      BY <1>3, <3>3
    <3> QED
      BY <2>1, <3>1, <3>2, <3>3
  <2>4. ASSUME NEW d \in Ids
        PROVE  /\ received[d] <= 1 + asked'[d] + uncounted[d]
               /\ status'[d] = "pending" /\ Awaited(d) = {} => received[d] <= asked'[d] + uncounted[d]
    <3>1. /\ received[d] \in Nat /\ uncounted[d] \in Nat /\ asked[d] \in Nat /\ asked'[d] \in Nat
          /\ asked'[d] >= asked[d]
      BY Numbers DEF NInv
    <3>2. received[d] <= 1 + asked[d] + uncounted[d]
      BY <2>1 DEF Requested
    <3>3. status[d] = "pending" /\ Awaited(d) = {} => received[d] <= asked[d] + uncounted[d]
      BY <2>1 DEF Requested
    <3>4. status[d] = "none" => received[d] = 0
      BY DEF NInv, Counted
    <3>5. ASSUME status'[d] = "pending", Awaited(d) = {} PROVE received[d] <= asked'[d] + uncounted[d]
      <4>1. status[d] = "none" \/ status[d] = "pending" \/ asked'[d] > asked[d]
        BY <3>5
      <4> QED
        BY <3>1, <3>2, <3>3, <3>4, <3>5, <4>1, SMTT(30)
    <3>6. received[d] <= 1 + asked'[d] + uncounted[d]
      BY <3>1, <3>2, SMTT(30)
    <3> QED
      BY <3>5, <3>6
  <2> QED
    BY <1>6, <2>2, <2>3, <2>4 DEF Requested, Free
<1> QED
  BY <1>4, <1>5, <1>7, <1>8 DEF NInv

\* Of all pending deliveries the worker's list holds some, each once.
LEMMA WaitingListed ==
  ASSUME NEW st \in [Ids -> Statuses], NEW tm \in [Ids -> Nat], NEW limit \in Nat,
         NEW l, l = Listed(Waiting(st), tm, limit)
  PROVE  /\ l \in Seq(Ids) /\ IsInjective(l)
         /\ \A i \in 1 .. Len(l) : st[l[i]] = "pending"
         /\ l = <<>> /\ limit # 0 => \A d \in Ids : st[d] # "pending"
<1>1. Waiting(st) \in SUBSET Ids
  BY DEF Waiting
<1>2. /\ l \in Seq(Waiting(st)) /\ l \in Seq(Ids) /\ IsInjective(l)
      /\ Waiting(st) # {} /\ limit # 0 => l # <<>>
  BY <1>1, ListedType
<1>3. \A i \in 1 .. Len(l) : l[i] \in Waiting(st)
  BY <1>2
<1> QED
  BY <1>2, <1>3 DEF Waiting

LEMMA EnqueueKeeps ==
  ASSUME NInv, NEW w \in Workers, NEW C \in SUBSET Channels, Enqueue(w, C) PROVE NInv'
<1>1. IsFiniteSet(C)
  BY Bounds, FS_Subset
<1>2. Cardinality(C) \in Nat \ {0}
  <2>1. C # {}
    BY DEF Enqueue
  <2> QED
    BY <1>1, <2>1, FS_EmptySet, FS_CardinalityType
<1> DEFINE n == Cardinality(C)
           new == size + 1 .. size'
<1>3. /\ FirstFree(w) /\ size + n <= MaxDeliveries /\ size' = size + n
      /\ UNCHANGED <<channel, attempts, received, uncounted, asked>>
      /\ Begin(w, Listed(Waiting(status'), time', n), FALSE)
  BY DEF Enqueue, Limit
<1>4. PICK q \in SetToSeqs(C), later \in {0, 1} :
        /\ to' = [d \in Ids |-> IF d \in new THEN q[d - size] ELSE to[d]]
        /\ time' = [d \in Ids |->
             IF d \in new THEN later + (IF size = 0 THEN 0 ELSE time[size]) ELSE time[d]]
        /\ status' = [d \in Ids |-> IF d \in new THEN "pending" ELSE status[d]]
        /\ batch' = [d \in Ids |-> IF d \in new THEN size + 1 ELSE batch[d]]
  BY DEF Enqueue
<1>5. size \in Nat /\ MaxDeliveries \in Nat /\ n \in Nat \ {0} /\ size <= MaxDeliveries
  BY <1>2, Bounds DEF NInv, NTypes
<1> HIDE DEF n
<1>6. /\ size' \in 0 .. MaxDeliveries /\ size' >= size + 1
      /\ \A d \in new : d > size /\ d - size \in 1 .. n
      /\ new \subseteq Ids /\ size + 1 \in new
  BY <1>3, <1>5 DEF Ids
<1>7. q \in [1 .. n -> C]
  BY DEF SetToSeqs, n
<1>8. to' \in [Ids -> Channels]
  BY <1>4, <1>6, <1>7 DEF NInv, NTypes
<1>9. time' \in [Ids -> Nat]
  <2>1. \A d \in Ids : time[d] \in Nat
    BY DEF NInv, NTypes
  <2>2. (IF size = 0 THEN 0 ELSE time[size]) \in Nat
    BY <1>5, <2>1 DEF Ids
  <2>3. later + (IF size = 0 THEN 0 ELSE time[size]) \in Nat
    BY <2>2
  <2> QED
    BY <1>4, <2>1, <2>3
<1>10. /\ status' \in [Ids -> Statuses]
       /\ \A d \in Ids : status'[d] = (IF d \in new THEN "pending" ELSE status[d])
  BY <1>4 DEF NInv, NTypes, Statuses
<1>11. \A d \in Ids : status[d] = "none" <=> d > size
  BY DEF NInv, NTypes
<1>12. \A d \in Ids : d \in new <=> d > size /\ ~(d > size')
  BY <1>3, <1>5, <1>6 DEF Ids
<1>13. /\ \A d \in Ids : status'[d] = "none" <=> d > size'
       /\ \A d \in Ids : status[d] # "none" => to'[d] = to[d]
       /\ \A d \in Ids : status'[d] = "pending" => status[d] \in {"none", "pending"}
  <2>1. \A d \in Ids : d > size' => d > size
    BY <1>5, <1>6 DEF Ids
  <2> QED
    BY <1>4, <1>10, <1>11, <1>12, <2>1
<1>14. batch' \in [Ids -> 0 .. size']
  <2>1. \A d \in Ids : batch[d] \in 0 .. size
    BY DEF NInv, NTypes
  <2>2. \A k \in 0 .. size : k \in 0 .. size'
    BY <1>5, <1>6
  <2>3. size + 1 \in 0 .. size'
    BY <1>5, <1>6
  <2> QED
    BY <1>4, <2>1, <2>2, <2>3
<1>15. PICK l : l = Listed(Waiting(status'), time', n)
  OBVIOUS
<1>16. /\ l \in Seq(Ids) /\ IsInjective(l)
       /\ \A i \in 1 .. Len(l) : status'[l[i]] = "pending"
       /\ l = <<>> => \A d \in Ids : status'[d] # "pending"
  BY <1>5, <1>9, <1>10, <1>15, WaitingListed
<1>17. l # <<>>
  BY <1>6, <1>10, <1>16
<1>18. Begin(w, l, FALSE) /\ FALSE \in BOOLEAN
  BY <1>3, <1>15
<1>19. /\ asked' \in [Ids -> Nat] /\ \A d \in Ids : asked'[d] >= asked[d]
       /\ UNCHANGED <<channel, attempts, received, uncounted>>
  BY <1>3 DEF NInv, NTypes
<1> HIDE DEF new
<1> QED
  BY <1>3, <1>6, <1>8, <1>9, <1>10, <1>13, <1>14, <1>16, <1>17, <1>18, <1>19, BeginKeeps

LEMMA ProcessPendingKeeps ==
  ASSUME NInv, NEW w \in Workers, NEW limit \in Nat, ProcessPending(w, limit) PROVE NInv'
<1>1. /\ FirstFree(w) /\ Begin(w, Listed(Waiting(status), time, limit), FALSE)
      /\ UNCHANGED <<channel, size, to, time, status, attempts, received, uncounted, asked, batch>>
  BY DEF ProcessPending, deliveryVars
<1>2. /\ size \in 0 .. MaxDeliveries /\ to \in [Ids -> Channels] /\ time \in [Ids -> Nat]
      /\ asked \in [Ids -> Nat] /\ status \in [Ids -> Statuses] /\ batch \in [Ids -> 0 .. size]
      /\ \A d \in Ids : status[d] = "none" <=> d > size
  BY DEF NInv, NTypes
<1>3. PICK l : l = Listed(Waiting(status), time, limit)
  OBVIOUS
<1>4. l \in Seq(Ids) /\ IsInjective(l) /\ \A i \in 1 .. Len(l) : status[l[i]] = "pending"
  <2>1. status \in [Ids -> Statuses] /\ time \in [Ids -> Nat]
    BY <1>2
  <2> QED
    BY <1>3, <2>1, WaitingListed
<1>5. \A d \in Ids : asked'[d] >= asked[d]
  BY <1>1, <1>2
<1> QED
  BY <1>1, <1>2, <1>3, <1>4, <1>5, BeginKeeps

LEMMA RetryFailedKeeps ==
  ASSUME NInv, NEW w \in Workers, NEW limit \in Nat, RetryFailed(w, limit) PROVE NInv'
<1> DEFINE failed == Listed({d \in Ids : status[d] = "failed"}, time, limit)
           skipped == Listed({d \in Ids : status[d] = "skipped"}, time, limit)
           both == failed \o skipped
           R == {both[i] : i \in {j \in DOMAIN both : j <= limit}}
<1>1. /\ FirstFree(w) /\ MarkPending(R) /\ Ask(R)
      /\ Begin(w, Listed(Waiting(status'), time, AtLeastOne(Cardinality(R))), FALSE)
      /\ UNCHANGED <<channel, size, to, time, received, uncounted, batch>>
  BY DEF RetryFailed
<1>2. /\ size \in 0 .. MaxDeliveries /\ to \in [Ids -> Channels] /\ time \in [Ids -> Nat]
      /\ asked \in [Ids -> Nat] /\ status \in [Ids -> Statuses] /\ batch \in [Ids -> 0 .. size]
      /\ \A d \in Ids : status[d] = "none" <=> d > size
  BY DEF NInv, NTypes
<1>3. R \subseteq {d \in Ids : status[d] \in {"failed", "skipped"}}
  <2> DEFINE F == {d \in Ids : status[d] = "failed"}
             K == {d \in Ids : status[d] = "skipped"}
             B == {d \in Ids : status[d] \in {"failed", "skipped"}}
  <2>1. failed \in Seq(F) /\ skipped \in Seq(K)
    BY <1>2, ListedType
  <2> HIDE DEF failed, skipped
  <2>2. failed \in Seq(B) /\ skipped \in Seq(B)
    BY <2>1
  <2> HIDE DEF B
  <2>3. both \in Seq(B)
    BY <2>2
  <2> HIDE DEF both
  <2>4. \A i \in DOMAIN both : both[i] \in B
    BY <2>3
  <2> QED
    BY <2>4 DEF B
<1> HIDE DEF R
<1>4. IsFiniteSet(R) /\ R \in SUBSET Ids
  BY <1>3, Bounds, FS_Subset
<1>5. AtLeastOne(Cardinality(R)) \in Nat \ {0}
  <2>1. Cardinality(R) \in Nat
    BY <1>4, FS_CardinalityType
  <2> QED
    BY <2>1 DEF AtLeastOne
<1>6. /\ status' \in [Ids -> Statuses] /\ attempts' = attempts
      /\ \A d \in Ids : status'[d] = (IF d \in R THEN "pending" ELSE status[d])
  BY <1>1, <1>2 DEF MarkPending, Statuses
<1>7. /\ asked' \in [Ids -> Nat]
      /\ \A d \in Ids : asked'[d] = (IF d \in R THEN asked[d] + 1 ELSE asked[d])
      /\ \A d \in Ids : asked[d] \in Nat
  BY <1>1, <1>2 DEF Ask
<1>8. /\ \A d \in Ids : asked'[d] >= asked[d]
      /\ \A d \in R : asked'[d] > asked[d]
  BY <1>4, <1>7
<1>9. \A d \in Ids : status'[d] = "pending" => status[d] \in {"none", "pending"} \/ asked'[d] > asked[d]
  BY <1>6, <1>8
<1>10. PICK l : l = Listed(Waiting(status'), time, AtLeastOne(Cardinality(R)))
  OBVIOUS
<1>11. /\ l \in Seq(Ids) /\ IsInjective(l)
       /\ \A i \in 1 .. Len(l) : status'[l[i]] = "pending"
       /\ l = <<>> => \A d \in Ids : status'[d] # "pending"
  <2>1. status' \in [Ids -> Statuses] /\ time \in [Ids -> Nat]
    BY <1>2, <1>6
  <2>2. PICK k \in Nat : k = AtLeastOne(Cardinality(R)) /\ k # 0
    BY <1>5
  <2> QED
    BY <1>10, <2>1, <2>2, WaitingListed
<1>12. l = <<>> => status' = status
  <2> SUFFICES ASSUME l = <<>> PROVE status' = status
    OBVIOUS
  <2>1. \A d \in Ids : status'[d] = status[d]
    BY <1>6, <1>11
  <2> QED
    BY <1>2, <1>6, <2>1
<1>13. \A d \in Ids : status'[d] = "none" <=> d > size
  BY <1>2, <1>3, <1>6
<1> QED
  BY <1>1, <1>2, <1>6, <1>7, <1>8, <1>9, <1>10, <1>11, <1>12, <1>13, BeginKeeps

LEMMA OneListed ==
  ASSUME NEW d \in Ids
  PROVE  /\ <<d>> \in Seq(Ids) /\ <<d>> # <<>> /\ IsInjective(<<d>>)
         /\ Len(<<d>>) = 1 /\ <<d>>[1] = d
BY DEF IsInjective

LEMMA RetryKeeps ==
  ASSUME NInv, NEW w \in Workers, NEW d \in Stored, Retry(w, d) PROVE NInv'
<1>1. /\ FirstFree(w) /\ MarkPending({d}) /\ Ask({d}) /\ Begin(w, <<d>>, FALSE)
      /\ UNCHANGED <<channel, size, to, time, received, uncounted, batch>>
  BY DEF Retry
<1>2. /\ size \in 0 .. MaxDeliveries /\ to \in [Ids -> Channels] /\ time \in [Ids -> Nat]
      /\ asked \in [Ids -> Nat] /\ status \in [Ids -> Statuses] /\ batch \in [Ids -> 0 .. size]
      /\ \A e \in Ids : status[e] = "none" <=> e > size
  BY DEF NInv, NTypes
<1>3. d \in Ids /\ ~(d > size)
  BY <1>2, Bounds DEF Stored, Ids
<1>4. /\ status' \in [Ids -> Statuses] /\ attempts' = attempts
      /\ \A e \in Ids : status'[e] = (IF e = d THEN "pending" ELSE status[e])
  BY <1>1, <1>2 DEF MarkPending, Statuses
<1>5. /\ asked' \in [Ids -> Nat]
      /\ \A e \in Ids : asked'[e] = (IF e = d THEN asked[e] + 1 ELSE asked[e])
      /\ \A e \in Ids : asked[e] \in Nat
  BY <1>1, <1>2 DEF Ask
<1>6. /\ \A e \in Ids : asked'[e] >= asked[e]
      /\ asked'[d] > asked[d]
  BY <1>3, <1>5
<1>7. \A e \in Ids : status'[e] = "pending" => status[e] \in {"none", "pending"} \/ asked'[e] > asked[e]
  BY <1>4, <1>6
<1>8. PICK l : l = <<d>>
  OBVIOUS
<1>9. /\ l \in Seq(Ids) /\ IsInjective(l) /\ l # <<>>
      /\ \A i \in 1 .. Len(l) : status'[l[i]] = "pending"
  BY <1>3, <1>4, <1>8, OneListed
<1>10. \A e \in Ids : status'[e] = "none" <=> e > size
  BY <1>2, <1>3, <1>4
<1> QED
  BY <1>1, <1>2, <1>4, <1>5, <1>6, <1>7, <1>8, <1>9, <1>10, BeginKeeps

LEMMA TestChannelKeeps ==
  ASSUME NInv, NEW w \in Workers, NEW c \in Channels, TestChannel(w, c) PROVE NInv'
<1> DEFINE d == size + 1
<1>1. /\ FirstFree(w) /\ size < MaxDeliveries /\ size' = d
      /\ to' = [to EXCEPT ![d] = c]
      /\ time' = [time EXCEPT ![d] = IF d = 1 THEN 0 ELSE time[d - 1]]
      /\ UNCHANGED <<channel, received, uncounted, asked>>
      /\ \/ /\ status' = [status EXCEPT ![d] = "pending"]
            /\ Begin(w, <<d>>, TRUE)
            /\ UNCHANGED <<attempts, batch>>
         \/ MarkEnded(d, "failed") /\ UNCHANGED <<workerVars, alone>>
  BY DEF TestChannel
<1>2. /\ size \in 0 .. MaxDeliveries /\ to \in [Ids -> Channels] /\ time \in [Ids -> Nat]
      /\ asked \in [Ids -> Nat] /\ status \in [Ids -> Statuses] /\ batch \in [Ids -> 0 .. size]
      /\ \A e \in Ids : status[e] = "none" <=> e > size
      /\ attempts \in [Ids -> Nat]
  BY DEF NInv, NTypes
<1>3. /\ d \in Ids /\ d > size /\ size \in Nat /\ size' \in 0 .. MaxDeliveries
      /\ d # 1 => d - 1 \in Ids
  BY <1>1, <1>2, Bounds DEF Ids
<1>4. /\ \A e \in Ids : e > size' <=> e > size /\ e # d
      /\ \A k \in 0 .. size : k \in 0 .. size'
      /\ 0 \in 0 .. size'
  BY <1>1, <1>3 DEF Ids
<1>5. /\ to' \in [Ids -> Channels] /\ time' \in [Ids -> Nat]
      /\ status[d] = "none" /\ \A e \in Ids : e # d => to'[e] = to[e]
  <2>1. (IF d = 1 THEN 0 ELSE time[d - 1]) \in Nat
    BY <1>2, <1>3
  <2> QED
    BY <1>1, <1>2, <1>3, <2>1
<1>6. PICK e : e = d
  OBVIOUS
<1> HIDE DEF d
<1>7. CASE /\ status' = [status EXCEPT ![d] = "pending"]
           /\ Begin(w, <<d>>, TRUE)
           /\ UNCHANGED <<attempts, batch>>
  <2>1. /\ status' \in [Ids -> Statuses]
        /\ \A x \in Ids : status'[x] = (IF x = e THEN "pending" ELSE status[x])
    BY <1>2, <1>3, <1>6, <1>7 DEF Statuses
  <2>2. PICK l : l = <<e>>
    OBVIOUS
  <2>3. /\ l \in Seq(Ids) /\ IsInjective(l) /\ l # <<>>
        /\ \A i \in 1 .. Len(l) : status'[l[i]] = "pending"
    BY <1>3, <1>6, <2>1, <2>2, OneListed
  <2>4. \A x \in Ids : status'[x] = "none" <=> x > size'
    BY <1>2, <1>4, <1>6, <2>1
  <2>5. batch' \in [Ids -> 0 .. size']
    BY <1>2, <1>4, <1>7
  <2>6. /\ \A x \in Ids : status[x] # "none" => to'[x] = to[x]
        /\ \A x \in Ids : status'[x] = "pending" => status[x] \in {"none", "pending"}
        /\ \A x \in Ids : status'[x] = status[x] \/ status'[x] = "pending"
    BY <1>5, <1>6, <2>1
  <2>7. asked' \in [Ids -> Nat] /\ \A x \in Ids : asked'[x] >= asked[x]
    BY <1>1, <1>2
  <2>8. Begin(w, l, TRUE) /\ TRUE \in BOOLEAN
    BY <1>6, <1>7, <2>2
  <2>9. UNCHANGED <<channel, attempts, received, uncounted>>
    BY <1>1, <1>7
  <2> QED
    BY <1>1, <1>3, <1>5, <2>1, <2>3, <2>4, <2>5, <2>6, <2>7, <2>8, <2>9, BeginKeeps
<1>8. CASE MarkEnded(d, "failed") /\ UNCHANGED <<workerVars, alone>>
  <2>1. /\ status' = [status EXCEPT ![d] = "failed"] /\ batch' = [batch EXCEPT ![d] = 0]
        /\ attempts' = [attempts EXCEPT ![d] = @ + 1]
        /\ UNCHANGED <<todo, sending, allow, alone>>
    BY <1>8 DEF MarkEnded, Settled, workerVars
  <2>2. /\ status' \in [Ids -> Statuses] /\ attempts' \in [Ids -> Nat]
        /\ \A x \in Ids : status'[x] = (IF x = d THEN "failed" ELSE status[x])
        /\ \A x \in Ids : x # d => attempts'[x] = attempts[x]
        /\ attempts'[d] = attempts[d] + 1
    BY <1>2, <1>3, <2>1 DEF Statuses
  <2>3. batch' \in [Ids -> 0 .. size']
    BY <1>2, <1>4, <2>1
  <2>4. \A x \in Ids : status'[x] = "none" <=> x > size'
    BY <1>2, <1>4, <2>2
  <2>5. NTypes'
    BY <1>1, <1>3, <1>5, <2>1, <2>2, <2>3, <2>4 DEF NInv, NTypes
  <2>6. \A v \in Workers : todo[v] \in Seq(Ids) /\ \A i \in 1 .. Len(todo[v]) : todo[v][i] \in Ids
    BY DEF NInv, Lists
  <2>7. Lists'
    <3>1. \A v \in Workers : \A i \in 1 .. Len(todo[v]) : status'[todo[v][i]] \notin {"none", "dropped"}
      BY <2>2, <2>6 DEF NInv, Lists
    <3> QED
      BY <2>1, <3>1 DEF NInv, Lists, Free
  <2>8. \A x : Awaited(x)' = Awaited(x)
    BY <2>1 DEF Awaited
  <2>9. Counted'
    <3>1. ASSUME NEW x \in Ids
          PROVE  /\ received[x] <= attempts'[x] + Cardinality(Awaited(x)) + uncounted[x]
                 /\ status'[x] = "none" => received[x] = 0
                 /\ status'[x] = "sent" /\ to'[x] \in External => received[x] > 0
      <4>1. /\ received[x] \in Nat /\ attempts[x] \in Nat /\ uncounted[x] \in Nat
            /\ Cardinality(Awaited(x)) \in Nat
        BY Numbers DEF NInv
      <4>2. attempts'[x] = attempts[x] \/ attempts'[x] = attempts[x] + 1
        BY <2>2
      <4>3. received[x] <= attempts[x] + Cardinality(Awaited(x)) + uncounted[x]
        BY DEF NInv, Counted
      <4>4. received[x] <= attempts'[x] + Cardinality(Awaited(x)) + uncounted[x]
        BY <4>1, <4>2, <4>3
      <4>5. /\ status'[x] = "none" => received[x] = 0
            /\ status'[x] = "sent" /\ to'[x] \in External => received[x] > 0
        BY <1>5, <2>2 DEF NInv, Counted
      <4> QED
        BY <4>4, <4>5
    <3> QED
      BY <1>1, <2>1, <2>8, <3>1 DEF NInv, Counted
  <2>10. ASSUME alone' PROVE Requested'
    <3>1. Requested
      BY <2>1, <2>10 DEF NInv
    <3>2. \A v \in Workers : \A i \in 1 .. Len(todo[v]) : status'[todo[v][i]] = "pending"
      <4>1. \A v \in Workers : \A i \in 1 .. Len(todo[v]) : todo[v][i] # d
        BY <1>5 DEF NInv, Lists
      <4> QED
        BY <2>2, <2>6, <3>1, <4>1 DEF Requested
    <3>3. \A x \in Ids : status'[x] = "pending" => status[x] = "pending"
      BY <2>2
    <3> QED
      BY <1>1, <2>1, <2>8, <3>1, <3>2, <3>3 DEF Requested, Free
  <2> QED
    BY <2>5, <2>7, <2>9, <2>10 DEF NInv
<1> QED
  BY <1>1, <1>7, <1>8

-----------------------------------------------------------------------------
(* A worker goes on, users change channels, the program ends               *)

\* The first delivery of the list is done with, as s says.
LEMMA EndKeeps ==
  ASSUME NInv, NEW w \in Workers, todo[w] # <<>>, Advance(w),
         NEW s \in {"sent", "failed", "skipped"}, NEW h, h = Head(todo[w]),
         status' = [status EXCEPT ![h] = s], batch' = [batch EXCEPT ![h] = 0],
         IF s = "skipped" THEN attempts' = attempts /\ sending[w] = "no"
         ELSE attempts' = [attempts EXCEPT ![h] = @ + 1],
         s = "sent" => to[h] \notin External \/ received[h] > 0,
         UNCHANGED <<channel, size, to, time, calls, received, uncounted, asked, alone>>
  PROVE  NInv'
<1> DEFINE q == todo[w]
           r == Tail(q)
<1>1. q \in Seq(Ids) /\ q # <<>> /\ IsInjective(q)
  BY DEF NInv, Lists
<1> HIDE DEF q
<1>2. /\ Len(q) \in Nat \ {0} /\ h \in Ids /\ h = q[1] /\ 1 \in 1 .. Len(q)
      /\ r \in Seq(Ids) /\ IsInjective(r)
      /\ \A i \in 1 .. Len(r) : i + 1 \in 1 .. Len(q) /\ r[i] = q[i + 1] /\ r[i] # h
  BY <1>1, Rest DEF q
<1> HIDE DEF r
<1>3. /\ todo' \in [Workers -> Seq(Ids)] /\ todo'[w] = r
      /\ sending' \in [Workers -> {"no", "request", "answer"}] /\ sending'[w] = "no"
      /\ allow' \in [Workers -> BOOLEAN]
      /\ \A v \in Workers : v # w => todo'[v] = todo[v] /\ sending'[v] = sending[v]
  <2>1. /\ todo' = [todo EXCEPT ![w] = r] /\ sending' = [sending EXCEPT ![w] = "no"]
        /\ allow' = [allow EXCEPT ![w] = IF Len(todo[w]) = 1 THEN FALSE ELSE @]
    BY DEF Advance, q, r
  <2> QED
    BY <1>2, <2>1 DEF NInv, NTypes, Lists
<1>4. /\ status[h] \notin {"none", "dropped"}
      /\ \A i \in 1 .. Len(r) : status[r[i]] \notin {"none", "dropped"}
  BY <1>2 DEF NInv, Lists, q
<1>5. /\ status' \in [Ids -> Statuses] /\ attempts' \in [Ids -> Nat]
      /\ \A d \in Ids : status'[d] = (IF d = h THEN s ELSE status[d])
      /\ \A d \in Ids : d # h => attempts'[d] = attempts[d]
      /\ attempts'[h] = (IF s = "skipped" THEN attempts[h] ELSE attempts[h] + 1)
  <2>1. h \in Ids /\ status \in [Ids -> Statuses] /\ attempts \in [Ids -> Nat] /\ s \in Statuses
    BY <1>2 DEF NInv, NTypes, Statuses
  <2>2. status' = [status EXCEPT ![h] = s]
    OBVIOUS
  <2>3. /\ status' \in [Ids -> Statuses]
        /\ \A d \in Ids : status'[d] = (IF d = h THEN s ELSE status[d])
    BY <2>1, <2>2
  <2>4. CASE s = "skipped"
    <3>1. attempts' = attempts
      BY <2>4
    <3> QED
      BY <2>1, <2>3, <2>4, <3>1
  <2>5. CASE s # "skipped"
    <3>1. attempts' = [attempts EXCEPT ![h] = attempts[h] + 1]
      BY <2>5
    <3>2. attempts[h] + 1 \in Nat
      BY <2>1
    <3>3. attempts' \in [Ids -> Nat] /\ attempts'[h] = attempts[h] + 1
      BY <2>1, <3>1, <3>2
    <3>4. \A d \in Ids : d # h => attempts'[d] = attempts[d]
      BY <2>1, <3>1
    <3> QED
      BY <2>3, <2>5, <3>3, <3>4
  <2> QED
    BY <2>4, <2>5
<1>6. NTypes'
  <2>1. batch' \in [Ids -> 0 .. size]
    <3>1. size \in Nat /\ 0 \in 0 .. size
      BY Bounds DEF NInv, NTypes
    <3> QED
      BY <3>1 DEF NInv, NTypes
  <2>2. \A d \in Ids : status'[d] = "none" <=> d > size
    BY <1>4, <1>5 DEF NInv, NTypes
  <2> QED
    BY <1>3, <1>5, <2>1, <2>2 DEF NInv, NTypes
<1>7. Lists'
  <2>1. ASSUME NEW v \in Workers
        PROVE  /\ IsInjective(todo'[v])
               /\ \A i \in 1 .. Len(todo'[v]) : status'[todo'[v][i]] \notin {"none", "dropped"}
               /\ todo'[v] = <<>> => sending'[v] = "no"
    <3>1. CASE v = w
      <4>1. \A i \in 1 .. Len(r) : r[i] \in Ids /\ status'[r[i]] = status[r[i]]
        BY <1>2, <1>5
      <4> QED
        BY <1>2, <1>3, <1>4, <3>1, <4>1
    <3>2. CASE v # w
      <4>1. todo'[v] = todo[v] /\ todo[v] \in Seq(Ids) /\ sending'[v] = sending[v]
        BY <1>3, <3>2 DEF NInv, Lists
      <4>2. \A i \in 1 .. Len(todo[v]) : todo[v][i] \in Ids
        BY <4>1
      <4>3. \A i \in 1 .. Len(todo[v]) : status[todo[v][i]] \notin {"none", "dropped"}
        BY DEF NInv, Lists
      <4>4. \A i \in 1 .. Len(todo[v]) : status'[todo[v][i]] \notin {"none", "dropped"}
        BY <1>5, <4>2, <4>3
      <4> QED
        BY <4>1, <4>4 DEF NInv, Lists, Free
    <3> QED
      BY <3>1, <3>2
  <2> QED
    BY <1>3, <2>1 DEF Lists, Free
<1>8. \A v \in Workers : v # w => Head(todo'[v]) = Head(todo[v])
  BY <1>3
<1>9. ASSUME NEW d \in Ids PROVE Awaited(d)' = Awaited(d) \ {w}
  BY <1>3, <1>8 DEF Awaited
<1>10. ASSUME NEW d \in Ids, d # h PROVE Awaited(d)' = Awaited(d)
  <2>1. w \notin Awaited(d)
    BY <1>10 DEF Awaited
  <2> QED
    BY <1>9, <2>1
<1>11. Counted'
  <2>1. ASSUME NEW d \in Ids
        PROVE  received[d] <= attempts'[d] + Cardinality(Awaited(d)') + uncounted[d]
    <3> DEFINE x == Cardinality(Awaited(d))
    <3>1. /\ received[d] \in Nat /\ attempts[d] \in Nat /\ uncounted[d] \in Nat
          /\ IsFiniteSet(Awaited(d)) /\ x \in Nat
      BY Numbers DEF NInv
    <3>2. received[d] <= attempts[d] + x + uncounted[d]
      BY DEF NInv, Counted
    <3>3. CASE d # h
      BY <1>5, <1>10, <3>2, <3>3
    <3>4. CASE d = h /\ s = "skipped"
      <4>1. w \notin Awaited(d)
        BY <3>4 DEF Awaited
      <4>2. Awaited(d)' = Awaited(d)
        BY <1>9, <4>1
      <4> QED
        BY <1>5, <3>2, <3>4, <4>2
    <3>5. CASE d = h /\ s # "skipped" /\ w \in Awaited(d)
      <4>1. Cardinality(Awaited(d) \ {w}) = x - 1
        BY <3>1, <3>5, FS_RemoveElement
      <4>2. attempts'[d] = attempts[d] + 1
        BY <1>5, <3>5
      <4>3. Cardinality(Awaited(d)') = x - 1
        BY <1>9, <4>1
      <4>4. received[d] <= (attempts[d] + 1) + (x - 1) + uncounted[d]
        BY <3>1, <3>2
      <4> QED
        BY <4>2, <4>3, <4>4
    <3>6. CASE d = h /\ s # "skipped" /\ w \notin Awaited(d)
      <4>1. Awaited(d)' = Awaited(d)
        BY <1>9, <3>6
      <4>2. attempts'[d] = attempts[d] + 1
        BY <1>5, <3>6
      <4> QED
        BY <3>1, <3>2, <4>1, <4>2
    <3> QED
      BY <3>3, <3>4, <3>5, <3>6
  <2>2. ASSUME NEW d \in Ids
        PROVE  /\ status'[d] = "none" => received[d] = 0
               /\ status'[d] = "sent" /\ to[d] \in External => received[d] > 0
    BY <1>5 DEF NInv, Counted
  <2>3. \A v \in Workers : sending'[v] = "answer" => received[Head(todo'[v])] > 0
    <3>1. \A v \in Workers : sending'[v] = "answer" => v # w /\ sending[v] = "answer"
      BY <1>3
    <3> QED
      BY <1>8, <3>1 DEF NInv, Counted
  <2> QED
    BY <2>1, <2>2, <2>3 DEF Counted
<1>12. ASSUME alone' PROVE Requested'
  <2>1. Requested
    BY <1>12 DEF NInv
  <2>2. \A v \in Workers : v # w => todo[v] = <<>>
    BY <2>1 DEF Requested, Free
  <2>3. \A v \in Workers : v # w => todo'[v] = <<>>
    BY <1>3, <2>2
  <2>4. ASSUME NEW v \in Workers PROVE \A i \in 1 .. Len(todo'[v]) : status'[todo'[v][i]] = "pending"
    <3>1. CASE v = w
      <4>1. \A i \in 1 .. Len(r) : r[i] \in Ids /\ status[r[i]] = "pending"
        BY <1>2, <2>1 DEF Requested, q
      <4> QED
        BY <1>2, <1>3, <1>5, <3>1, <4>1
    <3>2. CASE v # w
      BY <2>3, <3>2
    <3> QED
      BY <3>1, <3>2
  <2>5. ASSUME NEW d \in Ids
        PROVE  /\ received[d] <= 1 + asked[d] + uncounted[d]
               /\ status'[d] = "pending" /\ Awaited(d)' = {} => received[d] <= asked[d] + uncounted[d]
    <3>1. status'[d] = "pending" => d # h /\ status[d] = "pending"
      BY <1>5
    <3>2. status'[d] = "pending" => Awaited(d)' = Awaited(d)
      BY <1>10, <3>1
    <3> QED
      BY <2>1, <3>1, <3>2 DEF Requested
  <2> QED
    BY <2>3, <2>4, <2>5 DEF Requested, Free
<1> QED
  BY <1>6, <1>7, <1>11, <1>12 DEF NInv

LEMMA AnswerKeeps ==
  ASSUME NInv, NEW w \in Workers, Answer(w) \/ Fail(w) PROVE NInv'
<1> DEFINE h == Head(todo[w])
<1>1. PICK s \in {"sent", "failed"} :
        /\ MarkEnded(h, s) /\ Advance(w)
        /\ sending[w] \in {"request", "answer"} /\ (s = "sent" => sending[w] = "answer")
        /\ UNCHANGED <<channel, size, to, time, calls, histVars>>
  BY DEF Answer, Fail
<1>2. todo[w] # <<>>
  BY <1>1 DEF NInv, Lists, Free
<1>3. s = "sent" => received[h] > 0
  BY <1>1 DEF NInv, Counted
<1>4. /\ status' = [status EXCEPT ![h] = s] /\ batch' = [batch EXCEPT ![h] = 0]
      /\ attempts' = [attempts EXCEPT ![h] = @ + 1]
      /\ UNCHANGED <<channel, size, to, time, calls, received, uncounted, asked, alone>>
  BY <1>1 DEF MarkEnded, Settled, histVars
<1> HIDE DEF h
<1>5. h = Head(todo[w])
  BY DEF h
<1> QED
  BY <1>1, <1>2, <1>3, <1>4, <1>5, EndKeeps

\* What concerns neither the deliveries nor the lists: a request goes out, a
\* channel changes, or nothing happens.
LEMMA FrameKeeps ==
  ASSUME NInv, channel' \in [Channels -> {"enabled", "disabled", "deleted"}],
         sending' \in [Workers -> {"no", "request", "answer"}],
         \A v \in Workers : sending'[v] = sending[v]
                              \/ (sending[v] = "no" /\ sending'[v] = "request" /\ ~Free(v)),
         UNCHANGED <<deliveryVars, todo, allow, histVars, batch>>
  PROVE  NInv'
<1>1. UNCHANGED <<size, to, time, status, attempts, todo, allow, received, uncounted, asked, alone, batch>>
  BY DEF deliveryVars, histVars
<1>2. \A v \in Workers : sending'[v] = "answer" <=> sending[v] = "answer"
  OBVIOUS
<1>3. ASSUME NEW d PROVE Awaited(d)' = Awaited(d)
  BY <1>1, <1>2 DEF Awaited
<1>4. NTypes'
  BY <1>1 DEF NInv, NTypes
<1>5. Lists'
  BY <1>1 DEF NInv, Lists, Free
<1>6. Counted'
  BY <1>1, <1>2, <1>3 DEF NInv, Counted
<1>7. alone' => Requested'
  BY <1>1, <1>3 DEF NInv, Requested, Free
<1> QED
  BY <1>4, <1>5, <1>6, <1>7 DEF NInv

LEMMA DispatchKeeps ==
  ASSUME NInv, NEW w \in Workers, Dispatch(w) PROVE NInv'
<1> DEFINE h == Head(todo[w])
<1>1. /\ todo[w] # <<>> /\ sending[w] = "no"
      /\ UNCHANGED <<channel, size, to, time, calls, received, uncounted, asked, alone>>
      /\ \/ MarkSkipped(h) /\ Advance(w)
         \/ to[h] \in InApp /\ MarkEnded(h, "sent") /\ Advance(w)
         \/ /\ sending' = [sending EXCEPT ![w] = "request"]
            /\ UNCHANGED <<status, attempts, todo, allow, batch>>
  BY DEF Dispatch, histVars
<1>2. PICK d : d = h
  OBVIOUS
<1> HIDE DEF h
<1>3. d = Head(todo[w])
  BY <1>2 DEF h
<1>4. CASE MarkSkipped(h) /\ Advance(w)
  <2>1. /\ status' = [status EXCEPT ![d] = "skipped"] /\ batch' = [batch EXCEPT ![d] = 0]
        /\ attempts' = attempts
    BY <1>2, <1>4 DEF MarkSkipped, Settled
  <2> QED
    BY <1>1, <1>3, <1>4, <2>1, EndKeeps
<1>5. CASE to[h] \in InApp /\ MarkEnded(h, "sent") /\ Advance(w)
  <2>1. /\ status' = [status EXCEPT ![d] = "sent"] /\ batch' = [batch EXCEPT ![d] = 0]
        /\ attempts' = [attempts EXCEPT ![d] = @ + 1]
        /\ to[d] \notin External
    BY <1>2, <1>5, Bounds DEF MarkEnded, Settled
  <2> QED
    BY <1>1, <1>3, <1>5, <2>1, EndKeeps
<1>6. CASE /\ sending' = [sending EXCEPT ![w] = "request"]
           /\ UNCHANGED <<status, attempts, todo, allow, batch>>
  <2>1. /\ sending' \in [Workers -> {"no", "request", "answer"}]
        /\ \A v \in Workers : sending'[v] = sending[v]
                                \/ (sending[v] = "no" /\ sending'[v] = "request" /\ ~Free(v))
    BY <1>1, <1>6 DEF NInv, NTypes, Free
  <2>2. channel' \in [Channels -> {"enabled", "disabled", "deleted"}]
    BY <1>1 DEF NInv, NTypes
  <2> QED
    BY <1>1, <1>6, <2>1, <2>2, FrameKeeps DEF deliveryVars, histVars
<1> QED
  BY <1>1, <1>4, <1>5, <1>6

LEMMA ReachKeeps ==
  ASSUME NInv, NEW w \in Workers, Reach(w) PROVE NInv'
<1>1. PICK h : h = Head(todo[w])
  OBVIOUS
<1>2. /\ sending[w] = "request" /\ sending' = [sending EXCEPT ![w] = "answer"]
      /\ received' = [received EXCEPT ![h] = @ + 1]
      /\ UNCHANGED <<channel, size, to, time, status, attempts, todo, allow, uncounted, asked, alone, batch>>
  BY <1>1 DEF Reach, deliveryVars
<1>3. /\ todo[w] # <<>> /\ todo[w] \in Seq(Ids) /\ h \in Ids /\ h = todo[w][1] /\ 1 \in 1 .. Len(todo[w])
      /\ status[h] \notin {"none", "dropped"}
  <2>1. todo[w] # <<>> /\ todo[w] \in Seq(Ids)
    BY <1>2 DEF NInv, Lists, Free
  <2>2. h \in Ids /\ h = todo[w][1] /\ 1 \in 1 .. Len(todo[w])
    BY <1>1, <2>1, Rest
  <2> QED
    BY <2>1, <2>2 DEF NInv, Lists
<1>4. /\ received' \in [Ids -> Nat] /\ received'[h] = received[h] + 1
      /\ \A d \in Ids : d # h => received'[d] = received[d]
      /\ \A d \in Ids : received[d] \in Nat
      /\ sending' \in [Workers -> {"no", "request", "answer"}] /\ sending'[w] = "answer"
      /\ \A v \in Workers : v # w => sending'[v] = sending[v]
  <2>1. received \in [Ids -> Nat] /\ sending \in [Workers -> {"no", "request", "answer"}] /\ h \in Ids
    BY <1>3 DEF NInv, NTypes
  <2>2. received[h] \in Nat /\ received[h] + 1 \in Nat /\ \A d \in Ids : received[d] \in Nat
    BY <2>1
  <2>3. received' = [received EXCEPT ![h] = received[h] + 1]
    BY <1>2
  <2>4. /\ received' \in [Ids -> Nat] /\ received'[h] = received[h] + 1
        /\ \A d \in Ids : d # h => received'[d] = received[d]
    BY <2>1, <2>2, <2>3
  <2>5. /\ sending' \in [Workers -> {"no", "request", "answer"}] /\ sending'[w] = "answer"
        /\ \A v \in Workers : v # w => sending'[v] = sending[v]
    BY <1>2, <2>1
  <2> QED
    BY <2>2, <2>4, <2>5
<1>5. NTypes'
  BY <1>2, <1>4 DEF NInv, NTypes
<1>6. Lists'
  BY <1>2, <1>3, <1>4 DEF NInv, Lists, Free
<1>7. /\ w \notin Awaited(h) /\ Awaited(h)' = Awaited(h) \cup {w}
      /\ \A d \in Ids : d # h => Awaited(d)' = Awaited(d)
  BY <1>1, <1>2, <1>4 DEF Awaited
<1>8. Counted'
  <2>1. ASSUME NEW d \in Ids
        PROVE  received'[d] <= attempts[d] + Cardinality(Awaited(d)') + uncounted[d]
    <3> DEFINE x == Cardinality(Awaited(d))
    <3>1. /\ received[d] \in Nat /\ attempts[d] \in Nat /\ uncounted[d] \in Nat
          /\ IsFiniteSet(Awaited(d)) /\ x \in Nat
      BY Numbers DEF NInv
    <3>2. received[d] <= attempts[d] + x + uncounted[d]
      BY DEF NInv, Counted
    <3>3. CASE d # h
      BY <1>4, <1>7, <3>2, <3>3
    <3>4. CASE d = h
      <4>1. Cardinality(Awaited(d) \cup {w}) = x + 1
        BY <1>7, <3>1, <3>4, FS_AddElement
      <4>2. Cardinality(Awaited(d)') = x + 1 /\ received'[d] = received[d] + 1
        BY <1>4, <1>7, <3>4, <4>1
      <4>3. received[d] + 1 <= attempts[d] + (x + 1) + uncounted[d]
        BY <3>1, <3>2
      <4> QED
        BY <4>2, <4>3
    <3> QED
      BY <3>3, <3>4
  <2>2. ASSUME NEW d \in Ids
        PROVE  /\ status[d] = "none" => received'[d] = 0
               /\ status[d] = "sent" /\ to[d] \in External => received'[d] > 0
    BY <1>3, <1>4 DEF NInv, Counted
  <2>3. \A v \in Workers : sending'[v] = "answer" => received'[Head(todo[v])] > 0
    <3>1. ASSUME NEW v \in Workers, sending[v] = "answer" PROVE received'[Head(todo[v])] > 0
      <4>1. todo[v] # <<>> /\ todo[v] \in Seq(Ids)
        BY <3>1 DEF NInv, Lists, Free
      <4>2. Head(todo[v]) \in Ids
        BY <4>1
      <4>3. received[Head(todo[v])] > 0
        BY <3>1 DEF NInv, Counted
      <4> QED
        BY <1>4, <4>2, <4>3
    <3>2. received'[h] > 0
      BY <1>3, <1>4
    <3> QED
      BY <1>1, <1>4, <3>1, <3>2
  <2> QED
    BY <1>2, <2>1, <2>2, <2>3 DEF Counted
<1>9. ASSUME alone' PROVE Requested'
  <2>1. Requested
    BY <1>2, <1>9 DEF NInv
  <2>2. status[h] = "pending"
    BY <1>3, <2>1 DEF Requested
  <2>3. Awaited(h) = {}
    <3>1. ASSUME NEW v \in Awaited(h) PROVE FALSE
      <4>1. v \in Workers /\ sending[v] = "answer"
        BY DEF Awaited
      <4>2. ~Free(v) /\ ~Free(w)
        BY <1>3, <4>1 DEF NInv, Lists, Free
      <4> QED
        BY <1>2, <2>1, <4>1, <4>2 DEF Requested
    <3> QED
      BY <3>1
  <2>4. ASSUME NEW d \in Ids
        PROVE  /\ received'[d] <= 1 + asked[d] + uncounted[d]
               /\ status[d] = "pending" /\ Awaited(d)' = {} => received'[d] <= asked[d] + uncounted[d]
    <3>1. CASE d # h
      BY <1>4, <1>7, <2>1, <3>1 DEF Requested
    <3>2. CASE d = h
      <4>1. received[h] <= asked[h] + uncounted[h]
        BY <1>3, <2>1, <2>2, <2>3 DEF Requested
      <4>2. received[h] \in Nat /\ asked[h] \in Nat /\ uncounted[h] \in Nat
        BY <1>3, Numbers DEF NInv
      <4>3. received'[h] <= 1 + asked[h] + uncounted[h]
        BY <1>4, <4>1, <4>2
      <4>4. Awaited(d)' # {}
        BY <1>7, <3>2
      <4> QED
        BY <3>2, <4>3, <4>4
    <3> QED
      BY <3>1, <3>2
  <2> QED
    BY <1>2, <2>1, <2>4 DEF Requested, Free
<1> QED
  BY <1>5, <1>6, <1>8, <1>9 DEF NInv

LEMMA CrashKeeps == NInv /\ Crash => NInv'
<1> SUFFICES ASSUME NInv, Crash PROVE NInv'
  OBVIOUS
<1>1. PICK D \in SUBSET Stored : status' = [d \in Ids |-> IF d \in D THEN "dropped" ELSE status[d]]
  BY DEF Crash
<1>2. /\ uncounted' = [d \in Ids |-> uncounted[d] + Cardinality(Awaited(d))]
      /\ todo' = [w \in Workers |-> <<>>] /\ sending' = [w \in Workers |-> "no"]
      /\ allow' = [w \in Workers |-> FALSE] /\ batch' = [d \in Ids |-> 0]
      /\ UNCHANGED <<channel, size, to, time, attempts, received, asked, alone>>
  BY DEF Crash, Awaited
<1>3. \A d \in Ids : /\ received[d] \in Nat /\ attempts[d] \in Nat /\ uncounted[d] \in Nat
                     /\ asked[d] \in Nat
                     /\ IsFiniteSet(Awaited(d)) /\ Cardinality(Awaited(d)) \in Nat
  BY Numbers DEF NInv
<1>4. \A w \in Workers : todo'[w] = <<>> /\ sending'[w] = "no"
  BY <1>2
<1>5. \A d \in Ids : uncounted'[d] = uncounted[d] + Cardinality(Awaited(d))
  BY <1>2
<1>6. ASSUME NEW d PROVE Awaited(d)' = {}
  BY <1>4 DEF Awaited
<1>7. /\ \A d \in Ids : status'[d] = (IF d \in D THEN "dropped" ELSE status[d])
      /\ \A d \in D : ~(d > size)
      /\ status' \in [Ids -> Statuses]
  <2>1. size \in Nat
    BY Bounds DEF NInv, NTypes
  <2> QED
    BY <1>1, <2>1 DEF Stored, NInv, NTypes, Statuses
<1>8. NTypes'
  <2>1. \A d \in Ids : status'[d] = "none" <=> d > size
    BY <1>7 DEF NInv, NTypes
  <2>2. uncounted' \in [Ids -> Nat]
    BY <1>2, <1>3
  <2>3. batch' \in [Ids -> 0 .. size']
    <3>1. size' \in Nat /\ 0 \in 0 .. size'
      BY <1>2, Bounds DEF NInv, NTypes
    <3> QED
      BY <1>2, <3>1
  <2>4. sending' \in [Workers -> {"no", "request", "answer"}] /\ allow' \in [Workers -> BOOLEAN]
    BY <1>2
  <2> QED
    BY <1>2, <1>7, <2>1, <2>2, <2>3, <2>4 DEF NInv, NTypes
<1>9. Lists'
  <2>1. todo' \in [Workers -> Seq(Ids)]
    BY <1>2
  <2>2. IsInjective(<<>>) /\ Len(<<>>) = 0
    BY DEF IsInjective
  <2> QED
    BY <1>4, <2>1, <2>2 DEF Lists
<1>10. Counted'
  <2>1. ASSUME NEW d \in Ids
        PROVE  /\ received[d] <= attempts[d] + 0 + uncounted'[d]
               /\ status'[d] = "none" => received[d] = 0
               /\ status'[d] = "sent" /\ to[d] \in External => received[d] > 0
    <3>1. received[d] <= attempts[d] + Cardinality(Awaited(d)) + uncounted[d]
      BY DEF NInv, Counted
    <3>2. received[d] <= attempts[d] + 0 + uncounted'[d]
      BY <1>3, <1>5, <3>1
    <3> QED
      BY <1>7, <3>2 DEF NInv, Counted
  <2>2. Cardinality({}) = 0
    BY FS_EmptySet
  <2> QED
    BY <1>2, <1>4, <1>6, <2>1, <2>2 DEF Counted
<1>11. ASSUME alone' PROVE Requested'
  <2>1. Requested
    BY <1>2, <1>11 DEF NInv
  <2>2. ASSUME NEW d \in Ids
        PROVE  /\ received[d] <= 1 + asked[d] + uncounted'[d]
               /\ status'[d] = "pending" => received[d] <= asked[d] + uncounted'[d]
    <3>1. received[d] <= 1 + asked[d] + uncounted[d]
      BY <2>1 DEF Requested
    <3>2. status'[d] = "pending" => status[d] = "pending"
      BY <1>7
    <3>3. status[d] = "pending" /\ Awaited(d) = {} => received[d] <= asked[d] + uncounted[d]
      BY <2>1 DEF Requested
    <3>4. Awaited(d) # {} => Cardinality(Awaited(d)) # 0
      BY <1>3, FS_EmptySet
    <3>5. CASE Awaited(d) = {}
      BY <1>3, <1>5, <3>1, <3>2, <3>3, <3>5
    <3>6. CASE Awaited(d) # {}
      BY <1>3, <1>5, <3>1, <3>4, <3>6
    <3> QED
      BY <3>5, <3>6
  <2>3. Len(<<>>) = 0
    OBVIOUS
  <2> QED
    BY <1>2, <1>4, <2>2, <2>3 DEF Requested, Free
<1> QED
  BY <1>8, <1>9, <1>10, <1>11 DEF NInv

-----------------------------------------------------------------------------
(* The theorems                                                            *)

LEMMA NextNInv == NInv /\ [Next]_vars => NInv'
<1> SUFFICES ASSUME NInv, [Next]_vars PROVE NInv'
  OBVIOUS
<1>1. ASSUME NEW w \in Workers, NEW limit \in {1, MaxDeliveries},
             ProcessPending(w, limit) \/ RetryFailed(w, limit)
      PROVE  NInv'
  <2>1. limit \in Nat
    BY Bounds
  <2> QED
    BY <1>1, <2>1, ProcessPendingKeeps, RetryFailedKeeps
<1>2. ASSUME NEW c \in Channels, NEW s \in {"enabled", "disabled", "deleted"}, ChangeChannel(c, s)
      PROVE  NInv'
  <2>1. channel' \in [Channels -> {"enabled", "disabled", "deleted"}]
    BY <1>2 DEF ChangeChannel, NInv, NTypes
  <2>2. UNCHANGED <<deliveryVars, todo, sending, allow, histVars, batch>>
    BY <1>2 DEF ChangeChannel, workerVars
  <2>3. sending' \in [Workers -> {"no", "request", "answer"}] /\ sending' = sending
    BY <2>2 DEF NInv, NTypes
  <2> QED
    BY <2>1, <2>2, <2>3, FrameKeeps
<1>3. ASSUME NEW w \in Workers, Work(w) PROVE NInv'
  BY <1>3, DispatchKeeps, ReachKeeps, AnswerKeeps DEF Work
<1>4. CASE UNCHANGED vars
  <2>1. UNCHANGED <<channel, deliveryVars, todo, sending, allow, histVars, batch>>
    BY <1>4 DEF vars, workerVars
  <2>2. /\ channel' \in [Channels -> {"enabled", "disabled", "deleted"}]
        /\ sending' \in [Workers -> {"no", "request", "answer"}] /\ sending' = sending
    BY <2>1 DEF NInv, NTypes
  <2> QED
    BY <2>1, <2>2, FrameKeeps
<1> QED
  BY <1>1, <1>2, <1>3, <1>4, EnqueueKeeps, RetryKeeps, TestChannelKeeps, CrashKeeps DEF Next

\* Every reachable state of the deliveries satisfies the inductive invariant.
THEOREM NInvariance == Spec => []NInv
BY InitNInv, NextNInv, PTL DEF Spec

\* The state of the deliveries stays of its types: in particular the list of a
\* worker holds deliveries of the store, each of them once.
THEOREM NotificationTypeCorrect == Spec => []TypeOK
<1>1. NInv => TypeOK
  <2> SUFFICES ASSUME NInv PROVE TypeOK
    OBVIOUS
  <2>1. ASSUME NEW w \in Workers PROVE todo[w] \in Seq(Stored) /\ IsInjective(todo[w])
    <3>1. todo[w] \in Seq(Ids) /\ IsInjective(todo[w])
      BY DEF NInv, Lists
    <3>2. size \in Nat /\ \A d \in Ids : d \in Nat \ {0}
      BY Bounds DEF NInv, NTypes
    <3>3. \A d \in Ids : status[d] \notin {"none", "dropped"} => d \in Stored
      <4>1. \A d \in Ids : ~(d > size) => d \in 1 .. size
        BY <3>2
      <4> QED
        BY <4>1 DEF NInv, NTypes, Stored
    <3>4. \A i \in 1 .. Len(todo[w]) : todo[w][i] \in Stored
      BY <3>1, <3>3 DEF NInv, Lists
    <3> QED
      BY <3>1, <3>4
  <2>2. {attempts, received, uncounted, asked} \subseteq [Ids -> Nat]
    BY DEF NInv, NTypes
  <2> QED
    BY <2>1, <2>2 DEF NInv, NTypes, TypeOK, Statuses
<1> QED
  BY <1>1, NInvariance, PTL

\* Whatever workers, retries, changed channels and crashes overlap, no message is
\* sent off the books, and what is recorded as sent was received.
THEOREM MessagesCounted == Spec => []EveryMessageCounted
<1>1. NInv => EveryMessageCounted
  BY DEF NInv, Counted, EveryMessageCounted
<1> QED
  BY <1>1, NInvariance, PTL

\* As long as activations do not overlap, no message is received more often than
\* it was asked for, but for answers that a crash cut off.
THEOREM MessagesNotRepeated == Spec => []OncePerRequest
<1>1. NInv => OncePerRequest
  BY DEF NInv, Requested, OncePerRequest
<1> QED
  BY <1>1, NInvariance, PTL
=============================================================================
