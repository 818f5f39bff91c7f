---------------------------- MODULE ProtocolProofs ----------------------------
(***************************************************************************)
(* Proofs about conversations with a router, for every value of their      *)
(* constants.  First a session of the SDK: scripts of any length, every    *)
(* row a router says and every way the connection falls out of step.  Then *)
(* the configuration of a router's logging, by any number of callers.      *)
(* Then the codec under both: sentences of any words below 2^31 bytes, and *)
(* every way the stream is cut into chunks.  For each the inductive        *)
(* invariant, its preservation by the steps, and what follows for the      *)
(* specification whose first state chooses that part.                      *)
(***************************************************************************)
EXTENDS MCServerServices, FiniteSetTheorems, WellFoundedInduction, SequenceTheorems, Integers, TLAPS

-----------------------------------------------------------------------------
(* A session of the SDK: the inductive invariant                           *)

\* How many commands, the older login, and the k-th row of the answer to c.
Long == script.length
Outer == 2 * script.length + 1
Row(c, k) == [for |-> c, type |-> "re", row |-> k]
Replies == [for : Nat, type : {"re", "done", "trap", "fatal"}, row : Nat]
Outcomes == [cmd : Nat, ok : BOOLEAN, rows : Seq(Replies)]

\* The steps at which an exchange is under way.
Busy == {"send", "reading", "waiting"}

SessionTypes ==
  /\ Long \in Nat /\ dry \in BOOLEAN
  /\ sock \in {"none", "open", "dead"}
  /\ stage \in {"new", "send", "reading", "waiting", "next", "finished", "ended"}
  /\ leg \in {"batch", "rollback"} /\ refused \in BOOLEAN
  /\ cur \in 0 .. Outer
  /\ todo \in Seq(0 .. Outer) /\ undo \in Seq(0 .. Outer)
  /\ inbox \in Seq(0 .. Outer) /\ carried \in Seq(0 .. Outer)
  /\ results \in Seq(Outcomes)
  /\ read \in Seq(Replies) /\ arrived \in Seq(Replies) /\ sent \in Seq(Replies)
  /\ answered \in [0 .. Outer -> Nat]

AllWell == \A i \in DOMAIN results : results[i].ok

\* What is to be run: the commands upwards, then their rollbacks downwards.
Itinerary ==
  /\ \A i, j \in DOMAIN undo : i < j => undo[i] > undo[j]
  /\ \A i \in DOMAIN undo : undo[i] \in Long + 1 .. 2 * Long
  /\ leg = "batch" =>
       /\ \A i \in DOMAIN todo : todo[i] \in 1 .. Long
       /\ \A i, j \in DOMAIN todo : i < j => todo[i] < todo[j]
       /\ \A i \in DOMAIN todo, j \in DOMAIN undo : undo[j] < Long + todo[i]
  /\ leg = "rollback" =>
       /\ \A i \in DOMAIN todo : \E j \in DOMAIN undo : todo[i] = undo[j]
       /\ \A i, j \in DOMAIN todo : i < j => todo[i] > todo[j]
  /\ stage = "new" => cur = 0
  /\ stage \in {"next", "finished"} => cur # Outer
  /\ stage \in {"new"} \cup Busy =>
       \/ cur \in {0, Outer} /\ leg = "batch" /\ results = <<>> /\ undo = <<>>
       \/ todo # <<>> /\ cur = Head(todo) /\ ~(dry /\ leg = "batch")

Passed == {carried[i] : i \in DOMAIN carried}
Coming == {inbox[i] : i \in DOMAIN inbox}
Given == Passed \cup Coming
Waits(t) == ~(stage \in {"reading", "waiting"} /\ t = cur)
Behind(x, y) == x > Long => y < x

\* What the router was given: commands, or rollbacks downwards.
Ordered ==
  /\ \A i, j \in DOMAIN carried : i < j => Behind(carried[i], carried[j])
  /\ \A i \in DOMAIN carried, j \in DOMAIN inbox : Behind(carried[i], inbox[j])
  /\ \A i, j \in DOMAIN inbox : i < j => Behind(inbox[i], inbox[j])

\* What was given and what is still to be given.
Owed ==
  /\ \A i \in DOMAIN todo : Waits(todo[i]) =>
       answered[todo[i]] = 0 /\ \A x \in Given : Behind(x, todo[i]) /\ x # todo[i]
  /\ \A x \in Given :
       \/ (x \in 1 .. Long /\ ~dry)
       \/ x = 0
       \/ (x = Outer /\ cur = Outer /\ stage # "send")
       \/ (leg = "rollback" /\ \E j \in DOMAIN undo : x = undo[j])
  /\ leg = "batch" => \A x \in Long + 1 .. 2 * Long : answered[x] = 0
  /\ stage \in {"new", "send"} /\ cur = 0 => answered[0] = 0

\* A plan that stops at failures has stopped, and undoes what was done.
Stopped ==
  script.tolerated = {} =>
    /\ ~AllWell /\ leg = "batch" => todo = <<>> /\ stage \notin Busy
    /\ ~dry => /\ \A i \in DOMAIN undo : undo[i] - Long \in Passed
               /\ \A i, j \in DOMAIN results : i < j /\ ~results[i].ok => results[j].cmd \notin 1 .. Long

\* As long as nothing failed, what was read, arrived and is under way is the answer to
\* the exchange under way, as far as it was given.
Pending == read \o (arrived \o sent)
AnswerOf(c, k) ==
  /\ k <= answered[c] /\ Len(read) <= k /\ k <= Len(Pending)
  /\ \A i \in 1 .. k : Pending[i] = Row(c, i - 1)
  /\ \/ /\ Len(Pending) = k
        /\ sock = "open" => k = answered[c] /\ inbox = <<c>> /\ ~refused
     \/ /\ Len(Pending) = k + 1 /\ Pending[k + 1].type = "done"
        /\ k = answered[c] /\ inbox = <<>> /\ ~refused /\ c \in Passed
     \/ Len(Pending) > k /\ Pending[k + 1].type \in {"trap", "fatal"}

InStep ==
  AllWell /\ cur # Outer =>
    /\ stage \in {"new", "send", "next", "finished"} => inbox = <<>> /\ arrived = <<>> /\ sent = <<>> /\ ~refused
    /\ stage \in {"reading", "waiting"} => \E k \in Nat : AnswerOf(cur, k)

\* What was reported as done, before anything failed, is done, and the rows are its own.
CarriedOut(r) ==
  /\ r.cmd \in Passed /\ r.cmd \notin Coming
  /\ Len(r.rows) = answered[r.cmd]
  /\ \A k \in 1 .. answered[r.cmd] : r.rows[k] = Row(r.cmd, k - 1)

Settled ==
  \A i \in DOMAIN results :
    results[i].ok /\ (\A j \in 1 .. i - 1 : results[j].ok) /\ ~(dry /\ results[i].cmd \in 1 .. Long) =>
      CarriedOut(results[i])

SessionInv == SessionTypes /\ Itinerary /\ Ordered /\ Owed /\ Stopped /\ InStep /\ Settled

-----------------------------------------------------------------------------
(* Sequences                                                               *)

\* A set of naturals has a least element.
LEMMA Least ==
  ASSUME NEW S, S \subseteq Nat, S # {}
  PROVE  \E m \in S : \A n \in S : m <= n
<1> DEFINE R == {ss \in Nat \X Nat : ss[1] < ss[2]}
<1>1. OpToRel(<, Nat) = R
  BY Zenon DEF OpToRel
<1>2. IsWellFoundedOn(R, Nat)
  BY <1>1, NatLessThanWellFounded, Zenon
<1>3. \E m \in S : \A n \in S : <<n, m>> \notin R
  BY <1>2, WFMin, Zenon
<1>4. ASSUME NEW m \in S, NEW n \in S, <<n, m>> \notin R PROVE m <= n
  BY <1>4, SMT
<1> QED
  BY <1>3, <1>4

\* Where the elements of three sequences are, when they are joined.
LEMMA Joined ==
  ASSUME NEW S, NEW a \in Seq(S), NEW b \in Seq(S), NEW c \in Seq(S)
  PROVE  /\ a \o (b \o c) \in Seq(S) /\ Len(a \o (b \o c)) = Len(a) + Len(b) + Len(c)
         /\ \A i \in 1 .. Len(a) : (a \o (b \o c))[i] = a[i]
         /\ \A i \in 1 .. Len(b) : (a \o (b \o c))[Len(a) + i] = b[i]
         /\ \A i \in 1 .. Len(c) : (a \o (b \o c))[Len(a) + Len(b) + i] = c[i]
<1>1. PICK d \in Seq(S) : d = b \o c
  BY ConcatProperties
<1>2. /\ Len(d) = Len(b) + Len(c)
      /\ \A i \in 1 .. Len(b) : d[i] = b[i]
      /\ \A i \in 1 .. Len(c) : d[Len(b) + i] = c[i]
  BY <1>1, ConcatProperties
<1>3. /\ a \o d \in Seq(S) /\ Len(a \o d) = Len(a) + Len(d)
      /\ \A i \in 1 .. Len(a) : (a \o d)[i] = a[i]
      /\ \A i \in 1 .. Len(d) : (a \o d)[Len(a) + i] = d[i]
  BY ConcatProperties
<1>4. ASSUME NEW i \in 1 .. Len(b) PROVE (a \o d)[Len(a) + i] = b[i]
  BY <1>2, <1>3, <1>4
<1>5. ASSUME NEW i \in 1 .. Len(c) PROVE (a \o d)[Len(a) + Len(b) + i] = c[i]
  <2>1. Len(b) + i \in 1 .. Len(d) /\ Len(a) + Len(b) + i = Len(a) + (Len(b) + i)
    BY <1>2, <1>5
  <2> QED
    BY <1>2, <1>3, <2>1
<1> QED
  BY <1>1, <1>2, <1>3, <1>4, <1>5

\* What the sequences of a session are made of.
LEMMA SessionElements ==
  ASSUME SessionTypes
  PROVE  /\ Long \in Nat /\ Outer \in Nat /\ Outer = 2 * Long + 1
         /\ Len(todo) \in Nat /\ DOMAIN todo = 1 .. Len(todo) /\ \A i \in DOMAIN todo : todo[i] \in 0 .. Outer
         /\ Len(undo) \in Nat /\ DOMAIN undo = 1 .. Len(undo) /\ \A i \in DOMAIN undo : undo[i] \in 0 .. Outer
         /\ Len(inbox) \in Nat /\ DOMAIN inbox = 1 .. Len(inbox) /\ \A i \in DOMAIN inbox : inbox[i] \in 0 .. Outer
         /\ Len(carried) \in Nat /\ DOMAIN carried = 1 .. Len(carried)
         /\ \A i \in DOMAIN carried : carried[i] \in 0 .. Outer
         /\ Len(results) \in Nat /\ DOMAIN results = 1 .. Len(results)
         /\ \A i \in DOMAIN results : results[i] \in Outcomes
         /\ Given \subseteq 0 .. Outer
<1>1. Long \in Nat /\ Outer \in Nat /\ Outer = 2 * Long + 1
  BY DEF SessionTypes, Long, Outer
<1>2. ASSUME NEW S, NEW s \in Seq(S)
      PROVE  Len(s) \in Nat /\ DOMAIN s = 1 .. Len(s) /\ \A i \in DOMAIN s : s[i] \in S
  BY <1>2, LenProperties, ElementOfSeq
<1>3. /\ todo \in Seq(0 .. Outer) /\ undo \in Seq(0 .. Outer) /\ inbox \in Seq(0 .. Outer)
      /\ carried \in Seq(0 .. Outer) /\ results \in Seq(Outcomes)
  BY DEF SessionTypes
<1>4. \A i \in DOMAIN inbox : inbox[i] \in 0 .. Outer
  BY <1>2, <1>3
<1>5. \A i \in DOMAIN carried : carried[i] \in 0 .. Outer
  BY <1>2, <1>3
<1>6. Given \subseteq 0 .. Outer
  BY <1>4, <1>5 DEF Given, Passed, Coming
<1>7. \A i \in DOMAIN todo : todo[i] \in 0 .. Outer
  BY <1>2, <1>3
<1>8. \A i \in DOMAIN undo : undo[i] \in 0 .. Outer
  BY <1>2, <1>3
<1>9. \A i \in DOMAIN results : results[i] \in Outcomes
  BY <1>2, <1>3
<1>10. /\ Len(todo) \in Nat /\ DOMAIN todo = 1 .. Len(todo)
       /\ Len(undo) \in Nat /\ DOMAIN undo = 1 .. Len(undo)
       /\ Len(inbox) \in Nat /\ DOMAIN inbox = 1 .. Len(inbox)
       /\ Len(carried) \in Nat /\ DOMAIN carried = 1 .. Len(carried)
       /\ Len(results) \in Nat /\ DOMAIN results = 1 .. Len(results)
  BY <1>3, LenProperties
<1> QED
  BY <1>1, <1>4, <1>5, <1>6, <1>7, <1>8, <1>9, <1>10

\* What the session's constants are, in these words.
LEMMA SdkWords ==
  /\ Sdk!Commands = 1 .. Long /\ Sdk!Legacy = Outer /\ Sdk!Login = 0
  /\ \A c : Sdk!Undo(c) = Long + c
  BY DEF Sdk!Commands, Sdk!Legacy, Sdk!Login, Sdk!Undo, Long, Outer

-----------------------------------------------------------------------------
(* The router and the network                                              *)

\* A reply the router says is under way, unless nobody is there to hear it.
LEMMA SaidReply ==
  ASSUME SessionTypes, inbox # <<>>, NEW ty \in {"re", "done", "trap"}, Sdk!Say(ty)
  PROVE  \E r \in Replies :
           /\ r = [for |-> Head(inbox), type |-> ty, row |-> answered[Head(inbox)]]
           /\ r.type = ty
           /\ sent' \in Seq(Replies)
           /\ sock = "open" => sent' = Append(sent, r)
           /\ sock # "open" => sent' = sent
<1>1. Head(inbox) \in 0 .. Outer
  BY HeadTailProperties DEF SessionTypes
<1>2. Head(inbox) \in Nat /\ answered[Head(inbox)] \in Nat
  BY <1>1, SessionElements DEF SessionTypes
<1>3. PICK r : r = [for |-> Head(inbox), type |-> ty, row |-> answered[Head(inbox)]]
  OBVIOUS
<1>4. r \in Replies /\ r.type = ty
  BY <1>2, <1>3 DEF Replies
<1>5. sent' = IF sock = "open" THEN Append(sent, r) ELSE sent
  BY <1>3 DEF Sdk!Say
<1>6. sent \in Seq(Replies)
  BY DEF SessionTypes
<1>7. sent' \in Seq(Replies)
  BY <1>4, <1>5, <1>6
<1> QED
  BY <1>3, <1>4, <1>5, <1>7

\* What was read, arrived and is under way, when something is said.
LEMMA PendingSaid ==
  ASSUME SessionTypes, NEW r \in Replies, UNCHANGED <<read, arrived>>, sent' = Append(sent, r)
  PROVE  /\ Len(Pending) \in Nat /\ Len(Pending') = Len(Pending) + 1
         /\ \A i \in 1 .. Len(Pending) : Pending'[i] = Pending[i]
         /\ Pending'[Len(Pending) + 1] = r
<1>1. read \in Seq(Replies) /\ arrived \in Seq(Replies) /\ sent \in Seq(Replies)
  BY DEF SessionTypes
<1>2. PICK a \in Seq(Replies) : a = arrived \o sent
  BY <1>1, ConcatProperties
<1>3. arrived' \o sent' = Append(a, r)
  BY <1>1, <1>2
<1>4. Pending' = read \o Append(a, r) /\ Pending = read \o a
  BY <1>2, <1>3 DEF Pending
<1>5. Append(a, r) \in Seq(Replies) /\ Len(Append(a, r)) = Len(a) + 1
  BY <1>2, AppendProperties
<1>6. \A i \in 1 .. Len(a) : Append(a, r)[i] = a[i]
  BY <1>2, AppendProperties
<1>7. Append(a, r)[Len(a) + 1] = r
  BY <1>2, AppendProperties
<1> QED
  BY <1>1, <1>2, <1>4, <1>5, <1>6, <1>7, ConcatProperties

\* A move of the router and the network alone.
LEMMA StreamKeeps ==
  ASSUME SessionInv, UNCHANGED <<script, dry, cur, todo, results, undo, leg>>,
         stage' = stage \/ (stage = "finished" /\ stage' = "ended"),
         Passed \subseteq Passed', Given' \subseteq Given,
         \A c \in Passed \ Coming : c \notin Coming' /\ answered'[c] = answered[c],
         \A x \in 0 .. Outer : x \notin Given => answered'[x] = answered[x],
         SessionTypes', Ordered', InStep'
  PROVE  SessionInv'
<1>1. Long' = Long /\ Outer' = Outer /\ AllWell' = AllWell
  BY DEF Long, Outer, AllWell
<1>2. Itinerary'
  BY <1>1 DEF SessionInv, Itinerary, Busy
<1>3. Owed'
  <2>1. ASSUME NEW i \in DOMAIN todo, Waits(todo[i])'
        PROVE  answered'[todo[i]] = 0 /\ \A x \in Given' : (Behind(x, todo[i]))' /\ x # todo[i]
    <3>1. Waits(todo[i])
      BY <2>1 DEF Waits
    <3>2. todo[i] \in 0 .. Outer
      BY <2>1, SessionElements DEF SessionInv
    <3>3. answered[todo[i]] = 0 /\ \A x \in Given : Behind(x, todo[i]) /\ x # todo[i]
      BY <2>1, <3>1 DEF SessionInv, Owed
    <3>4. todo[i] \notin Given
      BY <3>3
    <3> QED
      BY <1>1, <3>2, <3>3, <3>4 DEF Behind
  <2>2. \A x \in Given' :
          \/ (x \in 1 .. Long' /\ ~dry')
          \/ x = 0
          \/ (x = Outer' /\ cur' = Outer' /\ stage' # "send")
          \/ (leg' = "rollback" /\ \E j \in DOMAIN undo' : x = undo'[j])
    BY <1>1 DEF SessionInv, Owed
  <2>3. ASSUME leg' = "batch", NEW x \in Long + 1 .. 2 * Long PROVE answered'[x] = 0
    <3>1. x \in 0 .. Outer /\ x # 0 /\ x # Outer /\ x \notin 1 .. Long
      BY <2>3, SessionElements DEF SessionInv
    <3>2. x \notin Given
      BY <2>3, <3>1 DEF SessionInv, Owed
    <3> QED
      BY <2>3, <3>1, <3>2 DEF SessionInv, Owed
  <2>4. ASSUME stage' \in {"new", "send"}, cur' = 0 PROVE answered'[0] = 0
    <3>1. stage \in {"new", "send"} /\ cur = 0
      BY <2>4
    <3>2. 0 # Outer /\ 0 \in 0 .. Outer
      BY SessionElements DEF SessionInv
    <3>3. results = <<>> \/ (todo # <<>> /\ cur = Head(todo))
      BY <3>1 DEF SessionInv, Itinerary, Busy
    <3>4. \A i \in DOMAIN todo : todo[i] # 0
      <4>1. CASE leg = "batch"
        BY <4>1, SessionElements DEF SessionInv, Itinerary
      <4>2. CASE leg = "rollback"
        <5>1. \A j \in DOMAIN undo : undo[j] # 0
          BY SessionElements DEF SessionInv, Itinerary
        <5> QED
          BY <4>2, <5>1 DEF SessionInv, Itinerary
      <4> QED
        BY <4>1, <4>2 DEF SessionInv, SessionTypes
    <3>5. results = <<>>
      BY <3>1, <3>3, <3>4, SessionElements DEF SessionInv
    <3>6. Coming = {}
      BY <3>1, <3>2, <3>5 DEF SessionInv, InStep, AllWell, Coming
    <3> QED
      BY <3>1, <3>2, <3>6 DEF SessionInv, Owed, Given
  <2> QED
    BY <1>1, <2>1, <2>2, <2>3, <2>4 DEF Owed
<1>4. Stopped'
  BY <1>1 DEF SessionInv, Stopped, Busy
<1>5. Settled'
  <2>1. ASSUME NEW r, CarriedOut(r) PROVE CarriedOut(r)'
    <3>1. r.cmd \in Passed \ Coming
      BY <2>1 DEF CarriedOut
    <3> QED
      BY <2>1, <3>1 DEF CarriedOut, Row
  <2> QED
    BY <1>1, <2>1 DEF SessionInv, Settled
<1> QED
  BY <1>2, <1>3, <1>4, <1>5 DEF SessionInv

\* The router has done with the first of its exchanges.
LEMMA OrderPasses ==
  ASSUME SessionInv, inbox # <<>>, inbox' = Tail(inbox), UNCHANGED script,
         carried' = carried \/ carried' = Append(carried, Head(inbox))
  PROVE  /\ carried' \in Seq(0 .. Outer) /\ inbox' \in Seq(0 .. Outer)
         /\ Ordered' /\ Passed \subseteq Passed' /\ Coming' \subseteq Coming /\ Given' \subseteq Given
         /\ carried' = Append(carried, Head(inbox)) => Head(inbox) \in Passed'
<1> USE DEF SessionInv
<1>1. /\ inbox \in Seq(0 .. Outer) /\ carried \in Seq(0 .. Outer)
      /\ Head(inbox) \in 0 .. Outer
  BY HeadTailProperties DEF SessionTypes
<1>2. /\ inbox' \in Seq(0 .. Outer) /\ Len(inbox') = Len(inbox) - 1
      /\ \A i \in 1 .. Len(inbox') : inbox'[i] = inbox[i + 1]
  BY <1>1, HeadTailProperties
<1>3. /\ Len(inbox) \in Nat /\ Len(inbox) >= 1 /\ DOMAIN inbox = 1 .. Len(inbox)
      /\ DOMAIN inbox' = 1 .. Len(inbox') /\ inbox[1] = Head(inbox)
  BY <1>1, <1>2, LenProperties, EmptySeq
<1>4. PICK n \in Nat : n = Len(carried) /\ DOMAIN carried = 1 .. n
  BY <1>1, LenProperties
<1>5. /\ carried' \in Seq(0 .. Outer) /\ \A i \in 1 .. n : carried'[i] = carried[i]
      /\ DOMAIN carried' = 1 .. n \/ (DOMAIN carried' = 1 .. n + 1 /\ carried'[n + 1] = inbox[1])
  <2>1. CASE carried' = carried
    BY <1>1, <1>4, <2>1
  <2>2. CASE carried' = Append(carried, Head(inbox))
    <3>1. /\ carried' \in Seq(0 .. Outer) /\ Len(carried') = n + 1 /\ carried'[n + 1] = inbox[1]
          /\ \A i \in 1 .. n : carried'[i] = carried[i]
      BY <1>1, <1>3, <1>4, <2>2, AppendProperties
    <3> QED
      BY <3>1, LenProperties
  <2> QED
    BY <2>1, <2>2
<1>6. \A i \in DOMAIN carried' : i \in 1 .. n \/ (i = n + 1 /\ carried'[i] = inbox[1])
  BY <1>4, <1>5
<1>7. \A x, y : (Behind(x, y))' <=> Behind(x, y)
  BY DEF Behind, Long
<1>8. ASSUME NEW i \in DOMAIN carried', NEW j \in DOMAIN carried', i < j
      PROVE  Behind(carried'[i], carried'[j])
  <2>1. CASE j \in 1 .. n
    BY <1>4, <1>5, <1>8, <2>1 DEF Ordered
  <2>2. CASE j \notin 1 .. n
    <3>1. j = n + 1 /\ carried'[j] = inbox[1] /\ i \in 1 .. n
      BY <1>4, <1>5, <1>6, <1>8, <2>2
    <3> QED
      BY <1>3, <1>4, <3>1 DEF Ordered
  <2> QED
    BY <2>1, <2>2
<1>9. ASSUME NEW i \in DOMAIN carried', NEW j \in DOMAIN inbox'
      PROVE  Behind(carried'[i], inbox'[j])
  <2>1. j + 1 \in DOMAIN inbox /\ inbox'[j] = inbox[j + 1] /\ 1 \in DOMAIN inbox /\ 1 < j + 1
    BY <1>2, <1>3, <1>9
  <2>2. CASE i \in 1 .. n
    BY <1>4, <2>1, <2>2 DEF Ordered
  <2>3. CASE i \notin 1 .. n
    <3>1. carried'[i] = inbox[1]
      BY <1>4, <1>5, <1>6, <1>9, <2>3
    <3> QED
      BY <2>1, <3>1 DEF Ordered
  <2> QED
    BY <2>2, <2>3
<1>10. ASSUME NEW i \in DOMAIN inbox', NEW j \in DOMAIN inbox', i < j
       PROVE  Behind(inbox'[i], inbox'[j])
  <2>1. /\ i + 1 \in DOMAIN inbox /\ j + 1 \in DOMAIN inbox /\ i + 1 < j + 1
        /\ inbox'[i] = inbox[i + 1] /\ inbox'[j] = inbox[j + 1]
    BY <1>2, <1>3, <1>10
  <2> QED
    BY <2>1 DEF Ordered
<1>11. Ordered'
  BY <1>7, <1>8, <1>9, <1>10 DEF Ordered
<1>12. Passed \subseteq Passed'
  <2>1. ASSUME NEW i \in DOMAIN carried PROVE i \in DOMAIN carried' /\ carried'[i] = carried[i]
    BY <1>4, <1>5, <1>6, <2>1
  <2> QED
    BY <2>1 DEF Passed
<1>13. Coming' \subseteq Coming
  <2>1. ASSUME NEW i \in DOMAIN inbox' PROVE i + 1 \in DOMAIN inbox /\ inbox'[i] = inbox[i + 1]
    BY <1>2, <1>3, <2>1
  <2> QED
    BY <2>1 DEF Coming
<1>14. Passed' \subseteq Passed \cup {inbox[1]}
  <2>1. ASSUME NEW i \in DOMAIN carried' PROVE carried'[i] = inbox[1] \/ (i \in DOMAIN carried /\ carried'[i] = carried[i])
    BY <1>4, <1>5, <1>6, <2>1
  <2> QED
    BY <2>1 DEF Passed
<1>15. inbox[1] \in Coming
  BY <1>3 DEF Coming
<1>16. ASSUME carried' = Append(carried, Head(inbox)) PROVE Head(inbox) \in Passed'
  <2>1. Len(carried') = n + 1 /\ carried'[n + 1] = Head(inbox)
    BY <1>1, <1>4, <1>16, AppendProperties
  <2>2. n + 1 \in DOMAIN carried'
    BY <1>4, <1>5, <2>1, LenProperties
  <2> QED
    BY <2>1, <2>2 DEF Passed
<1> QED
  BY <1>2, <1>5, <1>11, <1>12, <1>13, <1>14, <1>15, <1>16 DEF Given

\* Something more is said after a refusal: the answer stays refused.
LEMMA RefusedStays ==
  ASSUME SessionTypes, NEW c, NEW k \in Nat, AnswerOf(c, k),
         Len(Pending) > k /\ Pending[k + 1].type \in {"trap", "fatal"},
         UNCHANGED read, answered[c] \in Nat, answered'[c] \in Nat, answered'[c] >= answered[c],
         Len(Pending) \in Nat, Len(Pending') \in Nat, Len(Pending') >= Len(Pending),
         \A i \in 1 .. Len(Pending) : Pending'[i] = Pending[i]
  PROVE  (AnswerOf(c, k))'
<1>1. k <= answered[c] /\ Len(read) <= k /\ k < Len(Pending) /\ \A i \in 1 .. k : Pending[i] = Row(c, i - 1)
  BY DEF AnswerOf
<1>2. Len(read') <= k /\ k <= answered'[c] /\ k <= Len(Pending') /\ k < Len(Pending')
  BY <1>1
<1>3. \A i \in 1 .. k : Pending'[i] = Row(c, i - 1)
  BY <1>1
<1>4. Pending'[k + 1] = Pending[k + 1]
  BY <1>1
<1>5. Len(Pending') > k /\ Pending'[k + 1].type \in {"trap", "fatal"}
  BY <1>2, <1>4
<1> QED
  BY <1>2, <1>3, <1>5 DEF AnswerOf, Row

\* What was read, arrived and is under way are replies.
LEMMA PendingTyped ==
  ASSUME SessionTypes
  PROVE  Pending \in Seq(Replies) /\ Len(Pending) \in Nat /\ Len(Pending) = Len(read) + Len(arrived) + Len(sent)
BY Joined, LenProperties DEF SessionTypes, Pending

\* The router says a row of the first exchange it was given.
LEMMA SayRowKeeps ==
  ASSUME SessionInv, Sdk!SayRow PROVE SessionInv'
<1>1. PICK h : h = Head(inbox) /\ h \in 0 .. Outer
  <2>1. Head(inbox) \in 0 .. Outer
    BY HeadTailProperties DEF SessionInv, SessionTypes, Sdk!SayRow
  <2> QED
    BY <2>1
<1>2. /\ inbox # <<>> /\ ~refused /\ answered' = [answered EXCEPT ![h] = @ + 1] /\ Sdk!Say("re")
      /\ UNCHANGED <<script, dry, sock, stage, cur, todo, results, undo, leg, read, arrived, inbox, refused, carried>>
  BY <1>1 DEF Sdk!SayRow, Sdk!caller
<1>3. PICK r \in Replies :
        /\ r = Row(h, answered[h])
        /\ sent' \in Seq(Replies)
        /\ sock = "open" => sent' = Append(sent, r)
        /\ sock # "open" => sent' = sent
  BY <1>1, <1>2, SaidReply DEF SessionInv, Row
<1>4. /\ answered \in [0 .. Outer -> Nat] /\ answered' \in [0 .. Outer -> Nat]
      /\ answered'[h] = answered[h] + 1
      /\ \A x \in 0 .. Outer : answered'[x] >= answered[x] /\ (x # h => answered'[x] = answered[x])
  <2>1. answered \in [0 .. Outer -> Nat]
    BY DEF SessionInv, SessionTypes
  <2>2. answered[h] + 1 \in Nat
    BY <1>1, <2>1
  <2>3. answered' \in [0 .. Outer -> Nat]
    BY <1>2, <2>1, <2>2
  <2>4. answered'[h] = answered[h] + 1
    BY <1>1, <1>2, <2>1
  <2>5. ASSUME NEW x \in 0 .. Outer PROVE answered'[x] >= answered[x] /\ (x # h => answered'[x] = answered[x])
    BY <1>1, <1>2, <2>1, <2>4, <2>5
  <2> QED
    BY <2>1, <2>3, <2>4, <2>5
<1>5. SessionTypes'
  BY <1>2, <1>3, <1>4 DEF SessionInv, SessionTypes, Long, Outer
<1>6. Passed' = Passed /\ Coming' = Coming /\ Given' = Given /\ Ordered'
  BY <1>2 DEF SessionInv, Passed, Coming, Given, Ordered, Behind, Long
<1>7. h \in Coming
  <2>1. inbox[1] = h /\ 1 \in DOMAIN inbox
    BY <1>1, <1>2, SessionElements, EmptySeq DEF SessionInv, SessionTypes
  <2> QED
    BY <2>1 DEF Coming
<1>8. InStep'
  <2> SUFFICES ASSUME AllWell', cur' # Outer'
               PROVE  /\ stage' \notin {"new", "send", "next", "finished"}
                      /\ stage' \in {"reading", "waiting"} => \E k \in Nat : (AnswerOf(cur, k))'
    BY DEF InStep
  <2>1. AllWell /\ cur # Outer /\ stage \notin {"new", "send", "next", "finished"}
    BY <1>2 DEF AllWell, Outer, SessionInv, InStep
  <2>2. ASSUME stage' \in {"reading", "waiting"} PROVE \E k \in Nat : (AnswerOf(cur, k))'
    <3>1. PICK k \in Nat : AnswerOf(cur, k)
      BY <1>2, <2>1, <2>2 DEF SessionInv, InStep
    <3>2. cur \in 0 .. Outer /\ answered[cur] \in Nat /\ answered'[cur] \in Nat /\ answered'[cur] >= answered[cur]
      BY <1>4 DEF SessionInv, SessionTypes
    <3>3. Len(Pending) \in Nat
      BY PendingTyped DEF SessionInv
    <3>4. CASE sock # "open"
      <4>1. Pending' = Pending
        BY <1>2, <1>3, <3>4 DEF Pending
      <4>2. (AnswerOf(cur, k))'
        <5>1. k <= answered'[cur]
          BY <3>1, <3>2 DEF AnswerOf
        <5>2. \/ Len(Pending) = k
              \/ Len(Pending) > k /\ Pending[k + 1].type \in {"trap", "fatal"}
          BY <1>2, <3>1 DEF AnswerOf
        <5> QED
          BY <1>2, <3>1, <3>4, <4>1, <5>1, <5>2 DEF AnswerOf, Row
      <4> QED
        BY <4>2
    <3>5. CASE sock = "open"
      <4>1. /\ Len(Pending') = Len(Pending) + 1
            /\ \A i \in 1 .. Len(Pending) : Pending'[i] = Pending[i]
            /\ Pending'[Len(Pending) + 1] = r
        BY <1>2, <1>3, <3>5, PendingSaid DEF SessionInv
      <4>2. CASE Len(Pending) = k
        <5>1. k = answered[cur] /\ inbox = <<cur>>
          BY <3>1, <3>5, <4>2 DEF AnswerOf
        <5>2. h = cur /\ r = Row(cur, k)
          BY <1>1, <1>3, <5>1
        <5>3. k + 1 \in Nat /\ answered'[cur] = k + 1 /\ Len(read') <= k + 1 /\ Len(Pending') = k + 1
          BY <1>2, <1>4, <3>1, <3>2, <4>1, <4>2, <5>1, <5>2, LenProperties DEF AnswerOf, SessionInv, SessionTypes
        <5>4. \A i \in 1 .. k + 1 : Pending'[i] = Row(cur, i - 1)
          <6>1. \A i \in 1 .. k : Pending'[i] = Row(cur, i - 1)
            BY <3>1, <4>1, <4>2 DEF AnswerOf
          <6>2. Pending'[k + 1] = Row(cur, (k + 1) - 1)
            BY <4>1, <4>2, <5>2
          <6> QED
            BY <6>1, <6>2
        <5>5. (AnswerOf(cur, k + 1))'
          BY <1>2, <5>1, <5>3, <5>4 DEF AnswerOf, Row
        <5> QED
          BY <5>3, <5>5
      <4>3. CASE Len(Pending) # k
        <5>1. Len(Pending) > k /\ Pending[k + 1].type \in {"trap", "fatal"}
          BY <1>2, <3>1, <4>3 DEF AnswerOf
        <5>2. (AnswerOf(cur, k))'
          <6>1. PICK c : c = cur /\ cur' = c
            BY <1>2
          <6>2. (AnswerOf(c, k))'
            BY <1>2, <3>1, <3>2, <3>3, <4>1, <5>1, <6>1, RefusedStays DEF SessionInv
          <6> QED
            BY <6>1, <6>2
        <5> QED
          BY <5>2
      <4> QED
        BY <4>2, <4>3
    <3> QED
      BY <3>4, <3>5
  <2> QED
    BY <1>2, <2>1, <2>2
<1>9. \A c \in Passed \ Coming : c \notin Coming' /\ answered'[c] = answered[c]
  BY <1>4, <1>6, <1>7, SessionElements DEF SessionInv, Given
<1>10. \A x \in 0 .. Outer : x \notin Given => answered'[x] = answered[x]
  BY <1>4, <1>7 DEF Given
<1> QED
  BY <1>2, <1>5, <1>6, <1>8, <1>9, <1>10, StreamKeeps

\* Something is said, but not to one who hears it as part of a complete answer.
LEMMA SaidMore ==
  ASSUME SessionInv, NEW c \in 0 .. Outer, NEW k \in Nat, AnswerOf(c, k), inbox # <<>>,
         ~(sock = "open" /\ Len(Pending) = k), UNCHANGED <<sock, read, arrived, answered>>,
         NEW r \in Replies,
         sock = "open" => sent' = Append(sent, r),
         sock # "open" => sent' = sent
  PROVE  (AnswerOf(c, k))'
<1>1. Len(Pending) \in Nat
  BY PendingTyped DEF SessionInv
<1>2. answered[c] \in Nat /\ answered'[c] \in Nat /\ answered'[c] >= answered[c]
  <2>1. answered[c] \in Nat
    BY DEF SessionInv, SessionTypes
  <2> QED
    BY <2>1
<1>3. \/ Len(Pending) = k
      \/ Len(Pending) > k /\ Pending[k + 1].type \in {"trap", "fatal"}
  BY DEF AnswerOf
<1>4. CASE sock # "open"
  <2>1. Pending' = Pending
    BY <1>4 DEF Pending
  <2> QED
    BY <1>3, <1>4, <2>1 DEF AnswerOf, Row
<1>5. CASE sock = "open"
  <2>1. Len(Pending') = Len(Pending) + 1 /\ \A i \in 1 .. Len(Pending) : Pending'[i] = Pending[i]
    BY <1>5, PendingSaid DEF SessionInv
  <2>2. Len(Pending) > k /\ Pending[k + 1].type \in {"trap", "fatal"}
    BY <1>3, <1>5
  <2>3. Len(Pending') \in Nat /\ Len(Pending') >= Len(Pending)
    BY <1>1, <2>1
  <2> QED
    BY <1>1, <1>2, <2>1, <2>2, <2>3, RefusedStays DEF SessionInv
<1> QED
  BY <1>4, <1>5

\* The router refuses the first exchange it was given.
LEMMA SayTrapKeeps ==
  ASSUME SessionInv, Sdk!SayTrap PROVE SessionInv'
<1>1. /\ inbox # <<>> /\ ~refused /\ refused' = TRUE /\ Sdk!Say("trap")
      /\ UNCHANGED <<script, dry, sock, stage, cur, todo, results, undo, leg, read, arrived, inbox, answered, carried>>
  BY DEF Sdk!SayTrap, Sdk!caller
<1>2. PICK r \in Replies :
        /\ r.type = "trap"
        /\ sent' \in Seq(Replies)
        /\ sock = "open" => sent' = Append(sent, r)
        /\ sock # "open" => sent' = sent
  BY <1>1, SaidReply DEF SessionInv
<1>3. SessionTypes'
  BY <1>1, <1>2 DEF SessionInv, SessionTypes, Long, Outer
<1>4. Passed' = Passed /\ Coming' = Coming /\ Given' = Given /\ Ordered'
  BY <1>1 DEF SessionInv, Passed, Coming, Given, Ordered, Behind, Long
<1>5. InStep'
  <2> SUFFICES ASSUME AllWell', cur' # Outer'
               PROVE  /\ stage' \notin {"new", "send", "next", "finished"}
                      /\ stage' \in {"reading", "waiting"} => \E k \in Nat : (AnswerOf(cur, k))'
    BY DEF InStep
  <2>1. AllWell /\ cur # Outer /\ stage \notin {"new", "send", "next", "finished"}
    BY <1>1 DEF AllWell, Outer, SessionInv, InStep
  <2>2. ASSUME stage' \in {"reading", "waiting"} PROVE \E k \in Nat : (AnswerOf(cur, k))'
    <3>1. PICK k \in Nat : AnswerOf(cur, k)
      BY <1>1, <2>1, <2>2 DEF SessionInv, InStep
    <3>2. PICK c \in 0 .. Outer : c = cur /\ cur' = c
      BY <1>1 DEF SessionInv, SessionTypes
    <3>3. CASE ~(sock = "open" /\ Len(Pending) = k)
      <4>1. AnswerOf(c, k)
        BY <3>1, <3>2
      <4>2. (AnswerOf(c, k))'
        BY <1>1, <1>2, <3>3, <4>1, SaidMore
      <4> QED
        BY <3>2, <4>2
    <3>4. CASE sock = "open" /\ Len(Pending) = k
      <4>1. /\ Len(Pending') = Len(Pending) + 1
            /\ \A i \in 1 .. Len(Pending) : Pending'[i] = Pending[i]
            /\ Pending'[Len(Pending) + 1] = r
        BY <1>1, <1>2, <3>4, PendingSaid DEF SessionInv
      <4>2. /\ k <= answered'[c] /\ Len(read') <= k /\ k <= Len(Pending')
            /\ \A i \in 1 .. k : Pending'[i] = Row(c, i - 1)
        BY <1>1, <3>1, <3>2, <3>4, <4>1 DEF AnswerOf
      <4>3. Len(Pending') > k /\ Pending'[k + 1].type \in {"trap", "fatal"}
        BY <1>2, <3>4, <4>1
      <4>4. (AnswerOf(c, k))'
        BY <4>2, <4>3 DEF AnswerOf, Row
      <4> QED
        BY <3>2, <4>4
    <3> QED
      BY <3>3, <3>4
  <2> QED
    BY <1>1, <2>1, <2>2
<1>6. \A c \in Passed \ Coming : c \notin Coming' /\ answered'[c] = answered[c]
  BY <1>1, <1>4
<1>7. \A x \in 0 .. Outer : x \notin Given => answered'[x] = answered[x]
  BY <1>1
<1> QED
  BY <1>1, <1>3, <1>4, <1>5, <1>6, <1>7, StreamKeeps

\* The router ends the first exchange it was given with !done.
LEMMA SayDoneKeeps ==
  ASSUME SessionInv, Sdk!SayDone PROVE SessionInv'
<1>1. /\ inbox # <<>> /\ refused' = FALSE /\ Sdk!Say("done") /\ inbox' = Tail(inbox)
      /\ carried' = IF refused THEN carried ELSE Append(carried, Head(inbox))
      /\ UNCHANGED <<script, dry, sock, stage, cur, todo, results, undo, leg, read, arrived, answered>>
  BY DEF Sdk!SayDone, Sdk!caller
<1>2. PICK r \in Replies :
        /\ r.type = "done"
        /\ sent' \in Seq(Replies)
        /\ sock = "open" => sent' = Append(sent, r)
        /\ sock # "open" => sent' = sent
  BY <1>1, SaidReply DEF SessionInv
<1>3. carried' = carried \/ carried' = Append(carried, Head(inbox))
  BY <1>1
<1>4. /\ carried' \in Seq(0 .. Outer) /\ inbox' \in Seq(0 .. Outer)
      /\ Ordered' /\ Passed \subseteq Passed' /\ Coming' \subseteq Coming /\ Given' \subseteq Given
      /\ carried' = Append(carried, Head(inbox)) => Head(inbox) \in Passed'
  BY <1>1, <1>3, OrderPasses
<1>5. SessionTypes'
  BY <1>1, <1>2, <1>4 DEF SessionInv, SessionTypes, Long, Outer
<1>6. InStep'
  <2> SUFFICES ASSUME AllWell', cur' # Outer'
               PROVE  /\ stage' \notin {"new", "send", "next", "finished"}
                      /\ stage' \in {"reading", "waiting"} => \E k \in Nat : (AnswerOf(cur, k))'
    BY DEF InStep
  <2>1. AllWell /\ cur # Outer /\ stage \notin {"new", "send", "next", "finished"}
    BY <1>1 DEF AllWell, Outer, SessionInv, InStep
  <2>2. ASSUME stage' \in {"reading", "waiting"} PROVE \E k \in Nat : (AnswerOf(cur, k))'
    <3>1. PICK k \in Nat : AnswerOf(cur, k)
      BY <1>1, <2>1, <2>2 DEF SessionInv, InStep
    <3>2. PICK c \in 0 .. Outer : c = cur /\ cur' = c
      BY <1>1 DEF SessionInv, SessionTypes
    <3>3. CASE ~(sock = "open" /\ Len(Pending) = k)
      <4>1. AnswerOf(c, k)
        BY <3>1, <3>2
      <4>2. (AnswerOf(c, k))'
        BY <1>1, <1>2, <3>3, <4>1, SaidMore
      <4> QED
        BY <3>2, <4>2
    <3>4. CASE sock = "open" /\ Len(Pending) = k
      <4>1. /\ Len(Pending') = Len(Pending) + 1
            /\ \A i \in 1 .. Len(Pending) : Pending'[i] = Pending[i]
            /\ Pending'[Len(Pending) + 1] = r
        BY <1>1, <1>2, <3>4, PendingSaid DEF SessionInv
      <4>2. /\ k <= answered'[c] /\ Len(read') <= k /\ k <= Len(Pending')
            /\ \A i \in 1 .. k : Pending'[i] = Row(c, i - 1)
        BY <1>1, <3>1, <3>2, <3>4, <4>1 DEF AnswerOf
      <4>3. Len(Pending') = k + 1 /\ Pending'[k + 1].type = "done"
        BY <1>2, <3>4, <4>1
      <4>4. k = answered[c] /\ inbox = <<c>> /\ ~refused
        BY <3>1, <3>2, <3>4 DEF AnswerOf
      <4>5. k = answered'[c] /\ inbox' = <<>> /\ ~refused' /\ c \in Passed'
        BY <1>1, <1>4, <4>4
      <4>6. (AnswerOf(c, k))'
        BY <4>2, <4>3, <4>5 DEF AnswerOf, Row
      <4> QED
        BY <3>2, <4>6
    <3> QED
      BY <3>3, <3>4
  <2> QED
    BY <1>1, <2>1, <2>2
<1>7. \A c \in Passed \ Coming : c \notin Coming' /\ answered'[c] = answered[c]
  BY <1>1, <1>4
<1>8. \A x \in 0 .. Outer : x \notin Given => answered'[x] = answered[x]
  BY <1>1
<1> QED
  BY <1>1, <1>4, <1>5, <1>6, <1>7, <1>8, StreamKeeps

\* The end of what was to come is lost.
LEMMA CutShort ==
  ASSUME SessionTypes, NEW c, NEW k \in Nat, AnswerOf(c, k), sock' # "open",
         UNCHANGED <<read, answered, inbox, refused, carried>>,
         Len(Pending') \in Nat, Len(read) <= Len(Pending'), Len(Pending') <= Len(Pending),
         \A i \in 1 .. Len(Pending') : Pending'[i] = Pending[i],
         answered[c] \in Nat
  PROVE  \E n \in Nat : (AnswerOf(c, n))'
<1>1. k <= answered[c] /\ Len(read) <= k /\ \A i \in 1 .. k : Pending[i] = Row(c, i - 1)
  BY DEF AnswerOf
<1>2. CASE Len(Pending') <= k
  <2>1. PICK n \in Nat : n = Len(Pending')
    OBVIOUS
  <2>2. n <= answered'[c] /\ Len(read') <= n /\ n <= Len(Pending')
    BY <1>1, <1>2, <2>1
  <2>3. \A i \in 1 .. n : Pending'[i] = Row(c, i - 1)
    BY <1>1, <1>2, <2>1
  <2>4. (AnswerOf(c, n))'
    BY <2>1, <2>2, <2>3 DEF AnswerOf, Row
  <2> QED
    BY <2>4
<1>3. CASE Len(Pending') > k
  <2>1. \A i \in 1 .. k : Pending'[i] = Row(c, i - 1)
    BY <1>1, <1>3
  <2>2. Pending'[k + 1] = Pending[k + 1] /\ Len(Pending) \in Nat
    BY <1>3, PendingTyped
  <2>3. CASE Len(Pending) = k + 1
    <3>1. Len(Pending') = k + 1
      BY <1>3, <2>2, <2>3
    <3>2. Passed' = Passed
      BY DEF Passed
    <3> QED
      BY <1>1, <1>3, <2>1, <2>2, <2>3, <3>1, <3>2 DEF AnswerOf, Row
  <2>4. CASE Len(Pending) # k + 1
    <3>1. Pending[k + 1].type \in {"trap", "fatal"}
      BY <1>3, <2>2, <2>4 DEF AnswerOf
    <3>2. (AnswerOf(c, k))'
      BY <1>1, <1>3, <2>1, <2>2, <3>1 DEF AnswerOf, Row
    <3> QED
      BY <3>2
  <2> QED
    BY <2>3, <2>4
<1> QED
  <2>1. Len(Pending') <= k \/ Len(Pending') > k
    OBVIOUS
  <2> QED
    BY <1>2, <1>3, <2>1

\* The connection is closed or lost: what had not arrived, or was not read, is gone.
LEMMA CutKeeps ==
  ASSUME SessionInv, sent' = <<>>, sock' \in {"none", "dead"},
         arrived' = <<>> \/ arrived' = arrived,
         stage' = stage \/ (stage = "finished" /\ stage' = "ended"),
         UNCHANGED <<script, dry, cur, todo, results, undo, leg, read, inbox, answered, refused, carried>>
  PROVE  SessionInv'
<1>1. sent' \in Seq(Replies) /\ arrived' \in Seq(Replies)
  BY EmptySeq DEF SessionInv, SessionTypes
<1>2. SessionTypes'
  BY <1>1 DEF SessionInv, SessionTypes, Long, Outer
<1>3. Passed' = Passed /\ Coming' = Coming /\ Given' = Given /\ Ordered'
  BY DEF SessionInv, Passed, Coming, Given, Ordered, Behind, Long
<1>4. /\ Len(Pending') \in Nat /\ Len(read) <= Len(Pending') /\ Len(Pending') <= Len(Pending)
      /\ \A i \in 1 .. Len(Pending') : Pending'[i] = Pending[i]
  <2>1. /\ read \in Seq(Replies) /\ arrived \in Seq(Replies) /\ sent \in Seq(Replies)
        /\ Len(read) \in Nat /\ Len(arrived) \in Nat /\ Len(sent) \in Nat /\ Len(sent') = 0
    BY EmptySeq, LenProperties DEF SessionInv, SessionTypes
  <2>2. PICK m \in Nat : m = Len(arrived') /\ m <= Len(arrived) /\ \A i \in 1 .. m : arrived'[i] = arrived[i]
    BY <2>1, EmptySeq
  <2>3. /\ Len(Pending) = Len(read) + Len(arrived) + Len(sent)
        /\ \A i \in 1 .. Len(read) : Pending[i] = read[i]
        /\ \A i \in 1 .. Len(arrived) : Pending[Len(read) + i] = arrived[i]
    BY <2>1, Joined DEF Pending
  <2>4. /\ Len(Pending') = Len(read) + m
        /\ \A i \in 1 .. Len(read) : Pending'[i] = read[i]
        /\ \A i \in 1 .. m : Pending'[Len(read) + i] = arrived[i]
    BY <1>1, <2>1, <2>2, Joined DEF Pending
  <2>5. ASSUME NEW i \in 1 .. Len(Pending') PROVE Pending'[i] = Pending[i]
    <3>1. CASE i <= Len(read)
      BY <2>1, <2>3, <2>4, <3>1
    <3>2. CASE i > Len(read)
      <4>1. PICK j \in 1 .. m : i = Len(read) + j
        <5>1. i - Len(read) \in 1 .. m /\ i = Len(read) + (i - Len(read))
          BY <2>1, <2>4, <3>2
        <5> QED
          BY <5>1
      <4>2. j \in 1 .. Len(arrived)
        BY <2>1, <2>2, <4>1
      <4> QED
        BY <2>3, <2>4, <4>1, <4>2
    <3> QED
      BY <2>1, <2>4, <3>1, <3>2
  <2> QED
    BY <2>1, <2>2, <2>3, <2>4, <2>5
<1>5. InStep'
  <2> SUFFICES ASSUME AllWell', cur' # Outer'
               PROVE  /\ stage' \in {"new", "send", "next", "finished"} =>
                           inbox' = <<>> /\ arrived' = <<>> /\ sent' = <<>> /\ ~refused'
                      /\ stage' \in {"reading", "waiting"} => \E k \in Nat : (AnswerOf(cur, k))'
    BY DEF InStep
  <2>1. AllWell /\ cur # Outer
    BY DEF AllWell, Outer
  <2>2. ASSUME stage' \in {"reading", "waiting"} PROVE \E k \in Nat : (AnswerOf(cur, k))'
    <3>1. PICK k \in Nat : AnswerOf(cur, k)
      BY <2>1, <2>2 DEF SessionInv, InStep
    <3>2. PICK c \in 0 .. Outer : c = cur /\ cur' = c /\ answered[c] \in Nat
      BY DEF SessionInv, SessionTypes
    <3>3. AnswerOf(c, k) /\ sock' # "open"
      BY <3>1, <3>2
    <3>4. \E n \in Nat : (AnswerOf(c, n))'
      BY <1>4, <3>2, <3>3, CutShort DEF SessionInv
    <3> QED
      BY <3>2, <3>4
  <2>3. ASSUME stage' \in {"new", "send", "next", "finished"}
        PROVE  inbox' = <<>> /\ arrived' = <<>> /\ sent' = <<>> /\ ~refused'
    BY <2>1, <2>3 DEF SessionInv, InStep
  <2> QED
    BY <2>2, <2>3
<1> QED
  BY <1>2, <1>3, <1>5, StreamKeeps

\* The connection is lost after !fatal.
LEMMA FatalKeeps ==
  ASSUME SessionInv, inbox # <<>>, sent' = <<>>, sock' = "dead", NEW r \in Replies, r.type = "fatal",
         arrived' = arrived \o Append(sent, r),
         UNCHANGED <<script, dry, stage, cur, todo, results, undo, leg, read, inbox, answered, refused, carried>>
  PROVE  SessionInv'
<1>1. PICK s \in Seq(Replies) : s = Append(sent, r) /\ arrived \o s \in Seq(Replies)
  <2>1. sent \in Seq(Replies) /\ arrived \in Seq(Replies)
    BY DEF SessionInv, SessionTypes
  <2>2. Append(sent, r) \in Seq(Replies)
    BY <2>1, AppendProperties
  <2>3. arrived \o Append(sent, r) \in Seq(Replies)
    BY <2>1, <2>2, ConcatProperties
  <2> QED
    BY <2>2, <2>3
<1>2. arrived' = arrived \o s /\ arrived' \in Seq(Replies) /\ sent' \in Seq(Replies)
  BY <1>1, EmptySeq
<1>3. SessionTypes'
  BY <1>2 DEF SessionInv, SessionTypes, Long, Outer
<1>4. Passed' = Passed /\ Coming' = Coming /\ Given' = Given /\ Ordered'
  BY DEF SessionInv, Passed, Coming, Given, Ordered, Behind, Long
<1>5. /\ Len(Pending) \in Nat /\ Len(Pending') = Len(Pending) + 1
      /\ \A i \in 1 .. Len(Pending) : Pending'[i] = Pending[i]
      /\ Pending'[Len(Pending) + 1] = r
  <2>1. read \in Seq(Replies) /\ arrived \in Seq(Replies) /\ sent \in Seq(Replies)
    BY DEF SessionInv, SessionTypes
  <2>2. PICK a \in Seq(Replies) : a = arrived \o sent
    BY <2>1, ConcatProperties
  <2>3. arrived' \o sent' = Append(a, r)
    <3>1. arrived' \o sent' = arrived'
      BY <1>2, ConcatEmptySeq
    <3>2. arrived \o Append(sent, r) = Append(arrived \o sent, r)
      BY <2>1
    <3> QED
      BY <2>2, <3>1, <3>2
  <2>4. Pending' = read \o Append(a, r) /\ Pending = read \o a
    BY <2>2, <2>3 DEF Pending
  <2>5. PICK d \in Seq(Replies) : d = Append(a, r)
    BY <2>2, AppendProperties
  <2>6. Len(d) = Len(a) + 1 /\ d[Len(a) + 1] = r /\ \A i \in 1 .. Len(a) : d[i] = a[i]
    BY <2>2, <2>5, AppendProperties
  <2>7. Len(read) \in Nat /\ Len(a) \in Nat /\ Len(d) \in Nat
    BY <2>1, <2>2, LenProperties
  <2>8. PICK x, y : x = read \o a /\ y = read \o d
    OBVIOUS
  <2>9. /\ Len(x) = Len(read) + Len(a)
        /\ \A i \in 1 .. Len(read) + Len(a) : x[i] = IF i <= Len(read) THEN read[i] ELSE a[i - Len(read)]
    BY <2>1, <2>8, ConcatProperties
  <2>10. /\ Len(y) = Len(read) + Len(d)
         /\ \A i \in 1 .. Len(read) + Len(d) : y[i] = IF i <= Len(read) THEN read[i] ELSE d[i - Len(read)]
    BY <2>1, <2>8, ConcatProperties
  <2>11. Len(x) \in Nat /\ Len(y) = Len(x) + 1
    BY <2>6, <2>7, <2>9, <2>10
  <2>12. ASSUME NEW i \in 1 .. Len(x) PROVE y[i] = x[i]
    <3>1. i \in 1 .. Len(read) + Len(a) /\ i \in 1 .. Len(read) + Len(d)
      BY <2>6, <2>7, <2>9
    <3>2. ~(i <= Len(read)) => i - Len(read) \in 1 .. Len(a)
      BY <2>7, <3>1
    <3> QED
      BY <2>6, <2>9, <2>10, <3>1, <3>2
  <2>13. y[Len(x) + 1] = r
    <3>1. Len(x) + 1 \in 1 .. Len(read) + Len(d) /\ ~(Len(x) + 1 <= Len(read))
          /\ (Len(x) + 1) - Len(read) = Len(a) + 1
      BY <2>6, <2>7, <2>9
    <3> QED
      BY <2>6, <2>10, <3>1
  <2>14. Pending' = y /\ Pending = x
    BY <2>4, <2>5, <2>8
  <2> QED
    BY <2>11, <2>12, <2>13, <2>14
<1>6. InStep'
  <2> SUFFICES ASSUME AllWell', cur' # Outer'
               PROVE  /\ stage' \notin {"new", "send", "next", "finished"}
                      /\ stage' \in {"reading", "waiting"} => \E k \in Nat : (AnswerOf(cur, k))'
    BY DEF InStep
  <2>1. AllWell /\ cur # Outer /\ stage \notin {"new", "send", "next", "finished"}
    BY DEF AllWell, Outer, SessionInv, InStep
  <2>2. ASSUME stage' \in {"reading", "waiting"} PROVE \E k \in Nat : (AnswerOf(cur, k))'
    <3>1. PICK k \in Nat : AnswerOf(cur, k)
      BY <2>1, <2>2 DEF SessionInv, InStep
    <3>2. PICK c \in 0 .. Outer : c = cur /\ cur' = c /\ answered[c] \in Nat
      BY DEF SessionInv, SessionTypes
    <3>3. /\ k <= answered'[c] /\ Len(read') <= k /\ k <= Len(Pending')
          /\ \A i \in 1 .. k : Pending'[i] = Row(c, i - 1)
      BY <1>5, <3>1, <3>2 DEF AnswerOf
    <3>4. \/ Len(Pending) = k
          \/ Len(Pending) > k /\ Pending[k + 1].type \in {"trap", "fatal"}
      BY <3>1 DEF AnswerOf
    <3>5. Len(Pending') > k /\ Pending'[k + 1].type \in {"trap", "fatal"}
      BY <1>5, <3>4
    <3>6. (AnswerOf(c, k))'
      BY <3>3, <3>5 DEF AnswerOf, Row
    <3> QED
      BY <3>2, <3>6
  <2> QED
    BY <2>1, <2>2
<1> QED
  BY <1>3, <1>4, <1>6, StreamKeeps

\* A sequence is its first k elements and the others.
LEMMA InTwo ==
  ASSUME NEW S, NEW s \in Seq(S), NEW k \in 1 .. Len(s)
  PROVE  /\ SubSeq(s, 1, k) \in Seq(S) /\ SubSeq(s, k + 1, Len(s)) \in Seq(S)
         /\ SubSeq(s, 1, k) \o SubSeq(s, k + 1, Len(s)) = s
         /\ Len(SubSeq(s, 1, k)) = k /\ Len(SubSeq(s, k + 1, Len(s))) = Len(s) - k
<1>1. Len(s) \in Nat /\ k \in Int /\ k + 1 \in Int /\ 1 \in Int /\ Len(s) \in Int
  BY LenProperties
<1>2. /\ SubSeq(s, 1, k) \in Seq(S) /\ Len(SubSeq(s, 1, k)) = k
      /\ \A i \in 1 .. k : SubSeq(s, 1, k)[i] = s[i]
  <2>1. \A i \in 1 .. k : s[i] \in S
    BY <1>1, ElementOfSeq
  <2> QED
    BY <1>1, <2>1, SubSeqProperties
<1>3. /\ SubSeq(s, k + 1, Len(s)) \in Seq(S) /\ Len(SubSeq(s, k + 1, Len(s))) = Len(s) - k
      /\ \A i \in 1 .. Len(s) - k : SubSeq(s, k + 1, Len(s))[i] = s[k + i]
  <2>1. \A i \in k + 1 .. Len(s) : s[i] \in S
    BY <1>1, ElementOfSeq
  <2> QED
    BY <1>1, <2>1, SubSeqProperties
<1>4. PICK x, y : x = SubSeq(s, 1, k) /\ y = SubSeq(s, k + 1, Len(s))
  OBVIOUS
<1>5. x \in Seq(S) /\ y \in Seq(S) /\ Len(x) = k /\ Len(y) = Len(s) - k
  BY <1>2, <1>3, <1>4
<1>6. /\ x \o y \in Seq(S) /\ Len(x \o y) = Len(s)
      /\ \A i \in 1 .. Len(s) : (x \o y)[i] = IF i <= k THEN x[i] ELSE y[i - k]
  <2>1. Len(x) + Len(y) = Len(s)
    BY <1>1, <1>5
  <2>2. /\ x \o y \in Seq(S) /\ Len(x \o y) = Len(x) + Len(y)
        /\ \A i \in 1 .. Len(x) + Len(y) : (x \o y)[i] = IF i <= Len(x) THEN x[i] ELSE y[i - Len(x)]
    BY <1>5, ConcatProperties
  <2>3. Len(x) = k
    BY <1>5
  <2> QED
    BY <2>1, <2>2, <2>3
<1>7. ASSUME NEW i \in 1 .. Len(s) PROVE (x \o y)[i] = s[i]
  <2>1. CASE i <= k
    BY <1>1, <1>2, <1>4, <1>6, <2>1
  <2>2. CASE i > k
    <3>1. i - k \in 1 .. Len(s) - k /\ k + (i - k) = i
      BY <1>1, <2>2
    <3>2. y[i - k] = s[k + (i - k)]
      BY <1>3, <1>4, <3>1
    <3>3. (x \o y)[i] = y[i - k]
      BY <1>1, <1>6, <1>7, <2>2
    <3> QED
      BY <3>1, <3>2, <3>3
  <2>3. i \in Int /\ k \in Int
    BY <1>1, <1>7
  <2>4. i <= k \/ i > k
    BY <2>3
  <2> QED
    BY <2>1, <2>2, <2>4
<1>8. x \o y = s
  BY <1>6, <1>7, SeqEqual
<1> QED
  BY <1>2, <1>3, <1>4, <1>8

\* Part of what is under way arrives.
LEMMA DeliverKeeps ==
  ASSUME SessionInv, NEW k, Sdk!Deliver(k) PROVE SessionInv'
<1>1. /\ k \in 1 .. Len(sent) /\ arrived' = arrived \o SubSeq(sent, 1, k) /\ sent' = SubSeq(sent, k + 1, Len(sent))
      /\ UNCHANGED <<script, dry, sock, stage, cur, todo, results, undo, leg, read, inbox, answered, refused, carried>>
  BY DEF Sdk!Deliver, Sdk!caller, Sdk!routerSide
<1>2. read \in Seq(Replies) /\ arrived \in Seq(Replies) /\ sent \in Seq(Replies)
  BY DEF SessionInv, SessionTypes
<1>3. PICK x, y \in Seq(Replies) : x = SubSeq(sent, 1, k) /\ y = SubSeq(sent, k + 1, Len(sent)) /\ x \o y = sent
  <2>1. /\ SubSeq(sent, 1, k) \in Seq(Replies) /\ SubSeq(sent, k + 1, Len(sent)) \in Seq(Replies)
        /\ SubSeq(sent, 1, k) \o SubSeq(sent, k + 1, Len(sent)) = sent
    BY <1>1, <1>2, InTwo
  <2> QED
    BY <2>1
<1>4. arrived' = arrived \o x /\ sent' = y
  BY <1>1, <1>3
<1>5. arrived' \in Seq(Replies) /\ sent' \in Seq(Replies)
  <2>1. arrived \o x \in Seq(Replies)
    BY <1>2, ConcatProperties
  <2> QED
    BY <1>4, <2>1
<1>6. arrived' \o sent' = arrived \o sent
  <2>1. (arrived \o x) \o y = arrived \o (x \o y)
    BY <1>2, ConcatAssociative
  <2> QED
    BY <1>3, <1>4, <2>1
<1>7. Pending' = Pending
  BY <1>1, <1>6 DEF Pending
<1>8. SessionTypes'
  BY <1>1, <1>5 DEF SessionInv, SessionTypes, Long, Outer
<1>9. Passed' = Passed /\ Coming' = Coming /\ Given' = Given /\ Ordered'
  BY <1>1 DEF SessionInv, Passed, Coming, Given, Ordered, Behind, Long
<1>10. InStep'
  <2>1. \A n \in Nat : AnswerOf(cur, n) => (AnswerOf(cur, n))'
    BY <1>1, <1>7, <1>9 DEF AnswerOf, Row
  <2>2. sent # <<>>
    BY <1>1, <1>2, EmptySeq
  <2>3. AllWell' = AllWell /\ Outer' = Outer
    BY <1>1 DEF AllWell, Outer
  <2> QED
    BY <1>1, <2>1, <2>2, <2>3 DEF SessionInv, InStep
<1> QED
  BY <1>1, <1>8, <1>9, <1>10, StreamKeeps

\* The connection is lost, or closed by its owner.
LEMMA LostKeeps ==
  ASSUME SessionInv, Sdk!Lost \/ Sdk!Close PROVE SessionInv'
<1>1. CASE Sdk!Close
  <2>1. /\ sock' = "none" /\ arrived' = <<>> /\ sent' = <<>>
        /\ stage' = stage \/ (stage = "finished" /\ stage' = "ended")
        /\ UNCHANGED <<script, dry, cur, todo, results, undo, leg, read, inbox, answered, refused, carried>>
    BY <1>1 DEF Sdk!Close, Sdk!routerSide
  <2> QED
    BY <2>1, CutKeeps
<1>2. CASE Sdk!Lost
  <2>1. /\ sock' = "dead"
        /\ UNCHANGED <<script, dry, stage, cur, todo, results, undo, leg, read, inbox, answered, refused, carried>>
    BY <1>2 DEF Sdk!Lost, Sdk!routerSide, Sdk!caller
  <2>2. CASE sent' = <<>> /\ arrived' = arrived
    BY <2>1, <2>2, CutKeeps
  <2>3. CASE /\ inbox # <<>> /\ sent' = <<>>
             /\ arrived' = arrived \o Append(sent, [for |-> Head(inbox), type |-> "fatal", row |-> 0])
    <3>1. Head(inbox) \in 0 .. Outer
      BY <2>3, HeadTailProperties DEF SessionInv, SessionTypes
    <3>2. Head(inbox) \in Nat
      BY <3>1, SessionElements DEF SessionInv
    <3>3. PICK r : r = [for |-> Head(inbox), type |-> "fatal", row |-> 0]
      OBVIOUS
    <3>4. r \in Replies /\ r.type = "fatal"
      BY <3>2, <3>3 DEF Replies
    <3> QED
      BY <2>1, <2>3, <3>3, <3>4, FatalKeeps
  <2> QED
    BY <1>2, <2>2, <2>3 DEF Sdk!Lost
<1> QED
  BY <1>1, <1>2

-----------------------------------------------------------------------------
(* The loop over the commands                                              *)

\* A login is before everything else; a command under way is the first of those to do.
LEMMA UnderWay ==
  ASSUME SessionInv, stage \in {"new"} \cup Busy
  PROVE  /\ cur \in {0, Outer} => leg = "batch" /\ results = <<>> /\ undo = <<>> /\ AllWell
         /\ cur \notin {0, Outer} => todo # <<>> /\ cur = Head(todo) /\ ~(dry /\ leg = "batch")
         /\ stage = "new" => cur = 0
         /\ \A i \in DOMAIN todo : todo[i] \notin {0, Outer}
         /\ leg = "batch" => \A i \in DOMAIN todo : todo[i] \in 1 .. Long
         /\ leg = "rollback" => \A i \in DOMAIN todo : todo[i] \in Long + 1 .. 2 * Long
<1>1. leg = "batch" => \A i \in DOMAIN todo : todo[i] \in 1 .. Long
  BY DEF SessionInv, Itinerary
<1>2. leg = "rollback" => \A i \in DOMAIN todo : todo[i] \in Long + 1 .. 2 * Long
  BY DEF SessionInv, Itinerary
<1>3. \A i \in DOMAIN todo : todo[i] \notin {0, Outer}
  <2>1. leg \in {"batch", "rollback"}
    BY DEF SessionInv, SessionTypes
  <2> QED
    BY <1>1, <1>2, <2>1, SessionElements DEF SessionInv
<1>4. \/ cur \in {0, Outer} /\ leg = "batch" /\ results = <<>> /\ undo = <<>>
      \/ todo # <<>> /\ cur = Head(todo) /\ ~(dry /\ leg = "batch")
  BY DEF SessionInv, Itinerary
<1>5. todo # <<>> => Head(todo) = todo[1] /\ 1 \in DOMAIN todo
  BY SessionElements, EmptySeq DEF SessionInv, SessionTypes
<1>6. cur \in {0, Outer} => leg = "batch" /\ results = <<>> /\ undo = <<>>
  BY <1>3, <1>4, <1>5
<1>7. results = <<>> => AllWell
  BY EmptySeq DEF AllWell
<1> QED
  BY <1>1, <1>2, <1>3, <1>4, <1>6, <1>7 DEF SessionInv, Itinerary

\* What is left to do when the first is done.
LEMMA TodoShrinks ==
  ASSUME SessionInv, todo # <<>>, todo' = Tail(todo) \/ todo' = <<>>
  PROVE  /\ todo' \in Seq(0 .. Outer) /\ Head(todo) = todo[1] /\ 1 \in DOMAIN todo
         /\ \A i \in DOMAIN todo' : i \in Nat /\ i + 1 \in DOMAIN todo /\ 1 < i + 1 /\ todo'[i] = todo[i + 1]
         /\ \A i \in DOMAIN todo' : todo'[i] # Head(todo) /\ (leg = "batch" => todo'[i] > Head(todo))
<1>1. todo \in Seq(0 .. Outer) /\ Len(todo) \in Nat /\ Len(todo) >= 1 /\ DOMAIN todo = 1 .. Len(todo)
  BY SessionElements, EmptySeq DEF SessionInv, SessionTypes
<1>2. Head(todo) = todo[1] /\ 1 \in DOMAIN todo
  BY <1>1
<1>3. /\ todo' \in Seq(0 .. Outer)
      /\ \A i \in DOMAIN todo' : i \in Nat /\ i + 1 \in DOMAIN todo /\ 1 < i + 1 /\ todo'[i] = todo[i + 1]
  <2>1. CASE todo' = <<>>
    <3>1. todo' \in Seq(0 .. Outer) /\ Len(todo') = 0
      BY <2>1, EmptySeq
    <3>2. DOMAIN todo' = 1 .. 0
      BY <3>1, LenProperties
    <3> QED
      BY <3>1, <3>2
  <2>2. CASE todo' = Tail(todo)
    <3>1. /\ Tail(todo) \in Seq(0 .. Outer) /\ Len(Tail(todo)) = Len(todo) - 1
          /\ \A i \in 1 .. Len(Tail(todo)) : Tail(todo)[i] = todo[i + 1]
      BY <1>1, HeadTailProperties
    <3>2. DOMAIN todo' = 1 .. Len(todo) - 1
      BY <2>2, <3>1, LenProperties
    <3> QED
      BY <1>1, <2>2, <3>1, <3>2
  <2> QED
    BY <2>1, <2>2
<1>4. ASSUME NEW i \in DOMAIN todo' PROVE todo'[i] # Head(todo) /\ (leg = "batch" => todo'[i] > Head(todo))
  <2>1. i + 1 \in DOMAIN todo /\ 1 \in DOMAIN todo /\ 1 < i + 1 /\ todo'[i] = todo[i + 1]
    BY <1>2, <1>3, <1>4
  <2>2. todo[i + 1] \in Nat /\ todo[1] \in Nat
    BY <2>1, SessionElements DEF SessionInv
  <2>3. CASE leg = "batch"
    <3>1. todo[1] < todo[i + 1]
      BY <2>1, <2>3 DEF SessionInv, Itinerary
    <3> QED
      BY <1>2, <2>1, <2>2, <3>1
  <2>4. CASE leg = "rollback"
    <3>1. todo[1] > todo[i + 1]
      BY <2>1, <2>4 DEF SessionInv, Itinerary
    <3> QED
      BY <1>2, <2>1, <2>2, <2>4, <3>1
  <2> QED
    BY <2>3, <2>4 DEF SessionInv, SessionTypes
<1> QED
  BY <1>2, <1>3, <1>4

\* One more result.
LEMMA ResultsGrow ==
  ASSUME SessionInv, NEW r \in Outcomes, results' = Append(results, r),
         UNCHANGED <<script, dry, carried, inbox, answered>>,
         r.ok /\ AllWell /\ ~(dry /\ r.cmd \in 1 .. Long) => CarriedOut(r)
  PROVE  /\ results' \in Seq(Outcomes) /\ Settled'
         /\ AllWell' <=> AllWell /\ r.ok
         /\ (\A i, j \in DOMAIN results : i < j /\ ~results[i].ok => results[j].cmd \notin 1 .. Long)
            /\ (~AllWell => r.cmd \notin 1 .. Long)
            => \A i, j \in DOMAIN results' : i < j /\ ~results'[i].ok => results'[j].cmd \notin 1 .. Long
<1>1. results \in Seq(Outcomes)
  BY DEF SessionInv, SessionTypes
<1>2. PICK n \in Nat : n = Len(results) /\ DOMAIN results = 1 .. n
  BY <1>1, LenProperties
<1>3. /\ results' \in Seq(Outcomes) /\ Len(results') = n + 1 /\ results'[n + 1] = r
      /\ \A i \in 1 .. n : results'[i] = results[i]
  BY <1>1, <1>2, AppendProperties
<1>4. DOMAIN results' = 1 .. n + 1
  BY <1>3, LenProperties
<1>5. AllWell' <=> AllWell /\ r.ok
  BY <1>2, <1>3, <1>4 DEF AllWell
<1>6. ASSUME NEW q, CarriedOut(q) PROVE CarriedOut(q)'
  BY <1>6 DEF CarriedOut, Passed, Coming, Row
<1>7. Long' = Long
  BY DEF Long
<1>8. Settled'
  <2>1. ASSUME NEW i \in DOMAIN results', results'[i].ok, \A j \in 1 .. i - 1 : results'[j].ok,
               ~(dry /\ results'[i].cmd \in 1 .. Long)
        PROVE  CarriedOut(results'[i])
    <3>1. CASE i \in 1 .. n
      <4>1. results'[i] = results[i] /\ \A j \in 1 .. i - 1 : results'[j] = results[j]
        BY <1>3, <3>1
      <4> QED
        BY <1>2, <2>1, <3>1, <4>1 DEF SessionInv, Settled
    <3>2. CASE i = n + 1
      <4>1. AllWell
        BY <1>2, <1>3, <2>1, <3>2 DEF AllWell
      <4> QED
        BY <1>3, <2>1, <3>2, <4>1
    <3> QED
      BY <1>4, <2>1, <3>1, <3>2
  <2>2. ASSUME NEW i \in DOMAIN results', results'[i].ok, \A j \in 1 .. i - 1 : results'[j].ok,
               ~(dry /\ results'[i].cmd \in 1 .. Long)
        PROVE  CarriedOut(results[i])'
    <3>1. PICK q : q = results'[i]
      OBVIOUS
    <3>2. CarriedOut(q)
      BY <2>1, <2>2, <3>1
    <3>3. CarriedOut(q)'
      BY <1>6, <3>2
    <3> QED
      BY <3>1, <3>3 DEF CarriedOut, Row
  <2> QED
    BY <1>7, <2>2 DEF Settled
<1>9. ASSUME \A i, j \in DOMAIN results : i < j /\ ~results[i].ok => results[j].cmd \notin 1 .. Long,
             ~AllWell => r.cmd \notin 1 .. Long,
             NEW i \in DOMAIN results', NEW j \in DOMAIN results', i < j, ~results'[i].ok
      PROVE  results'[j].cmd \notin 1 .. Long
  <2>1. i \in 1 .. n /\ results'[i] = results[i]
    BY <1>3, <1>4, <1>9
  <2>2. CASE j \in 1 .. n
    BY <1>2, <1>3, <1>9, <2>1, <2>2
  <2>3. CASE j = n + 1
    <3>1. ~AllWell
      BY <1>2, <1>9, <2>1 DEF AllWell
    <3> QED
      BY <1>3, <1>9, <2>3, <3>1
  <2> QED
    BY <1>4, <1>9, <2>2, <2>3
<1> QED
  BY <1>3, <1>5, <1>8, <1>9

\* The rollback of a command comes before those of the commands before it.
LEMMA Unshifted ==
  ASSUME SessionInv, NEW c \in 1 .. Long, \A j \in DOMAIN undo : undo[j] < Long + c
  PROVE  \E u \in Seq(0 .. Outer) :
           /\ Sdk!Unshift(c) = u
           /\ \A i \in DOMAIN u : u[i] = Long + c \/ \E j \in DOMAIN undo : u[i] = undo[j]
           /\ \A i \in DOMAIN u : u[i] \in Long + 1 .. 2 * Long
           /\ \A i, j \in DOMAIN u : i < j => u[i] > u[j]
<1>1. /\ undo \in Seq(0 .. Outer) /\ Len(undo) \in Nat /\ DOMAIN undo = 1 .. Len(undo)
      /\ Long \in Nat /\ Outer = 2 * Long + 1 /\ Sdk!Undo(c) = Long + c
  BY SessionElements, SdkWords DEF SessionInv, SessionTypes
<1>2. /\ \A i \in DOMAIN undo : undo[i] \in Long + 1 .. 2 * Long
      /\ \A i, j \in DOMAIN undo : i < j => undo[i] > undo[j]
  BY DEF SessionInv, Itinerary
<1>3. CASE c \notin script.undoable
  <2>1. Sdk!Unshift(c) = undo
    BY <1>3 DEF Sdk!Unshift
  <2> QED
    BY <1>1, <1>2, <2>1
<1>4. CASE c \in script.undoable
  <2>1. PICK u : u = <<Long + c>> \o undo
    OBVIOUS
  <2>2. Sdk!Unshift(c) = u
    BY <1>1, <1>4, <2>1 DEF Sdk!Unshift
  <2>3. Long + c \in 0 .. Outer
    BY <1>1
  <2>4. PICK s \in Seq(0 .. Outer) : s = <<Long + c>> /\ Len(s) = 1 /\ s[1] = Long + c
    <3>1. PICK e \in 0 .. Outer : e = Long + c
      BY <2>3
    <3>2. <<e>> \in Seq(0 .. Outer) /\ Len(<<e>>) = 1 /\ <<e>>[1] = e
      OBVIOUS
    <3> QED
      BY <3>1, <3>2
  <2>5. /\ u \in Seq(0 .. Outer) /\ Len(u) = Len(undo) + 1
        /\ \A i \in 1 .. Len(undo) + 1 : u[i] = IF i = 1 THEN Long + c ELSE undo[i - 1]
    <3>1. u = s \o undo
      BY <2>1, <2>4
    <3>2. /\ s \o undo \in Seq(0 .. Outer) /\ Len(s \o undo) = Len(undo) + 1
          /\ \A i \in 1 .. 1 + Len(undo) : (s \o undo)[i] = IF i <= 1 THEN s[i] ELSE undo[i - 1]
      BY <1>1, <2>4, ConcatProperties
    <3> QED
      BY <1>1, <2>4, <3>1, <3>2
  <2>6. DOMAIN u = 1 .. Len(undo) + 1
    BY <2>5, LenProperties
  <2>7. ASSUME NEW i \in DOMAIN u PROVE (i = 1 /\ u[i] = Long + c) \/ (i - 1 \in DOMAIN undo /\ u[i] = undo[i - 1])
    <3>1. i \in 1 .. Len(undo) + 1
      BY <2>6, <2>7
    <3>2. u[i] = IF i = 1 THEN Long + c ELSE undo[i - 1]
      BY <2>5, <3>1
    <3>3. i # 1 => i - 1 \in DOMAIN undo
      BY <1>1, <3>1
    <3> QED
      BY <3>2, <3>3
  <2>8. \A i \in DOMAIN u : u[i] = Long + c \/ \E j \in DOMAIN undo : u[i] = undo[j]
    BY <2>7
  <2>9. \A i \in DOMAIN u : u[i] \in Long + 1 .. 2 * Long
    BY <1>1, <1>2, <2>7
  <2>10. ASSUME NEW i \in DOMAIN u, NEW j \in DOMAIN u, i < j PROVE u[i] > u[j]
    <3>1. j - 1 \in DOMAIN undo /\ u[j] = undo[j - 1]
      BY <2>6, <2>7, <2>10
    <3>2. CASE i = 1
      <4>1. u[i] = Long + c
        BY <1>1, <2>5, <2>6, <2>10, <3>2
      <4>2. undo[j - 1] < Long + c
        BY <3>1
      <4> QED
        BY <3>1, <4>1, <4>2
    <3>3. CASE i # 1
      <4>1. i - 1 \in DOMAIN undo /\ u[i] = undo[i - 1] /\ i - 1 < j - 1
        BY <1>1, <2>6, <2>7, <2>10, <3>3
      <4> QED
        BY <1>2, <3>1, <4>1
    <3> QED
      BY <3>2, <3>3
  <2> QED
    BY <2>2, <2>5, <2>8, <2>9, <2>10
<1> QED
  BY <1>3, <1>4

\* The session is connected, or is not.
LEMMA ConnectKeeps ==
  ASSUME SessionInv, Sdk!Connect PROVE SessionInv'
<1>1. /\ stage = "new" /\ stage' \in {"send", "ended"} /\ sock' \in {"open", "none"}
      /\ UNCHANGED <<script, dry, cur, todo, results, undo, leg, read, arrived, sent, inbox, answered, refused, carried>>
  BY DEF Sdk!Connect, Sdk!routerSide
<1>2. /\ cur = 0 /\ AllWell /\ results = <<>> /\ leg = "batch" /\ undo = <<>>
  BY <1>1, UnderWay DEF Busy
<1>3. SessionTypes'
  BY <1>1 DEF SessionInv, SessionTypes, Long, Outer
<1>4. Passed' = Passed /\ Coming' = Coming /\ Given' = Given /\ Ordered' /\ Long' = Long /\ Outer' = Outer
  BY <1>1 DEF SessionInv, Passed, Coming, Given, Ordered, Behind, Long, Outer
<1>5. Itinerary'
  BY <1>1, <1>2, <1>4 DEF SessionInv, Itinerary, Busy
<1>6. Owed'
  BY <1>1, <1>2, <1>4 DEF SessionInv, Owed, Waits, Behind
<1>7. AllWell'
  BY <1>1, <1>2 DEF AllWell
<1>8. Stopped'
  BY <1>1, <1>4, <1>7 DEF SessionInv, Stopped
<1>9. InStep'
  BY <1>1, <1>2, <1>4 DEF SessionInv, InStep
<1>10. Settled'
  BY <1>1, <1>4 DEF SessionInv, Settled, CarriedOut, Row
<1> QED
  BY <1>3, <1>4, <1>5, <1>6, <1>8, <1>9, <1>10 DEF SessionInv

\* The loop has nothing left to do.
LEMMA FinishKeeps ==
  ASSUME SessionInv, Sdk!Finish PROVE SessionInv'
<1>1. /\ stage = "next" /\ stage' = "finished"
      /\ UNCHANGED <<script, dry, sock, cur, todo, results, undo, leg, read, arrived, sent, inbox, answered, refused, carried>>
  BY DEF Sdk!Finish, Sdk!routerSide
<1>2. SessionTypes'
  BY <1>1 DEF SessionInv, SessionTypes, Long, Outer
<1>3. /\ Passed' = Passed /\ Coming' = Coming /\ Given' = Given /\ Ordered' /\ Long' = Long /\ Outer' = Outer
      /\ AllWell' = AllWell
  BY <1>1 DEF SessionInv, Passed, Coming, Given, Ordered, Behind, Long, Outer, AllWell
<1>4. Itinerary'
  BY <1>1, <1>3 DEF SessionInv, Itinerary, Busy
<1>5. Owed'
  BY <1>1, <1>3 DEF SessionInv, Owed, Waits, Behind
<1>6. Stopped'
  BY <1>1, <1>3 DEF SessionInv, Stopped, Busy
<1>7. InStep'
  BY <1>1, <1>3 DEF SessionInv, InStep
<1>8. Settled'
  BY <1>1, <1>3 DEF SessionInv, Settled, CarriedOut, Row
<1> QED
  BY <1>2, <1>3, <1>4, <1>5, <1>6, <1>7, <1>8 DEF SessionInv

\* rollback() undoes what was recorded, last first.
LEMMA RollbackKeeps ==
  ASSUME SessionInv, Sdk!Rollback PROVE SessionInv'
<1>1. /\ stage = "finished" /\ stage' = "next" /\ leg = "batch" /\ leg' = "rollback" /\ todo' = undo
      /\ UNCHANGED <<script, dry, sock, cur, results, undo, read, arrived, sent, inbox, answered, refused, carried>>
  BY DEF Sdk!Rollback, Sdk!routerSide
<1>2. SessionTypes'
  BY <1>1 DEF SessionInv, SessionTypes, Long, Outer
<1>3. /\ Passed' = Passed /\ Coming' = Coming /\ Given' = Given /\ Ordered' /\ Long' = Long /\ Outer' = Outer
      /\ AllWell' = AllWell
  BY <1>1 DEF SessionInv, Passed, Coming, Given, Ordered, Behind, Long, Outer, AllWell
<1>4. cur # Outer
  BY <1>1 DEF SessionInv, Itinerary
<1>5. Itinerary'
  BY <1>1, <1>3, <1>4 DEF SessionInv, Itinerary, Busy
<1>6. Owed'
  <2>1. ASSUME NEW i \in DOMAIN undo
        PROVE  answered[undo[i]] = 0 /\ \A x \in Given : Behind(x, undo[i]) /\ x # undo[i]
    <3>1. undo[i] \in Long + 1 .. 2 * Long
      BY <2>1 DEF SessionInv, Itinerary
    <3>2. ASSUME NEW x \in Given PROVE x <= Long /\ x \in Nat
      BY <1>1, <1>4, <3>2, SessionElements DEF SessionInv, Owed
    <3> QED
      BY <1>1, <3>1, <3>2, SessionElements DEF SessionInv, Owed, Behind
  <2>2. \A x \in Given : (x \in 1 .. Long /\ ~dry) \/ x = 0
    BY <1>1, <1>4 DEF SessionInv, Owed
  <2>3. \A x, y : (Behind(x, y))' <=> Behind(x, y)
    BY <1>3 DEF Behind
  <2> QED
    BY <1>1, <1>3, <2>1, <2>2, <2>3 DEF Owed
<1>7. Stopped'
  BY <1>1, <1>3 DEF SessionInv, Stopped, Busy
<1>8. InStep'
  BY <1>1, <1>3 DEF SessionInv, InStep
<1>9. Settled'
  BY <1>1, <1>3 DEF SessionInv, Settled, CarriedOut, Row
<1> QED
  BY <1>2, <1>3, <1>5, <1>6, <1>7, <1>8, <1>9 DEF SessionInv

\* The loop comes to a command that is to be sent.
LEMMA NextSends ==
  ASSUME SessionInv, stage = "next", todo # <<>>, ~(dry /\ leg = "batch"), cur' = Head(todo), stage' = "send",
         UNCHANGED <<script, dry, sock, todo, results, undo, leg, read, arrived, sent, inbox, answered, refused, carried>>
  PROVE  SessionInv'
<1>1. /\ Head(todo) = todo[1] /\ 1 \in DOMAIN todo
  BY SessionElements, EmptySeq DEF SessionInv, SessionTypes
<1>2. cur # Outer
  BY DEF SessionInv, Itinerary
<1>3. cur' \in 1 .. 2 * Long
  <2>1. leg = "batch" => todo[1] \in 1 .. Long
    BY <1>1 DEF SessionInv, Itinerary
  <2>2. leg = "rollback" => todo[1] \in Long + 1 .. 2 * Long
    BY <1>1 DEF SessionInv, Itinerary
  <2>3. leg \in {"batch", "rollback"}
    BY DEF SessionInv, SessionTypes
  <2> QED
    BY <1>1, <2>1, <2>2, <2>3, SessionElements DEF SessionInv
<1>4. cur' \in 0 .. Outer /\ cur' # 0
  BY <1>3, SessionElements DEF SessionInv
<1>5. SessionTypes'
  BY <1>4 DEF SessionInv, SessionTypes, Long, Outer
<1>6. /\ Passed' = Passed /\ Coming' = Coming /\ Given' = Given /\ Ordered' /\ Long' = Long /\ Outer' = Outer
      /\ AllWell' = AllWell
  BY DEF SessionInv, Passed, Coming, Given, Ordered, Behind, Long, Outer, AllWell
<1>7. Itinerary'
  BY <1>6 DEF SessionInv, Itinerary, Busy
<1>8. Owed'
  <2>1. \A x, y : (Behind(x, y))' <=> Behind(x, y)
    BY <1>6 DEF Behind
  <2>2. \A t : Waits(t) /\ Waits(t)'
    BY DEF Waits
  <2> QED
    BY <1>2, <1>4, <1>6, <2>1, <2>2 DEF SessionInv, Owed
<1>9. Stopped'
  BY <1>6 DEF SessionInv, Stopped
<1>10. InStep'
  BY <1>2, <1>6 DEF SessionInv, InStep
<1>11. Settled'
  BY <1>6 DEF SessionInv, Settled, CarriedOut, Row
<1> QED
  BY <1>5, <1>6, <1>7, <1>8, <1>9, <1>10, <1>11 DEF SessionInv

\* A command, reported as done, gives way to the next: its exchange, or the dry run, is over.
LEMMA CommandEnds ==
  ASSUME SessionInv, todo # <<>>, NEW c, c = Head(todo), stage' = "next", cur # Outer, cur' = cur,
         stage = "next" \/ (stage \in Busy /\ cur = c),
         todo' = Tail(todo) \/ todo' = <<>>,
         NEW r \in Outcomes, r.cmd = c, results' = Append(results, r),
         undo' = IF r.ok /\ leg = "batch" THEN Sdk!Unshift(c) ELSE undo,
         ~r.ok /\ script.tolerated = {} => todo' = <<>>,
         r.ok /\ AllWell /\ ~(dry /\ c \in 1 .. Long) => CarriedOut(r),
         AllWell /\ r.ok => inbox = <<>> /\ arrived' = <<>> /\ sent = <<>> /\ ~refused,
         arrived' \in Seq(Replies), read' \in Seq(Replies),
         UNCHANGED <<script, dry, sock, leg, sent, inbox, answered, refused, carried>>
  PROVE  SessionInv'
<1>1. /\ todo' \in Seq(0 .. Outer) /\ c = todo[1] /\ 1 \in DOMAIN todo
      /\ \A i \in DOMAIN todo' : i \in Nat /\ i + 1 \in DOMAIN todo /\ 1 < i + 1 /\ todo'[i] = todo[i + 1]
      /\ \A i \in DOMAIN todo' : todo'[i] # c /\ (leg = "batch" => todo'[i] > c)
  BY TodoShrinks
<1>2. /\ leg = "batch" => c \in 1 .. Long
      /\ leg = "rollback" => c \in Long + 1 .. 2 * Long /\ \E j \in DOMAIN undo : c = undo[j]
      /\ leg \in {"batch", "rollback"} /\ Long \in Nat
  BY <1>1 DEF SessionInv, Itinerary, SessionTypes
<1>3. /\ Passed' = Passed /\ Coming' = Coming /\ Given' = Given /\ Ordered' /\ Long' = Long /\ Outer' = Outer
      /\ \A x, y : (Behind(x, y))' <=> Behind(x, y)
  BY DEF SessionInv, Passed, Coming, Given, Ordered, Behind, Long, Outer
<1>4. /\ results' \in Seq(Outcomes) /\ Settled'
      /\ AllWell' <=> AllWell /\ r.ok
      /\ (\A i, j \in DOMAIN results : i < j /\ ~results[i].ok => results[j].cmd \notin 1 .. Long)
         /\ (~AllWell => r.cmd \notin 1 .. Long)
         => \A i, j \in DOMAIN results' : i < j /\ ~results'[i].ok => results'[j].cmd \notin 1 .. Long
  BY ResultsGrow
<1>5. PICK u \in Seq(0 .. Outer) :
        /\ undo' = u
        /\ \A i \in DOMAIN u : (r.ok /\ leg = "batch" /\ u[i] = Long + c) \/ \E j \in DOMAIN undo : u[i] = undo[j]
        /\ \A i \in DOMAIN u : u[i] \in Long + 1 .. 2 * Long
        /\ \A i, j \in DOMAIN u : i < j => u[i] > u[j]
        /\ leg = "rollback" => u = undo
  <2>1. CASE r.ok /\ leg = "batch"
    <3>1. c \in 1 .. Long
      BY <1>2, <2>1
    <3>2. \A j \in DOMAIN undo : undo[j] < Long + c
      BY <1>1, <2>1 DEF SessionInv, Itinerary
    <3>3. PICK u \in Seq(0 .. Outer) :
            /\ Sdk!Unshift(c) = u
            /\ \A i \in DOMAIN u : u[i] = Long + c \/ \E j \in DOMAIN undo : u[i] = undo[j]
            /\ \A i \in DOMAIN u : u[i] \in Long + 1 .. 2 * Long
            /\ \A i, j \in DOMAIN u : i < j => u[i] > u[j]
      BY <3>1, <3>2, Unshifted
    <3>4. undo' = u
      BY <2>1, <3>3
    <3> QED
      BY <2>1, <3>3, <3>4
  <2>2. CASE ~(r.ok /\ leg = "batch")
    <3>1. undo' = undo /\ undo \in Seq(0 .. Outer)
      BY <2>2 DEF SessionInv, SessionTypes
    <3>2. /\ \A i \in DOMAIN undo : undo[i] \in Long + 1 .. 2 * Long
          /\ \A i, j \in DOMAIN undo : i < j => undo[i] > undo[j]
      BY DEF SessionInv, Itinerary
    <3> QED
      BY <3>1, <3>2
  <2> QED
    BY <2>1, <2>2
<1>6. SessionTypes'
  <2>1. cur \in 0 .. Outer
    BY DEF SessionInv, SessionTypes
  <2> QED
    BY <1>1, <1>3, <1>4, <1>5, <2>1 DEF SessionInv, SessionTypes
<1>7. Itinerary'
  <2>1. ASSUME leg = "batch" PROVE /\ \A i \in DOMAIN todo' : todo'[i] \in 1 .. Long
                                   /\ \A i, j \in DOMAIN todo' : i < j => todo'[i] < todo'[j]
                                   /\ \A i \in DOMAIN todo', j \in DOMAIN u : u[j] < Long + todo'[i]
    <3>1. \A i \in DOMAIN todo' : todo'[i] \in 1 .. Long
      BY <1>1, <2>1 DEF SessionInv, Itinerary
    <3>2. ASSUME NEW i \in DOMAIN todo', NEW j \in DOMAIN todo', i < j PROVE todo'[i] < todo'[j]
      <4>1. i + 1 \in DOMAIN todo /\ j + 1 \in DOMAIN todo /\ i + 1 < j + 1
        BY <1>1, <3>2
      <4> QED
        BY <1>1, <2>1, <3>2, <4>1 DEF SessionInv, Itinerary
    <3>3. ASSUME NEW i \in DOMAIN todo', NEW j \in DOMAIN u PROVE u[j] < Long + todo'[i]
      <4>1. CASE u[j] = Long + c
        BY <1>1, <1>2, <2>1, <3>1, <3>3, <4>1
      <4>2. CASE \E k \in DOMAIN undo : u[j] = undo[k]
        BY <1>1, <2>1, <3>3, <4>2 DEF SessionInv, Itinerary
      <4> QED
        BY <1>5, <3>3, <4>1, <4>2
    <3> QED
      BY <3>1, <3>2, <3>3
  <2>2. ASSUME leg = "rollback" PROVE /\ \A i \in DOMAIN todo' : \E j \in DOMAIN u : todo'[i] = u[j]
                                      /\ \A i, j \in DOMAIN todo' : i < j => todo'[i] > todo'[j]
    <3>1. \A i \in DOMAIN todo' : \E j \in DOMAIN u : todo'[i] = u[j]
      BY <1>1, <1>5, <2>2 DEF SessionInv, Itinerary
    <3>2. ASSUME NEW i \in DOMAIN todo', NEW j \in DOMAIN todo', i < j PROVE todo'[i] > todo'[j]
      <4>1. i + 1 \in DOMAIN todo /\ j + 1 \in DOMAIN todo /\ i + 1 < j + 1
        BY <1>1, <3>2
      <4> QED
        BY <1>1, <2>2, <3>2, <4>1 DEF SessionInv, Itinerary
    <3> QED
      BY <3>1, <3>2
  <2> QED
    BY <1>3, <1>5, <2>1, <2>2 DEF Itinerary, Busy
<1>8. Owed'
  <2>1. \A t : Waits(t)'
    BY DEF Waits
  <2>2. ASSUME NEW i \in DOMAIN todo'
        PROVE  answered[todo'[i]] = 0 /\ \A x \in Given : Behind(x, todo'[i]) /\ x # todo'[i]
    <3>1. Waits(todo[i + 1])
      BY <1>1, <2>2 DEF Waits, Busy
    <3> QED
      BY <1>1, <2>2, <3>1 DEF SessionInv, Owed
  <2>3. ASSUME NEW x \in Given
        PROVE  \/ (x \in 1 .. Long /\ ~dry)
               \/ x = 0
               \/ (leg = "rollback" /\ \E j \in DOMAIN u : x = u[j])
    BY <1>5, <2>3 DEF SessionInv, Owed
  <2>4. leg = "batch" => \A x \in Long + 1 .. 2 * Long : answered[x] = 0
    BY DEF SessionInv, Owed
  <2> QED
    BY <1>3, <1>5, <2>1, <2>2, <2>3, <2>4 DEF Owed
<1>9. Stopped'
  <2> SUFFICES ASSUME script.tolerated = {}
               PROVE  /\ ~AllWell' /\ leg' = "batch" => todo' = <<>> /\ stage' \notin Busy
                      /\ ~dry' => /\ \A i \in DOMAIN undo' : undo'[i] - Long' \in Passed'
                                  /\ \A i, j \in DOMAIN results' :
                                       i < j /\ ~results'[i].ok => results'[j].cmd \notin 1 .. Long'
    BY DEF Stopped
  <2>1. leg = "batch" => AllWell
    BY DEF SessionInv, Stopped
  <2>2. ASSUME ~AllWell', leg' = "batch" PROVE todo' = <<>> /\ stage' \notin Busy
    BY <1>4, <2>1, <2>2 DEF Busy
  <2>3. ASSUME ~dry PROVE \A i \in DOMAIN u : u[i] - Long \in Passed
    <3>1. \A i \in DOMAIN undo : undo[i] - Long \in Passed
      BY <2>3 DEF SessionInv, Stopped
    <3>2. ASSUME r.ok, leg = "batch" PROVE (Long + c) - Long \in Passed
      <4>1. CarriedOut(r)
        BY <2>1, <2>3, <3>2
      <4>2. c \in Passed /\ (Long + c) - Long = c
        BY <1>2, <3>2, <4>1 DEF CarriedOut
      <4> QED
        BY <4>2
    <3> QED
      BY <1>5, <3>1, <3>2
  <2>4. ASSUME ~dry
        PROVE  \A i, j \in DOMAIN results' : i < j /\ ~results'[i].ok => results'[j].cmd \notin 1 .. Long
    <3>1. \A i, j \in DOMAIN results : i < j /\ ~results[i].ok => results[j].cmd \notin 1 .. Long
      BY <2>4 DEF SessionInv, Stopped
    <3>2. ~AllWell => r.cmd \notin 1 .. Long
      BY <1>2, <2>1
    <3> QED
      BY <1>4, <3>1, <3>2
  <2> QED
    BY <1>3, <1>5, <2>2, <2>3, <2>4
<1>10. InStep'
  BY <1>4 DEF InStep
<1> QED
  BY <1>3, <1>4, <1>6, <1>7, <1>8, <1>9, <1>10 DEF SessionInv

\* The loop takes the next command, to send it or, in a dry run, to pass it over.
LEMMA NextCommandKeeps ==
  ASSUME SessionInv, Sdk!NextCommand PROVE SessionInv'
<1>1. /\ stage = "next" /\ todo # <<>>
      /\ UNCHANGED <<script, dry, sock, leg, read, arrived, sent, inbox, answered, refused, carried>>
  BY DEF Sdk!NextCommand, Sdk!routerSide
<1>2. CASE dry /\ leg = "batch"
  <2>1. PICK c : c = Head(todo)
    OBVIOUS
  <2>2. c \in 1 .. Long
    <3>1. c = todo[1] /\ 1 \in DOMAIN todo
      BY <1>1, <2>1, SessionElements, EmptySeq DEF SessionInv, SessionTypes
    <3> QED
      BY <1>2, <3>1 DEF SessionInv, Itinerary
  <2>3. PICK r : r = [cmd |-> c, ok |-> TRUE, rows |-> <<>>]
    OBVIOUS
  <2>4. r \in Outcomes /\ r.cmd = c /\ r.ok
    <3>1. c \in Nat /\ <<>> \in Seq(Replies)
      BY <2>2, SessionElements, EmptySeq DEF SessionInv
    <3> QED
      BY <2>3, <3>1 DEF Outcomes
  <2>5. /\ results' = Append(results, r) /\ undo' = Sdk!Unshift(c) /\ todo' = Tail(todo)
        /\ stage' = stage /\ cur' = cur
    BY <1>2, <2>1, <2>3 DEF Sdk!NextCommand
  <2>6. cur # Outer
    BY <1>1 DEF SessionInv, Itinerary
  <2>7. AllWell => inbox = <<>> /\ arrived' = <<>> /\ sent = <<>> /\ ~refused
    BY <1>1, <2>6 DEF SessionInv, InStep
  <2>8. arrived' \in Seq(Replies) /\ read' \in Seq(Replies)
    BY <1>1 DEF SessionInv, SessionTypes
  <2> QED
    BY <1>1, <1>2, <2>1, <2>2, <2>4, <2>5, <2>6, <2>7, <2>8, CommandEnds
<1>3. CASE ~(dry /\ leg = "batch")
  <2>1. cur' = Head(todo) /\ stage' = "send" /\ UNCHANGED <<todo, results, undo>>
    BY <1>3 DEF Sdk!NextCommand
  <2> QED
    BY <1>1, <1>3, <2>1, NextSends
<1> QED
  BY <1>2, <1>3

\* What the exchange about to begin owes to those before it.
LEMMA ToBeSent ==
  ASSUME SessionInv, stage = "send"
  PROVE  /\ \A x \in Given : Behind(x, cur)
         /\ cur # Outer => answered[cur] = 0
         /\ cur \notin {0, Outer} => cur \notin Given
         /\ cur \notin {0, Outer} => \A i \in DOMAIN todo : todo[i] # cur => cur <= Long \/ todo[i] < cur
<1>1. CASE cur \in {0, Outer}
  <2>1. cur = 0 => answered[cur] = 0
    BY <1>1 DEF SessionInv, Owed
  <2>2. ASSUME NEW x \in Given PROVE Behind(x, cur)
    <3>1. x \in 0 .. Outer
      BY <2>2, SessionElements DEF SessionInv
    <3>2. leg = "batch"
      BY <1>1, UnderWay DEF Busy
    <3>3. x \in 1 .. Long \/ x = 0
      BY <3>2, <2>2 DEF SessionInv, Owed
    <3> QED
      BY <3>1, <3>3, SessionElements DEF SessionInv, Behind
  <2> QED
    BY <1>1, <2>1, <2>2
<1>2. CASE cur \notin {0, Outer}
  <2>1. todo # <<>> /\ cur = Head(todo)
    BY <1>2, UnderWay DEF Busy
  <2>2. cur = todo[1] /\ 1 \in DOMAIN todo
    BY <2>1, SessionElements, EmptySeq DEF SessionInv, SessionTypes
  <2>3. Waits(todo[1])
    BY DEF Waits
  <2>4. answered[cur] = 0 /\ \A x \in Given : Behind(x, cur) /\ x # cur
    BY <2>2, <2>3 DEF SessionInv, Owed
  <2>5. ASSUME NEW i \in DOMAIN todo, todo[i] # cur PROVE cur <= Long \/ todo[i] < cur
    <3>1. 1 < i
      BY <2>2, <2>5, SessionElements DEF SessionInv
    <3>2. CASE leg = "batch"
      BY <2>2, <3>2, SessionElements DEF SessionInv, Itinerary
    <3>3. CASE leg = "rollback"
      <4>1. todo[1] > todo[i]
        BY <2>2, <2>5, <3>1, <3>3 DEF SessionInv, Itinerary
      <4>2. todo[1] \in Nat /\ todo[i] \in Nat
        BY <2>2, <2>5, SessionElements DEF SessionInv
      <4> QED
        BY <2>2, <4>1, <4>2
    <3> QED
      BY <3>2, <3>3 DEF SessionInv, SessionTypes
  <2> QED
    BY <1>2, <2>4, <2>5
<1> QED
  BY <1>1, <1>2

\* An exchange begins: the router is given its sentence.
LEMMA SendKeeps ==
  ASSUME SessionInv, Sdk!Send PROVE SessionInv'
<1>1. /\ stage = "send" /\ sock = "open" /\ inbox' = Append(inbox, cur) /\ read' = <<>> /\ stage' = "reading"
      /\ UNCHANGED <<script, dry, sock, cur, todo, results, undo, leg, arrived, sent, answered, refused, carried>>
  BY DEF Sdk!Send
<1>2. /\ \A x \in Given : Behind(x, cur)
      /\ cur # Outer => answered[cur] = 0
      /\ cur \notin {0, Outer} => cur \notin Given
      /\ cur \notin {0, Outer} => \A i \in DOMAIN todo : todo[i] # cur => cur <= Long \/ todo[i] < cur
  BY <1>1, ToBeSent
<1>3. /\ Long' = Long /\ Outer' = Outer /\ AllWell' = AllWell /\ Passed' = Passed
      /\ \A x, y : (Behind(x, y))' <=> Behind(x, y)
      /\ cur \in 0 .. Outer /\ inbox \in Seq(0 .. Outer)
  BY <1>1 DEF Long, Outer, AllWell, Passed, Behind, SessionInv, SessionTypes
<1>4. PICK n \in Nat : n = Len(inbox) /\ DOMAIN inbox = 1 .. n
  BY <1>3, LenProperties
<1>5. /\ inbox' \in Seq(0 .. Outer) /\ DOMAIN inbox' = 1 .. n + 1 /\ inbox'[n + 1] = cur
      /\ \A i \in 1 .. n : inbox'[i] = inbox[i]
  <2>1. /\ inbox' \in Seq(0 .. Outer) /\ Len(inbox') = n + 1 /\ inbox'[n + 1] = cur
        /\ \A i \in 1 .. n : inbox'[i] = inbox[i]
    BY <1>1, <1>3, <1>4, AppendProperties
  <2> QED
    BY <2>1, LenProperties
<1>6. Coming' = Coming \cup {cur} /\ Given' = Given \cup {cur}
  <2>1. Coming' = Coming \cup {cur}
    BY <1>4, <1>5 DEF Coming
  <2> QED
    BY <1>3, <2>1 DEF Given
<1>7. SessionTypes'
  <2>1. read' \in Seq(Replies)
    BY <1>1, EmptySeq
  <2> QED
    BY <1>1, <1>3, <1>5, <2>1 DEF SessionInv, SessionTypes
<1>8. Itinerary'
  BY <1>1, <1>3 DEF SessionInv, Itinerary, Busy
<1>9. Ordered'
  <2>1. ASSUME NEW i \in DOMAIN carried, NEW j \in DOMAIN inbox' PROVE Behind(carried[i], inbox'[j])
    <3>1. carried[i] \in Given
      BY <2>1 DEF Given, Passed
    <3>2. CASE j \in 1 .. n
      BY <1>4, <1>5, <2>1, <3>2 DEF SessionInv, Ordered
    <3>3. CASE j = n + 1
      BY <1>2, <1>5, <3>1, <3>3
    <3> QED
      BY <1>5, <2>1, <3>2, <3>3
  <2>2. ASSUME NEW i \in DOMAIN inbox', NEW j \in DOMAIN inbox', i < j PROVE Behind(inbox'[i], inbox'[j])
    <3>1. i \in 1 .. n /\ inbox'[i] = inbox[i] /\ inbox[i] \in Given
      BY <1>4, <1>5, <2>2 DEF Given, Coming
    <3>2. CASE j \in 1 .. n
      BY <1>4, <1>5, <2>2, <3>1, <3>2 DEF SessionInv, Ordered
    <3>3. CASE j = n + 1
      BY <1>2, <1>5, <3>1, <3>3
    <3> QED
      BY <1>5, <2>2, <3>2, <3>3
  <2>3. \A i, j \in DOMAIN carried : i < j => Behind(carried[i], carried[j])
    BY DEF SessionInv, Ordered
  <2> QED
    BY <1>1, <1>3, <2>1, <2>2, <2>3 DEF Ordered
<1>10. Owed'
  <2>1. ASSUME NEW i \in DOMAIN todo, Waits(todo[i])'
        PROVE  answered[todo[i]] = 0 /\ \A x \in Given \cup {cur} : Behind(x, todo[i]) /\ x # todo[i]
    <3>1. todo[i] # cur
      BY <1>1, <2>1 DEF Waits
    <3>2. Waits(todo[i])
      BY <1>1 DEF Waits
    <3>3. answered[todo[i]] = 0 /\ \A x \in Given : Behind(x, todo[i]) /\ x # todo[i]
      BY <2>1, <3>2 DEF SessionInv, Owed
    <3>4. todo[i] \in 0 .. Outer /\ todo[i] # Outer
      BY <1>1, <2>1, UnderWay, SessionElements DEF SessionInv, Busy
    <3>5. Behind(cur, todo[i])
      <4>1. CASE cur \in {0, Outer}
        BY <3>4, <4>1, SessionElements DEF SessionInv, Behind
      <4>2. CASE cur \notin {0, Outer}
        <5>1. cur <= Long \/ todo[i] < cur
          BY <1>2, <2>1, <3>1, <4>2
        <5> QED
          BY <1>3, <5>1, SessionElements DEF SessionInv, Behind
      <4> QED
        BY <4>1, <4>2
    <3> QED
      BY <3>1, <3>3, <3>5
  <2>2. ASSUME NEW x \in Given \cup {cur}
        PROVE  \/ (x \in 1 .. Long /\ ~dry)
               \/ x = 0
               \/ (x = Outer /\ cur = Outer)
               \/ (leg = "rollback" /\ \E j \in DOMAIN undo : x = undo[j])
    <3>1. CASE x \in Given
      BY <3>1 DEF SessionInv, Owed
    <3>2. CASE x = cur /\ cur \notin {0, Outer}
      <4>1. todo # <<>> /\ cur = Head(todo) /\ ~(dry /\ leg = "batch")
        BY <1>1, <3>2, UnderWay DEF Busy
      <4>2. cur = todo[1] /\ 1 \in DOMAIN todo
        BY <4>1, SessionElements, EmptySeq DEF SessionInv, SessionTypes
      <4>3. /\ leg = "batch" => todo[1] \in 1 .. Long
            /\ leg = "rollback" => \E j \in DOMAIN undo : todo[1] = undo[j]
        BY <4>2 DEF SessionInv, Itinerary
      <4> QED
        BY <3>2, <4>1, <4>2, <4>3 DEF SessionInv, SessionTypes
    <3> QED
      BY <2>2, <3>1, <3>2
  <2>3. leg = "batch" => \A x \in Long + 1 .. 2 * Long : answered[x] = 0
    BY DEF SessionInv, Owed
  <2> QED
    BY <1>1, <1>3, <1>6, <2>1, <2>2, <2>3 DEF Owed
<1>11. Stopped'
  BY <1>1, <1>3 DEF SessionInv, Stopped, Busy
<1>12. InStep'
  <2> SUFFICES ASSUME AllWell, cur # Outer PROVE (AnswerOf(cur, 0))'
    BY <1>1, <1>3 DEF InStep
  <2>1. inbox = <<>> /\ arrived = <<>> /\ sent = <<>> /\ ~refused
    BY <1>1 DEF SessionInv, InStep
  <2>2. inbox' = <<cur>> /\ answered[cur] = 0
    BY <1>1, <1>2, <2>1
  <2>3. Pending' = <<>> /\ Len(Pending') = 0
    BY <1>1, <2>1 DEF Pending
  <2>4. Len(read') = 0
    BY <1>1
  <2> QED
    BY <1>1, <2>1, <2>2, <2>3, <2>4 DEF AnswerOf, Row
<1>13. Settled'
  <2>1. ASSUME NEW i \in DOMAIN results, CarriedOut(results[i]) PROVE CarriedOut(results[i])'
    <3>1. results[i].cmd \in Passed /\ results[i].cmd \in Given
      BY <2>1 DEF CarriedOut, Given
    <3>2. results # <<>>
      BY <2>1, SessionElements, EmptySeq DEF SessionInv
    <3>3. cur \notin {0, Outer}
      BY <1>1, <3>2, UnderWay DEF Busy
    <3>4. results[i].cmd # cur
      BY <1>2, <3>1, <3>3
    <3> QED
      BY <1>1, <1>3, <1>6, <2>1, <3>4 DEF CarriedOut, Row
  <2> QED
    BY <1>1, <1>3, <2>1 DEF SessionInv, Settled
<1> QED
  BY <1>7, <1>8, <1>9, <1>10, <1>11, <1>12, <1>13 DEF SessionInv

\* A login has ended, well or badly, or is tried in the older way.
LEMMA LoginEnds ==
  ASSUME SessionInv, stage \in Busy, cur \in {0, Outer},
         \/ stage' = "send" /\ cur = 0 /\ cur' = Outer
         \/ stage' = "ended" /\ cur' = cur
         \/ /\ stage' = "next" /\ cur = 0 /\ cur' = cur
            /\ cur # Outer => inbox = <<>> /\ arrived' = <<>> /\ sent = <<>> /\ ~refused,
         arrived' \in Seq(Replies), read' \in Seq(Replies),
         UNCHANGED <<script, dry, sock, todo, results, undo, leg, sent, inbox, answered, refused, carried>>
  PROVE  SessionInv'
<1>1. /\ leg = "batch" /\ results = <<>> /\ undo = <<>> /\ AllWell
      /\ \A i \in DOMAIN todo : todo[i] \notin {0, Outer}
  BY UnderWay
<1>2. /\ Passed' = Passed /\ Coming' = Coming /\ Given' = Given /\ Ordered' /\ Long' = Long /\ Outer' = Outer
      /\ AllWell' = AllWell /\ \A x, y : (Behind(x, y))' <=> Behind(x, y)
  BY DEF SessionInv, Passed, Coming, Given, Ordered, Behind, Long, Outer, AllWell
<1>3. Outer \in Nat /\ Outer # 0 /\ Outer \in 0 .. Outer
  BY SessionElements DEF SessionInv
<1>4. SessionTypes'
  <2>1. cur \in 0 .. Outer
    BY DEF SessionInv, SessionTypes
  <2>2. cur' \in 0 .. Outer /\ stage' \in {"send", "ended", "next"}
    BY <1>3, <2>1
  <2> QED
    BY <1>2, <2>2 DEF SessionInv, SessionTypes
<1>5. Itinerary'
  BY <1>1, <1>2, <1>3 DEF SessionInv, Itinerary, Busy
<1>6. Owed'
  <2>1. ASSUME NEW i \in DOMAIN todo
        PROVE  answered[todo[i]] = 0 /\ \A x \in Given : Behind(x, todo[i]) /\ x # todo[i]
    <3>1. Waits(todo[i])
      BY <1>1, <2>1 DEF Waits
    <3> QED
      BY <2>1, <3>1 DEF SessionInv, Owed
  <2>2. ASSUME NEW x \in Given
        PROVE  (x \in 1 .. Long /\ ~dry) \/ x = 0 \/ (x = Outer /\ cur' = Outer /\ stage' # "send")
    <3>1. (x \in 1 .. Long /\ ~dry) \/ x = 0 \/ (x = Outer /\ cur = Outer)
      BY <1>1, <2>2 DEF SessionInv, Owed
    <3> QED
      BY <1>3, <3>1
  <2>3. \A x \in Long + 1 .. 2 * Long : answered[x] = 0
    BY <1>1 DEF SessionInv, Owed
  <2>4. ~(stage' \in {"new", "send"} /\ cur' = 0)
    BY <1>3 DEF Busy
  <2> QED
    BY <1>1, <1>2, <2>1, <2>2, <2>3, <2>4 DEF Owed
<1>7. Stopped'
  BY <1>1, <1>2 DEF SessionInv, Stopped
<1>8. InStep'
  <2>1. cur' # Outer => stage' \in {"next", "ended"}
    OBVIOUS
  <2> QED
    BY <1>2, <1>3, <2>1 DEF InStep
<1>9. Settled'
  BY <1>1, EmptySeq DEF Settled
<1> QED
  BY <1>2, <1>4, <1>5, <1>6, <1>7, <1>8, <1>9 DEF SessionInv

\* An exchange has failed: refused, timed out, or not even sent.
LEMMA FailureKeeps ==
  ASSUME SessionInv, stage \in Busy, NEW how, Sdk!Failed(how), arrived' \in Seq(Replies), read' \in Seq(Replies),
         UNCHANGED <<script, dry, sock, leg, sent, inbox, answered, refused, carried>>
  PROVE  SessionInv'
<1>1. CASE cur \in {0, Outer}
  <2>1. /\ \/ stage' = "send" /\ cur = 0 /\ cur' = Outer
           \/ stage' = "ended" /\ cur' = cur
        /\ UNCHANGED <<todo, results, undo>>
    BY <1>1, SdkWords DEF Sdk!Failed
  <2> QED
    BY <1>1, <2>1, LoginEnds
<1>2. CASE cur \notin {0, Outer}
  <2>1. todo # <<>> /\ cur = Head(todo)
    BY <1>2, UnderWay
  <2>2. PICK r : r = [cmd |-> cur, ok |-> FALSE, rows |-> read]
    OBVIOUS
  <2>3. r \in Outcomes /\ r.cmd = cur /\ ~r.ok
    <3>1. cur \in Nat /\ read \in Seq(Replies)
      BY SessionElements DEF SessionInv, SessionTypes
    <3> QED
      BY <2>2, <3>1 DEF Outcomes
  <2>4. /\ stage' = "next" /\ cur' = cur /\ undo' = undo /\ results' = Append(results, r)
        /\ todo' = Tail(todo) \/ todo' = <<>>
        /\ script.tolerated = {} => todo' = <<>>
    BY <1>2, <2>2, SdkWords DEF Sdk!Failed, Sdk!StopsAt, Sdk!Report
  <2>5. PICK c : c = cur
    OBVIOUS
  <2> QED
    BY <1>2, <2>1, <2>3, <2>4, <2>5, CommandEnds
<1> QED
  BY <1>1, <1>2

-----------------------------------------------------------------------------
(* Reading                                                                 *)

\* A set of replies that ends with !done, when nothing has failed, is the answer.
LEMMA AnswerIsRead ==
  ASSUME SessionInv, stage \in {"reading", "waiting"}, AllWell, cur # Outer,
         NEW n \in DOMAIN arrived, arrived[n].type = "done",
         \A i \in DOMAIN arrived : i < n => arrived[i].type \notin {"done", "trap", "fatal"},
         NEW lot, lot = read \o SubSeq(arrived, 1, n - 1)
  PROVE  /\ n = Len(arrived) /\ inbox = <<>> /\ sent = <<>> /\ ~refused
         /\ cur \in Passed /\ Len(lot) = answered[cur]
         /\ \A k \in 1 .. answered[cur] : lot[k] = Row(cur, k - 1)
<1>1. /\ read \in Seq(Replies) /\ arrived \in Seq(Replies) /\ sent \in Seq(Replies)
      /\ Len(read) \in Nat /\ Len(arrived) \in Nat /\ Len(sent) \in Nat /\ DOMAIN arrived = 1 .. Len(arrived)
  BY LenProperties DEF SessionInv, SessionTypes
<1>2. /\ Len(Pending) = Len(read) + Len(arrived) + Len(sent)
      /\ \A i \in 1 .. Len(read) : Pending[i] = read[i]
      /\ \A i \in 1 .. Len(arrived) : Pending[Len(read) + i] = arrived[i]
  BY <1>1, Joined DEF Pending
<1>3. PICK k \in Nat : AnswerOf(cur, k)
  BY DEF SessionInv, InStep
<1>4. n \in Nat /\ 1 <= n /\ n <= Len(arrived)
  BY <1>1
<1>5. Len(read) <= k /\ k <= Len(Pending) /\ \A i \in 1 .. k : Pending[i] = Row(cur, i - 1)
  BY <1>3 DEF AnswerOf
<1>6. k < Len(read) + n
  <2>1. ASSUME k >= Len(read) + n PROVE FALSE
    <3>1. Len(read) + n \in 1 .. k
      BY <1>1, <1>4, <2>1
    <3>2. Pending[Len(read) + n] = arrived[n]
      BY <1>1, <1>2
    <3>3. PICK p \in 1 .. k : p = Len(read) + n
      BY <3>1
    <3>4. Pending[p] = Row(cur, p - 1) /\ Row(cur, p - 1).type = "re"
      BY <1>5 DEF Row
    <3> QED
      BY <3>2, <3>3, <3>4
  <2> QED
    BY <1>1, <1>4, <2>1
<1>7. Pending[k + 1].type \in {"done", "trap", "fatal"}
  BY <1>1, <1>2, <1>3, <1>4, <1>6 DEF AnswerOf
<1>8. PICK m \in 1 .. Len(arrived) : k + 1 = Len(read) + m /\ m <= n
  <2>1. k + 1 - Len(read) \in 1 .. Len(arrived) /\ k + 1 = Len(read) + (k + 1 - Len(read)) /\ k + 1 - Len(read) <= n
    BY <1>1, <1>4, <1>5, <1>6
  <2> QED
    BY <2>1
<1>9. m = n
  <2>1. arrived[m].type \in {"done", "trap", "fatal"}
    BY <1>2, <1>7, <1>8
  <2>2. ~(m < n)
    BY <1>1, <1>8, <2>1
  <2> QED
    BY <1>4, <1>8, <2>2
<1>10. Pending[k + 1].type = "done"
  BY <1>2, <1>8, <1>9
<1>11. /\ Len(Pending) = k + 1 /\ k = answered[cur] /\ inbox = <<>> /\ ~refused /\ cur \in Passed
  BY <1>1, <1>2, <1>3, <1>4, <1>6, <1>10 DEF AnswerOf
<1>12. n = Len(arrived) /\ sent = <<>>
  <2>1. Len(read) + Len(arrived) + Len(sent) = Len(read) + n
    BY <1>2, <1>8, <1>9, <1>11
  <2>2. n = Len(arrived) /\ Len(sent) = 0
    BY <1>1, <1>4, <2>1
  <2> QED
    BY <1>1, <2>2, EmptySeq
<1>13. /\ SubSeq(arrived, 1, n - 1) \in Seq(Replies) /\ Len(SubSeq(arrived, 1, n - 1)) = n - 1
       /\ \A i \in 1 .. n - 1 : SubSeq(arrived, 1, n - 1)[i] = arrived[i]
  <2>1. \A i \in 1 .. n - 1 : arrived[i] \in Replies
    BY <1>1, <1>4, ElementOfSeq
  <2>2. 1 \in Int /\ n - 1 \in Int
    BY <1>4
  <2> QED
    BY <1>4, <2>1, <2>2, SubSeqProperties
<1>14. PICK q \in Seq(Replies) : q = SubSeq(arrived, 1, n - 1)
  BY <1>13
<1>15. /\ Len(q) = n - 1 /\ \A i \in 1 .. n - 1 : q[i] = arrived[i]
  BY <1>13, <1>14
<1>16. Len(lot) = k
  <2>1. Len(lot) = Len(read) + Len(q)
    <3>1. lot = read \o q
      BY <1>14
    <3> QED
      BY <1>1, <1>14, <3>1, ConcatProperties
  <2>2. Len(read) + (n - 1) = k
    <3>1. k + 1 = Len(read) + m
      BY <1>8
    <3>2. k + 1 = Len(read) + n
      BY <1>9, <3>1
    <3>3. \A x, y, z \in Nat : z + 1 = x + y => x + (y - 1) = z
      OBVIOUS
    <3>4. Len(read) \in Nat /\ n \in Nat
      BY <1>1, <1>4
    <3> QED
      BY <3>2, <3>3, <3>4
  <2> QED
    BY <1>15, <2>1, <2>2
<1>17. ASSUME NEW i \in 1 .. k PROVE lot[i] = Pending[i]
  <2>1. lot[i] = IF i <= Len(read) THEN read[i] ELSE q[i - Len(read)]
    <3>1. i \in 1 .. Len(read) + Len(q)
      BY <1>1, <1>4, <1>8, <1>9, <1>15, <1>17
    <3>2. lot = read \o q
      BY <1>14
    <3> QED
      BY <1>1, <1>14, <3>1, <3>2, ConcatProperties
  <2>2. CASE i <= Len(read)
    BY <1>1, <1>2, <1>17, <2>1, <2>2
  <2>3. CASE i > Len(read)
    <3>1. PICK j \in 1 .. n - 1 : i = Len(read) + j
      <4>1. i - Len(read) \in 1 .. n - 1 /\ i = Len(read) + (i - Len(read))
        BY <1>1, <1>4, <1>8, <1>9, <1>17, <2>3
      <4> QED
        BY <4>1
    <3>2. j \in 1 .. Len(arrived) /\ i - Len(read) = j /\ ~(i <= Len(read))
      BY <1>1, <1>4, <3>1
    <3> QED
      BY <1>2, <1>15, <2>1, <3>1, <3>2
  <2>4. i <= Len(read) \/ i > Len(read)
    BY <1>1, <1>17
  <2> QED
    BY <2>2, <2>3, <2>4
<1> QED
  BY <1>5, <1>11, <1>12, <1>16, <1>17

\* The first reply that ends a set, among those that have arrived.
LEMMA FirstEnd ==
  ASSUME SessionInv, NEW E, E = {i \in DOMAIN arrived : Sdk!Ends(arrived[i])}, E # {}
  PROVE  \E n \in DOMAIN arrived :
           /\ n = (CHOOSE i \in E : \A j \in E : i <= j)
           /\ arrived[n].type \in {"done", "trap", "fatal"}
           /\ \A i \in DOMAIN arrived : i < n => arrived[i].type \notin {"done", "trap", "fatal"}
<1>1. arrived \in Seq(Replies) /\ Len(arrived) \in Nat /\ DOMAIN arrived = 1 .. Len(arrived)
  BY LenProperties DEF SessionInv, SessionTypes
<1>2. E \subseteq Nat
  BY <1>1
<1>3. \E i \in E : \A j \in E : i <= j
  BY <1>2, Least
<1>4. PICK n : n = (CHOOSE i \in E : \A j \in E : i <= j)
  OBVIOUS
<1>5. n \in E /\ \A j \in E : n <= j
  BY <1>3, <1>4
<1>6. n \in DOMAIN arrived /\ arrived[n].type \in {"done", "trap", "fatal"}
  BY <1>5 DEF Sdk!Ends
<1>7. ASSUME NEW i \in DOMAIN arrived, i < n PROVE arrived[i].type \notin {"done", "trap", "fatal"}
  <2>1. i \notin E
    BY <1>1, <1>5, <1>6, <1>7
  <2> QED
    BY <1>7, <2>1 DEF Sdk!Ends
<1> QED
  BY <1>4, <1>6, <1>7

\* Nothing that has arrived ends the set: it is added to the replies, and the wait goes on.
LEMMA WaitKeeps ==
  ASSUME SessionInv, stage \in {"reading", "waiting"}, stage' = "waiting",
         \A i \in DOMAIN arrived : arrived[i].type \notin {"done", "trap", "fatal"},
         read' = read \o arrived, arrived' = <<>>,
         UNCHANGED <<script, dry, sock, cur, todo, results, undo, leg, sent, inbox, answered, refused, carried>>
  PROVE  SessionInv'
<1>1. /\ read \in Seq(Replies) /\ arrived \in Seq(Replies) /\ sent \in Seq(Replies)
      /\ Len(read) \in Nat /\ Len(arrived) \in Nat /\ Len(sent) \in Nat /\ DOMAIN arrived = 1 .. Len(arrived)
  BY LenProperties DEF SessionInv, SessionTypes
<1>2. arrived' \in Seq(Replies) /\ read' \in Seq(Replies) /\ Len(read') = Len(read) + Len(arrived)
  BY <1>1, ConcatProperties, EmptySeq
<1>3. SessionTypes'
  BY <1>2 DEF SessionInv, SessionTypes, Long, Outer
<1>4. /\ Passed' = Passed /\ Coming' = Coming /\ Given' = Given /\ Ordered' /\ Long' = Long /\ Outer' = Outer
      /\ AllWell' = AllWell /\ \A x, y : (Behind(x, y))' <=> Behind(x, y)
  BY DEF SessionInv, Passed, Coming, Given, Ordered, Behind, Long, Outer, AllWell
<1>5. Itinerary'
  BY <1>4 DEF SessionInv, Itinerary, Busy
<1>6. Owed'
  <2>1. \A t : Waits(t)' <=> Waits(t)
    BY DEF Waits
  <2> QED
    BY <1>4, <2>1 DEF SessionInv, Owed
<1>7. Stopped'
  BY <1>4 DEF SessionInv, Stopped, Busy
<1>8. Pending' = Pending
  <2>1. (read \o arrived) \o sent = read \o (arrived \o sent)
    BY <1>1, ConcatAssociative
  <2>2. arrived' \o sent' = sent
    BY <1>1, ConcatEmptySeq
  <2> QED
    BY <2>1, <2>2 DEF Pending
<1>9. InStep'
  <2> SUFFICES ASSUME AllWell, cur # Outer PROVE \E k \in Nat : (AnswerOf(cur, k))'
    BY <1>4 DEF InStep
  <2>1. PICK k \in Nat : AnswerOf(cur, k)
    BY DEF SessionInv, InStep
  <2>2. /\ Len(Pending) = Len(read) + Len(arrived) + Len(sent)
        /\ \A i \in 1 .. Len(arrived) : Pending[Len(read) + i] = arrived[i]
    BY <1>1, Joined DEF Pending
  <2>3. Len(read') <= k
    <3>1. ASSUME Len(read) + Len(arrived) > k PROVE FALSE
      <4>1. Pending[k + 1].type \in {"done", "trap", "fatal"}
        BY <1>1, <2>1, <2>2, <3>1 DEF AnswerOf
      <4>2. PICK m \in 1 .. Len(arrived) : k + 1 = Len(read) + m
        <5>1. Len(read) <= k
          BY <2>1 DEF AnswerOf
        <5>2. k + 1 - Len(read) \in 1 .. Len(arrived) /\ k + 1 = Len(read) + (k + 1 - Len(read))
          BY <1>1, <3>1, <5>1
        <5> QED
          BY <5>2
      <4>3. Pending[k + 1] = arrived[m]
        BY <2>2, <4>2
      <4> QED
        BY <1>1, <4>1, <4>3
    <3> QED
      BY <1>1, <1>2, <3>1
  <2>4. (AnswerOf(cur, k))'
    BY <1>4, <1>8, <2>1, <2>3 DEF AnswerOf, Row
  <2> QED
    BY <2>4
<1>10. Settled'
  BY <1>4 DEF SessionInv, Settled, CarriedOut, Row
<1> QED
  BY <1>3, <1>4, <1>5, <1>6, <1>7, <1>9, <1>10 DEF SessionInv

\* The caller reads what has arrived: rows, or the end of a set.
LEMMA ReadingKeeps ==
  ASSUME SessionInv, Sdk!Read PROVE SessionInv'
<1>1. /\ stage \in {"reading", "waiting"}
      /\ UNCHANGED <<script, dry, sock, leg, sent, inbox, answered, refused, carried>>
  BY DEF Sdk!Read, Sdk!routerSide
<1>2. /\ read \in Seq(Replies) /\ arrived \in Seq(Replies)
      /\ Len(arrived) \in Nat /\ DOMAIN arrived = 1 .. Len(arrived) /\ cur \in 0 .. Outer
  BY LenProperties DEF SessionInv, SessionTypes
<1>3. PICK E : E = {i \in DOMAIN arrived : Sdk!Ends(arrived[i])}
  OBVIOUS
<1>4. CASE E = {}
  <2>1. \A i \in DOMAIN arrived : arrived[i].type \notin {"done", "trap", "fatal"}
    BY <1>3, <1>4 DEF Sdk!Ends
  <2>2. /\ read' = read \o SubSeq(arrived, 1, Len(arrived))
        /\ arrived' = SubSeq(arrived, Len(arrived) + 1, Len(arrived))
        /\ stage' = "waiting" /\ UNCHANGED <<cur, todo, results, undo>>
    BY <1>3, <1>4 DEF Sdk!Read
  <2>3. SubSeq(arrived, 1, Len(arrived)) = arrived
    BY <1>2, SubSeqFull
  <2>4. SubSeq(arrived, Len(arrived) + 1, Len(arrived)) = <<>>
    <3>1. Len(arrived) + 1 \in Int /\ Len(arrived) \in Int /\ Len(arrived) < Len(arrived) + 1
      BY <1>2
    <3> QED
      BY <3>1, SubSeqEmpty
  <2> QED
    BY <1>1, <2>1, <2>2, <2>3, <2>4, WaitKeeps
<1>5. CASE E # {}
  <2>1. PICK n \in DOMAIN arrived :
          /\ n = (CHOOSE i \in E : \A j \in E : i <= j)
          /\ arrived[n].type \in {"done", "trap", "fatal"}
          /\ \A i \in DOMAIN arrived : i < n => arrived[i].type \notin {"done", "trap", "fatal"}
    BY <1>3, <1>5, FirstEnd
  <2>2. PICK lot : lot = read \o SubSeq(arrived, 1, n - 1)
    OBVIOUS
  <2>3. /\ arrived' = SubSeq(arrived, n + 1, Len(arrived)) /\ read' = lot
        /\ \/ arrived[n].type = "done" /\ Sdk!Succeed(lot) /\ UNCHANGED cur
           \/ Sdk!Failed(arrived[n].type)
    BY <1>3, <1>5, <2>1, <2>2 DEF Sdk!Read
  <2>4. lot \in Seq(Replies) /\ arrived' \in Seq(Replies) /\ n \in Nat /\ 1 <= n /\ n <= Len(arrived)
    <3>1. n \in Nat /\ 1 <= n /\ n <= Len(arrived)
      BY <1>2, <2>1
    <3>2. SubSeq(arrived, 1, n - 1) \in Seq(Replies)
      <4>1. \A i \in 1 .. n - 1 : arrived[i] \in Replies
        BY <1>2, <3>1, ElementOfSeq
      <4>2. 1 \in Int /\ n - 1 \in Int
        BY <3>1
      <4> QED
        BY <4>1, <4>2, SubSeqProperties
    <3>3. SubSeq(arrived, n + 1, Len(arrived)) \in Seq(Replies)
      <4>1. \A i \in n + 1 .. Len(arrived) : arrived[i] \in Replies
        BY <1>2, <3>1, ElementOfSeq
      <4>2. n + 1 \in Int /\ Len(arrived) \in Int
        BY <1>2, <3>1
      <4> QED
        BY <4>1, <4>2, SubSeqProperties
    <3> QED
      BY <1>2, <2>2, <2>3, <3>1, <3>2, <3>3, ConcatProperties
  <2>5. CASE Sdk!Failed(arrived[n].type)
    <3>1. PICK how : how = arrived[n].type
      OBVIOUS
    <3> QED
      BY <1>1, <2>3, <2>4, <2>5, <3>1, FailureKeeps DEF Busy
  <2>6. CASE arrived[n].type = "done" /\ Sdk!Succeed(lot) /\ UNCHANGED cur
    <3>1. ASSUME AllWell, cur # Outer
          PROVE  /\ inbox = <<>> /\ arrived' = <<>> /\ sent = <<>> /\ ~refused
                 /\ cur \in Passed /\ cur \notin Coming /\ Len(lot) = answered[cur]
                 /\ \A k \in 1 .. answered[cur] : lot[k] = Row(cur, k - 1)
      <4>1. /\ n = Len(arrived) /\ inbox = <<>> /\ sent = <<>> /\ ~refused
            /\ cur \in Passed /\ Len(lot) = answered[cur]
            /\ \A k \in 1 .. answered[cur] : lot[k] = Row(cur, k - 1)
        BY <1>1, <2>1, <2>2, <2>6, <3>1, AnswerIsRead
      <4>2. arrived' = <<>>
        <5>1. n + 1 \in Int /\ Len(arrived) \in Int /\ Len(arrived) < n + 1
          BY <1>2, <2>4, <4>1
        <5> QED
          BY <2>3, <5>1, SubSeqEmpty
      <4>3. cur \notin Coming
        BY <4>1, EmptySeq DEF Coming
      <4> QED
        BY <4>1, <4>2, <4>3
    <3>2. CASE cur \in {0, Outer}
      <4>1. AllWell
        BY <1>1, <3>2, UnderWay DEF Busy
      <4>2. /\ UNCHANGED <<todo, results, undo>>
            /\ cur = Outer => stage' = "ended"
            /\ cur # Outer => stage' = "next"
        <5>1. Sdk!Legacy = Outer /\ Sdk!Login = 0
          BY SdkWords
        <5>2. CASE cur = Outer
          <6>1. Outer # 0
            BY SessionElements DEF SessionInv
          <6> QED
            BY <2>6, <5>1, <5>2, <6>1 DEF Sdk!Succeed
        <5>3. CASE cur # Outer /\ cur = 0
          BY <2>6, <5>1, <5>3 DEF Sdk!Succeed
        <5> QED
          BY <3>2, <5>2, <5>3
      <4> QED
        BY <1>1, <2>3, <2>4, <2>6, <3>1, <3>2, <4>1, <4>2, LoginEnds DEF Busy
    <3>3. CASE cur \notin {0, Outer}
      <4>1. todo # <<>> /\ cur = Head(todo)
        BY <1>1, <3>3, UnderWay DEF Busy
      <4>2. PICK r : r = [cmd |-> cur, ok |-> TRUE, rows |-> lot]
        OBVIOUS
      <4>3. r \in Outcomes /\ r.cmd = cur /\ r.ok /\ r.rows = lot
        <5>1. cur \in Nat
          BY <1>2, SessionElements DEF SessionInv
        <5> QED
          BY <2>4, <4>2, <5>1 DEF Outcomes
      <4>4. /\ stage' = "next" /\ cur' = cur /\ todo' = Tail(todo) /\ results' = Append(results, r)
            /\ undo' = IF leg = "batch" THEN Sdk!Unshift(cur) ELSE undo
        BY <2>6, <3>3, <4>2, SdkWords DEF Sdk!Succeed, Sdk!Report
      <4>5. PICK c : c = cur
        OBVIOUS
      <4>6. AllWell => CarriedOut(r)
        BY <3>1, <3>3, <4>3 DEF CarriedOut
      <4> QED
        BY <1>1, <2>3, <2>4, <3>1, <3>3, <4>1, <4>3, <4>4, <4>5, <4>6, CommandEnds DEF Busy
    <3> QED
      BY <3>2, <3>3
  <2> QED
    BY <2>3, <2>5, <2>6
<1> QED
  BY <1>4, <1>5

-----------------------------------------------------------------------------
(* The session                                                             *)

\* The invariant holds at first,
LEMMA InitSession ==
  ASSUME Sdk!Init PROVE SessionInv
<1>1. /\ script \in Scripts /\ dry \in BOOLEAN /\ sock = "none" /\ stage = "new" /\ cur = 0
      /\ todo = [i \in 1 .. Long |-> i] /\ results = <<>> /\ undo = <<>> /\ leg = "batch"
      /\ read = <<>> /\ arrived = <<>> /\ sent = <<>>
      /\ inbox = <<>> /\ refused = FALSE /\ carried = <<>>
      /\ answered = [n \in 0 .. Outer |-> 0]
  BY SdkWords DEF Sdk!Init
<1>2. Long \in Nat /\ Outer = 2 * Long + 1
  BY <1>1, SdkAssumption DEF Long, Outer
<1>3. todo \in Seq(0 .. Outer) /\ DOMAIN todo = 1 .. Long /\ \A i \in 1 .. Long : todo[i] = i
  <2>1. \A i \in 1 .. Long : i \in 0 .. Outer
    BY <1>2
  <2>2. todo \in [1 .. Long -> 0 .. Outer]
    BY <1>1, <2>1
  <2> QED
    BY <1>1, <1>2, <2>2, SeqDef
<1>4. AllWell /\ Passed = {} /\ Coming = {} /\ Given = {}
  BY <1>1, EmptySeq DEF AllWell, Passed, Coming, Given
<1>5. \A S : <<>> \in Seq(S)
  BY EmptySeq
<1>6. SessionTypes
  BY <1>1, <1>2, <1>3, <1>5 DEF SessionTypes
<1>7. Itinerary
  BY <1>1, <1>2, <1>3 DEF Itinerary, Busy
<1>8. Ordered
  BY <1>1 DEF Ordered
<1>9. Owed
  BY <1>1, <1>2, <1>3, <1>4 DEF Owed
<1>10. Stopped
  BY <1>1, <1>4 DEF Stopped
<1>11. InStep /\ Settled
  BY <1>1 DEF InStep, Settled
<1> QED
  BY <1>6, <1>7, <1>8, <1>9, <1>10, <1>11 DEF SessionInv

\* and every step keeps it.
LEMMA NextSession ==
  ASSUME SessionInv, Sdk!Next \/ UNCHANGED sdkVars PROVE SessionInv'
<1>1. CASE UNCHANGED sdkVars
  <2>1. UNCHANGED <<script, dry, sock, stage, cur, todo, results, undo, leg, read, arrived, sent,
                    inbox, answered, refused, carried>>
    BY <1>1 DEF sdkVars
  <2>2. SessionTypes' /\ Itinerary' /\ Ordered'
    BY <2>1 DEF SessionInv, SessionTypes, Itinerary, Ordered, Behind, Long, Outer, Busy
  <2>3. Owed' /\ Stopped'
    BY <2>1 DEF SessionInv, Owed, Stopped, Waits, Given, Passed, Coming, Behind, Long, Outer, AllWell
  <2>4. InStep'
    BY <2>1 DEF SessionInv, InStep, AllWell, AnswerOf, Pending, Row, Passed, Long, Outer
  <2>5. Settled'
    <3>1. \A r : CarriedOut(r)' <=> CarriedOut(r)
      BY <2>1 DEF CarriedOut, Row, Passed, Coming
    <3>2. Settled
      BY DEF SessionInv
    <3> QED
      BY <2>1, <3>1, <3>2 DEF Settled, CarriedOut, Row, Passed, Coming, Long
  <2> QED
    BY <2>2, <2>3, <2>4, <2>5 DEF SessionInv
<1>2. CASE Sdk!SendFails
  <2>1. /\ stage = "send" /\ Sdk!Failed("error")
        /\ UNCHANGED <<script, dry, sock, leg, read, arrived, sent, inbox, answered, refused, carried>>
    BY <1>2 DEF Sdk!SendFails, Sdk!routerSide
  <2>2. arrived' \in Seq(Replies) /\ read' \in Seq(Replies)
    BY <2>1 DEF SessionInv, SessionTypes
  <2> QED
    BY <2>1, <2>2, FailureKeeps DEF Busy
<1>3. CASE Sdk!TimeOut
  <2>1. /\ stage = "waiting" /\ Sdk!Failed("timeout")
        /\ UNCHANGED <<script, dry, sock, leg, read, arrived, sent, inbox, answered, refused, carried>>
    BY <1>3 DEF Sdk!TimeOut, Sdk!routerSide
  <2>2. arrived' \in Seq(Replies) /\ read' \in Seq(Replies)
    BY <2>1 DEF SessionInv, SessionTypes
  <2> QED
    BY <2>1, <2>2, FailureKeeps DEF Busy
<1>4. CASE Sdk!Next
  BY <1>2, <1>3, <1>4, ConnectKeeps, SendKeeps, ReadingKeeps, LostKeeps, NextCommandKeeps, FinishKeeps, RollbackKeeps,
     SayRowKeeps, SayDoneKeeps, SayTrapKeeps, DeliverKeeps DEF Sdk!Next
<1> QED
  BY <1>1, <1>4

\* What the invariant says of the results and of the router.
LEMMA ReportFollows ==
  ASSUME SessionInv PROVE Sdk!ReportIsTrue
<1>1. /\ Sdk!Commands = 1 .. Long /\ \A c : Sdk!Undo(c) = Long + c
  BY SdkWords
<1>2. Sdk!Carried = Passed
  <2>1. \A s : Sdk!ToSet(s) = {s[i] : i \in DOMAIN s}
    BY DEF Sdk!ToSet
  <2> QED
    BY <2>1 DEF Sdk!Carried, Passed
<1>3. ASSUME NEW i \in DOMAIN results, results[i].ok, ~Sdk!FailedBefore(i),
             ~(dry /\ results[i].cmd \in 1 .. Long)
      PROVE  /\ results[i].cmd \in Passed
             /\ results[i].rows = [k \in 1 .. answered[results[i].cmd] |->
                                     [for |-> results[i].cmd, type |-> "re", row |-> k - 1]]
  <2>1. CarriedOut(results[i])
    BY <1>3 DEF SessionInv, Settled, Sdk!FailedBefore
  <2>2. PICK c, lot : c = results[i].cmd /\ lot = results[i].rows
    OBVIOUS
  <2>3. lot \in Seq(Replies)
    BY <1>3, <2>2, SessionElements DEF SessionInv, Outcomes
  <2>4. DOMAIN lot = 1 .. answered[c] /\ \A k \in 1 .. answered[c] : lot[k] = [for |-> c, type |-> "re", row |-> k - 1]
    BY <2>1, <2>2, <2>3, LenProperties DEF CarriedOut, Row
  <2>5. lot = [k \in DOMAIN lot |-> lot[k]]
    BY <2>3, LenProperties
  <2>6. lot = [k \in 1 .. answered[c] |-> [for |-> c, type |-> "re", row |-> k - 1]]
    BY <2>4, <2>5
  <2> QED
    BY <2>1, <2>2, <2>6 DEF CarriedOut
<1>4. ASSUME script.tolerated = {}, ~dry
      PROVE  /\ \A c \in 1 .. Long : Long + c \in Passed => c \in Passed
             /\ \A i, j \in DOMAIN carried : i < j /\ carried[i] > script.length => carried[j] < carried[i]
             /\ \A i, j \in DOMAIN results : i < j /\ ~results[i].ok => results[j].cmd \notin 1 .. Long
  <2>1. ASSUME NEW c \in 1 .. Long, Long + c \in Passed PROVE c \in Passed
    <3>1. Long + c \in Given /\ Long \in Nat /\ Outer = 2 * Long + 1
      BY <2>1, SessionElements DEF SessionInv, Given
    <3>2. Long + c \notin 1 .. Long /\ Long + c # 0 /\ Long + c # Outer
      BY <3>1
    <3>3. PICK j \in DOMAIN undo : Long + c = undo[j]
      BY <3>1, <3>2 DEF SessionInv, Owed
    <3>4. undo[j] - Long \in Passed
      BY <1>4 DEF SessionInv, Stopped
    <3>5. (Long + c) - Long = c
      BY <3>1
    <3> QED
      BY <3>3, <3>4, <3>5
  <2>2. \A i, j \in DOMAIN carried : i < j /\ carried[i] > script.length => carried[j] < carried[i]
    BY DEF SessionInv, Ordered, Behind, Long
  <2>3. \A i, j \in DOMAIN results : i < j /\ ~results[i].ok => results[j].cmd \notin 1 .. Long
    BY <1>4 DEF SessionInv, Stopped
  <2> QED
    BY <2>1, <2>2, <2>3
<1>5. ASSUME dry, NEW x \in Passed PROVE x \notin 1 .. Long
  <2>1. x \in Given /\ Long \in Nat /\ Outer = 2 * Long + 1
    BY <1>5, SessionElements DEF SessionInv, Given
  <2>2. x = 0 \/ x = Outer \/ \E j \in DOMAIN undo : x = undo[j]
    BY <1>5, <2>1 DEF SessionInv, Owed
  <2>3. \A j \in DOMAIN undo : undo[j] \in Long + 1 .. 2 * Long
    BY DEF SessionInv, Itinerary
  <2> QED
    BY <2>1, <2>2, <2>3
<1> QED
  BY <1>1, <1>2, <1>3, <1>4, <1>5 DEF Sdk!ReportIsTrue

\* A session of the SDK: what is reported as done was done and read its own rows, as long as
\* nothing failed; a plan that stops at failures sends no command after one, and its rollback
\* undoes only what was done, last first, even on a connection out of step; a dry run does
\* nothing.
THEOREM ReportAlwaysTrue == Spec => []ReportIsTrue
<1> DEFINE I == part = "SDK" => SessionInv
<1>1. Init => I
  BY InitSession DEF Init
<1>2. I /\ [Next]_allVars => I'
  <2> SUFFICES ASSUME I, [Next]_allVars, part' = "SDK" PROVE SessionInv'
    OBVIOUS
  <2>1. part = "SDK"
    BY DEF Next, allVars
  <2>2. Sdk!Next \/ UNCHANGED sdkVars
    BY <2>1 DEF Next, allVars, sdkVars
  <2> QED
    BY <2>1, <2>2, NextSession
<1>3. I => ReportIsTrue
  BY ReportFollows DEF ReportIsTrue
<1> QED
  BY <1>1, <1>2, <1>3, PTL DEF Spec

-----------------------------------------------------------------------------
(* The types of a session                                                  *)

\* A result is of a command or of the rollback of one, and the router refuses only what
\* it was sent.
ResultsTyped == \A i \in DOMAIN results : results[i].cmd \in 1 .. 2 * Long
SessionTyped == script \in Scripts /\ ResultsTyped /\ (refused => inbox # <<>>)

\* It starts so, with no result.
LEMMA InitSessionTyped == ASSUME Sdk!Init PROVE SessionTyped
BY DEF Sdk!Init, SessionTyped, ResultsTyped

\* What is under way is the next of what is to be done: a command or a rollback.
LEMMA ToDoTyped ==
  ASSUME SessionInv
  PROVE  /\ todo # <<>> => Head(todo) \in 1 .. 2 * Long
         /\ stage \in Busy => cur \in {0, Outer} \cup 1 .. 2 * Long
<1>1. /\ Long \in Nat /\ todo \in Seq(0 .. Outer) /\ undo \in Seq(0 .. Outer) /\ leg \in {"batch", "rollback"}
      /\ Itinerary
  BY DEF SessionInv, SessionTypes
<1>2. \A i \in DOMAIN undo : undo[i] \in 1 .. 2 * Long
  <2>1. \A k \in Long + 1 .. 2 * Long : k \in 1 .. 2 * Long
    BY <1>1
  <2> QED
    BY <1>1, <2>1 DEF Itinerary
<1>3. \A i \in DOMAIN todo : todo[i] \in 1 .. 2 * Long
  <2>1. CASE leg = "batch"
    <3>1. \A k \in 1 .. Long : k \in 1 .. 2 * Long
      BY <1>1
    <3> QED
      BY <1>1, <2>1, <3>1 DEF Itinerary
  <2>2. CASE leg = "rollback"
    BY <1>1, <1>2, <2>2 DEF Itinerary
  <2> QED
    BY <1>1, <2>1, <2>2
<1>4. todo # <<>> => Head(todo) \in 1 .. 2 * Long
  <2>1. todo # <<>> => 1 \in DOMAIN todo /\ Head(todo) = todo[1]
    BY <1>1
  <2> QED
    BY <1>3, <2>1
<1> QED
  BY <1>1, <1>4 DEF Itinerary

\* A result is added.
LEMMA ResultTyped ==
  ASSUME SessionInv, ResultsTyped, NEW r, r.cmd \in 1 .. 2 * Long, results' = Append(results, r), script' = script
  PROVE  ResultsTyped'
<1>1. results \in Seq(Outcomes) /\ Long' = Long /\ Len(results) \in Nat /\ DOMAIN results = 1 .. Len(results)
  BY DEF SessionInv, SessionTypes, Long
<1>2. /\ DOMAIN results' = 1 .. Len(results) + 1 /\ results'[Len(results) + 1] = r
      /\ \A i \in 1 .. Len(results) : results'[i] = results[i]
  BY <1>1
<1>3. \A i \in 1 .. Len(results) + 1 : i \in 1 .. Len(results) \/ i = Len(results) + 1
  BY <1>1
<1> QED
  BY <1>1, <1>2, <1>3 DEF ResultsTyped

\* A command ends, with its result or without.
LEMMA EndTyped ==
  ASSUME SessionInv, ResultsTyped, stage \in Busy, script' = script,
         \/ \E got : Sdk!Succeed(got)
         \/ \E how : Sdk!Failed(how)
         \/ results' = results
  PROVE  ResultsTyped'
<1>1. results' = results \/ \E ok, got : cur \notin {0, Outer} /\ results' = Append(results, [cmd |-> cur, ok |-> ok, rows |-> got])
  <2>1. CASE \E got : Sdk!Succeed(got)
    BY <2>1 DEF Sdk!Succeed, Sdk!Report, Sdk!Login, Sdk!Legacy, Outer
  <2>2. CASE \E how : Sdk!Failed(how)
    BY <2>2 DEF Sdk!Failed, Sdk!Report, Sdk!Login, Sdk!Legacy, Outer
  <2> QED
    BY <2>1, <2>2
<1>2. CASE results' = results
  BY <1>2 DEF ResultsTyped, Long
<1>3. ASSUME NEW ok, NEW got, cur \notin {0, Outer}, results' = Append(results, [cmd |-> cur, ok |-> ok, rows |-> got])
      PROVE  ResultsTyped'
  <2>1. PICK r : r = [cmd |-> cur, ok |-> ok, rows |-> got]
    OBVIOUS
  <2>2. r.cmd \in 1 .. 2 * Long
    BY <1>3, <2>1, ToDoTyped
  <2> QED
    BY <1>3, <2>1, <2>2, ResultTyped
<1> QED
  BY <1>1, <1>2, <1>3

\* Every step of the session keeps the types.
LEMMA NextSessionTyped ==
  ASSUME SessionInv, SessionTyped, Sdk!Next \/ UNCHANGED sdkVars PROVE SessionTyped'
<1>0. /\ ResultsTyped /\ script \in Scripts /\ (refused => inbox # <<>>)
      /\ inbox \in Seq(0 .. Outer)
  BY DEF SessionTyped, SessionInv, SessionTypes
<1>1. ASSUME UNCHANGED <<script, results>> PROVE ResultsTyped'
  BY <1>0, <1>1 DEF ResultsTyped, Long
<1>2. CASE Sdk!Connect \/ Sdk!Close \/ Sdk!Finish \/ Sdk!Rollback \/ Sdk!Lost \/ UNCHANGED sdkVars
           \/ \E k \in 1 .. Len(sent) : Sdk!Deliver(k)
  <2>1. UNCHANGED <<script, results, inbox, refused>>
    BY <1>2 DEF Sdk!Connect, Sdk!Close, Sdk!Finish, Sdk!Rollback, Sdk!Lost, Sdk!Deliver, Sdk!routerSide, Sdk!caller, sdkVars
  <2> QED
    BY <1>0, <1>1, <2>1 DEF SessionTyped
<1>3. CASE Sdk!Send
  <2>1. UNCHANGED <<script, results, refused>> /\ inbox' = Append(inbox, cur)
    BY <1>3 DEF Sdk!Send
  <2>2. inbox' # <<>>
    BY <1>0, <2>1
  <2> QED
    BY <1>0, <1>1, <2>1, <2>2 DEF SessionTyped
<1>4. CASE Sdk!SayRow \/ Sdk!SayTrap
  <2>1. UNCHANGED <<script, results, inbox>> /\ inbox # <<>>
    BY <1>4 DEF Sdk!SayRow, Sdk!SayTrap, Sdk!caller
  <2> QED
    BY <1>0, <1>1, <2>1 DEF SessionTyped
<1>5. CASE Sdk!SayDone
  <2>1. UNCHANGED <<script, results>> /\ refused' = FALSE
    BY <1>5 DEF Sdk!SayDone, Sdk!caller
  <2> QED
    BY <1>0, <1>1, <2>1 DEF SessionTyped
<1>6. CASE Sdk!SendFails \/ Sdk!TimeOut
  <2>1. stage \in Busy /\ UNCHANGED <<script, inbox, refused>> /\ \E how : Sdk!Failed(how)
    BY <1>6 DEF Sdk!SendFails, Sdk!TimeOut, Sdk!routerSide, Busy
  <2>2. ResultsTyped'
    BY <1>0, <2>1, EndTyped
  <2> QED
    BY <1>0, <2>1, <2>2 DEF SessionTyped
<1>7. CASE Sdk!Read
  <2>1. /\ stage \in Busy /\ UNCHANGED <<script, inbox, refused>>
        /\ (\E how : Sdk!Failed(how)) \/ (\E got : Sdk!Succeed(got)) \/ results' = results
    BY <1>7 DEF Sdk!Read, Sdk!routerSide, Busy
  <2>2. ResultsTyped'
    BY <1>0, <2>1, EndTyped
  <2> QED
    BY <1>0, <2>1, <2>2 DEF SessionTyped
<1>8. CASE Sdk!NextCommand
  <2>1. /\ todo # <<>> /\ UNCHANGED <<script, inbox, refused>>
        /\ results' = results \/ results' = Append(results, [cmd |-> Head(todo), ok |-> TRUE, rows |-> <<>>])
    BY <1>8 DEF Sdk!NextCommand, Sdk!routerSide
  <2>2. PICK r : r = [cmd |-> Head(todo), ok |-> TRUE, rows |-> <<>>]
    OBVIOUS
  <2>3. r.cmd \in 1 .. 2 * Long
    BY <2>1, <2>2, ToDoTyped
  <2>4. ResultsTyped'
    BY <1>0, <1>1, <2>1, <2>2, <2>3, ResultTyped
  <2> QED
    BY <1>0, <2>1, <2>4 DEF SessionTyped
<1> QED
  BY <1>2, <1>3, <1>4, <1>5, <1>6, <1>7, <1>8 DEF Sdk!Next

\* With the invariant of the session these are its types.
LEMMA SessionTypesHold == SessionInv /\ SessionTyped => Sdk!TypeOK
<1> SUFFICES ASSUME SessionInv, SessionTyped PROVE Sdk!TypeOK
  OBVIOUS
<1>1. \A i \in DOMAIN results : results[i].ok \in BOOLEAN /\ results[i].cmd \in 1 .. 2 * script.length
  <2>1. \A i \in DOMAIN results : results[i] \in Outcomes
    BY DEF SessionInv, SessionTypes
  <2> QED
    BY <2>1 DEF Outcomes, SessionTyped, ResultsTyped, Long
<1>2. \A i \in DOMAIN inbox : inbox[i] \in 0 .. Sdk!Legacy
  <2>1. inbox \in Seq(0 .. Outer)
    BY DEF SessionInv, SessionTypes
  <2>2. Sdk!Legacy = Outer
    BY SdkWords
  <2>3. \A i \in DOMAIN inbox : inbox[i] \in 0 .. Outer
    BY <2>1, ElementOfSeq, LenProperties
  <2> QED
    BY <2>2, <2>3
<1> QED
  BY <1>1, <1>2, SdkWords DEF SessionInv, SessionTypes, SessionTyped, Sdk!TypeOK

-----------------------------------------------------------------------------
(* The logging of a router                                                 *)

Written == {"other", "modern", "endpoint", "legacy", "minimal"}
LoggingActions == [id : Nat \ {0}, name : {"MMESyslog", "mme-syslog"}, profile : Written]
LoggingRules == [id : Nat, action : Nat, topics : {"asked", "other"}]
Stages == {"idle", "action", "verifyAction", "listRules", "rule", "duplicates", "former", "succeeded"}
Verified == {"listRules", "rule", "duplicates", "former", "succeeded"}

Renewed == {a \in actions : a.name = "MMESyslog"}
Remnants == {a \in actions : a.name = "mme-syslog"}
OnRemnant(r) == \E a \in Remnants : r.action = a.id
Placed(r) == r.topics = "asked" /\ \E a \in Renewed : r.action = a.id

RouterTyped ==
  /\ fresh \in Nat \ {0}
  /\ actions \subseteq LoggingActions /\ \A a \in actions : a.id < fresh
  /\ rules \subseteq LoggingRules /\ \A r \in rules : r.id < fresh

CallersTyped ==
  /\ step \in [Configurers -> Stages] /\ offers \in [Configurers -> Seq(Written)]
  /\ actionId \in [Configurers -> Nat] /\ removals \in [Configurers -> SUBSET Nat]
  /\ overlap \in [Configurers -> BOOLEAN]
  /\ \A c \in Configurers : step[c] = "verifyAction" => offers[c] # <<>>

\* The router keeps names and identifiers apart, and the action of a rule is there.
OnePerName ==
  /\ \A a, b \in actions : a.id = b.id \/ a.name = b.name => a = b
  /\ \A q, r \in rules : q.id = r.id => q = r
  /\ \A r \in rules : \E a \in actions : r.action = a.id

\* From the verification on the action is there; who has the rules S still to remove
\* has those of the former action among them, and where only actions are left to remove
\* no rule needs them.
Cares(l, S) ==
  /\ l \in Verified => Renewed # {}
  /\ l \in {"rule", "duplicates"} => \A r \in rules : OnRemnant(r) => r.id \in S
  /\ l = "former" => /\ \A r \in rules : ~OnRemnant(r)
                     /\ \A a \in Renewed : a.id \notin S

\* The action sends where profile o says.
Sends(a, o) == RouterOs!Destination(a.profile) = RouterOs!Destination(o)

\* What is known of the router at stage l, with profile o, by who had it to itself.
Knows(l, o, S) ==
  /\ l \in Verified => \E a \in Renewed : Sends(a, o)
  /\ l = "rule" => S = {r.id : r \in rules}
  /\ l = "duplicates" => \E r \in rules : Placed(r) /\ S = {q.id : q \in rules \ {r}}
  /\ l \in {"former", "succeeded"} => \E r \in rules : rules = {r} /\ Placed(r)
  /\ l = "former" => S = {a.id : a \in Remnants}
  /\ l = "succeeded" => Remnants = {}

AllCare == \A c \in Configurers : Cares(step[c], removals[c])

AloneAtIt ==
  \A c \in Configurers : ~overlap[c] /\ step[c] # "idle" =>
    /\ \A d \in Configurers : d # c => step[d] \in {"idle", "succeeded"}
    /\ Knows(step[c], Head(offers[c]), removals[c])

LoggingInv == RouterTyped /\ CallersTyped /\ OnePerName /\ AllCare /\ AloneAtIt

LEMMA NamesOfActions ==
  /\ RouterOs!Named(RouterOs!Managed) = Renewed /\ RouterOs!Named(RouterOs!Former) = Remnants
  /\ RouterOs!ManagedIds = {a.id : a \in {b \in actions : b.name \in {"MMESyslog", "mme-syslog"}}}
BY DEF RouterOs!Named, RouterOs!Managed, RouterOs!Former, RouterOs!ManagedIds, Renewed, Remnants

LEMMA ForemostIsOne ==
  ASSUME NEW S \in SUBSET Nat, S # {} PROVE RouterOs!Foremost(S) \in S
<1>1. \E e \in S : \A f \in S : e <= f
  BY Least
<1> QED
  BY <1>1 DEF RouterOs!Foremost

LEMMA ActionOfName ==
  ASSUME OnePerName, Renewed # {} PROVE \E a \in Renewed : Renewed = {a} /\ RouterOs!IdOf(Renewed) = a.id
<1>1. PICK a \in Renewed : TRUE
  OBVIOUS
<1>2. Renewed = {a}
  BY <1>1 DEF OnePerName, Renewed
<1>3. (CHOOSE b \in Renewed : TRUE) = a
  BY <1>2
<1> QED
  BY <1>1, <1>2, <1>3 DEF RouterOs!IdOf

\* An identifier is of one name.
LEMMA NamesApart ==
  ASSUME OnePerName PROVE \A a \in Renewed, b \in Remnants : a.id # b.id
BY DEF OnePerName, Renewed, Remnants

\* The commands of configure(), carried out in full.
ActionWritten(c) ==
  /\ step[c] = "action" /\ rules' = rules
  /\ \/ RouterOs!WriteAction(c) /\ offers[c] # <<>>
     \/ /\ actionId[c] # 0 /\ RouterOs!Writable(actionId[c]) /\ RouterOs!NameFree(actionId[c])
        /\ actions' = {IF a.id = actionId[c] THEN [a EXCEPT !.name = RouterOs!Managed] ELSE a : a \in actions}
        /\ UNCHANGED fresh

RouterMoves(c) ==
  \/ UNCHANGED <<actions, rules, fresh>>
  \/ ActionWritten(c)
  \/ step[c] = "rule" /\ RouterOs!WriteRule(c)
  \/ step[c] = "duplicates" /\ removals[c] # {} /\ RouterOs!DropRule(c)
  \/ step[c] = "former" /\ removals[c] # {} /\ RouterOs!DropAction(c)

RouterKept ==
  RouterTyped' /\ OnePerName' /\ \A l, S : Cares(l, S) => Cares(l, S)'

\* Writing the action changes what it is called or where it sends, no identifier.
LEMMA WriteActionKeeps ==
  ASSUME LoggingInv, NEW c \in Configurers, ActionWritten(c)
  PROVE  RouterKept
<1>1. /\ fresh \in Nat \ {0} /\ actions \subseteq LoggingActions /\ \A a \in actions : a.id < fresh
      /\ rules \subseteq LoggingRules /\ \A r \in rules : r.id < fresh
      /\ actionId[c] \in Nat /\ offers[c] \in Seq(Written) /\ rules' = rules
  BY DEF ActionWritten, LoggingInv, RouterTyped, CallersTyped
<1>2. PICK id, w : /\ fresh' = IF actionId[c] = 0 THEN fresh + 1 ELSE fresh
                   /\ id = IF actionId[c] = 0 THEN fresh ELSE actionId[c]
                   /\ w \in LoggingActions /\ w.id = id /\ w.name = "MMESyslog"
                   /\ actions' = {a \in actions : a.id # id} \cup {w}
                   /\ actionId[c] = 0 \/ \E a \in actions : a.id = id
                   /\ \A a \in Renewed : a.id = actionId[c]
  <2>0. RouterOs!Writable(actionId[c]) /\ RouterOs!NameFree(actionId[c])
    BY DEF ActionWritten, RouterOs!WriteAction
  <2>1. /\ actionId[c] = 0 \/ \E a \in actions : a.id = actionId[c]
        /\ \A a \in Renewed : a.id = actionId[c]
    BY <2>0, NamesOfActions DEF RouterOs!Writable, RouterOs!NameFree
  <2>2. CASE RouterOs!WriteAction(c) /\ offers[c] # <<>>
    <3>1. PICK id : id = IF actionId[c] = 0 THEN fresh ELSE actionId[c]
      OBVIOUS
    <3>2. PICK w : w = [id |-> id, name |-> "MMESyslog", profile |-> Head(offers[c])]
      OBVIOUS
    <3>3. Head(offers[c]) \in Written
      BY <1>1, <2>2
    <3>4. id \in Nat \ {0}
      <4>1. actionId[c] = 0 => fresh # 0
        BY <1>1
      <4> QED
        BY <1>1, <3>1, <4>1
    <3>5. w \in LoggingActions /\ w.id = id /\ w.name = "MMESyslog"
      BY <3>2, <3>3, <3>4 DEF LoggingActions
    <3>6. /\ actions' = {a \in actions : a.id # actionId[c]} \cup {w}
          /\ fresh' = IF actionId[c] = 0 THEN fresh + 1 ELSE fresh
      BY <2>2, <3>1, <3>2 DEF RouterOs!WriteAction, RouterOs!Managed
    <3>7. {a \in actions : a.id # actionId[c]} = {a \in actions : a.id # id}
      <4>1. \A a \in actions : a.id # 0 /\ a.id # fresh
        BY <1>1 DEF LoggingActions
      <4> QED
        BY <3>1, <4>1
    <3> QED
      BY <2>1, <3>1, <3>5, <3>6, <3>7
  <2>3. CASE /\ actionId[c] # 0 /\ fresh' = fresh
             /\ actions' = {IF a.id = actionId[c] THEN [a EXCEPT !.name = RouterOs!Managed] ELSE a : a \in actions}
    <3>1. PICK b \in actions : b.id = actionId[c]
      BY <2>1, <2>3
    <3>2. \A a \in actions : a.id = actionId[c] => a = b
      BY <3>1 DEF LoggingInv, OnePerName
    <3>3. PICK w : w = [b EXCEPT !.name = "MMESyslog"]
      OBVIOUS
    <3>4. w \in LoggingActions /\ w.id = actionId[c] /\ w.name = "MMESyslog"
      BY <1>1, <3>1, <3>3 DEF LoggingActions
    <3>5. actions' = {a \in actions : a.id # actionId[c]} \cup {w}
      BY <2>3, <3>1, <3>2, <3>3 DEF RouterOs!Managed
    <3> QED
      BY <2>1, <2>3, <3>1, <3>4, <3>5
  <2> QED
    BY <2>2, <2>3 DEF ActionWritten
<1>3. RouterTyped'
  <2>1. fresh' \in Nat \ {0} /\ fresh <= fresh' /\ id < fresh'
    BY <1>1, <1>2
  <2>2. \A a \in actions' : a \in LoggingActions /\ a.id < fresh'
    BY <1>1, <1>2, <2>1 DEF LoggingActions
  <2>3. \A r \in rules' : r \in LoggingRules /\ r.id < fresh'
    BY <1>1, <2>1 DEF LoggingRules
  <2> QED
    BY <2>1, <2>2, <2>3 DEF RouterTyped
<1>4. \A a \in actions : a.id = actionId[c] => a.id = id
  <2>1. \A a \in actions : a.id # 0
    BY <1>1 DEF LoggingActions
  <2> QED
    BY <1>2, <2>1
<1>5. OnePerName'
  <2>1. \A a \in actions' : a # w => a \in actions /\ a.id # id /\ a.name # "MMESyslog"
    BY <1>2, <1>4 DEF Renewed
  <2>2. \A a, b \in actions' : a.id = b.id \/ a.name = b.name => a = b
    BY <1>2, <2>1 DEF LoggingInv, OnePerName
  <2>3. \A r \in rules' : \E a \in actions' : r.action = a.id
    BY <1>1, <1>2 DEF LoggingInv, OnePerName
  <2> QED
    BY <1>1, <2>2, <2>3 DEF LoggingInv, OnePerName
<1>6. ASSUME NEW l, NEW S, Cares(l, S) PROVE Cares(l, S)'
  <2>1. w \in Renewed'
    BY <1>2 DEF Renewed
  <2>2. ASSUME NEW r \in rules, OnRemnant(r)' PROVE OnRemnant(r)
    BY <1>2, <2>2 DEF OnRemnant, Remnants
  <2>3. ASSUME Renewed # {}, NEW a \in Renewed' PROVE \E b \in Renewed : b.id = a.id
    BY <1>2, <1>4, <2>3 DEF Renewed
  <2> QED
    BY <1>1, <1>6, <2>1, <2>2, <2>3 DEF Cares, Verified
<1> QED
  BY <1>3, <1>5, <1>6 DEF RouterKept

\* A rule written is on the action of the new name.
LEMMA WriteRuleKeeps ==
  ASSUME LoggingInv, NEW c \in Configurers, step[c] = "rule", RouterOs!WriteRule(c)
  PROVE  /\ RouterKept
         /\ \E w \in rules' : /\ Placed(w)' /\ \A q \in rules' : q # w => q \in rules /\ q.id # w.id
                              /\ \A q \in rules : q.id # w.id => q \in rules'
                              /\ removals[c] = {} => \A q \in rules : q.id # w.id
                              /\ removals[c] # {} => w.id = RouterOs!Foremost(removals[c])
<1>1. /\ fresh \in Nat \ {0} /\ actions \subseteq LoggingActions /\ \A a \in actions : a.id < fresh
      /\ rules \subseteq LoggingRules /\ \A r \in rules : r.id < fresh
      /\ removals[c] \in SUBSET Nat /\ OnePerName
  BY DEF LoggingInv, RouterTyped, CallersTyped
<1>2. actions' = actions /\ Renewed # {}
  BY NamesOfActions DEF RouterOs!WriteRule
<1>3. PICK a \in Renewed : Renewed = {a} /\ RouterOs!IdOf(Renewed) = a.id
  BY <1>1, <1>2, ActionOfName
<1>4. a \in actions /\ a.id \in Nat /\ Renewed' = Renewed /\ Remnants' = Remnants
  BY <1>1, <1>2, <1>3 DEF Renewed, Remnants, LoggingActions
<1>5. PICK id, w :
        /\ id \in Nat /\ w = [id |-> id, action |-> a.id, topics |-> "asked"]
        /\ rules' = {r \in rules : r.id # id} \cup {w}
        /\ removals[c] = {} => id = fresh /\ fresh' = fresh + 1
        /\ removals[c] # {} => id = RouterOs!Foremost(removals[c]) /\ fresh' = fresh /\ \E r \in rules : r.id = id
  <2>1. \A id : RouterOs!Asked(id) = [id |-> id, action |-> a.id, topics |-> "asked"]
    BY <1>3, NamesOfActions DEF RouterOs!Asked
  <2>2. CASE removals[c] = {}
    <3>1. rules' = rules \cup {RouterOs!Asked(fresh)} /\ fresh' = fresh + 1
      BY <2>2 DEF RouterOs!WriteRule
    <3>2. {r \in rules : r.id # fresh} = rules
      BY <1>1 DEF LoggingRules
    <3> QED
      BY <1>1, <2>1, <2>2, <3>1, <3>2
  <2>3. CASE removals[c] # {}
    <3>1. PICK id : id = RouterOs!Foremost(removals[c])
      OBVIOUS
    <3>2. id \in Nat
      BY <1>1, <2>3, <3>1, ForemostIsOne
    <3>3. rules' = {r \in rules : r.id # id} \cup {RouterOs!Asked(id)} /\ fresh' = fresh /\ RouterOs!Present(id)
      BY <2>3, <3>1 DEF RouterOs!WriteRule
    <3> QED
      BY <2>1, <2>3, <3>1, <3>2, <3>3 DEF RouterOs!Present
  <2> QED
    BY <2>2, <2>3
<1>6. w \in LoggingRules /\ w.id = id /\ w.action = a.id /\ w.topics = "asked" /\ w \in rules'
  BY <1>4, <1>5 DEF LoggingRules
<1>7. RouterTyped'
  <2>1. fresh' \in Nat \ {0} /\ fresh <= fresh' /\ id < fresh'
    BY <1>1, <1>5
  <2>2. \A b \in actions' : b \in LoggingActions /\ b.id < fresh'
    BY <1>1, <1>2, <2>1 DEF LoggingActions
  <2>3. \A r \in rules' : r \in LoggingRules /\ r.id < fresh'
    BY <1>1, <1>5, <1>6, <2>1 DEF LoggingRules
  <2> QED
    BY <2>1, <2>2, <2>3 DEF RouterTyped
<1>8. OnePerName'
  BY <1>1, <1>2, <1>4, <1>5, <1>6 DEF OnePerName
<1>9. ASSUME NEW l, NEW S, Cares(l, S) PROVE Cares(l, S)'
  <2>1. ~OnRemnant(w)
    BY <1>1, <1>3, <1>6, NamesApart DEF OnRemnant
  <2>2. \A r \in rules' : OnRemnant(r) => r \in rules
    BY <1>5, <2>1
  <2>3. \A r : OnRemnant(r)' <=> OnRemnant(r)
    BY <1>4 DEF OnRemnant
  <2> QED
    BY <1>4, <1>9, <2>2, <2>3 DEF Cares
<1>10. Placed(w)'
  BY <1>3, <1>4, <1>6 DEF Placed
<1>11. removals[c] = {} => \A q \in rules : q.id # w.id
  BY <1>1, <1>5, <1>6 DEF LoggingRules
<1> QED
  BY <1>5, <1>6, <1>7, <1>8, <1>9, <1>10, <1>11 DEF RouterKept

LEMMA DropRuleKeeps ==
  ASSUME LoggingInv, NEW c \in Configurers, removals[c] # {}, RouterOs!DropRule(c)
  PROVE  /\ RouterKept
         /\ actions' = actions /\ rules' = {r \in rules : r.id # RouterOs!Foremost(removals[c])}
<1>1. /\ actions' = actions /\ fresh' = fresh
      /\ rules' = {r \in rules : r.id # RouterOs!Foremost(removals[c])}
  BY DEF RouterOs!DropRule
<1>2. RouterTyped' /\ OnePerName'
  BY <1>1 DEF LoggingInv, RouterTyped, OnePerName
<1>3. \A l, S : Cares(l, S) => Cares(l, S)'
  BY <1>1 DEF Cares, OnRemnant, Renewed, Remnants
<1> QED
  BY <1>1, <1>2, <1>3 DEF RouterKept

\* Who removes an action has seen that no rule needs it, and none came since.
LEMMA DropActionKeeps ==
  ASSUME LoggingInv, NEW c \in Configurers, step[c] = "former", removals[c] # {}, RouterOs!DropAction(c)
  PROVE  /\ RouterKept
         /\ rules' = rules /\ Renewed' = Renewed
         /\ Remnants' = {a \in Remnants : a.id # RouterOs!Foremost(removals[c])}
<1>1. removals[c] \in SUBSET Nat
  BY DEF LoggingInv, CallersTyped
<1>2. PICK id : id = RouterOs!Foremost(removals[c]) /\ id \in removals[c]
  BY <1>1, ForemostIsOne
<1>3. actions' = {a \in actions : a.id # id} /\ rules' = rules /\ fresh' = fresh
  BY <1>2 DEF RouterOs!DropAction
<1>4. (\A r \in rules : ~OnRemnant(r)) /\ \A a \in Renewed : a.id # id
  BY <1>2 DEF LoggingInv, AllCare, Cares
<1>5. Renewed' = Renewed /\ Remnants' = {a \in Remnants : a.id # id}
  BY <1>3, <1>4 DEF Renewed, Remnants
<1>6. RouterTyped'
  BY <1>3 DEF LoggingInv, RouterTyped
<1>7. OnePerName'
  <2>1. ASSUME NEW r \in rules PROVE \E a \in actions' : r.action = a.id
    <3>1. PICK a \in actions : r.action = a.id
      BY DEF LoggingInv, OnePerName
    <3>2. a \in LoggingActions
      BY DEF LoggingInv, RouterTyped
    <3>3. a \notin Remnants
      BY <1>4, <3>1 DEF OnRemnant
    <3>4. a \in Renewed
      BY <3>2, <3>3 DEF LoggingActions, Renewed, Remnants
    <3> QED
      BY <1>3, <1>4, <3>1, <3>4
  <2> QED
    BY <1>3, <2>1 DEF LoggingInv, OnePerName
<1>8. \A l, S : Cares(l, S) => Cares(l, S)'
  BY <1>3, <1>5 DEF Cares, OnRemnant
<1> QED
  BY <1>2, <1>3, <1>5, <1>6, <1>7, <1>8 DEF RouterKept

LEMMA RouterIsKept ==
  ASSUME LoggingInv, NEW c \in Configurers, RouterMoves(c) PROVE RouterKept
<1>1. CASE UNCHANGED <<actions, rules, fresh>>
  BY <1>1 DEF LoggingInv, RouterTyped, OnePerName, RouterKept, Cares, OnRemnant, Renewed, Remnants
<1> QED
  BY <1>1, WriteActionKeeps, WriteRuleKeeps, DropRuleKeeps, DropActionKeeps DEF RouterMoves

\* A step of a caller leaves the others' stages; if that caller had the router to
\* itself, what it knows is what its own step brings.
LEMMA LoggingStep ==
  ASSUME LoggingInv, NEW c \in Configurers, RouterMoves(c), step[c] \notin {"idle", "succeeded"},
         overlap' = overlap,
         NEW l \in Stages, NEW o \in Seq(Written), NEW S \in SUBSET Nat, actionId' \in [Configurers -> Nat],
         step' = [step EXCEPT ![c] = l], offers' = [offers EXCEPT ![c] = o],
         removals' = [removals EXCEPT ![c] = S],
         l = "verifyAction" => o # <<>>, Cares(l, S)',
         ~overlap[c] /\ Knows(step[c], Head(offers[c]), removals[c]) /\ l # "idle" => Knows(l, Head(o), S)'
  PROVE  LoggingInv'
<1>1. RouterKept
  BY RouterIsKept
<1>2. /\ step \in [Configurers -> Stages] /\ offers \in [Configurers -> Seq(Written)]
      /\ removals \in [Configurers -> SUBSET Nat] /\ overlap \in [Configurers -> BOOLEAN]
  BY DEF LoggingInv, CallersTyped
<1>3. /\ step'[c] = l /\ offers'[c] = o /\ removals'[c] = S
      /\ \A d \in Configurers : d # c =>
           step'[d] = step[d] /\ offers'[d] = offers[d] /\ removals'[d] = removals[d]
  BY <1>2
<1>4. CallersTyped'
  <2>1. \A d \in Configurers : step'[d] = "verifyAction" => offers'[d] # <<>>
    BY <1>3 DEF LoggingInv, CallersTyped
  <2> QED
    BY <1>2, <2>1 DEF CallersTyped
<1>5. AllCare'
  <2>1. ASSUME NEW d \in Configurers, d # c PROVE Cares(step[d], removals[d]) /\ step'[d] = step[d] /\ removals'[d] = removals[d]
    BY <1>3, <2>1 DEF LoggingInv, AllCare
  <2>2. ASSUME NEW d \in Configurers
        PROVE  \E ll, SS : step'[d] = ll /\ removals'[d] = SS /\ Cares(ll, SS)'
    <3>1. CASE d = c
      BY <1>3, <3>1
    <3>2. CASE d # c
      <4>1. PICK ll, SS : ll = step[d] /\ SS = removals[d]
        OBVIOUS
      <4>2. Cares(ll, SS)'
        BY <1>1, <2>1, <3>2, <4>1 DEF RouterKept
      <4> QED
        BY <2>1, <3>2, <4>1, <4>2
    <3> QED
      BY <3>1, <3>2
  <2> QED
    BY <2>2 DEF AllCare, Cares
<1>6. AloneAtIt'
  <2>1. ASSUME NEW d \in Configurers, ~overlap[d], step'[d] # "idle"
        PROVE  /\ d = c
               /\ \A e \in Configurers : e # d => step'[e] \in {"idle", "succeeded"}
    <3>1. d # c => step[d] # "idle" /\ step[c] \in {"idle", "succeeded"}
      BY <1>3, <2>1 DEF LoggingInv, AloneAtIt
    <3>2. d = c
      BY <3>1
    <3> QED
      BY <1>3, <2>1, <3>2 DEF LoggingInv, AloneAtIt
  <2>2. ASSUME ~overlap[c], l # "idle" PROVE Knows(l, Head(o), S)'
    <3>1. Knows(step[c], Head(offers[c]), removals[c])
      BY <2>2 DEF LoggingInv, AloneAtIt
    <3> QED
      BY <2>2, <3>1
  <2>3. ASSUME ~overlap[c], step'[c] # "idle"
        PROVE \E oo : step'[c] = l /\ offers'[c] = o /\ oo = Head(o) /\ removals'[c] = S /\ Knows(l, oo, S)'
    BY <1>3, <2>2, <2>3
  <2> QED
    BY <2>1, <2>3 DEF AloneAtIt, Knows
<1> QED
  BY <1>1, <1>4, <1>5, <1>6 DEF LoggingInv, RouterKept

LEMMA IdOfAction ==
  ASSUME LoggingInv, NEW S, S \subseteq actions PROVE RouterOs!IdOf(S) \in Nat
<1>1. \A a \in S : a.id \in Nat
  BY DEF LoggingInv, RouterTyped, LoggingActions
<1> QED
  BY <1>1 DEF RouterOs!IdOf

LEMMA ConfigureKeeps ==
  ASSUME LoggingInv, NEW c \in Configurers, NEW version \in {"7.18+", "older", "unknown"},
         RouterOs!Begin(c, version)
  PROVE  LoggingInv'
<1>1. PICK o, n : o = RouterOs!Profiles(version) /\ actionId' = [actionId EXCEPT ![c] = n] /\ n \in Nat
  <2>1. RouterOs!IdOf(Renewed) \in Nat /\ RouterOs!IdOf(Remnants) \in Nat
    BY IdOfAction DEF Renewed, Remnants
  <2> QED
    BY <2>1, NamesOfActions DEF RouterOs!Begin
<1>2. o \in Seq(Written)
  <2>1. CASE version = "7.18+"
    BY <1>1, <2>1 DEF RouterOs!Profiles, Written
  <2>2. CASE version = "older"
    BY <1>1, <2>2 DEF RouterOs!Profiles, Written
  <2>3. CASE version = "unknown"
    BY <1>1, <2>3 DEF RouterOs!Profiles, Written
  <2> QED
    BY <2>1, <2>2, <2>3
<1>3. /\ UNCHANGED <<actions, rules, fresh>>
      /\ step' = [step EXCEPT ![c] = "action"] /\ offers' = [offers EXCEPT ![c] = o]
      /\ removals' = [removals EXCEPT ![c] = {}]
      /\ overlap' = [d \in Configurers |-> IF d = c THEN \E e \in Configurers : e # c /\ RouterOs!Running(e) ELSE TRUE]
  BY <1>1 DEF RouterOs!Begin, RouterOs!Goto, RouterOs!router
<1>4. /\ step \in [Configurers -> Stages] /\ offers \in [Configurers -> Seq(Written)]
      /\ removals \in [Configurers -> SUBSET Nat] /\ actionId \in [Configurers -> Nat]
  BY DEF LoggingInv, CallersTyped
<1>5. /\ step'[c] = "action" /\ removals'[c] = {}
      /\ \A d \in Configurers : d # c => step'[d] = step[d] /\ removals'[d] = removals[d]
  BY <1>3, <1>4
<1>6. CallersTyped'
  <2>1. step' \in [Configurers -> Stages]
    <3>1. "action" \in Stages
      BY DEF Stages
    <3> QED
      BY <1>3, <1>4, <3>1
  <2>2. offers' \in [Configurers -> Seq(Written)] /\ actionId' \in [Configurers -> Nat]
    BY <1>1, <1>2, <1>3, <1>4
  <2>3. removals' \in [Configurers -> SUBSET Nat]
    BY <1>3, <1>4
  <2>4. overlap' \in [Configurers -> BOOLEAN]
    BY <1>3
  <2>5. \A d \in Configurers : step'[d] = "verifyAction" => offers'[d] # <<>>
    BY <1>3, <1>4, <1>5 DEF LoggingInv, CallersTyped
  <2> QED
    BY <2>1, <2>2, <2>3, <2>4, <2>5 DEF CallersTyped
<1>7. RouterTyped' /\ OnePerName'
  BY <1>3 DEF LoggingInv, RouterTyped, OnePerName
<1>8. AllCare'
  BY <1>3, <1>5 DEF LoggingInv, AllCare, Cares, Verified, OnRemnant, Renewed, Remnants
<1>9. AloneAtIt'
  <2>1. ASSUME NEW d \in Configurers, ~overlap'[d]
        PROVE  d = c /\ \A e \in Configurers : e # d => step'[e] \in {"idle", "succeeded"}
    BY <1>3, <1>5, <2>1 DEF RouterOs!Running
  <2>2. \A oo, S : Knows("action", oo, S)'
    BY DEF Knows, Verified
  <2> QED
    BY <1>5, <2>1, <2>2 DEF AloneAtIt, Knows, Verified
<1> QED
  BY <1>6, <1>7, <1>8, <1>9 DEF LoggingInv

\* The steps after which configure() is done or looks again.
LEMMA LoggingEnds ==
  ASSUME LoggingInv, NEW c \in Configurers, RouterMoves(c), step[c] \notin {"idle", "succeeded"},
         UNCHANGED <<offers, actionId, removals, overlap>>,
         \/ step' = [step EXCEPT ![c] = "idle"]
         \/ step[c] = "action" /\ offers[c] # <<>> /\ step' = [step EXCEPT ![c] = "verifyAction"]
  PROVE  LoggingInv'
<1>1. /\ offers \in [Configurers -> Seq(Written)] /\ removals \in [Configurers -> SUBSET Nat]
      /\ actionId \in [Configurers -> Nat]
  BY DEF LoggingInv, CallersTyped
<1>2. PICK l \in {"idle", "verifyAction"}, o \in Seq(Written), S \in SUBSET Nat :
        /\ step' = [step EXCEPT ![c] = l]
        /\ o = offers[c] /\ S = removals[c] /\ (l = "verifyAction" => o # <<>>)
  BY <1>1
<1>3. offers' = [offers EXCEPT ![c] = o] /\ removals' = [removals EXCEPT ![c] = S]
      /\ actionId' \in [Configurers -> Nat] /\ overlap' = overlap
  BY <1>1, <1>2
<1>4. l \in Stages /\ Cares(l, S)' /\ Knows(l, Head(o), S)'
  BY <1>2 DEF Stages, Cares, Knows, Verified
<1> QED
  BY <1>2, <1>3, <1>4, LoggingStep

LEMMA ActionStepKeeps ==
  ASSUME LoggingInv, NEW c \in Configurers,
         \/ RouterOs!SetAction(c) \/ RouterOs!GiveUp(c) \/ RouterOs!Gone(c) \/ RouterOs!Break(c)
         \/ RouterOs!RefuseProfile(c) \/ RouterOs!VerifyAction(c)
  PROVE  LoggingInv'
<1>1. /\ offers \in [Configurers -> Seq(Written)] /\ removals \in [Configurers -> SUBSET Nat]
      /\ actionId \in [Configurers -> Nat] /\ step \in [Configurers -> Stages]
  BY DEF LoggingInv, CallersTyped
<1>2. CASE RouterOs!SetAction(c)
  <2>1. /\ ActionWritten(c) /\ step[c] = "action" /\ offers[c] # <<>> /\ step' = [step EXCEPT ![c] = "verifyAction"]
        /\ UNCHANGED <<offers, actionId, removals, overlap>>
    BY <1>2 DEF RouterOs!SetAction, ActionWritten, RouterOs!Goto
  <2> QED
    BY <2>1, LoggingEnds DEF RouterMoves
<1>3. CASE RouterOs!GiveUp(c) \/ RouterOs!Gone(c)
  <2>1. /\ UNCHANGED <<actions, rules, fresh>> /\ step[c] \notin {"idle", "succeeded"}
        /\ step' = [step EXCEPT ![c] = "idle"]
        /\ UNCHANGED <<offers, actionId, removals, overlap>>
    BY <1>3 DEF RouterOs!GiveUp, RouterOs!Gone, RouterOs!Goto, RouterOs!router
  <2> QED
    BY <2>1, LoggingEnds DEF RouterMoves
<1>4. CASE RouterOs!Break(c)
  <2>1. /\ step[c] \notin {"idle", "succeeded"} /\ step' = [step EXCEPT ![c] = "idle"]
        /\ UNCHANGED <<offers, actionId, removals, overlap>>
    BY <1>4 DEF RouterOs!Break, RouterOs!Running, RouterOs!Goto
  <2>2. RouterMoves(c)
    BY <1>4 DEF RouterOs!Break, RouterMoves, ActionWritten, RouterOs!router
  <2> QED
    BY <2>1, <2>2, LoggingEnds
<1>5. CASE RouterOs!RefuseProfile(c)
  <2>1. PICK o \in Seq(Written), S \in SUBSET Nat : o = Tail(offers[c]) /\ S = removals[c]
    <3>1. offers[c] # <<>> /\ offers[c] \in Seq(Written) /\ removals[c] \in SUBSET Nat
      BY <1>1, <1>5 DEF RouterOs!RefuseProfile
    <3>2. Tail(offers[c]) \in Seq(Written)
      BY <3>1
    <3> QED
      BY <3>1, <3>2
  <2>2. /\ UNCHANGED <<actions, rules, fresh>> /\ step[c] = "action"
        /\ step' = step /\ offers' = [offers EXCEPT ![c] = o]
        /\ actionId' = actionId /\ removals' = removals /\ overlap' = overlap
    BY <1>1, <1>5, <2>1 DEF RouterOs!RefuseProfile, RouterOs!router
  <2>3. PICK l \in Stages : l = "action"
    BY DEF Stages
  <2>4. step' = [step EXCEPT ![c] = l] /\ removals' = [removals EXCEPT ![c] = S] /\ l # "verifyAction"
    BY <1>1, <2>1, <2>2, <2>3
  <2>5. Cares(l, S)' /\ Knows(l, Head(o), S)'
    BY <2>3 DEF Cares, Knows, Verified
  <2>6. RouterMoves(c)
    BY <2>2 DEF RouterMoves
  <2> QED
    BY <1>1, <2>2, <2>4, <2>5, <2>6, LoggingStep
<1>6. CASE RouterOs!VerifyAction(c)
  <2>1. actionId' \in [Configurers -> Nat]
    <3>1. RouterOs!IdOf(Renewed) \in Nat
      BY IdOfAction DEF Renewed
    <3> QED
      BY <1>1, <1>6, <3>1, NamesOfActions DEF RouterOs!VerifyAction
  <2>2. /\ UNCHANGED <<actions, rules, fresh>> /\ step[c] = "verifyAction"
        /\ removals' = removals /\ overlap' = overlap
    BY <1>6 DEF RouterOs!VerifyAction, RouterOs!router
  <2>3. RouterMoves(c)
    BY <2>2 DEF RouterMoves
  <2>4. CASE RouterOs!Matches(Head(offers[c]))
    <3>1. PICK o \in Seq(Written), S \in SUBSET Nat : o = offers[c] /\ S = removals[c]
      BY <1>1
    <3>2. PICK l \in Stages : l = "listRules"
      BY DEF Stages
    <3>3. /\ step' = [step EXCEPT ![c] = l] /\ offers' = [offers EXCEPT ![c] = o]
          /\ removals' = [removals EXCEPT ![c] = S] /\ l # "verifyAction"
      BY <1>1, <1>6, <2>2, <2>4, <3>1, <3>2 DEF RouterOs!VerifyAction, RouterOs!Goto
    <3>4. \E a \in Renewed : Sends(a, Head(o))
      BY <2>4, <3>1, NamesOfActions DEF RouterOs!Matches, Sends
    <3>5. Cares(l, S)' /\ Knows(l, Head(o), S)'
      BY <2>2, <3>2, <3>4 DEF Cares, Knows, Renewed
    <3> QED
      BY <2>1, <2>2, <2>3, <3>3, <3>5, LoggingStep
  <2>5. CASE ~RouterOs!Matches(Head(offers[c]))
    <3>1. PICK S \in SUBSET Nat : S = removals[c]
      BY <1>1
    <3>2. PICK l \in Stages : l = "action"
      BY DEF Stages
    <3>3. PICK o : o = Tail(offers[c])
      OBVIOUS
    <3>4. offers[c] # <<>>
      BY <2>2 DEF LoggingInv, CallersTyped
    <3>5. o \in Seq(Written)
      BY <1>1, <3>3, <3>4
    <3>6. /\ step' = [step EXCEPT ![c] = l] /\ offers' = [offers EXCEPT ![c] = o]
          /\ removals' = [removals EXCEPT ![c] = S] /\ l # "verifyAction"
      BY <1>1, <1>6, <2>2, <2>5, <3>1, <3>2, <3>3 DEF RouterOs!VerifyAction, RouterOs!Goto
    <3>7. Cares(l, S)' /\ Knows(l, Head(o), S)'
      BY <3>2 DEF Cares, Knows, Verified
    <3> QED
      BY <2>1, <2>2, <2>3, <3>5, <3>6, <3>7, LoggingStep
  <2> QED
    BY <2>4, <2>5
<1> QED
  BY <1>2, <1>3, <1>4, <1>5, <1>6

\* A step at which neither what is to be tried nor the action in hand changes.
LEMMA RuleStep ==
  ASSUME LoggingInv, NEW c \in Configurers, RouterMoves(c), step[c] \notin {"idle", "succeeded"},
         UNCHANGED <<offers, actionId, overlap>>,
         NEW l \in Stages, l # "verifyAction", NEW S \in SUBSET Nat,
         step' = [step EXCEPT ![c] = l], removals' = [removals EXCEPT ![c] = S],
         Cares(l, S)',
         \A o : Knows(step[c], o, removals[c]) => Knows(l, o, S)'
  PROVE  LoggingInv'
<1>1. PICK o \in Seq(Written) : o = offers[c]
  BY DEF LoggingInv, CallersTyped
<1>2. offers' = [offers EXCEPT ![c] = o] /\ actionId' \in [Configurers -> Nat] /\ overlap' = overlap
  BY <1>1 DEF LoggingInv, CallersTyped
<1>3. Knows(step[c], Head(offers[c]), removals[c]) => Knows(l, Head(o), S)'
  <2>1. PICK h : h = Head(o)
    OBVIOUS
  <2>2. Knows(step[c], h, removals[c]) => Knows(l, h, S)'
    OBVIOUS
  <2> QED
    BY <1>1, <2>1, <2>2 DEF Knows
<1> QED
  BY <1>2, <1>3, LoggingStep

LEMMA ListingKeeps ==
  ASSUME LoggingInv, NEW c \in Configurers,
         RouterOs!ListRules(c) \/ RouterOs!VerifyRule(c) \/ RouterOs!Succeed(c)
  PROVE  LoggingInv'
<1>1. /\ removals \in [Configurers -> SUBSET Nat] /\ actions \subseteq LoggingActions /\ rules \subseteq LoggingRules
  BY DEF LoggingInv, RouterTyped, CallersTyped
<1>2. /\ UNCHANGED <<actions, rules, fresh>> /\ UNCHANGED <<offers, actionId, overlap>>
      /\ step[c] \notin {"idle", "succeeded"}
  BY DEF RouterOs!ListRules, RouterOs!VerifyRule, RouterOs!Succeed, RouterOs!router
<1>3. RouterMoves(c)
  BY <1>2 DEF RouterMoves
<1>4. Cares(step[c], removals[c]) /\ Renewed' = Renewed /\ Remnants' = Remnants
  BY <1>2 DEF LoggingInv, AllCare, Renewed, Remnants
<1>5. \A r : (OnRemnant(r)' <=> OnRemnant(r)) /\ (Placed(r)' <=> Placed(r))
  BY <1>4 DEF OnRemnant, Placed
<1>6. CASE RouterOs!ListRules(c)
  <2>1. PICK l \in Stages : l = "rule"
    BY DEF Stages
  <2>2. \A r \in rules : r.action \in RouterOs!ManagedIds
    BY <1>1, NamesOfActions DEF LoggingInv, OnePerName, LoggingActions
  <2>3. PICK S \in SUBSET Nat : S = {r.id : r \in rules}
    BY <1>1 DEF LoggingRules
  <2>4. step[c] = "listRules" /\ step' = [step EXCEPT ![c] = l] /\ removals' = [removals EXCEPT ![c] = S]
    BY <1>6, <2>1, <2>2, <2>3 DEF RouterOs!ListRules, RouterOs!Goto
  <2>5. Cares(l, S)'
    BY <1>2, <1>4, <2>1, <2>3, <2>4 DEF Cares, Verified
  <2>6. \A o : Knows(step[c], o, removals[c]) => Knows(l, o, S)'
    BY <1>2, <1>4, <2>1, <2>3, <2>4 DEF Knows, Verified
  <2> QED
    BY <1>2, <1>3, <2>1, <2>4, <2>5, <2>6, RuleStep
<1>7. CASE RouterOs!VerifyRule(c) /\ step' = [step EXCEPT ![c] = "idle"] /\ removals' = removals
  <2>1. step' = [step EXCEPT ![c] = "idle"] /\ UNCHANGED <<offers, actionId, removals, overlap>>
    BY <1>2, <1>7
  <2> QED
    BY <1>2, <1>3, <2>1, LoggingEnds
<1>8. CASE /\ RouterOs!VerifyRule(c) /\ step' = [step EXCEPT ![c] = "former"]
           /\ removals' = [removals EXCEPT ![c] = {a.id : a \in Remnants}]
  <2>1. PICK l \in Stages : l = "former"
    BY DEF Stages
  <2>2. PICK S \in SUBSET Nat : S = {a.id : a \in Remnants}
    BY <1>1 DEF LoggingActions, Remnants
  <2>3. step[c] = "duplicates" /\ removals[c] = {}
    BY <1>8 DEF RouterOs!VerifyRule
  <2>4. Cares(l, S)'
    BY <1>2, <1>4, <1>5, <2>1, <2>2, <2>3, NamesApart DEF LoggingInv, Cares, Verified
  <2>5. ASSUME NEW o, Knows(step[c], o, removals[c]) PROVE Knows(l, o, S)'
    <3>1. PICK r \in rules : Placed(r) /\ {q.id : q \in rules \ {r}} = {}
      BY <2>3, <2>5 DEF Knows
    <3>2. rules = {r}
      BY <3>1
    <3> QED
      BY <1>2, <1>4, <1>5, <2>1, <2>2, <2>3, <2>5, <3>1, <3>2 DEF Knows, Verified
  <2>6. step' = [step EXCEPT ![c] = l] /\ removals' = [removals EXCEPT ![c] = S]
    BY <1>8, <2>1, <2>2
  <2> QED
    BY <1>2, <1>3, <2>1, <2>4, <2>5, <2>6, RuleStep
<1>9. CASE RouterOs!Succeed(c)
  <2>1. PICK l \in Stages : l = "succeeded"
    BY DEF Stages
  <2>2. PICK S \in SUBSET Nat : S = removals[c]
    BY <1>1
  <2>3. /\ step[c] = "former" /\ removals[c] = {}
        /\ step' = [step EXCEPT ![c] = l] /\ removals' = [removals EXCEPT ![c] = S]
    BY <1>1, <1>9, <2>1, <2>2 DEF RouterOs!Succeed, RouterOs!Goto
  <2>4. Cares(l, S)'
    BY <1>4, <2>1, <2>3 DEF Cares, Verified
  <2>5. ASSUME NEW o, Knows(step[c], o, removals[c]) PROVE Knows(l, o, S)'
    <3>1. /\ \E a \in Renewed : Sends(a, o)
          /\ \E r \in rules : rules = {r} /\ Placed(r)
          /\ {a.id : a \in Remnants} = {}
      BY <2>3, <2>5 DEF Knows, Verified
    <3>2. Remnants = {}
      BY <3>1
    <3> QED
      BY <1>2, <1>4, <1>5, <2>1, <3>1, <3>2 DEF Knows
  <2> QED
    BY <1>2, <1>3, <2>1, <2>3, <2>4, <2>5, RuleStep
<1> QED
  BY <1>6, <1>7, <1>8, <1>9, NamesOfActions DEF RouterOs!VerifyRule, RouterOs!Goto

LEMMA SetRuleKeeps ==
  ASSUME LoggingInv, NEW c \in Configurers, RouterOs!SetRule(c) PROVE LoggingInv'
<1>1. /\ removals \in [Configurers -> SUBSET Nat] /\ OnePerName /\ Cares(step[c], removals[c])
  BY DEF LoggingInv, AllCare, CallersTyped
<1>2. /\ step[c] = "rule" /\ RouterOs!WriteRule(c) /\ UNCHANGED <<offers, actionId, overlap>>
  BY DEF RouterOs!SetRule
<1>3. RouterMoves(c)
  BY <1>2 DEF RouterMoves
<1>4. PICK l \in Stages : l = "duplicates"
  BY DEF Stages
<1>5. PICK S \in SUBSET Nat : S = IF removals[c] = {} THEN {} ELSE RouterOs!Rest(removals[c])
  BY <1>1 DEF RouterOs!Rest
<1>6. step' = [step EXCEPT ![c] = l] /\ removals' = [removals EXCEPT ![c] = S]
  BY <1>1, <1>4, <1>5 DEF RouterOs!SetRule, RouterOs!Goto
<1>7. PICK w \in rules' :
        /\ Placed(w)' /\ \A q \in rules' : q # w => q \in rules /\ q.id # w.id
        /\ \A q \in rules : q.id # w.id => q \in rules'
        /\ removals[c] = {} => \A q \in rules : q.id # w.id
        /\ removals[c] # {} => w.id = RouterOs!Foremost(removals[c])
  BY <1>2, WriteRuleKeeps
<1>8. actions' = actions /\ Renewed' = Renewed /\ Remnants' = Remnants /\ OnePerName'
  BY <1>2, WriteRuleKeeps DEF RouterOs!WriteRule, Renewed, Remnants, RouterKept
<1>9. S = removals[c] \ {w.id}
  BY <1>5, <1>7 DEF RouterOs!Rest
<1>10. Cares(l, S)'
  <2>1. ~OnRemnant(w)'
    BY <1>1, <1>7, <1>8, NamesApart DEF OnRemnant, Placed
  <2>2. ASSUME NEW r \in rules', OnRemnant(r)' PROVE r.id \in S
    <3>1. r # w /\ OnRemnant(r)
      BY <1>8, <2>1, <2>2 DEF OnRemnant
    <3> QED
      BY <1>1, <1>2, <1>7, <1>9, <3>1 DEF Cares
  <2> QED
    BY <1>1, <1>2, <1>4, <1>8, <2>2 DEF Cares, Verified
<1>11. ASSUME NEW o, Knows(step[c], o, removals[c]) PROVE Knows(l, o, S)'
  <2>1. (\E a \in Renewed : Sends(a, o)) /\ removals[c] = {r.id : r \in rules}
    BY <1>2, <1>11 DEF Knows, Verified
  <2>2. S = {q.id : q \in rules' \ {w}}
    BY <1>7, <1>9, <2>1
  <2> QED
    BY <1>4, <1>7, <1>8, <2>1, <2>2 DEF Knows
<1> QED
  BY <1>2, <1>3, <1>4, <1>6, <1>10, <1>11, RuleStep

LEMMA RemovalKeeps ==
  ASSUME LoggingInv, NEW c \in Configurers, RouterOs!RemoveDuplicate(c) \/ RouterOs!RemoveFormer(c)
  PROVE  LoggingInv'
<1>1. /\ removals \in [Configurers -> SUBSET Nat] /\ step \in [Configurers -> Stages]
      /\ OnePerName /\ Cares(step[c], removals[c])
  BY DEF LoggingInv, AllCare, CallersTyped
<1>2. /\ removals[c] # {} /\ UNCHANGED <<offers, actionId, overlap>>
      /\ removals' = [removals EXCEPT ![c] = RouterOs!Rest(removals[c])]
      /\ step' = step
      /\ \/ step[c] = "duplicates" /\ RouterOs!DropRule(c)
         \/ step[c] = "former" /\ RouterOs!DropAction(c)
  BY DEF RouterOs!RemoveDuplicate, RouterOs!RemoveFormer
<1>3. RouterMoves(c)
  BY <1>2 DEF RouterMoves
<1>4. PICK l \in Stages : l = step[c] /\ l # "verifyAction"
  BY <1>1, <1>2
<1>5. PICK S \in SUBSET Nat, id \in removals[c] : id = RouterOs!Foremost(removals[c]) /\ S = removals[c] \ {id}
  BY <1>1, <1>2, ForemostIsOne
<1>6. step' = [step EXCEPT ![c] = l] /\ removals' = [removals EXCEPT ![c] = S]
  BY <1>1, <1>2, <1>4, <1>5 DEF RouterOs!Rest
<1>7. CASE step[c] = "duplicates" /\ RouterOs!DropRule(c)
  <2>1. /\ actions' = actions /\ rules' = {r \in rules : r.id # id}
        /\ Renewed' = Renewed /\ Remnants' = Remnants
    BY <1>2, <1>5, <1>7, DropRuleKeeps DEF Renewed, Remnants
  <2>2. \A r : (OnRemnant(r)' <=> OnRemnant(r)) /\ (Placed(r)' <=> Placed(r))
    BY <2>1 DEF OnRemnant, Placed
  <2>3. Cares(l, S)'
    BY <1>1, <1>4, <1>5, <1>7, <2>1, <2>2 DEF Cares, Verified
  <2>4. ASSUME NEW o, Knows(step[c], o, removals[c]) PROVE Knows(l, o, S)'
    <3>1. PICK r \in rules : Placed(r) /\ removals[c] = {q.id : q \in rules \ {r}}
      BY <1>7, <2>4 DEF Knows
    <3>2. r.id \notin removals[c]
      BY <1>1, <3>1 DEF OnePerName
    <3>3. r \in rules' /\ S = {q.id : q \in rules' \ {r}}
      BY <1>5, <2>1, <3>1, <3>2
    <3>4. \E a \in Renewed : Sends(a, o)
      BY <1>7, <2>4 DEF Knows, Verified
    <3> QED
      BY <1>4, <1>7, <2>1, <2>2, <3>1, <3>3, <3>4 DEF Knows
  <2> QED
    BY <1>2, <1>3, <1>4, <1>6, <1>7, <2>3, <2>4, RuleStep
<1>8. CASE step[c] = "former" /\ RouterOs!DropAction(c)
  <2>1. /\ rules' = rules /\ Renewed' = Renewed /\ Remnants' = {a \in Remnants : a.id # id}
    BY <1>2, <1>5, <1>8, DropActionKeeps
  <2>2. \A r : (OnRemnant(r)' => OnRemnant(r)) /\ (Placed(r)' <=> Placed(r))
    BY <2>1 DEF OnRemnant, Placed
  <2>3. Cares(l, S)'
    BY <1>1, <1>4, <1>5, <1>8, <2>1, <2>2 DEF Cares, Verified
  <2>4. ASSUME NEW o, Knows(step[c], o, removals[c]) PROVE Knows(l, o, S)'
    <3>1. /\ \E a \in Renewed : Sends(a, o)
          /\ \E r \in rules : rules = {r} /\ Placed(r)
          /\ removals[c] = {a.id : a \in Remnants}
      BY <1>8, <2>4 DEF Knows, Verified
    <3>2. S = {a.id : a \in Remnants'}
      BY <1>5, <2>1, <3>1
    <3> QED
      BY <1>4, <1>8, <2>1, <2>2, <3>1, <3>2 DEF Knows
  <2> QED
    BY <1>2, <1>3, <1>4, <1>6, <1>8, <2>3, <2>4, RuleStep
<1> QED
  BY <1>2, <1>7, <1>8

LEMMA InitLogging == RouterOs!Init => LoggingInv
<1> SUFFICES ASSUME RouterOs!Init PROVE LoggingInv
  OBVIOUS
<1>1. /\ fresh = 5
      /\ step = [c \in Configurers |-> "idle"] /\ offers = [c \in Configurers |-> <<>>]
      /\ actionId = [c \in Configurers |-> 0] /\ removals = [c \in Configurers |-> {}]
      /\ overlap = [c \in Configurers |-> FALSE]
  BY DEF RouterOs!Init
<1>2. PICK a1, b1, a2 : /\ a1 = RouterOs!Action(1, RouterOs!Managed) /\ b1 = RouterOs!Action(1, RouterOs!Former)
                        /\ a2 = RouterOs!Action(2, RouterOs!Former)
  OBVIOUS
<1>3. /\ a1 \in LoggingActions /\ a1.id = 1 /\ a1.name = "MMESyslog"
      /\ b1 \in LoggingActions /\ b1.id = 1 /\ b1.name = "mme-syslog"
      /\ a2 \in LoggingActions /\ a2.id = 2 /\ a2.name = "mme-syslog"
  BY <1>2 DEF RouterOs!Action, RouterOs!Managed, RouterOs!Former, LoggingActions, Written
<1>4. actions \in {{}, {a1}, {b1}, {a1, a2}}
  BY <1>2 DEF RouterOs!Init
<1>5. \A a \in actions : a \in LoggingActions /\ a.id < 5
  BY <1>3, <1>4
<1>6. \A a, b \in actions : a.id = b.id \/ a.name = b.name => a = b
  BY <1>3, <1>4
<1>7. \/ rules = {}
      \/ \E a \in actions : rules = {RouterOs!Rule(3, a.id)}
      \/ \E a, b \in actions : rules = {RouterOs!Rule(3, a.id), RouterOs!Rule(4, b.id)}
  BY DEF RouterOs!Init
<1>8. \A n \in {3, 4}, a \in actions :
        LET r == RouterOs!Rule(n, a.id) IN r \in LoggingRules /\ r.id = n /\ r.id < 5 /\ r.action = a.id
  BY <1>5 DEF RouterOs!Rule, LoggingRules, LoggingActions
<1>9. /\ \A r \in rules : r \in LoggingRules /\ r.id < 5 /\ \E a \in actions : r.action = a.id
      /\ \A q, r \in rules : q.id = r.id => q = r
  BY <1>7, <1>8
<1>10. RouterTyped /\ OnePerName
  BY <1>1, <1>5, <1>6, <1>9 DEF RouterTyped, OnePerName
<1>11. CallersTyped
  <2>1. step \in [Configurers -> Stages] /\ \A c \in Configurers : step[c] = "idle"
    BY <1>1 DEF Stages
  <2>2. offers \in [Configurers -> Seq(Written)]
    BY <1>1
  <2>3. /\ actionId \in [Configurers -> Nat] /\ removals \in [Configurers -> SUBSET Nat]
        /\ overlap \in [Configurers -> BOOLEAN]
    BY <1>1
  <2> QED
    BY <2>1, <2>2, <2>3 DEF CallersTyped
<1>12. AllCare /\ AloneAtIt
  BY <1>1 DEF AllCare, AloneAtIt, Cares, Verified
<1> QED
  BY <1>10, <1>11, <1>12 DEF LoggingInv

LEMMA NextLogging ==
  ASSUME LoggingInv, RouterOs!Next \/ UNCHANGED routerOsVars PROVE LoggingInv'
<1>1. CASE UNCHANGED routerOsVars
  BY <1>1 DEF routerOsVars, LoggingInv, RouterTyped, CallersTyped, OnePerName, AllCare, AloneAtIt, Cares, Knows,
     OnRemnant, Placed, Renewed, Remnants
<1>2. CASE RouterOs!Next
  BY <1>2, ConfigureKeeps, ActionStepKeeps, ListingKeeps, SetRuleKeeps, RemovalKeeps DEF RouterOs!Next, RouterOs!Step
<1> QED
  BY <1>1, <1>2

LEMMA LoggingHolds == LoggingInv => RouterOs!OneRuleOneAction
<1> SUFFICES ASSUME LoggingInv PROVE RouterOs!OneRuleOneAction
  OBVIOUS
<1>1. actions \subseteq LoggingActions /\ rules \subseteq LoggingRules /\ OnePerName
  BY DEF LoggingInv, RouterTyped
<1>2. \A r \in rules : r.action \in RouterOs!ManagedIds
  BY <1>1, NamesOfActions DEF OnePerName, LoggingActions
<1>3. RouterOs!ManagedRules = rules
  BY <1>2 DEF RouterOs!ManagedRules
<1>4. ASSUME NEW c \in Configurers, step[c] = "succeeded", ~overlap[c]
      PROVE  /\ RouterOs!Cardinality(rules) = 1
             /\ \A r \in rules : r = RouterOs!Asked(r.id)
             /\ \E a \in actions : actions = {a} /\ a.name = "MMESyslog" /\ Sends(a, Head(offers[c]))
  <2>1. Knows("succeeded", Head(offers[c]), removals[c])
    BY <1>4 DEF LoggingInv, AloneAtIt
  <2>2. PICK a \in Renewed : Sends(a, Head(offers[c]))
    BY <2>1 DEF Knows, Verified
  <2>3. Renewed = {a} /\ RouterOs!IdOf(Renewed) = a.id
    <3>1. \E b \in Renewed : Renewed = {b} /\ RouterOs!IdOf(Renewed) = b.id
      BY <1>1, <2>2, ActionOfName
    <3> QED
      BY <2>2, <3>1
  <2>4. actions = {a} /\ a \in actions /\ a.name = "MMESyslog"
    BY <1>1, <2>1, <2>3 DEF Knows, Renewed, Remnants, LoggingActions
  <2>5. PICK r \in rules : rules = {r} /\ r.topics = "asked" /\ r.action = a.id
    BY <2>1, <2>3 DEF Knows, Placed
  <2>6. r = RouterOs!Asked(r.id)
    BY <1>1, <2>3, <2>5, NamesOfActions DEF RouterOs!Asked, LoggingRules
  <2>7. Cardinality({r}) = 1
    BY FS_Singleton
  <2>8. RouterOs!Cardinality(rules) = 1
    BY <2>5, <2>7 DEF RouterOs!Cardinality, Cardinality
  <2> QED
    BY <2>2, <2>4, <2>5, <2>6, <2>8
<1> QED
  BY <1>2, <1>3, <1>4 DEF RouterOs!OneRuleOneAction, RouterOs!Managed, Sends

\* RouterOS logging: a configuration that reports success without another having run
\* meanwhile leaves one rule, with the topics asked for, on the only managed action, which
\* sends to the address and port in the form of the profile reported, whatever format an
\* earlier profile gave it; and no rule is ever left on an action that is gone.
THEOREM RouterLogsOnce == Spec => []OneRuleOneAction
<1> DEFINE I == part = "router logging" => LoggingInv
<1>1. Init => I
  BY InitLogging DEF Init
<1>2. I /\ [Next]_allVars => I'
  <2> SUFFICES ASSUME I, [Next]_allVars, part' = "router logging" PROVE LoggingInv'
    OBVIOUS
  <2>1. part = "router logging"
    BY DEF Next, allVars
  <2>2. RouterOs!Next \/ UNCHANGED routerOsVars
    BY <2>1 DEF Next, allVars, routerOsVars
  <2> QED
    BY <2>1, <2>2, NextLogging
<1>3. I => OneRuleOneAction
  BY LoggingHolds DEF OneRuleOneAction
<1> QED
  BY <1>1, <1>2, <1>3, PTL DEF Spec

-----------------------------------------------------------------------------
(* The types of the logging of the routers                                 *)

\* The bounds on runs and on unanswered commands.
LoggingTyped == runs \in 0 .. MaxRuns /\ breaks \in 0 .. MaxBreaks

\* They start at 0.
LEMMA InitLoggingTyped == ASSUME RouterOs!Init PROVE LoggingTyped
<1>1. MaxRuns \in Nat /\ MaxBreaks \in Nat /\ runs = 0 /\ breaks = 0
  BY BoundsAssumption DEF RouterOs!Init
<1> QED
  BY <1>1 DEF LoggingTyped

\* Every step of a configuration keeps them.
LEMMA NextLoggingTyped ==
  ASSUME LoggingTyped, RouterOs!Next \/ UNCHANGED routerOsVars PROVE LoggingTyped'
<1>0. MaxRuns \in Nat /\ MaxBreaks \in Nat
  BY BoundsAssumption
<1>1. ASSUME NEW c \in Configurers, NEW version, RouterOs!Begin(c, version) PROVE LoggingTyped'
  <2>1. runs < MaxRuns /\ runs' = runs + 1 /\ breaks' = breaks
    BY <1>1 DEF RouterOs!Begin
  <2> QED
    BY <1>0, <2>1 DEF LoggingTyped
<1>2. ASSUME NEW c \in Configurers, RouterOs!Break(c) PROVE LoggingTyped'
  <2>1. breaks < MaxBreaks /\ breaks' = breaks + 1 /\ runs' = runs
    BY <1>2 DEF RouterOs!Break
  <2> QED
    BY <1>0, <2>1 DEF LoggingTyped
<1>3. ASSUME NEW c \in Configurers,
             \/ RouterOs!SetAction(c) \/ RouterOs!RefuseProfile(c) \/ RouterOs!VerifyAction(c) \/ RouterOs!GiveUp(c)
             \/ RouterOs!ListRules(c) \/ RouterOs!SetRule(c) \/ RouterOs!RemoveDuplicate(c) \/ RouterOs!VerifyRule(c)
             \/ RouterOs!RemoveFormer(c) \/ RouterOs!Succeed(c) \/ RouterOs!Gone(c)
      PROVE  LoggingTyped'
  <2>1. UNCHANGED <<runs, breaks>>
    BY <1>3 DEF RouterOs!SetAction, RouterOs!RefuseProfile, RouterOs!VerifyAction, RouterOs!GiveUp, RouterOs!ListRules,
      RouterOs!SetRule, RouterOs!RemoveDuplicate, RouterOs!VerifyRule, RouterOs!RemoveFormer, RouterOs!Succeed, RouterOs!Gone
  <2> QED
    BY <2>1 DEF LoggingTyped
<1>4. CASE UNCHANGED routerOsVars
  BY <1>4 DEF routerOsVars, LoggingTyped
<1> QED
  BY <1>1, <1>2, <1>3, <1>4 DEF RouterOs!Next, RouterOs!Step

\* With the invariant of the configurations these are their types.
LEMMA LoggingTypesHold == LoggingInv /\ LoggingTyped => RouterOs!TypeOK
BY DEF LoggingInv, RouterTyped, CallersTyped, LoggingActions, LoggingRules, Stages, LoggingTyped, RouterOs!TypeOK,
       RouterOs!Managed, RouterOs!Former

-----------------------------------------------------------------------------
(* Loops and recursive functions                                           *)

\* Induction, for a set of numbers.
LEMMA Inductive ==
  ASSUME NEW S, 0 \in S, \A n \in Nat : n \in S => n + 1 \in S
  PROVE  Nat \subseteq S
<1>1. SUFFICES ASSUME Nat \ S # {} PROVE FALSE
  OBVIOUS
<1>2. PICK m \in Nat \ S : \A n \in Nat \ S : m <= n
  BY <1>1, Least
<1>3. m # 0 /\ m - 1 \in Nat /\ m - 1 < m
  BY <1>2
<1>4. m - 1 \in S
  BY <1>2, <1>3
<1> QED
  BY <1>2, <1>3, <1>4

\* f is the run of a loop of n turns: what holds at its start and after each.
IsRun(f, W, start, n, turn) ==
  /\ f \in [0 .. n -> W] /\ f[0] = start
  /\ \A i \in 1 .. n : f[i] = turn[<<i, f[i - 1]>>]

\* A loop of n turns has a run.
LEMMA LoopRuns ==
  ASSUME NEW W, NEW start \in W, NEW n \in Nat, NEW turn \in [(1 .. n) \X W -> W]
  PROVE  \E f : IsRun(f, W, start, n, turn)
<1> DEFINE Run(f, k) == /\ f \in [0 .. k -> W] /\ f[0] = start
                        /\ \A i \in 1 .. k : f[i] = turn[<<i, f[i - 1]>>]
           S == {k \in Nat : k <= n => \E f : Run(f, k)}
<1>1. 0 \in S
  <2>1. Run([i \in 0 .. 0 |-> start], 0)
    OBVIOUS
  <2> QED
    BY <2>1
<1>2. ASSUME NEW k \in Nat, k \in S PROVE k + 1 \in S
  <2>1. SUFFICES ASSUME k + 1 <= n PROVE \E f : Run(f, k + 1)
    OBVIOUS
  <2>2. PICK f : Run(f, k)
    BY <1>2, <2>1
  <2>3. PICK w \in W : w = turn[<<k + 1, f[k]>>]
    <3>1. <<k + 1, f[k]>> \in (1 .. n) \X W
      BY <2>1, <2>2
    <3> QED
      BY <3>1
  <2> DEFINE g == [i \in 0 .. k + 1 |-> IF i = k + 1 THEN w ELSE f[i]]
  <2>4. g \in [0 .. k + 1 -> W] /\ g[0] = start
    BY <2>2
  <2>5. ASSUME NEW i \in 1 .. k + 1 PROVE g[i] = turn[<<i, g[i - 1]>>]
    <3>1. i - 1 \in 0 .. k /\ i - 1 # k + 1 /\ i - 1 \in 0 .. k + 1
      OBVIOUS
    <3>2. g[i - 1] = f[i - 1]
      BY <3>1
    <3>3. CASE i = k + 1
      <4>1. i - 1 = k
        BY <3>3
      <4>2. g[i] = w
        BY <3>3
      <4>3. g[i - 1] = f[k] /\ <<i, g[i - 1]>> = <<k + 1, f[k]>>
        BY <3>2, <3>3, <4>1
      <4> HIDE DEF g
      <4> QED
        BY <2>3, <4>2, <4>3
    <3>4. CASE i # k + 1
      <4>1. i \in 1 .. k
        BY <3>4
      <4> QED
        BY <2>2, <3>2, <3>4, <4>1
    <3> QED
      BY <3>3, <3>4
  <2> HIDE DEF g
  <2> QED
    BY <2>4, <2>5
<1>3. n \in S
  <2> HIDE DEF S
  <2>1. Nat \subseteq S
    BY <1>1, <1>2, Inductive
  <2> QED
    BY <2>1
<1> QED
  BY <1>3 DEF IsRun

\* A conjunct that a turn keeps holds all along.
LEMMA LoopKeeps ==
  ASSUME NEW n \in Nat, NEW Good, 0 \in Good,
         \A i \in 1 .. n : i - 1 \in Good => i \in Good
  PROVE  \A i \in 0 .. n : i \in Good
<1> DEFINE S == {k \in Nat : k <= n => k \in Good}
<1>1. 0 \in S
  OBVIOUS
<1>2. ASSUME NEW k \in Nat, k \in S PROVE k + 1 \in S
  <2>1. SUFFICES ASSUME k + 1 <= n PROVE k + 1 \in Good
    OBVIOUS
  <2>2. k \in Good /\ k + 1 \in 1 .. n /\ (k + 1) - 1 = k
    BY <1>2, <2>1
  <2> QED
    BY <2>2
<1>3. Nat \subseteq S
  <2> HIDE DEF S
  <2> QED
    BY <1>1, <1>2, Inductive
<1> QED
  BY <1>3

-----------------------------------------------------------------------------
(* Joining a sequence of sequences                                         *)

\* FlattenSeq joins one sequence after the other.
LEMMA Flattening ==
  ASSUME NEW S, NEW s \in Seq(Seq(S))
  PROVE  \E f \in [0 .. Len(s) -> Seq(S)] :
           /\ f[0] = <<>> /\ \A i \in 1 .. Len(s) : f[i] = f[i - 1] \o s[i]
           /\ Codec!FlattenSeq(s) = f[Len(s)]
<1> DEFINE n == Len(s)
           turn == [p \in (1 .. n) \X Seq(S) |-> p[2] \o s[p[1]]]
           Joins(g) == g = [i \in 1 .. n |-> IF i = 1 THEN s[i] ELSE g[i - 1] \o s[i]]
           F == CHOOSE g : Joins(g)
<1>0. n \in Nat
  BY LenProperties
<1>1. \A i \in 1 .. n : s[i] \in Seq(S)
  BY ElementOfSeq
<1>2. turn \in [(1 .. n) \X Seq(S) -> Seq(S)]
  <2>1. ASSUME NEW p \in (1 .. n) \X Seq(S) PROVE p[2] \o s[p[1]] \in Seq(S)
    <3>1. p[2] \in Seq(S) /\ s[p[1]] \in Seq(S)
      BY <1>1
    <3> QED
      BY <3>1, ConcatProperties
  <2> QED
    BY <2>1
<1>3. <<>> \in Seq(S)
  BY EmptySeq
<1>4. PICK f \in [0 .. n -> Seq(S)] : f[0] = <<>> /\ \A i \in 1 .. n : f[i] = turn[<<i, f[i - 1]>>]
  <2> DEFINE W == Seq(S)
             none == <<>>
  <2>1. none \in W /\ turn \in [(1 .. n) \X W -> W] /\ n \in Nat
    BY <1>0, <1>2, <1>3
  <2>2. \E f : IsRun(f, W, none, n, turn)
    <3> HIDE DEF n, turn, W, none
    <3> QED
      BY <2>1, LoopRuns, Zenon
  <2> QED
    BY <2>2 DEF IsRun
<1>5. ASSUME NEW i \in 1 .. n PROVE f[i] = f[i - 1] \o s[i]
  <2>1. i - 1 \in 0 .. n
    BY <1>0
  <2>2. f[i - 1] \in Seq(S)
    BY <1>4, <2>1
  <2>3. turn[<<i, f[i - 1]>>] = f[i - 1] \o s[i]
    BY <2>2
  <2> QED
    BY <1>4, <2>3
<1>6. n # 0 => f[1] = s[1]
  <2>1. SUFFICES ASSUME n # 0 PROVE f[1] = s[1]
    OBVIOUS
  <2>2. 1 \in 1 .. n /\ 1 - 1 = 0
    BY <1>0, <2>1
  <2>3. f[1] = f[0] \o s[1] /\ s[1] \in Seq(S) /\ f[0] = <<>>
    <3> HIDE DEF n, turn
    <3> QED
      BY <1>1, <1>4, <1>5, <2>2
  <2> QED
    BY <2>3, ConcatEmptySeq
<1>7. Joins([i \in 1 .. n |-> f[i]])
  <2> DEFINE g == [i \in 1 .. n |-> f[i]]
  <2>1. ASSUME NEW i \in 1 .. n PROVE g[i] = IF i = 1 THEN s[i] ELSE g[i - 1] \o s[i]
    <3>1. CASE i = 1
      <4>1. n # 0
        BY <1>0
      <4> QED
        BY <1>6, <3>1, <4>1
    <3>2. CASE i # 1
      <4>1. i - 1 \in 1 .. n
        BY <1>0, <3>2
      <4>2. g[i - 1] = f[i - 1] /\ g[i] = f[i]
        BY <4>1
      <4> HIDE DEF g
      <4> QED
        BY <1>5, <3>2, <4>2
    <3> QED
      BY <3>1, <3>2
  <2>2. g = [i \in 1 .. n |-> g[i]]
    OBVIOUS
  <2>3. g = [i \in 1 .. n |-> IF i = 1 THEN s[i] ELSE g[i - 1] \o s[i]]
    <3> HIDE DEF g, n
    <3> QED
      BY <2>1, <2>2
  <2> HIDE DEF n
  <2> QED
    BY <2>3
<1>8. Joins(F)
  <2>1. \E g : Joins(g)
    BY <1>7
  <2> HIDE DEF Joins
  <2> QED
    BY <2>1
<1>9. \A i \in 1 .. n : F[i] = f[i]
  <2> DEFINE Good == {i \in 0 .. n : i = 0 \/ F[i] = f[i]}
  <2>1. 0 \in Good
    BY <1>0
  <2>2. ASSUME NEW i \in 1 .. n, i - 1 \in Good PROVE i \in Good
    <3>1. F[i] = IF i = 1 THEN s[i] ELSE F[i - 1] \o s[i]
      <4> HIDE DEF F
      <4> QED
        BY <1>8
    <3>2. F[i] = f[i]
      <4> HIDE DEF F
      <4>1. CASE i = 1
        <5>1. n # 0
          BY <1>0
        <5> QED
          BY <1>6, <3>1, <4>1, <5>1
      <4>2. CASE i # 1
        <5>1. F[i - 1] = f[i - 1]
          BY <2>2, <4>2
        <5> QED
          BY <1>5, <3>1, <4>2, <5>1
      <4> QED
        BY <4>1, <4>2
    <3> HIDE DEF F
    <3> QED
      BY <3>2, <1>0
  <2>3. \A i \in 0 .. n : i \in Good
    <3> HIDE DEF Good, n
    <3> QED
      BY <1>0, <2>1, <2>2, LoopKeeps
  <2> HIDE DEF F
  <2> QED
    BY <2>3, <1>0
<1>10. Codec!FlattenSeq(s) = f[n]
  <2>1. Codec!FlattenSeq(s) = IF n = 0 THEN s ELSE F[n]
    BY DEF Codec!FlattenSeq
  <2>2. CASE n = 0
    <3>1. s = <<>>
      BY <2>2, EmptySeq
    <3> QED
      BY <1>4, <2>1, <2>2, <3>1
  <2>3. CASE n # 0
    <3>1. n \in 1 .. n
      BY <1>0, <2>3
    <3> HIDE DEF n, F
    <3> QED
      BY <1>9, <2>1, <2>3, <3>1
  <2> QED
    BY <2>2, <2>3
<1> QED
  BY <1>4, <1>5, <1>10

\* What FlattenSeq gives for no sequence, and for one sequence more.
LEMMA FlattenEmpty == Codec!FlattenSeq(<<>>) = <<>>
BY EmptySeq DEF Codec!FlattenSeq

\* One chunk more: its bytes come after those before it.
LEMMA FlattenMore ==
  ASSUME NEW S, NEW s \in Seq(Seq(S)), NEW t \in Seq(Seq(S)),
         Len(t) = Len(s) + 1, \A i \in 1 .. Len(s) : t[i] = s[i]
  PROVE  /\ Codec!FlattenSeq(s) \in Seq(S) /\ Codec!FlattenSeq(t) \in Seq(S)
         /\ t[Len(t)] \in Seq(S)
         /\ Codec!FlattenSeq(t) = Codec!FlattenSeq(s) \o t[Len(t)]
<1> DEFINE n == Len(s)
<1>0. n \in Nat /\ Len(t) = n + 1 /\ n + 1 \in 1 .. Len(t)
  BY LenProperties
<1>1. PICK f \in [0 .. n -> Seq(S)] :
        /\ f[0] = <<>> /\ \A i \in 1 .. n : f[i] = f[i - 1] \o s[i]
        /\ Codec!FlattenSeq(s) = f[n]
  BY Flattening
<1>2. PICK g \in [0 .. n + 1 -> Seq(S)] :
        /\ g[0] = <<>> /\ \A i \in 1 .. n + 1 : g[i] = g[i - 1] \o t[i]
        /\ Codec!FlattenSeq(t) = g[n + 1]
  <2>1. \E g \in [0 .. Len(t) -> Seq(S)] :
          /\ g[0] = <<>> /\ \A i \in 1 .. Len(t) : g[i] = g[i - 1] \o t[i]
          /\ Codec!FlattenSeq(t) = g[Len(t)]
    BY Flattening
  <2> QED
    BY <1>0, <2>1
<1>3. \A i \in 0 .. n : g[i] = f[i]
  <2> DEFINE Good == {i \in 0 .. n : g[i] = f[i]}
  <2>1. 0 \in Good
    BY <1>0, <1>1, <1>2
  <2>2. ASSUME NEW i \in 1 .. n, i - 1 \in Good PROVE i \in Good
    <3>1. g[i - 1] = f[i - 1] /\ i \in 1 .. n + 1 /\ i \in 0 .. n /\ t[i] = s[i]
      BY <1>0, <2>2
    <3> QED
      BY <1>1, <1>2, <3>1
  <2>3. \A i \in 0 .. n : i \in Good
    <3> HIDE DEF Good, n
    <3> QED
      BY <1>0, <2>1, <2>2, LoopKeeps
  <2> QED
    BY <2>3
<1>4. g[n] = f[n] /\ g[n + 1] = g[n] \o t[n + 1]
  <2>1. n + 1 \in 1 .. n + 1 /\ (n + 1) - 1 = n /\ n \in 0 .. n
    BY <1>0
  <2> QED
    BY <1>2, <1>3, <2>1
<1>5. f[n] \in Seq(S) /\ g[n + 1] \in Seq(S) /\ t[n + 1] \in Seq(S)
  <2>1. n \in 0 .. n /\ n + 1 \in 0 .. n + 1
    BY <1>0
  <2> QED
    BY <1>0, <1>1, <1>2, <2>1, ElementOfSeq
<1> QED
  BY <1>0, <1>1, <1>2, <1>4, <1>5

\* Joined sequences are a sequence of what they hold.
LEMMA FlattenTyped ==
  ASSUME NEW S, NEW s \in Seq(Seq(S)) PROVE Codec!FlattenSeq(s) \in Seq(S)
<1>1. PICK f \in [0 .. Len(s) -> Seq(S)] : Codec!FlattenSeq(s) = f[Len(s)]
  BY Flattening
<1>2. Len(s) \in Nat
  BY LenProperties
<1> QED
  BY <1>1, <1>2

\* A sequence appended is joined at the end; and one sequence joined is itself.
LEMMA FlattenAppend ==
  ASSUME NEW S, NEW s \in Seq(Seq(S)), NEW x \in Seq(S)
  PROVE  Codec!FlattenSeq(Append(s, x)) = Codec!FlattenSeq(s) \o x
<1>1. PICK t \in Seq(Seq(S)) : t = Append(s, x)
  BY AppendProperties
<1>2. Len(t) = Len(s) + 1 /\ (\A i \in 1 .. Len(s) : t[i] = s[i]) /\ t[Len(s) + 1] = x
  BY <1>1, AppendProperties
<1>3. Codec!FlattenSeq(t) = Codec!FlattenSeq(s) \o t[Len(t)]
  BY <1>2, FlattenMore
<1> QED
  BY <1>1, <1>2, <1>3

\* One chunk is its bytes.
LEMMA FlattenOne ==
  ASSUME NEW S, NEW x \in Seq(S) PROVE Codec!FlattenSeq(<<x>>) = x
<1>1. <<>> \in Seq(Seq(S)) /\ <<>> \in Seq(S)
  BY EmptySeq
<1>2. Codec!FlattenSeq(Append(<<>>, x)) = <<>> \o x
  BY <1>1, FlattenAppend, FlattenEmpty
<1>3. Append(<<>>, x) = <<x>>
  OBVIOUS
<1> QED
  BY <1>1, <1>2, <1>3, ConcatEmptySeq

-----------------------------------------------------------------------------
(* Lengths                                                                 *)

Byte == 0 .. 255
Length == {n \in Nat : n < 2147483648}

\* A number is made up of its bytes.
LEMMA Places ==
  ASSUME NEW n \in Nat
  PROVE  /\ n = (n \div 256) * 256 + (n % 256)
         /\ n \div 256 = (n \div 65536) * 256 + ((n \div 256) % 256)
         /\ n \div 65536 = (n \div 16777216) * 256 + ((n \div 65536) % 256)
         /\ {n % 256, (n \div 256) % 256, (n \div 65536) % 256} \subseteq Byte
         /\ {n \div 256, n \div 65536, n \div 16777216} \subseteq Nat
<1>1. n = (n \div 256) * 256 + (n % 256) /\ n % 256 \in Byte /\ n \div 256 \in Nat
  BY DEF Byte
<1>2. n \div 65536 \in Nat /\ (n \div 256) % 256 \in Byte
  BY <1>1 DEF Byte
<1>3. n \div 256 = (n \div 65536) * 256 + ((n \div 256) % 256)
  BY <1>1, <1>2
<1>4. n \div 16777216 \in Nat /\ (n \div 65536) % 256 \in Byte
  BY <1>2 DEF Byte
<1>5. n \div 65536 = (n \div 16777216) * 256 + ((n \div 65536) % 256)
  BY <1>2, <1>4
<1> QED
  BY <1>1, <1>2, <1>3, <1>4, <1>5

\* The bytes of a length, in each of its forms.
LEMMA Forms ==
  ASSUME NEW n \in Length
  PROVE  LET e == Codec!EncodeLength(n)
             a == (n \div 16777216) % 256
             b == (n \div 65536) % 256
             c == (n \div 256) % 256
             d == n % 256
         IN \/ n < 128 /\ e = <<n>>
            \/ (128 <= n /\ n < 16384) /\ e = <<128 + n \div 256, d>>
            \/ (16384 <= n /\ n < 2097152) /\ e = <<192 + n \div 65536, c, d>>
            \/ (2097152 <= n /\ n < 268435456) /\ e = <<224 + n \div 16777216, b, c, d>>
            \/ n >= 268435456 /\ e = <<240, a, b, c, d>>
<1>0. n \in Nat
  BY SMT DEF Length
<1>1. CASE n < 128
  BY <1>0, <1>1, SMT DEF Codec!EncodeLength
<1>2. CASE 128 <= n /\ n < 16384
  <2>1. ~(n < 128) /\ ~(16384 <= n /\ n < 2097152) /\ ~(2097152 <= n /\ n < 268435456)
    BY <1>0, <1>2, SMT
  <2> QED
    BY <1>2, <2>1, SMT DEF Codec!EncodeLength
<1>3. CASE 16384 <= n /\ n < 2097152
  <2>1. ~(n < 128) /\ ~(128 <= n /\ n < 16384) /\ ~(2097152 <= n /\ n < 268435456)
    BY <1>0, <1>3, SMT
  <2> QED
    BY <1>3, <2>1, SMT DEF Codec!EncodeLength
<1>4. CASE 2097152 <= n /\ n < 268435456
  <2>1. ~(n < 128) /\ ~(128 <= n /\ n < 16384) /\ ~(16384 <= n /\ n < 2097152)
    BY <1>0, <1>4, SMT
  <2> QED
    BY <1>4, <2>1, SMT DEF Codec!EncodeLength
<1>5. CASE n >= 268435456
  <2>1. ~(n < 128) /\ ~(128 <= n /\ n < 16384) /\ ~(16384 <= n /\ n < 2097152) /\ ~(2097152 <= n /\ n < 268435456)
    BY <1>0, <1>5, SMT
  <2> QED
    BY <1>5, <2>1, SMT DEF Codec!EncodeLength
<1> QED
  BY <1>0, <1>1, <1>2, <1>3, <1>4, <1>5, SMT

\* The first byte tells how many follow.
LEMMA FirstTells ==
  ASSUME NEW x \in Byte
  PROVE  /\ x < 128 => Codec!Following(x) = 0
         /\ x \in 128 .. 191 => Codec!Following(x) = 1
         /\ x \in 192 .. 223 => Codec!Following(x) = 2
         /\ x \in 224 .. 239 => Codec!Following(x) = 3
         /\ x >= 240 => Codec!Following(x) = 4
         /\ Codec!Following(x) \in 0 .. 4
<1>0. x \in Nat
  BY DEF Byte
<1>1. x < 128 => Codec!Following(x) = 0
  BY <1>0 DEF Codec!Following
<1>2. x \in 128 .. 191 => Codec!Following(x) = 1
  <2>1. x \in 128 .. 191 => ~(x < 128) /\ x \notin 192 .. 223 /\ x \notin 224 .. 239
    OBVIOUS
  <2> QED
    BY <2>1 DEF Codec!Following
<1>3. x \in 192 .. 223 => Codec!Following(x) = 2
  <2>1. x \in 192 .. 223 => ~(x < 128) /\ x \notin 128 .. 191 /\ x \notin 224 .. 239
    OBVIOUS
  <2> QED
    BY <2>1 DEF Codec!Following
<1>4. x \in 224 .. 239 => Codec!Following(x) = 3
  <2>1. x \in 224 .. 239 => ~(x < 128) /\ x \notin 128 .. 191 /\ x \notin 192 .. 223
    OBVIOUS
  <2> QED
    BY <2>1 DEF Codec!Following
<1>5. x >= 240 => Codec!Following(x) = 4
  <2>1. x >= 240 => ~(x < 128) /\ x \notin 128 .. 191 /\ x \notin 192 .. 223 /\ x \notin 224 .. 239
    BY <1>0
  <2> QED
    BY <2>1 DEF Codec!Following
<1> QED
  BY <1>0, <1>1, <1>2, <1>3, <1>4, <1>5

\* A length survives its encoding, wherever its bytes are: the first byte tells how
\* many there are, and they give the number back.
LEMMA LengthSurvives ==
  ASSUME NEW n \in Length
  PROVE  LET e == Codec!EncodeLength(n)
         IN /\ e \in Seq(Byte) /\ Len(e) \in 1 .. 5
            /\ Codec!Following(e[1]) = Len(e) - 1
            /\ e = <<0>> <=> n = 0
            /\ \A b : \A o \in Nat :
                 (\A i \in 1 .. Len(e) : b[o + i] = e[i]) => Codec!DecodeLength(b, o) = n
<1> DEFINE e == Codec!EncodeLength(n)
           Whole(b, o) == \A i \in 1 .. Len(e) : b[o + i] = e[i]
           Survives ==
             /\ e \in Seq(Byte) /\ Len(e) \in 1 .. 5
             /\ Codec!Following(e[1]) = Len(e) - 1
             /\ e = <<0>> <=> n = 0
             /\ \A b : \A o \in Nat : Whole(b, o) => Codec!DecodeLength(b, o) = n
<1> SUFFICES Survives
  BY Zenon
<1>0. n \in Nat /\ n < 2147483648
  BY SMT DEF Length
<1> DEFINE a == (n \div 16777216) % 256
           p == (n \div 65536) % 256
           c == (n \div 256) % 256
           d == n % 256
           q1 == n \div 256
           q2 == n \div 65536
           q3 == n \div 16777216
<1>1. /\ n = q1 * 256 + d /\ q1 = q2 * 256 + c /\ q2 = q3 * 256 + p
      /\ d \in Byte /\ c \in Byte /\ p \in Byte
      /\ q1 \in Nat /\ q2 \in Nat /\ q3 \in Nat
  BY <1>0, Places, SMT
<1>2. a = q3 /\ q3 \in 0 .. 127
  <2>1. q3 \in 0 .. 127
    BY <1>0, SMT
  <2> QED
    BY <2>1, SMT
<1>3. \/ n < 128 /\ e = <<n>>
      \/ (128 <= n /\ n < 16384) /\ e = <<128 + q1, d>>
      \/ (16384 <= n /\ n < 2097152) /\ e = <<192 + q2, c, d>>
      \/ (2097152 <= n /\ n < 268435456) /\ e = <<224 + q3, p, c, d>>
      \/ n >= 268435456 /\ e = <<240, a, p, c, d>>
  BY Forms, SMT
<1> HIDE DEF a, p, c, d, q1, q2, q3, e
<1>4. ASSUME NEW b, NEW o \in Nat, Whole(b, o), NEW i \in 1 .. Len(e) PROVE b[o + i] = e[i]
  BY <1>4, SMT
<1> HIDE DEF Whole
<1>5. CASE n < 128 /\ e = <<n>>
  <2>1. n \in Byte /\ Len(e) = 1 /\ e[1] = n /\ e \in Seq(Byte)
    BY <1>0, <1>5, SMT DEF Byte
  <2>2. Codec!Following(n) = 0
    BY <1>5, <2>1, FirstTells, SMT
  <2>3. ASSUME NEW b, NEW o \in Nat, Whole(b, o) PROVE Codec!DecodeLength(b, o) = n
    <3>1. b[o + 1] = n
      BY <1>4, <2>1, <2>3, SMT
    <3> QED
      BY <2>2, <3>1, SMT DEF Codec!DecodeLength
  <2>4. e = <<0>> <=> n = 0
    BY <1>0, <1>5, SMT
  <2>5. Codec!Following(e[1]) = Len(e) - 1 /\ Len(e) \in 1 .. 5
    BY <2>1, <2>2, <2>3, SMT
  <2> QED
    BY <2>1, <2>2, <2>3, <2>4, <2>5, Zenon
<1>6. CASE 128 <= n /\ n < 16384 /\ e = <<128 + q1, d>>
  <2>1. 128 + q1 \in Byte /\ 128 + q1 \in 128 .. 191
    BY <1>1, <1>6, SMT DEF Byte
  <2>2. Len(e) = 2 /\ e[1] = 128 + q1 /\ e[2] = d /\ e \in Seq(Byte)
    BY <1>1, <1>6, <2>1, SMT
  <2>3. Codec!Following(128 + q1) = 1
    BY <2>1, FirstTells, SMT
  <2>4. ASSUME NEW b, NEW o \in Nat, Whole(b, o) PROVE Codec!DecodeLength(b, o) = n
    <3>1. b[o + 1] = 128 + q1 /\ b[o + 2] = d
      BY <1>4, <2>2, <2>4, SMT
    <3>2. b[o + 1 + 1] = d
      BY <3>1, SMT
    <3>3. Codec!DecodeLength(b, o) = (b[o + 1] - 128) * 256 + b[o + 1 + 1]
      BY <2>3, <3>1, SMT DEF Codec!DecodeLength
    <3> QED
      BY <1>1, <3>1, <3>2, <3>3, SMT DEF Byte
  <2>5. ~(e = <<0>>) /\ n # 0
    BY <1>6, <2>2, SMT
  <2>6. Codec!Following(e[1]) = Len(e) - 1 /\ Len(e) \in 1 .. 5
    BY <2>1, <2>2, <2>3, SMT
  <2> QED
    BY <2>2, <2>3, <2>4, <2>5, <2>6, Zenon
<1>7. CASE 16384 <= n /\ n < 2097152 /\ e = <<192 + q2, c, d>>
  <2>1. 192 + q2 \in Byte /\ 192 + q2 \in 192 .. 223
    BY <1>1, <1>7, SMT DEF Byte
  <2>2. Len(e) = 3 /\ e[1] = 192 + q2 /\ e[2] = c /\ e[3] = d /\ e \in Seq(Byte)
    BY <1>1, <1>7, <2>1, SMT
  <2>3. Codec!Following(192 + q2) = 2
    BY <2>1, FirstTells, SMT
  <2>4. ASSUME NEW b, NEW o \in Nat, Whole(b, o) PROVE Codec!DecodeLength(b, o) = n
    <3>1. b[o + 1] = 192 + q2 /\ b[o + 2] = c /\ b[o + 3] = d
      BY <1>4, <2>2, <2>4, SMT
    <3>2. b[o + 1 + 1] = c /\ b[o + 1 + 2] = d
      BY <3>1, SMT
    <3>3. Codec!DecodeLength(b, o) = (b[o + 1] - 192) * 65536 + b[o + 1 + 1] * 256 + b[o + 1 + 2]
      BY <2>3, <3>1, SMT DEF Codec!DecodeLength
    <3> QED
      BY <1>1, <3>1, <3>2, <3>3, SMT DEF Byte
  <2>5. ~(e = <<0>>) /\ n # 0
    BY <1>7, <2>2, SMT
  <2>6. Codec!Following(e[1]) = Len(e) - 1 /\ Len(e) \in 1 .. 5
    BY <2>1, <2>2, <2>3, SMT
  <2> QED
    BY <2>2, <2>3, <2>4, <2>5, <2>6, Zenon
<1>8. CASE 2097152 <= n /\ n < 268435456 /\ e = <<224 + q3, p, c, d>>
  <2>1. 224 + q3 \in Byte /\ 224 + q3 \in 224 .. 239
    BY <1>1, <1>8, SMT DEF Byte
  <2>2. Len(e) = 4 /\ e[1] = 224 + q3 /\ e[2] = p /\ e[3] = c /\ e[4] = d /\ e \in Seq(Byte)
    BY <1>1, <1>8, <2>1, SMT
  <2>3. Codec!Following(224 + q3) = 3
    BY <2>1, FirstTells, SMT
  <2>4. ASSUME NEW b, NEW o \in Nat, Whole(b, o) PROVE Codec!DecodeLength(b, o) = n
    <3>1. b[o + 1] = 224 + q3 /\ b[o + 2] = p /\ b[o + 3] = c /\ b[o + 4] = d
      BY <1>4, <2>2, <2>4, SMT
    <3>2. b[o + 1 + 1] = p /\ b[o + 1 + 2] = c /\ b[o + 1 + 3] = d
      BY <3>1, SMT
    <3>3. Codec!DecodeLength(b, o) =
            (b[o + 1] - 224) * 16777216 + b[o + 1 + 1] * 65536 + b[o + 1 + 2] * 256 + b[o + 1 + 3]
      BY <2>3, <3>1, SMT DEF Codec!DecodeLength
    <3> QED
      BY <1>1, <3>1, <3>2, <3>3, SMT DEF Byte
  <2>5. ~(e = <<0>>) /\ n # 0
    BY <1>8, <2>2, SMT
  <2>6. Codec!Following(e[1]) = Len(e) - 1 /\ Len(e) \in 1 .. 5
    BY <2>1, <2>2, <2>3, SMT
  <2> QED
    BY <2>2, <2>3, <2>4, <2>5, <2>6, Zenon
<1>9. CASE n >= 268435456 /\ e = <<240, a, p, c, d>>
  <2>1. 240 \in Byte /\ a \in Byte
    BY <1>2, SMT DEF Byte
  <2>2. Len(e) = 5 /\ e[1] = 240 /\ e[2] = a /\ e[3] = p /\ e[4] = c /\ e[5] = d /\ e \in Seq(Byte)
    BY <1>1, <1>9, <2>1, SMT
  <2>3. Codec!Following(240) = 4
    BY <2>1, FirstTells, SMT
  <2>4. ASSUME NEW b, NEW o \in Nat, Whole(b, o) PROVE Codec!DecodeLength(b, o) = n
    <3>1. b[o + 1] = 240 /\ b[o + 2] = a /\ b[o + 3] = p /\ b[o + 4] = c /\ b[o + 5] = d
      BY <1>4, <2>2, <2>4, SMT
    <3>2. b[o + 1 + 1] = a /\ b[o + 1 + 2] = p /\ b[o + 1 + 3] = c /\ b[o + 1 + 4] = d
      BY <3>1, SMT
    <3>3. Codec!DecodeLength(b, o) =
            b[o + 1 + 1] * 16777216 + b[o + 1 + 2] * 65536 + b[o + 1 + 3] * 256 + b[o + 1 + 4]
      BY <2>3, <3>1, SMT DEF Codec!DecodeLength
    <3> QED
      BY <1>1, <1>2, <3>2, <3>3, SMT DEF Byte
  <2>5. ~(e = <<0>>) /\ n # 0
    BY <1>0, <1>9, <2>2, SMT
  <2>6. Codec!Following(e[1]) = Len(e) - 1 /\ Len(e) \in 1 .. 5
    BY <2>1, <2>2, <2>3, SMT
  <2> QED
    BY <2>2, <2>3, <2>4, <2>5, <2>6, Zenon
<1> HIDE DEF Survives
<1> QED
  BY <1>3, <1>5, <1>6, <1>7, <1>8, <1>9, SMT

-----------------------------------------------------------------------------
(* Pieces of a stream                                                      *)

\* A function on 1 .. n is a sequence of n elements.
LEMMA SeqOf ==
  ASSUME NEW S, NEW n \in Nat, NEW f, f \in [1 .. n -> S]
  PROVE  f \in Seq(S) /\ Len(f) = n
<1>1. f \in Seq(S)
  BY SeqDef, Zenon
<1>2. DOMAIN f = 1 .. n /\ DOMAIN f = 1 .. Len(f) /\ Len(f) \in Nat
  BY <1>1, LenProperties
<1> QED
  BY <1>1, <1>2

\* The first i pieces, joined; and b begins with a.
Joint(s, i) == Codec!FlattenSeq([j \in 1 .. i |-> s[j]])
Begins(a, b) == Len(a) <= Len(b) /\ \A k \in 1 .. Len(a) : b[k] = a[k]

\* The pieces up to the i-th, joined: the next adds its elements at the end.
LEMMA Pieces ==
  ASSUME NEW S, NEW s \in Seq(Seq(S))
  PROVE  /\ Joint(s, 0) = <<>> /\ Joint(s, Len(s)) = Codec!FlattenSeq(s)
         /\ \A i \in 0 .. Len(s) : Joint(s, i) \in Seq(S)
         /\ \A i \in 1 .. Len(s) : Joint(s, i) = Joint(s, i - 1) \o s[i]
<1> DEFINE n == Len(s)
           upTo(i) == [j \in 1 .. i |-> s[j]]
<1>0. n \in Nat /\ \A i \in 1 .. n : s[i] \in Seq(S)
  BY LenProperties, ElementOfSeq
<1>1. ASSUME NEW i \in 0 .. n PROVE upTo(i) \in Seq(Seq(S)) /\ Len(upTo(i)) = i
  <2>1. i \in Nat /\ \A j \in 1 .. i : s[j] \in Seq(S)
    BY <1>0
  <2> DEFINE W == Seq(S)
  <2>2. upTo(i) \in [1 .. i -> W]
    BY <2>1
  <2> HIDE DEF W
  <2>3. upTo(i) \in Seq(W) /\ Len(upTo(i)) = i
    <3> HIDE DEF upTo
    <3> QED
      BY <2>1, <2>2, SeqOf
  <2> QED
    BY <2>3 DEF W
<1>2. Joint(s, 0) = <<>>
  <2>1. upTo(0) = <<>>
    OBVIOUS
  <2> QED
    BY <2>1, FlattenEmpty DEF Joint
<1>3. Joint(s, n) = Codec!FlattenSeq(s)
  <2>1. upTo(n) = s
    <3>1. s = [j \in 1 .. n |-> s[j]]
      BY LenProperties
    <3> QED
      BY <3>1
  <2> QED
    BY <2>1 DEF Joint
<1>4. \A i \in 0 .. n : Joint(s, i) \in Seq(S)
  <2> HIDE DEF n
  <2> QED
    BY <1>1, FlattenTyped DEF Joint
<1>5. ASSUME NEW i \in 1 .. n PROVE Joint(s, i) = Joint(s, i - 1) \o s[i]
  <2>1. i \in 0 .. n /\ i - 1 \in 0 .. n /\ (i - 1) + 1 = i
    BY <1>0
  <2>2. PICK a \in Seq(Seq(S)) : a = upTo(i - 1) /\ Len(a) = i - 1
    BY <1>1, <2>1
  <2>3. PICK b \in Seq(Seq(S)) : b = upTo(i) /\ Len(b) = i
    BY <1>1, <2>1
  <2>4. Len(b) = Len(a) + 1 /\ (\A j \in 1 .. Len(a) : b[j] = a[j]) /\ b[Len(b)] = s[i]
    BY <2>1, <2>2, <2>3
  <2>5. Codec!FlattenSeq(b) = Codec!FlattenSeq(a) \o b[Len(b)]
    <3> HIDE DEF upTo, n
    <3> QED
      BY <2>4, FlattenMore
  <2> QED
    BY <2>2, <2>3, <2>4, <2>5 DEF Joint
<1> QED
  BY <1>2, <1>3, <1>4, <1>5

\* Fewer pieces begin more pieces, and how many bytes there are tells it.
LEMMA PiecesBegin ==
  ASSUME NEW S, NEW s \in Seq(Seq(S)), NEW i \in 0 .. Len(s), NEW j \in i .. Len(s)
  PROVE  Begins(Joint(s, i), Joint(s, j))
<1> DEFINE n == Len(s)
           Good == {k \in 0 .. n : i <= k => Begins(Joint(s, i), Joint(s, k))}
<1>0. n \in Nat /\ i \in Nat
  BY LenProperties
<1>1. ASSUME NEW k \in 0 .. n PROVE Begins(Joint(s, k), Joint(s, k))
  <2>1. Len(Joint(s, k)) \in Nat
    BY Pieces, LenProperties
  <2> QED
    BY <2>1 DEF Begins
<1>2. 0 \in Good
  <2>1. i <= 0 => i = 0
    BY <1>0
  <2>2. 0 \in 0 .. n
    BY <1>0
  <2> QED
    BY <1>1, <2>1, <2>2
<1>3. ASSUME NEW k \in 1 .. n, k - 1 \in Good PROVE k \in Good
  <2>1. k \in 0 .. n /\ k - 1 \in 0 .. n
    BY <1>0
  <2>2. SUFFICES ASSUME i <= k PROVE Begins(Joint(s, i), Joint(s, k))
    BY <2>1
  <2>3. CASE i = k
    BY <1>1, <2>1, <2>3
  <2>4. CASE i # k
    <3>1. Begins(Joint(s, i), Joint(s, k - 1))
      BY <1>0, <1>3, <2>2, <2>4
    <3>2. PICK x \in Seq(S) : x = Joint(s, i)
      BY Pieces
    <3>3. PICK y \in Seq(S) : y = Joint(s, k - 1)
      BY <2>1, Pieces
    <3>4. PICK z \in Seq(S) : z = s[k]
      BY ElementOfSeq
    <3>5. Joint(s, k) = y \o z
      BY <3>3, <3>4, Pieces
    <3>6. Len(x) \in Nat /\ Len(y) \in Nat /\ Len(z) \in Nat
      BY LenProperties
    <3>7. Begins(x, y)
      BY <3>1, <3>2, <3>3
    <3>8. Begins(x, y \o z)
      <4>1. Len(y \o z) = Len(y) + Len(z) /\ \A m \in 1 .. Len(y) : (y \o z)[m] = y[m]
        <5>1. \A m \in 1 .. Len(y) : m \in 1 .. Len(y) + Len(z) /\ m <= Len(y)
          BY <3>6
        <5> QED
          BY <5>1, ConcatProperties
      <4> QED
        BY <3>6, <3>7, <4>1 DEF Begins
    <3> QED
      BY <3>2, <3>5, <3>8
  <2> QED
    BY <2>3, <2>4
<1>4. \A k \in 0 .. n : k \in Good
  <2> HIDE DEF n, Good
  <2> QED
    BY <1>0, <1>2, <1>3, LoopKeeps
<1>5. j \in 0 .. n /\ i <= j
  BY <1>0
<1> QED
  BY <1>4, <1>5

\* Pieces that are not empty take a byte at least.
LEMMA PiecesGrow ==
  ASSUME NEW S, NEW s \in Seq(Seq(S)), \A i \in 1 .. Len(s) : s[i] # <<>>,
         NEW i \in 0 .. Len(s), NEW j \in i .. Len(s)
  PROVE  Len(Joint(s, i)) + (j - i) <= Len(Joint(s, j))
<1> DEFINE n == Len(s)
           Good == {k \in 0 .. n : i <= k => Len(Joint(s, i)) + (k - i) <= Len(Joint(s, k))}
<1>0. n \in Nat /\ i \in Nat
  BY LenProperties
<1>1. ASSUME NEW k \in 0 .. n PROVE Len(Joint(s, k)) \in Nat
  BY Pieces, LenProperties
<1>2. 0 \in Good
  <2>1. i <= 0 => i = 0
    BY <1>0
  <2>2. 0 \in 0 .. n
    BY <1>0
  <2> QED
    BY <1>1, <2>1, <2>2
<1>3. ASSUME NEW k \in 1 .. n, k - 1 \in Good PROVE k \in Good
  <2>1. k \in 0 .. n /\ k - 1 \in 0 .. n /\ i \in 0 .. n
    BY <1>0
  <2>2. Len(Joint(s, k)) \in Nat /\ Len(Joint(s, k - 1)) \in Nat /\ Len(Joint(s, i)) \in Nat
    BY <1>1, <2>1
  <2>3. Len(Joint(s, k)) >= Len(Joint(s, k - 1)) + 1
    <3>1. PICK y \in Seq(S) : y = Joint(s, k - 1)
      BY <2>1, Pieces
    <3>2. PICK z \in Seq(S) : z = s[k] /\ z # <<>>
      BY ElementOfSeq
    <3>3. Len(z) \in Nat \ {0} /\ Len(y) \in Nat
      BY <3>2, EmptySeq, LenProperties
    <3>4. Joint(s, k) = y \o z
      BY <3>1, <3>2, Pieces
    <3>5. Len(y \o z) = Len(y) + Len(z)
      BY ConcatProperties
    <3> QED
      BY <3>1, <3>3, <3>4, <3>5
  <2>4. i <= k - 1 => Len(Joint(s, i)) + ((k - 1) - i) <= Len(Joint(s, k - 1))
    BY <1>3
  <2>5. ASSUME i <= k PROVE Len(Joint(s, i)) + (k - i) <= Len(Joint(s, k))
    <3>1. CASE i = k
      BY <2>2, <3>1
    <3>2. CASE i <= k - 1
      BY <1>0, <2>2, <2>3, <2>4, <3>2
    <3> QED
      BY <1>0, <2>5, <3>1, <3>2
  <2> QED
    BY <2>1, <2>5
<1>4. \A k \in 0 .. n : k \in Good
  <2> HIDE DEF n, Good
  <2> QED
    BY <1>0, <1>2, <1>3, LoopKeeps
<1>5. j \in 0 .. n /\ i <= j
  BY <1>0
<1> QED
  BY <1>4, <1>5

-----------------------------------------------------------------------------
(* The bytes of a word and of a sentence                                   *)

\* A word has a byte at least: the word without bytes ends the sentence.
Word == {w \in Seq(Byte) : w # <<>> /\ Len(w) < 2147483648}
Coded(s) == [i \in DOMAIN s |-> Codec!EncodeWord(s[i])]

\* Where the bytes of the words after the i-th begin.
At(s, i) == Len(Joint(Coded(s), i))

\* The bytes of a word: its length, then the word.
LEMMA WordCode ==
  ASSUME NEW w \in Word
  PROVE  LET e == Codec!EncodeWord(w)
             h == Codec!EncodeLength(Len(w))
         IN /\ e \in Seq(Byte) /\ e # <<>> /\ w \in Seq(Byte)
            /\ Len(w) \in Nat \ {0} /\ Len(h) \in 1 .. 5 /\ Len(e) = Len(h) + Len(w)
            /\ \A i \in 1 .. Len(h) : e[i] = h[i]
            /\ \A i \in 1 .. Len(w) : e[Len(h) + i] = w[i]
            /\ Codec!Following(h[1]) = Len(h) - 1
            /\ \A b : \A o \in Nat :
                 (\A i \in 1 .. Len(h) : b[o + i] = h[i]) => Codec!DecodeLength(b, o) = Len(w)
<1>1. w \in Seq(Byte) /\ w # <<>>
  BY SMT DEF Word
<1>2. Len(w) \in Nat \ {0} /\ Len(w) \in Length
  <2>1. Len(w) \in Nat \ {0}
    BY <1>1, EmptySeq
  <2> QED
    BY <2>1, SMT DEF Length, Word
<1>3. PICK h \in Seq(Byte) :
        /\ h = Codec!EncodeLength(Len(w)) /\ Len(h) \in 1 .. 5
        /\ Codec!Following(h[1]) = Len(h) - 1
        /\ \A b : \A o \in Nat :
             (\A i \in 1 .. Len(h) : b[o + i] = h[i]) => Codec!DecodeLength(b, o) = Len(w)
  BY <1>2, LengthSurvives, Zenon
<1>4. PICK e \in Seq(Byte) : e = h \o w
  BY <1>1, ConcatProperties
<1>5. Len(e) = Len(h) + Len(w) /\ \A i \in 1 .. Len(h) + Len(w) : e[i] = IF i <= Len(h) THEN h[i] ELSE w[i - Len(h)]
  BY <1>1, <1>4, ConcatProperties
<1>6. (\A i \in 1 .. Len(h) : e[i] = h[i]) /\ \A i \in 1 .. Len(w) : e[Len(h) + i] = w[i]
  <2>1. \A i \in 1 .. Len(h) : i \in 1 .. Len(h) + Len(w) /\ i <= Len(h)
    BY <1>2, <1>3
  <2>2. \A i \in 1 .. Len(w) : Len(h) + i \in 1 .. Len(h) + Len(w) /\ ~(Len(h) + i <= Len(h)) /\ (Len(h) + i) - Len(h) = i
    BY <1>2, <1>3
  <2> QED
    BY <1>5, <2>1, <2>2
<1>7. e # <<>>
  BY <1>2, <1>3, <1>5, EmptySeq
<1>8. Codec!EncodeWord(w) = e
  BY <1>3, <1>4 DEF Codec!EncodeWord
<1> QED
  BY <1>1, <1>2, <1>3, <1>5, <1>6, <1>7, <1>8, Zenon

\* A sentence is its words one after the other, and a zero byte.
LEMMA SentenceCode ==
  ASSUME NEW s \in Seq(Word)
  PROVE  LET es == Codec!EncodeSentence(s)
         IN /\ es \in Seq(Byte) /\ Len(s) \in Nat
            /\ Len(es) = At(s, Len(s)) + 1 /\ es[Len(es)] = 0
            /\ At(s, 0) = 0
            /\ \A i \in 0 .. Len(s) : At(s, i) \in Nat /\ i <= At(s, i) /\ At(s, i) < Len(es)
            /\ \A i \in 1 .. Len(s) :
                 /\ At(s, i) = At(s, i - 1) + Len(Codec!EncodeWord(s[i]))
                 /\ \A k \in 1 .. Len(Codec!EncodeWord(s[i])) :
                      es[At(s, i - 1) + k] = Codec!EncodeWord(s[i])[k]
<1> DEFINE c == Coded(s)
           n == Len(s)
           es == Codec!EncodeSentence(s)
<1>1. n \in Nat /\ DOMAIN s = 1 .. n /\ \A i \in 1 .. n : s[i] \in Word
  BY LenProperties, ElementOfSeq
<1>2. c \in Seq(Seq(Byte)) /\ Len(c) = n /\ \A i \in 1 .. n : c[i] = Codec!EncodeWord(s[i]) /\ c[i] \in Seq(Byte) /\ c[i] # <<>>
  <2>1. \A i \in 1 .. n : Codec!EncodeWord(s[i]) \in Seq(Byte) /\ Codec!EncodeWord(s[i]) # <<>>
    BY <1>1, WordCode, Zenon
  <2>2. c = [i \in 1 .. n |-> Codec!EncodeWord(s[i])]
    BY <1>1 DEF Coded
  <2> DEFINE W == Seq(Byte)
  <2>3. c \in [1 .. n -> W]
    BY <2>1, <2>2
  <2>4. c \in Seq(W) /\ Len(c) = n
    <3> HIDE DEF W, c, n
    <3> QED
      BY <1>1, <2>3, SeqOf
  <2> QED
    BY <2>1, <2>2, <2>4
<1> HIDE DEF c
<1>3. PICK all \in Seq(Byte) : all = Joint(c, n) /\ all = Codec!FlattenSeq(c)
  <2>1. n \in 0 .. Len(c)
    BY <1>1, <1>2
  <2> QED
    BY <1>2, <2>1, Pieces
<1>4. PICK zero \in Seq(Byte) : zero = <<0>> /\ Len(zero) = 1 /\ zero[1] = 0
  <2>1. 0 \in Byte
    BY DEF Byte
  <2>2. <<0>> \in Seq(Byte) /\ Len(<<0>>) = 1 /\ <<0>>[1] = 0
    BY <2>1
  <2> QED
    BY <2>2
<1>5. es = all \o zero
  BY <1>3, <1>4 DEF Codec!EncodeSentence, c, Coded
<1>6. /\ es \in Seq(Byte) /\ Len(es) = Len(all) + 1 /\ Len(all) \in Nat
      /\ \A k \in 1 .. Len(all) : es[k] = all[k]
      /\ es[Len(all) + 1] = 0
  <2>1. Len(all) \in Nat
    BY LenProperties
  <2>2. es \in Seq(Byte) /\ Len(es) = Len(all) + 1
    BY <1>4, <1>5, ConcatProperties
  <2>3. \A k \in 1 .. Len(all) + 1 : es[k] = IF k <= Len(all) THEN all[k] ELSE zero[k - Len(all)]
    BY <1>4, <1>5, ConcatProperties
  <2>4. ~(Len(all) + 1 <= Len(all)) /\ Len(all) + 1 \in 1 .. Len(all) + 1 /\ (Len(all) + 1) - Len(all) = 1
    BY <2>1
  <2>5. \A k \in 1 .. Len(all) : k \in 1 .. Len(all) + 1 /\ k <= Len(all)
    BY <2>1
  <2> QED
    BY <1>4, <2>1, <2>2, <2>3, <2>4, <2>5
<1>7. \A i \in 0 .. n : At(s, i) = Len(Joint(c, i)) /\ Joint(c, i) \in Seq(Byte)
  BY <1>2, Pieces DEF At, c
<1>8. At(s, 0) = 0 /\ At(s, n) = Len(all)
  <2>1. 0 \in 0 .. n /\ n \in 0 .. n
    BY <1>1
  <2> QED
    BY <1>2, <1>3, <1>7, <2>1, Pieces, EmptySeq
<1>9. ASSUME NEW i \in 0 .. n PROVE At(s, i) \in Nat /\ i <= At(s, i) /\ At(s, i) <= Len(all)
  <2>1. At(s, i) \in Nat
    BY <1>7, LenProperties
  <2>2. 0 \in 0 .. Len(c) /\ i \in 0 .. Len(c) /\ n \in i .. Len(c)
    BY <1>1, <1>2
  <2>3. Len(Joint(c, 0)) + (i - 0) <= Len(Joint(c, i))
    BY <1>2, <2>2, PiecesGrow
  <2>4. Begins(Joint(c, i), Joint(c, n))
    BY <1>2, <2>2, PiecesBegin
  <2>5. Len(Joint(c, 0)) = 0
    BY <1>7, <1>8, <2>2, <1>2
  <2> QED
    BY <1>3, <1>7, <2>1, <2>3, <2>4, <2>5 DEF Begins
<1>10. ASSUME NEW i \in 1 .. n
       PROVE  /\ At(s, i) = At(s, i - 1) + Len(c[i])
              /\ \A k \in 1 .. Len(c[i]) : es[At(s, i - 1) + k] = c[i][k]
  <2>1. i \in 0 .. n /\ i - 1 \in 0 .. n /\ i \in 0 .. Len(c) /\ n \in i .. Len(c) /\ i \in 1 .. Len(c)
    BY <1>1, <1>2
  <2>2. PICK x \in Seq(Byte) : x = Joint(c, i - 1)
    BY <1>7, <2>1
  <2>3. PICK y \in Seq(Byte) : y = Joint(c, i)
    BY <1>7, <2>1
  <2>4. PICK z \in Seq(Byte) : z = c[i]
    BY <1>2
  <2>5. y = x \o z
    BY <1>2, <2>1, <2>2, <2>3, <2>4, Pieces
  <2>6. Len(x) \in Nat /\ Len(z) \in Nat /\ Len(y) = Len(x) + Len(z)
    BY <2>5, ConcatProperties, LenProperties
  <2>7. ASSUME NEW k \in 1 .. Len(z) PROVE es[Len(x) + k] = z[k]
    <3>1. Len(x) + k \in 1 .. Len(x) + Len(z) /\ ~(Len(x) + k <= Len(x)) /\ (Len(x) + k) - Len(x) = k
      BY <2>6
    <3>2. y[Len(x) + k] = z[k]
      BY <2>5, <3>1, ConcatProperties
    <3>3. Begins(y, all)
      BY <1>2, <1>3, <2>1, <2>3, PiecesBegin
    <3>4. all[Len(x) + k] = y[Len(x) + k] /\ Len(x) + k \in 1 .. Len(all)
      BY <1>6, <2>6, <3>1, <3>3 DEF Begins
    <3> QED
      BY <1>6, <3>2, <3>4
  <2> QED
    BY <1>7, <2>1, <2>2, <2>3, <2>4, <2>6, <2>7
<1>11. /\ \A i \in 0 .. n : At(s, i) \in Nat /\ i <= At(s, i) /\ At(s, i) < Len(es)
       /\ Len(es) = At(s, n) + 1 /\ es[Len(es)] = 0
  BY <1>6, <1>8, <1>9
<1>12. \A i \in 1 .. n :
         /\ At(s, i) = At(s, i - 1) + Len(Codec!EncodeWord(s[i]))
         /\ \A k \in 1 .. Len(Codec!EncodeWord(s[i])) :
              es[At(s, i - 1) + k] = Codec!EncodeWord(s[i])[k]
  <2> HIDE DEF es, n
  <2> QED
    BY <1>2, <1>10
<1> HIDE DEF es, n
<1>13. es \in Seq(Byte) /\ n \in Nat /\ At(s, 0) = 0
  BY <1>1, <1>6, <1>8
<1> QED
  BY <1>11, <1>12, <1>13, Zenon DEF es, n

-----------------------------------------------------------------------------
(* tryReadSentence() reads the sentence there is                           *)

\* b has the bytes of the sentence s, as far as both go.
Carries(b, s) ==
  \A k \in 1 .. Len(b) : k <= Len(Codec!EncodeSentence(s)) => b[k] = Codec!EncodeSentence(s)[k]

Midway(a, words) == [at |-> a, words |-> words, stop |-> "no"]

\* One turn of its loop, after the first i words: the next word if it has arrived,
\* the end of the sentence if there is no other, and null if bytes miss.
LEMMA TurnReads ==
  ASSUME NEW b \in Seq(Byte), NEW s \in Seq(Word), Carries(b, s),
         NEW i \in 0 .. Len(s), At(s, i) <= Len(b)
  PROVE  LET st == Codec!NextWord(b, Midway(At(s, i), SubSeq(s, 1, i)))
         IN \/ /\ i < Len(s) /\ At(s, i + 1) <= Len(b)
               /\ st = Midway(At(s, i + 1), SubSeq(s, 1, i + 1))
            \/ st.stop = "null" /\ Len(b) < Len(Codec!EncodeSentence(s))
            \/ /\ st = [at |-> Len(Codec!EncodeSentence(s)), words |-> s, stop |-> "sentence"]
               /\ Len(Codec!EncodeSentence(s)) <= Len(b)
<1> DEFINE es == Codec!EncodeSentence(s)
           n == Len(s)
           a == At(s, i)
           was == Midway(a, SubSeq(s, 1, i))
           st == Codec!NextWord(b, was)
<1>0. was.at = a /\ was.words = SubSeq(s, 1, i) /\ was.stop = "no"
      /\ was = [at |-> a, words |-> SubSeq(s, 1, i), stop |-> "no"]
  BY DEF Midway
<1>1. /\ n \in Nat /\ Len(es) \in Nat /\ Len(es) = At(s, n) + 1 /\ es[Len(es)] = 0
      /\ a \in Nat /\ a < Len(es) /\ Len(b) \in Nat /\ i \in Nat
  BY SentenceCode, LenProperties
<1>2. \A k \in 1 .. Len(b) : k <= Len(es) => b[k] = es[k]
  BY DEF Carries
<1>3. CASE a = Len(b)
  <2>1. ~Codec!Complete(b, a)
    BY <1>1, <1>3 DEF Codec!Complete
  <2>2. st = [was EXCEPT !.stop = "null"]
    BY <1>0, <2>1 DEF Codec!NextWord
  <2>3. st.stop = "null"
    BY <1>0, <2>2
  <2> QED
    BY <1>1, <1>3, <2>3
<1>4. CASE a # Len(b) /\ i = n
  <2>1. a + 1 = Len(es) /\ a + 1 \in 1 .. Len(b) /\ a < Len(b)
    BY <1>1, <1>4
  <2>2. b[a + 1] = 0
    BY <1>1, <1>2, <2>1
  <2>3. Codec!Following(0) = 0
    BY FirstTells DEF Byte
  <2>4. Codec!Complete(b, a) /\ Codec!DecodeLength(b, a) = 0
    BY <1>1, <2>1, <2>2, <2>3 DEF Codec!Complete, Codec!DecodeLength
  <2>5. st = [was EXCEPT !.at = a + 1 + 0, !.stop = "sentence"]
    BY <1>0, <2>2, <2>3, <2>4 DEF Codec!NextWord
  <2>6. SubSeq(s, 1, i) = s
    BY <1>4, SubSeqFull
  <2>7. st = [at |-> Len(es), words |-> s, stop |-> "sentence"]
    <3>1. a + 1 + 0 = Len(es)
      BY <1>1, <2>1
    <3>2. was = [at |-> a, words |-> s, stop |-> "no"]
      BY <1>0, <2>6
    <3>3. st = [was EXCEPT !.at = Len(es), !.stop = "sentence"]
      BY <2>5, <3>1
    <3> HIDE DEF st, was, a, es
    <3> QED
      BY <3>2, <3>3
  <2> QED
    BY <1>1, <2>1, <2>7
<1>5. CASE a # Len(b) /\ i # n
  <2> DEFINE w == s[i + 1]
             e == Codec!EncodeWord(w)
             h == Codec!EncodeLength(Len(w))
             c == At(s, i + 1)
  <2>1. i + 1 \in 1 .. n /\ i + 1 \in 0 .. n /\ (i + 1) - 1 = i /\ i < n
    BY <1>1, <1>5
  <2>2. w \in Word
    BY <2>1, ElementOfSeq
  <2>3. /\ w \in Seq(Byte) /\ Len(w) \in Nat \ {0} /\ Len(h) \in 1 .. 5 /\ Len(e) = Len(h) + Len(w)
        /\ \A k \in 1 .. Len(h) : e[k] = h[k]
        /\ \A k \in 1 .. Len(w) : e[Len(h) + k] = w[k]
        /\ Codec!Following(h[1]) = Len(h) - 1
    BY <2>2, WordCode, Zenon
  <2>4. c = a + Len(e) /\ c \in Nat /\ c < Len(es) /\ \A k \in 1 .. Len(e) : es[a + k] = e[k]
    BY <2>1, SentenceCode
  <2> HIDE DEF w, e, h, c, es, n, a
  <2>5. ASSUME NEW k \in 1 .. Len(e), a + k <= Len(b) PROVE b[a + k] = e[k]
    <3>1. a + k \in 1 .. Len(b) /\ a + k <= Len(es)
      BY <1>1, <2>3, <2>4, <2>5
    <3> QED
      BY <1>2, <2>4, <3>1
  <2>6. b[a + 1] = h[1] /\ a < Len(b)
    <3>1. a < Len(b) /\ a + 1 <= Len(b) /\ 1 \in 1 .. Len(e) /\ 1 \in 1 .. Len(h)
      BY <1>1, <1>5, <2>3 DEF a
    <3> QED
      BY <2>3, <2>5, <3>1
  <2>7. Codec!Following(b[a + 1]) = Len(h) - 1
    BY <2>3, <2>6
  <2>8. Codec!Complete(b, a) <=> a + Len(h) <= Len(b)
    BY <1>1, <2>3, <2>6, <2>7 DEF Codec!Complete
  <2>9. CASE ~(a + Len(h) <= Len(b))
    <3>1. st = [was EXCEPT !.stop = "null"]
      BY <1>0, <2>8, <2>9 DEF Codec!NextWord, a
    <3>2. st.stop = "null"
      BY <1>0, <3>1
    <3>3. Len(b) < Len(es)
      BY <1>1, <2>3, <2>4, <2>9
    <3> QED
      BY <3>2, <3>3 DEF es, a
  <2>10. CASE a + Len(h) <= Len(b)
    <3>1. \A k \in 1 .. Len(h) : b[a + k] = h[k]
      <4>1. ASSUME NEW k \in 1 .. Len(h) PROVE k \in 1 .. Len(e) /\ a + k <= Len(b)
        BY <1>1, <2>3, <2>10
      <4> QED
        BY <2>3, <2>5, <4>1
    <3>2. Codec!DecodeLength(b, a) = Len(w)
      <4>1. \A bb : \A o \in Nat :
              (\A k \in 1 .. Len(h) : bb[o + k] = h[k]) => Codec!DecodeLength(bb, o) = Len(w)
        BY <2>2, WordCode, Zenon DEF h
      <4> QED
        BY <1>1, <3>1, <4>1
    <3>3. a + 1 + Codec!Following(b[a + 1]) = a + Len(h)
      BY <1>1, <2>3, <2>7
    <3>4. Codec!Complete(b, a) /\ Len(w) # 0
      BY <2>3, <2>8, <2>10
    <3>5. CASE Len(b) < c
      <4>1. Len(b) < (a + Len(h)) + Len(w)
        BY <1>1, <2>3, <2>4, <3>5
      <4>2. st = [was EXCEPT !.stop = "null"]
        BY <1>0, <3>2, <3>3, <3>4, <4>1 DEF Codec!NextWord, a
      <4>3. st.stop = "null"
        BY <1>0, <4>2
      <4>4. Len(b) < Len(es)
        BY <1>1, <2>4, <3>5
      <4> QED
        BY <4>3, <4>4 DEF es, a
    <3>6. CASE ~(Len(b) < c)
      <4>1. ~(Len(b) < (a + Len(h)) + Len(w)) /\ (a + Len(h)) + Len(w) = c /\ c <= Len(b)
        BY <1>1, <2>3, <2>4, <3>6
      <4>2. SubSeq(b, (a + Len(h)) + 1, (a + Len(h)) + Len(w)) = w
        <5> DEFINE lo == (a + Len(h)) + 1
                   hi == (a + Len(h)) + Len(w)
        <5>1. lo \in Int /\ hi \in Int /\ lo <= hi /\ (hi - lo) + 1 = Len(w) /\ lo >= 1 /\ hi <= Len(b)
          BY <1>1, <2>3, <4>1
        <5>2. \A k \in lo .. hi : b[k] \in Byte
          <6>1. \A k \in lo .. hi : k \in 1 .. Len(b)
            BY <1>1, <5>1
          <6> QED
            BY <6>1, ElementOfSeq
        <5> HIDE DEF lo, hi
        <5>3. PICK x \in Seq(Byte) : x = SubSeq(b, lo, hi)
          BY <5>1, <5>2, SubSeqProperties
        <5>4. Len(x) = Len(w) /\ \A k \in 1 .. Len(w) : x[k] = b[(lo + k) - 1]
          BY <5>1, <5>2, <5>3, SubSeqProperties
        <5>5. ASSUME NEW k \in 1 .. Len(w) PROVE x[k] = w[k]
          <6>1. (lo + k) - 1 = a + (Len(h) + k) /\ Len(h) + k \in 1 .. Len(e) /\ a + (Len(h) + k) <= Len(b)
            BY <1>1, <2>3, <4>1 DEF lo
          <6>2. b[a + (Len(h) + k)] = e[Len(h) + k]
            BY <2>5, <6>1
          <6> QED
            BY <2>3, <5>4, <6>1, <6>2
        <5>6. x = w
          BY <2>3, <5>4, <5>5, SeqEqual
        <5> QED
          BY <5>3, <5>6 DEF lo, hi
      <4>3. Append(SubSeq(s, 1, i), w) = SubSeq(s, 1, i + 1)
        <5>1. SubSeq(s, 1, i + 1) = SubSeq(s, 1, (i + 1) - 1) \o <<s[i + 1]>>
          <6>1. 1 \in 1 .. Len(s) /\ i + 1 \in 1 .. Len(s)
            BY <1>1, <2>1 DEF n
          <6> QED
            BY <6>1, SubSeqRecursiveSecond
        <5>2. SubSeq(s, 1, i) \in Seq(Word)
          <6>1. \A k \in 1 .. i : s[k] \in Word
            <7>1. \A k \in 1 .. i : k \in 1 .. Len(s)
              BY <1>1, <2>1 DEF n
            <7> QED
              BY <7>1, ElementOfSeq
          <6> QED
            BY <1>1, <6>1, SubSeqProperties
        <5>3. Append(SubSeq(s, 1, i), w) = SubSeq(s, 1, i) \o <<w>>
          BY <2>2, <5>2, AppendIsConcat
        <5> QED
          BY <2>1, <5>1, <5>3 DEF w
      <4>4. st = [was EXCEPT !.at = c, !.words = Append(SubSeq(s, 1, i), w)]
        BY <1>0, <3>2, <3>3, <3>4, <4>1, <4>2 DEF Codec!NextWord, a
      <4>5. st = Midway(c, SubSeq(s, 1, i + 1))
        BY <1>0, <4>3, <4>4 DEF Midway
      <4> QED
        BY <2>1, <4>1, <4>5 DEF c, n, a
    <3> QED
      BY <3>5, <3>6
  <2> QED
    BY <2>9, <2>10
<1> QED
  BY <1>1, <1>3, <1>4, <1>5

\* The loop has a run: Walk's function is one.
LEMMA WalkRuns ==
  ASSUME NEW b \in Seq(Byte)
  PROVE  \E f, m : /\ f[0] = Midway(0, <<>>)
                   /\ \A i \in 1 .. Len(b) : f[i] = Codec!NextWord(b, f[i - 1])
                   /\ m \in 0 .. Len(b) /\ (f[m].stop # "no" \/ m = Len(b))
                   /\ Codec!Walk(b) = f[m]
<1> DEFINE n == Len(b)
           Walks(g, k) == g = [i \in 0 .. k |-> IF i = 0 THEN [at |-> 0, words |-> <<>>, stop |-> "no"]
                                                ELSE Codec!NextWord(b, g[i - 1])]
           F == CHOOSE g : Walks(g, n)
           S == {k \in Nat : \E g : Walks(g, k)}
           m == CHOOSE i \in 0 .. n : F[i].stop # "no" \/ i = n
<1>0. n \in Nat
  BY LenProperties
<1>1. 0 \in S
  <2>1. Walks([i \in 0 .. 0 |-> [at |-> 0, words |-> <<>>, stop |-> "no"]], 0)
    OBVIOUS
  <2> HIDE DEF Walks
  <2> QED
    BY <2>1
<1>2. ASSUME NEW k \in Nat, k \in S PROVE k + 1 \in S
  <2>1. PICK g : Walks(g, k)
    BY <1>2
  <2> DEFINE r == Codec!NextWord(b, g[k])
             h == [i \in 0 .. k + 1 |-> IF i = k + 1 THEN r ELSE g[i]]
             same(i) == IF i = 0 THEN [at |-> 0, words |-> <<>>, stop |-> "no"]
                        ELSE Codec!NextWord(b, h[i - 1])
  <2>2. ASSUME NEW i \in 0 .. k + 1 PROVE h[i] = same(i)
    <3>1. CASE i = k + 1
      <4>1. i # 0 /\ i - 1 = k /\ k \in 0 .. k + 1 /\ k # k + 1
        BY <3>1
      <4>2. h[i - 1] = g[k] /\ h[i] = r
        BY <3>1, <4>1
      <4> HIDE DEF h
      <4> QED
        BY <4>1, <4>2
    <3>2. CASE i # k + 1
      <4>1. i \in 0 .. k /\ h[i] = g[i]
        BY <3>2
      <4>2. CASE i = 0
        <5> HIDE DEF h
        <5> QED
          BY <2>1, <4>1, <4>2
      <4>3. CASE i # 0
        <5>1. i - 1 \in 0 .. k + 1 /\ i - 1 # k + 1
          BY <4>1, <4>3
        <5>2. h[i - 1] = g[i - 1]
          BY <5>1
        <5>3. g[i] = Codec!NextWord(b, g[i - 1])
          <6> HIDE DEF h
          <6> QED
            BY <2>1, <4>1, <4>3
        <5> HIDE DEF h
        <5> QED
          BY <4>1, <4>3, <5>2, <5>3
      <4> QED
        BY <4>2, <4>3
    <3> QED
      BY <3>1, <3>2
  <2>3. h = [i \in 0 .. k + 1 |-> h[i]]
    OBVIOUS
  <2>4. Walks(h, k + 1)
    <3> HIDE DEF h
    <3> QED
      BY <2>2, <2>3
  <2> HIDE DEF Walks, h
  <2> QED
    BY <2>4
<1>3. n \in S
  <2> HIDE DEF S
  <2>1. Nat \subseteq S
    BY <1>1, <1>2, Inductive
  <2> QED
    BY <1>0, <2>1
<1>4. Walks(F, n)
  <2>1. \E g : Walks(g, n)
    BY <1>3
  <2> HIDE DEF Walks
  <2> QED
    BY <2>1
<1>5. Codec!Walk(b) = F[m]
  BY DEF Codec!Walk
<1>6. F[0] = Midway(0, <<>>)
  <2>1. 0 \in 0 .. n
    BY <1>0
  <2> HIDE DEF F
  <2> QED
    BY <1>4, <2>1 DEF Midway
<1>7. ASSUME NEW i \in 1 .. n PROVE F[i] = Codec!NextWord(b, F[i - 1])
  <2>1. i \in 0 .. n /\ i # 0
    BY <1>0
  <2> HIDE DEF F
  <2> QED
    BY <1>4, <2>1
<1>8. m \in 0 .. n /\ (F[m].stop # "no" \/ m = n)
  <2>1. n \in 0 .. n
    BY <1>0
  <2> HIDE DEF F, n
  <2>2. \E i \in 0 .. n : F[i].stop # "no" \/ i = n
    BY <2>1
  <2> QED
    BY <2>2
<1> HIDE DEF F, m, Walks
<1> QED
  BY <1>5, <1>6, <1>7, <1>8

\* A whole sentence is read, and of a sentence that misses a byte nothing is.
LEMMA WalkReads ==
  ASSUME NEW b \in Seq(Byte), NEW s \in Seq(Word), Carries(b, s)
  PROVE  LET long == Len(Codec!EncodeSentence(s))
         IN /\ long <= Len(b) => Codec!Walk(b) = [at |-> long, words |-> s, stop |-> "sentence"]
            /\ Len(b) < long => Codec!Walk(b).stop # "sentence"
<1> DEFINE long == Len(Codec!EncodeSentence(s))
           n == Len(b)
           end == [at |-> long, words |-> s, stop |-> "sentence"]
<1>0. n \in Nat /\ long \in Nat /\ Len(s) \in Nat /\ At(s, 0) = 0
  BY SentenceCode, LenProperties
<1>1. PICK f, m : /\ f[0] = Midway(0, <<>>)
                  /\ \A i \in 1 .. n : f[i] = Codec!NextWord(b, f[i - 1])
                  /\ m \in 0 .. n /\ (f[m].stop # "no" \/ m = n)
                  /\ Codec!Walk(b) = f[m]
  BY WalkRuns, Zenon
<1> DEFINE Going(i) == i <= Len(s) /\ At(s, i) <= n /\ f[i] = Midway(At(s, i), SubSeq(s, 1, i))
           Vain(i) == f[i].stop = "null" /\ n < long
           Read(i) == f[i] = end /\ long <= n
           Good == {i \in 0 .. n : Going(i) \/ Vain(i) \/ Read(i)}
<1>2. 0 \in Good
  <2>1. SubSeq(s, 1, 0) = <<>>
    BY SubSeqEmpty
  <2>2. f[0] = Midway(At(s, 0), SubSeq(s, 1, 0))
    BY <1>0, <1>1, <2>1
  <2>3. 0 <= Len(s) /\ At(s, 0) <= n /\ 0 \in 0 .. n
    <3> HIDE DEF n
    <3> QED
      BY <1>0
  <2> QED
    BY <2>2, <2>3
<1>3. ASSUME NEW i \in 1 .. n, i - 1 \in Good PROVE i \in Good
  <2>1. f[i] = Codec!NextWord(b, f[i - 1]) /\ i \in 0 .. n /\ i - 1 \in Nat /\ (i - 1) + 1 = i
    BY <1>1
  <2>2. Going(i - 1) \/ Vain(i - 1) \/ Read(i - 1)
    BY <1>3
  <2>3. CASE Going(i - 1)
    <3> DEFINE j == i - 1
    <3>1. j \in 0 .. Len(s) /\ j + 1 = i /\ At(s, j) <= Len(b)
      BY <1>0, <2>1, <2>3
    <3>2. f[i] = Codec!NextWord(b, Midway(At(s, j), SubSeq(s, 1, j)))
      BY <2>1, <2>3
    <3> HIDE DEF j
    <3>3. \/ j < Len(s) /\ At(s, j + 1) <= Len(b) /\ f[i] = Midway(At(s, j + 1), SubSeq(s, 1, j + 1))
          \/ f[i].stop = "null" /\ Len(b) < Len(Codec!EncodeSentence(s))
          \/ /\ f[i] = [at |-> Len(Codec!EncodeSentence(s)), words |-> s, stop |-> "sentence"]
             /\ Len(Codec!EncodeSentence(s)) <= Len(b)
      BY <3>1, <3>2, TurnReads, Zenon
    <3>4. Going(i) \/ Vain(i) \/ Read(i)
      BY <1>0, <3>1, <3>3
    <3> QED
      BY <2>1, <3>4
  <2>4. CASE Vain(i - 1)
    <3>1. f[i] = f[i - 1]
      BY <2>1, <2>4 DEF Codec!NextWord
    <3> QED
      BY <2>1, <2>4, <3>1
  <2>5. CASE Read(i - 1)
    <3>1. f[i] = f[i - 1]
      BY <2>1, <2>5 DEF Codec!NextWord
    <3> QED
      BY <2>1, <2>5, <3>1
  <2> QED
    BY <2>2, <2>3, <2>4, <2>5
<1>4. m \in Good
  <2> HIDE DEF Good, n
  <2>1. \A i \in 0 .. n : i \in Good
    BY <1>0, <1>2, <1>3, LoopKeeps
  <2> QED
    BY <1>1, <2>1
<1>5. Going(m) => n < long /\ f[m].stop = "no"
  <2>1. SUFFICES ASSUME Going(m) PROVE n < long /\ f[m].stop = "no"
    OBVIOUS
  <2>2. f[m].stop = "no"
    BY <2>1 DEF Midway
  <2>3. m = n /\ m \in 0 .. Len(s)
    BY <1>0, <1>1, <2>1, <2>2
  <2>4. m <= At(s, m) /\ At(s, m) < long /\ At(s, m) \in Nat
    BY <2>3, SentenceCode
  <2> QED
    BY <1>0, <2>1, <2>2, <2>3, <2>4
<1>6. Going(m) \/ Vain(m) \/ Read(m)
  BY <1>4
<1>7. long <= n => Codec!Walk(b) = end
  BY <1>0, <1>1, <1>5, <1>6
<1>8. n < long => Codec!Walk(b).stop # "sentence"
  BY <1>0, <1>1, <1>5, <1>6
<1> QED
  BY <1>7, <1>8

\* Without a byte there is no sentence.
LEMMA WalkEmpty == Codec!Walk(<<>>).stop # "sentence"
<1>1. <<>> \in Seq(Byte) /\ Len(<<>>) = 0
  BY EmptySeq
<1>2. PICK f, m : f[0] = Midway(0, <<>>) /\ m \in 0 .. Len(<<>>) /\ Codec!Walk(<<>>) = f[m]
  BY <1>1, WalkRuns
<1>3. m = 0
  BY <1>1, <1>2
<1> QED
  BY <1>2, <1>3 DEF Midway

-----------------------------------------------------------------------------
(* What the buffer holds                                                   *)

\* What is left of b after its first o bytes.
Rest(b, o) == SubSeq(b, o + 1, Len(b))

\* What is left is a sequence, which begins o elements later.
LEMMA RestTyped ==
  ASSUME NEW S, NEW b \in Seq(S), NEW o \in 0 .. Len(b)
  PROVE  /\ Rest(b, o) \in Seq(S) /\ Len(Rest(b, o)) = Len(b) - o
         /\ \A k \in 1 .. Len(b) - o : Rest(b, o)[k] = b[o + k]
<1>1. Len(b) \in Nat /\ o \in Nat /\ o <= Len(b)
  BY LenProperties
<1>2. \A k \in o + 1 .. Len(b) : b[k] \in S
  <2>1. \A k \in o + 1 .. Len(b) : k \in 1 .. Len(b)
    BY <1>1
  <2> QED
    BY <2>1, ElementOfSeq
<1>3. /\ Rest(b, o) \in Seq(S)
      /\ Len(Rest(b, o)) = IF o + 1 <= Len(b) THEN Len(b) - (o + 1) + 1 ELSE 0
      /\ \A k \in 1 .. Len(b) - (o + 1) + 1 : Rest(b, o)[k] = b[(o + 1) + k - 1]
  BY <1>1, <1>2, SubSeqProperties DEF Rest
<1>4. Len(b) - (o + 1) + 1 = Len(b) - o /\ (~(o + 1 <= Len(b)) => Len(b) - o = 0)
  BY <1>1
<1>5. \A k \in 1 .. Len(b) - o : (o + 1) + k - 1 = o + k
  BY <1>1
<1> QED
  BY <1>3, <1>4, <1>5

\* After o bytes and n more, and when x is added.
LEMMA RestMore ==
  ASSUME NEW S, NEW b \in Seq(S), NEW o \in 0 .. Len(b), NEW n \in 0 .. Len(b) - o
  PROVE  Rest(b, o + n) = Rest(Rest(b, o), n)
<1>1. Len(b) \in Nat /\ o \in Nat /\ o <= Len(b) /\ n \in Nat /\ o + n \in 0 .. Len(b)
  BY LenProperties
<1>2. PICK x \in Seq(S) : x = Rest(b, o) /\ Len(x) = Len(b) - o /\ \A k \in 1 .. Len(b) - o : x[k] = b[o + k]
  BY RestTyped
<1>3. n \in 0 .. Len(x)
  BY <1>2
<1>4. PICK y \in Seq(S) : y = Rest(x, n) /\ Len(y) = Len(x) - n /\ \A k \in 1 .. Len(x) - n : y[k] = x[n + k]
  BY <1>3, RestTyped
<1>5. PICK z \in Seq(S) : /\ z = Rest(b, o + n) /\ Len(z) = Len(b) - (o + n)
                          /\ \A k \in 1 .. Len(b) - (o + n) : z[k] = b[(o + n) + k]
  BY <1>1, RestTyped
<1>6. Len(y) = Len(z)
  <2>1. Len(y) = (Len(b) - o) - n
    BY <1>2, <1>4
  <2>2. (Len(b) - o) - n = Len(b) - (o + n)
    BY <1>1
  <2> QED
    BY <1>5, <2>1, <2>2
<1>7. ASSUME NEW k \in 1 .. Len(y) PROVE y[k] = z[k]
  <2>1. k \in 1 .. Len(x) - n /\ n + k \in 1 .. Len(b) - o /\ k \in 1 .. Len(b) - (o + n) /\ o + (n + k) = (o + n) + k
    BY <1>1, <1>2, <1>4
  <2> QED
    BY <1>2, <1>4, <1>5, <2>1
<1>8. y = z
  BY <1>6, <1>7, SeqEqual
<1> QED
  BY <1>2, <1>4, <1>5, <1>8

\* What is left of b when x is added to it.
LEMMA RestJoined ==
  ASSUME NEW S, NEW b \in Seq(S), NEW o \in 0 .. Len(b), NEW x \in Seq(S)
  PROVE  Rest(b \o x, o) = Rest(b, o) \o x
<1>1. Len(b) \in Nat /\ o \in Nat /\ o <= Len(b) /\ Len(x) \in Nat
  BY LenProperties
<1>2. PICK y \in Seq(S) : y = b \o x /\ Len(y) = Len(b) + Len(x)
  BY ConcatProperties
<1>3. \A k \in 1 .. Len(b) + Len(x) : y[k] = IF k <= Len(b) THEN b[k] ELSE x[k - Len(b)]
  BY <1>2, ConcatProperties
<1>4. PICK r \in Seq(S) : r = Rest(b, o) /\ Len(r) = Len(b) - o /\ \A k \in 1 .. Len(b) - o : r[k] = b[o + k]
  BY RestTyped
<1>5. PICK z \in Seq(S) : z = r \o x /\ Len(z) = Len(r) + Len(x)
  BY ConcatProperties
<1>6. \A k \in 1 .. Len(r) + Len(x) : z[k] = IF k <= Len(r) THEN r[k] ELSE x[k - Len(r)]
  BY <1>5, ConcatProperties
<1>7. PICK w \in Seq(S) : w = Rest(y, o) /\ Len(w) = Len(y) - o /\ \A k \in 1 .. Len(y) - o : w[k] = y[o + k]
  <2>1. o \in 0 .. Len(y)
    BY <1>1, <1>2
  <2> QED
    BY <2>1, RestTyped
<1>8. Len(w) = Len(z)
  BY <1>1, <1>2, <1>4, <1>5, <1>7
<1>9. ASSUME NEW k \in 1 .. Len(w) PROVE w[k] = z[k]
  <2>1. k \in 1 .. Len(y) - o /\ o + k \in 1 .. Len(b) + Len(x) /\ k \in 1 .. Len(r) + Len(x)
    BY <1>1, <1>2, <1>4, <1>5, <1>7
  <2>2. w[k] = y[o + k]
    BY <1>7, <2>1
  <2>3. CASE k <= Len(r)
    <3>1. o + k <= Len(b) /\ k \in 1 .. Len(b) - o
      BY <1>1, <1>4, <2>1, <2>3
    <3> QED
      BY <1>3, <1>4, <1>6, <2>1, <2>2, <2>3, <3>1
  <2>4. CASE ~(k <= Len(r))
    <3>1. ~(o + k <= Len(b)) /\ (o + k) - Len(b) = k - Len(r)
      BY <1>1, <1>4, <2>1, <2>4
    <3> QED
      BY <1>3, <1>6, <2>1, <2>2, <2>4, <3>1
  <2> QED
    BY <2>3, <2>4
<1>10. w = z
  BY <1>8, <1>9, SeqEqual
<1> QED
  BY <1>2, <1>4, <1>5, <1>7, <1>10

\* A buffer is made of chunks, of which readOffset bytes are read.
Holds(c, o) == c \in Seq(Seq(Byte)) /\ o \in 0 .. Len(Codec!Bytes(c))

\* The bytes of the buffer that are not read are what is left of its chunks.
LEMMA BufferTyped ==
  ASSUME NEW c, NEW o, Holds(c, o)
  PROVE  /\ Codec!Bytes(c) \in Seq(Byte) /\ Codec!ToBuffer(c, o) = Rest(Codec!Bytes(c), o)
         /\ Codec!ToBuffer(c, o) \in Seq(Byte)
         /\ Len(Codec!ToBuffer(c, o)) = Len(Codec!Bytes(c)) - o
<1>1. Codec!Bytes(c) \in Seq(Byte)
  BY FlattenTyped DEF Codec!Bytes, Holds
<1>2. Codec!ToBuffer(c, o) = Rest(Codec!Bytes(c), o)
  BY DEF Codec!ToBuffer, Rest
<1>3. o \in 0 .. Len(Codec!Bytes(c))
  BY DEF Holds
<1> QED
  BY <1>1, <1>2, <1>3, RestTyped

\* compactIfNeeded() loses no byte that is not read.
LEMMA CompactKeeps ==
  ASSUME NEW c, NEW o, Holds(c, o)
  PROVE  LET k == Codec!Compact(c, o)
         IN /\ Holds(k.chunks, k.offset)
            /\ Codec!ToBuffer(k.chunks, k.offset) = Codec!ToBuffer(c, o)
<1> DEFINE total == Len(Codec!Bytes(c))
           left == Codec!ToBuffer(c, o)
           k == Codec!Compact(c, o)
<1>1. /\ Codec!Bytes(c) \in Seq(Byte) /\ left \in Seq(Byte) /\ left = Rest(Codec!Bytes(c), o)
      /\ Len(left) = total - o /\ total \in Nat /\ o \in 0 .. total
  BY BufferTyped, LenProperties DEF Holds
<1>2. CASE o >= total
  <2>1. k = [chunks |-> <<>>, offset |-> 0]
    BY <1>2 DEF Codec!Compact
  <2>2. <<>> \in Seq(Seq(Byte)) /\ Codec!Bytes(<<>>) = <<>> /\ Len(<<>>) = 0
    BY FlattenEmpty, EmptySeq DEF Codec!Bytes
  <2>3. Codec!ToBuffer(<<>>, 0) = <<>>
    BY <2>2, SubSeqEmpty DEF Codec!ToBuffer
  <2>4. Len(left) = 0 /\ left = <<>>
    BY <1>1, <1>2, EmptySeq
  <2>5. Holds(<<>>, 0)
    BY <2>2 DEF Holds
  <2> QED
    BY <2>1, <2>3, <2>4, <2>5
<1>3. CASE ~(o >= total) /\ (o > CompactAt \/ 2 * o > total)
  <2>1. k = [chunks |-> <<left>>, offset |-> 0]
    BY <1>3 DEF Codec!Compact
  <2> HIDE DEF left
  <2>2. <<left>> \in Seq(Seq(Byte)) /\ Codec!Bytes(<<left>>) = left
    BY <1>1, FlattenOne DEF Codec!Bytes
  <2>3. Len(left) \in Nat /\ SubSeq(left, 1, Len(left)) = left
    BY <1>1, LenProperties, SubSeqFull
  <2>4. Codec!ToBuffer(<<left>>, 0) = left
    BY <2>2, <2>3 DEF Codec!ToBuffer
  <2>5. Holds(<<left>>, 0)
    BY <2>2, <2>3 DEF Holds
  <2> QED
    BY <2>1, <2>4, <2>5 DEF left
<1>4. CASE ~(o >= total) /\ ~(o > CompactAt \/ 2 * o > total)
  <2>1. k = [chunks |-> c, offset |-> o]
    BY <1>4 DEF Codec!Compact
  <2> QED
    BY <2>1
<1> QED
  BY <1>2, <1>3, <1>4

-----------------------------------------------------------------------------
(* What the other side says, and push()                                    *)

\* The bytes of its first i sentences, and the first t bytes.
Spoken == [i \in DOMAIN Said |-> Codec!EncodeSentence(Said[i])]
E(i) == Len(Codec!Prefix(i))
Arrived(t) == SubSeq(Codec!Stream, 1, t)

\* What is said are sentences of words that encodeLength() can give a length.
LEMMA SaidTyped ==
  Len(Said) \in Nat /\ DOMAIN Said = 1 .. Len(Said) /\ \A i \in 1 .. Len(Said) : Said[i] \in Seq(Word)
<1> DEFINE Plain == Seq(0 .. 255) \ {<<>>}
           Sentence == Seq(Plain)
<1>1. Said \in Seq(Sentence)
  BY CodecAssumption, Zenon
<1> HIDE DEF Sentence
<1>2. Len(Said) \in Nat /\ DOMAIN Said = 1 .. Len(Said)
  BY <1>1, LenProperties
<1>3. ASSUME NEW i \in 1 .. Len(Said) PROVE Said[i] \in Seq(Word)
  <2> DEFINE s == Said[i]
             n == Len(s)
  <2>1. s \in Sentence
    BY <1>1, ElementOfSeq
  <2> HIDE DEF Plain
  <2>2. n \in Nat /\ DOMAIN s = 1 .. n /\ s \in [1 .. n -> Plain]
    BY <2>1, LenProperties DEF Sentence
  <2>3. ASSUME NEW j \in 1 .. n PROVE s[j] \in Word
    <3>1. s[j] \in Plain
      BY <2>2
    <3>2. s[j] \in Seq(Byte) /\ s[j] # <<>>
      BY <3>1 DEF Plain, Byte
    <3>3. Len(s[j]) <= 2147483647
      BY <1>2, <2>2, LengthAssumption, SMT
    <3>4. Len(s[j]) \in Nat
      BY <3>2, LenProperties
    <3> QED
      BY <3>2, <3>3, <3>4, SMT DEF Word
  <2>4. s \in [1 .. n -> Word]
    BY <2>2, <2>3
  <2> HIDE DEF n, s
  <2>5. s \in Seq(Word)
    BY <2>2, <2>4, SeqOf
  <2> QED
    BY <2>5 DEF s
<1> QED
  BY <1>2, <1>3

\* The stream is the sentences one after the other, each with a byte at least: the
\* bytes of the i-th begin after those of the sentences before it.
LEMMA StreamCode ==
  /\ Codec!Stream \in Seq(Byte) /\ E(0) = 0 /\ E(Len(Said)) = Len(Codec!Stream)
  /\ \A i \in 0 .. Len(Said) : E(i) \in 0 .. Len(Codec!Stream)
  /\ \A i \in 0 .. Len(Said) : \A j \in i .. Len(Said) : E(i) + (j - i) <= E(j)
  /\ \A i \in 1 .. Len(Said) :
       /\ E(i) = E(i - 1) + Len(Codec!EncodeSentence(Said[i]))
       /\ \A k \in 1 .. Len(Codec!EncodeSentence(Said[i])) :
            Codec!Stream[E(i - 1) + k] = Codec!EncodeSentence(Said[i])[k]
<1> DEFINE n == Len(Said)
           c == Spoken
           es(i) == Codec!EncodeSentence(Said[i])
<1>1. n \in Nat /\ DOMAIN Said = 1 .. n
  BY SaidTyped
<1>2. ASSUME NEW i \in 1 .. n PROVE es(i) \in Seq(Byte) /\ es(i) # <<>>
  <2>1. PICK s \in Seq(Word) : s = Said[i]
    BY SaidTyped
  <2>2. Codec!EncodeSentence(s) \in Seq(Byte) /\ Len(Codec!EncodeSentence(s)) = At(s, Len(s)) + 1
        /\ Len(s) \in Nat /\ \A k \in 0 .. Len(s) : At(s, k) \in Nat
    BY SentenceCode
  <2>3. At(s, Len(s)) \in Nat
    BY <2>2
  <2>4. Codec!EncodeSentence(s) # <<>>
    BY <2>2, <2>3, EmptySeq
  <2> QED
    BY <2>1, <2>2, <2>4
<1>3. c \in Seq(Seq(Byte)) /\ Len(c) = n /\ \A i \in 1 .. n : c[i] = es(i) /\ c[i] # <<>>
  <2>1. c = [i \in 1 .. n |-> es(i)]
    BY <1>1 DEF Spoken
  <2> DEFINE W == Seq(Byte)
  <2>2. c \in [1 .. n -> W]
    BY <1>2, <2>1
  <2>3. c \in Seq(W) /\ Len(c) = n
    <3> HIDE DEF W, c, n
    <3> QED
      BY <1>1, <2>2, SeqOf
  <2> HIDE DEF es
  <2> QED
    BY <1>2, <2>1, <2>3
<1>4. \A i \in 0 .. n : Codec!Prefix(i) = Joint(c, i)
  <2>1. ASSUME NEW i \in 0 .. n PROVE [j \in 1 .. i |-> Codec!EncodeSentence(Said[j])] = [j \in 1 .. i |-> c[j]]
    <3>1. \A j \in 1 .. i : j \in 1 .. n
      BY <1>1
    <3>2. \A j \in 1 .. i : c[j] = es(j)
      BY <1>3, <3>1
    <3> HIDE DEF c
    <3> QED
      BY <3>2
  <2> QED
    BY <2>1 DEF Codec!Prefix, Joint
<1> HIDE DEF c
<1>5. Codec!Stream = Joint(c, n)
  BY <1>3, Pieces DEF Codec!Stream, c, Spoken
<1>6. \A i \in 0 .. n : E(i) = Len(Joint(c, i)) /\ Joint(c, i) \in Seq(Byte) /\ E(i) \in Nat
  BY <1>3, <1>4, Pieces, LenProperties DEF E
<1>7. E(0) = 0 /\ E(n) = Len(Codec!Stream) /\ Codec!Stream \in Seq(Byte)
  <2>1. 0 \in 0 .. n /\ n \in 0 .. n
    BY <1>1
  <2> QED
    BY <1>3, <1>5, <1>6, <2>1, Pieces, EmptySeq
<1>8. ASSUME NEW i \in 0 .. n, NEW j \in i .. n PROVE E(i) + (j - i) <= E(j)
  <2>1. j \in 0 .. n /\ i \in 0 .. Len(c) /\ j \in i .. Len(c)
    BY <1>1, <1>3
  <2>2. Len(Joint(c, i)) + (j - i) <= Len(Joint(c, j))
    <3>1. \A k \in 1 .. Len(c) : c[k] # <<>>
      BY <1>3
    <3> HIDE DEF n
    <3> QED
      BY <1>3, <2>1, <3>1, PiecesGrow
  <2> QED
    BY <1>6, <2>1, <2>2
<1>9. ASSUME NEW i \in 0 .. n PROVE E(i) \in 0 .. Len(Codec!Stream)
  <2>1. n \in i .. n /\ n \in 0 .. n
    BY <1>1
  <2>2. E(i) + (n - i) <= E(n) /\ E(i) \in Nat /\ E(n) \in Nat
    BY <1>6, <1>8, <2>1
  <2> QED
    BY <1>1, <1>7, <2>2
<1>10. ASSUME NEW i \in 1 .. n
       PROVE  E(i) = E(i - 1) + Len(c[i]) /\ \A k \in 1 .. Len(c[i]) : Codec!Stream[E(i - 1) + k] = c[i][k]
  <2>1. i \in 0 .. n /\ i - 1 \in 0 .. n /\ i \in 0 .. Len(c) /\ n \in i .. Len(c) /\ i \in 1 .. Len(c)
    BY <1>1, <1>3
  <2>2. PICK x \in Seq(Byte) : x = Joint(c, i - 1)
    BY <1>6, <2>1
  <2>3. PICK y \in Seq(Byte) : y = Joint(c, i)
    BY <1>6, <2>1
  <2>4. PICK z \in Seq(Byte) : z = c[i]
    BY <1>3, <2>1, ElementOfSeq
  <2>5. y = x \o z
    BY <1>3, <2>1, <2>2, <2>3, <2>4, Pieces
  <2>6. Len(x) \in Nat /\ Len(z) \in Nat /\ Len(y) = Len(x) + Len(z)
    BY <2>5, ConcatProperties, LenProperties
  <2>7. ASSUME NEW k \in 1 .. Len(z) PROVE Codec!Stream[Len(x) + k] = z[k]
    <3>1. Len(x) + k \in 1 .. Len(x) + Len(z) /\ ~(Len(x) + k <= Len(x)) /\ (Len(x) + k) - Len(x) = k
      BY <2>6
    <3>2. y[Len(x) + k] = z[k]
      BY <2>5, <3>1, ConcatProperties
    <3>3. Begins(y, Codec!Stream)
      BY <1>3, <1>5, <2>1, <2>3, PiecesBegin
    <3> QED
      BY <2>6, <3>1, <3>2, <3>3 DEF Begins
  <2> QED
    BY <1>6, <2>1, <2>2, <2>3, <2>4, <2>6, <2>7
<1>11. \A i \in 1 .. n : /\ E(i) = E(i - 1) + Len(es(i))
                         /\ \A k \in 1 .. Len(es(i)) : Codec!Stream[E(i - 1) + k] = es(i)[k]
  <2> HIDE DEF es, n
  <2> QED
    BY <1>3, <1>10
<1> QED
  BY <1>7, <1>8, <1>9, <1>11

\* The first t bytes; what of them is left after those of k sentences.
LEMMA ArrivedTyped ==
  ASSUME NEW t \in 0 .. Len(Codec!Stream)
  PROVE  /\ Arrived(t) \in Seq(Byte) /\ Len(Arrived(t)) = t
         /\ \A k \in 1 .. t : Arrived(t)[k] = Codec!Stream[k]
<1>1. t \in Nat /\ t <= Len(Codec!Stream) /\ Len(Codec!Stream) \in Nat /\ Codec!Stream \in Seq(Byte)
  BY StreamCode, LenProperties
<1>2. \A k \in 1 .. t : Codec!Stream[k] \in Byte
  <2>1. \A k \in 1 .. t : k \in 1 .. Len(Codec!Stream)
    BY <1>1
  <2> QED
    BY <1>1, <2>1, ElementOfSeq
<1>3. /\ Arrived(t) \in Seq(Byte) /\ Len(Arrived(t)) = IF 1 <= t THEN t - 1 + 1 ELSE 0
      /\ \A k \in 1 .. t - 1 + 1 : Arrived(t)[k] = Codec!Stream[1 + k - 1]
  BY <1>1, <1>2, SubSeqProperties DEF Arrived
<1>4. t - 1 + 1 = t /\ (~(1 <= t) => t = 0) /\ \A k \in 1 .. t : 1 + k - 1 = k
  BY <1>1
<1> QED
  BY <1>3, <1>4

Sentences(from, to) == SubSeq(Said, from + 1, to)
Draining(c, o, out, more) == [chunks |-> c, offset |-> o, out |-> out, more |-> more]

\* One sentence more.
LEMMA SentencesMore ==
  ASSUME NEW i \in 0 .. Len(Said), NEW j \in i .. Len(Said), j < Len(Said)
  PROVE  Append(Sentences(i, j), Said[j + 1]) = Sentences(i, j + 1)
<1>1. Len(Said) \in Nat /\ Said \in Seq(Seq(Word))
  <2> DEFINE W == Seq(Word)
             n == Len(Said)
  <2>1. n \in Nat /\ DOMAIN Said = 1 .. n /\ \A k \in 1 .. n : Said[k] \in W
    BY SaidTyped
  <2>2. Said = [k \in 1 .. n |-> Said[k]]
    BY <2>1, CodecAssumption, LenProperties, Zenon
  <2>3. Said \in [1 .. n -> W]
    <3> HIDE DEF n, W
    <3> QED
      BY <2>1, <2>2
  <2>4. Said \in Seq(W)
    <3> HIDE DEF n, W
    <3> QED
      BY <2>1, <2>3, SeqOf
  <2> QED
    BY <2>1, <2>4
<1>2. i + 1 \in 1 .. Len(Said) /\ j + 1 \in i + 1 .. Len(Said) /\ (j + 1) - 1 = j /\ j + 1 \in 1 .. Len(Said)
  BY <1>1
<1>3. SubSeq(Said, i + 1, j + 1) = SubSeq(Said, i + 1, (j + 1) - 1) \o <<Said[j + 1]>>
  BY <1>1, <1>2, SubSeqRecursiveSecond
<1>4. SubSeq(Said, i + 1, j) \in Seq(Seq(Word)) /\ Said[j + 1] \in Seq(Word)
  <2>1. \A k \in i + 1 .. j : Said[k] \in Seq(Word)
    <3>1. \A k \in i + 1 .. j : k \in 1 .. Len(Said)
      BY <1>1
    <3> QED
      BY <3>1, SaidTyped
  <2>2. i + 1 \in Int /\ j \in Int
    BY <1>1
  <2> QED
    BY <1>2, <2>1, <2>2, SubSeqProperties, SaidTyped
<1>5. Append(SubSeq(Said, i + 1, j), Said[j + 1]) = SubSeq(Said, i + 1, j) \o <<Said[j + 1]>>
  BY <1>4, AppendIsConcat
<1> QED
  BY <1>2, <1>3, <1>5 DEF Sentences

\* One turn of push(), when k sentences are read and those after i are its own: it
\* reads the next one if all its bytes have arrived, and ends if they have not.
LEMMA TurnDrains ==
  ASSUME NEW t \in 0 .. Len(Codec!Stream), NEW i \in 0 .. Len(Said), NEW k \in i .. Len(Said),
         E(k) <= t, NEW c, NEW o, Holds(c, o), Codec!ToBuffer(c, o) = Rest(Arrived(t), E(k))
  PROVE  LET st == Codec!NextSentence(Draining(c, o, Sentences(i, k), TRUE))
         IN \/ /\ k < Len(Said) /\ E(k + 1) <= t
               /\ \E c2, o2 : /\ Holds(c2, o2) /\ Codec!ToBuffer(c2, o2) = Rest(Arrived(t), E(k + 1))
                              /\ st = Draining(c2, o2, Sentences(i, k + 1), TRUE)
            \/ /\ k < Len(Said) => t < E(k + 1)
               /\ st = Draining(c, o, Sentences(i, k), FALSE)
<1> DEFINE n == Len(Said)
           b == Codec!ToBuffer(c, o)
           was == Draining(c, o, Sentences(i, k), TRUE)
           st == Codec!NextSentence(was)
           w == Codec!Walk(b)
<1>0. /\ was = [chunks |-> c, offset |-> o, out |-> Sentences(i, k), more |-> TRUE]
      /\ was.chunks = c /\ was.offset = o /\ was.out = Sentences(i, k) /\ was.more
  BY DEF Draining
<1>1. /\ n \in Nat /\ k \in Nat /\ k \in 0 .. n /\ i \in Nat /\ t \in Nat
      /\ E(k) \in 0 .. Len(Codec!Stream) /\ E(k) \in Nat /\ E(k) \in 0 .. t
      /\ Len(Codec!Stream) \in Nat
  <2>1. n \in Nat
    BY SaidTyped
  <2>2. Len(Codec!Stream) \in Nat
    BY StreamCode, LenProperties
  <2>3. k \in Nat /\ k \in 0 .. n /\ i \in Nat /\ t \in Nat
    BY <2>1, <2>2
  <2>4. E(k) \in 0 .. Len(Codec!Stream)
    BY <2>3, StreamCode
  <2> QED
    BY <2>1, <2>2, <2>3, <2>4
<1>2. Arrived(t) \in Seq(Byte) /\ Len(Arrived(t)) = t /\ \A m \in 1 .. t : Arrived(t)[m] = Codec!Stream[m]
  BY ArrivedTyped
<1>3. b \in Seq(Byte) /\ Len(b) = t - E(k) /\ Len(b) \in Nat /\ \A m \in 1 .. Len(b) : b[m] = Codec!Stream[E(k) + m]
  <2>1. b = Rest(Arrived(t), E(k)) /\ E(k) \in 0 .. Len(Arrived(t))
    BY <1>1, <1>2
  <2>2. b \in Seq(Byte) /\ Len(b) = t - E(k) /\ \A m \in 1 .. t - E(k) : b[m] = Arrived(t)[E(k) + m]
    <3> HIDE DEF b
    <3> QED
      BY <1>2, <2>1, RestTyped
  <2>3. \A m \in 1 .. t - E(k) : E(k) + m \in 1 .. t
    BY <1>1
  <2> HIDE DEF b
  <2> QED
    BY <1>1, <1>2, <2>2, <2>3
<1>4. w.stop # "sentence" => st = Draining(c, o, Sentences(i, k), FALSE)
  <2>1. SUFFICES ASSUME w.stop # "sentence" PROVE st = Draining(c, o, Sentences(i, k), FALSE)
    OBVIOUS
  <2>2. st = [was EXCEPT !.more = FALSE]
    <3>1. Codec!Walk(Codec!ToBuffer(was.chunks, was.offset)).stop # "sentence"
      BY <1>0, <2>1
    <3> HIDE DEF was, w
    <3> QED
      BY <1>0, <3>1 DEF Codec!NextSentence
  <2>3. [was EXCEPT !.more = FALSE] = [chunks |-> c, offset |-> o, out |-> Sentences(i, k), more |-> FALSE]
    <3>1. \A x, y, z, u, v : [[chunks |-> x, offset |-> y, out |-> z, more |-> u] EXCEPT !.more = v]
                               = [chunks |-> x, offset |-> y, out |-> z, more |-> v]
      OBVIOUS
    <3> DEFINE yes == TRUE
               no == FALSE
    <3>2. was = [chunks |-> c, offset |-> o, out |-> Sentences(i, k), more |-> yes]
      BY <1>0
    <3>3. [was EXCEPT !.more = no] = [chunks |-> c, offset |-> o, out |-> Sentences(i, k), more |-> no]
      <4> HIDE DEF was, yes, no
      <4> QED
        BY <3>1, <3>2
    <3> HIDE DEF was
    <3> QED
      BY <3>3
  <2> QED
    BY <2>2, <2>3 DEF Draining
<1>5. CASE k = n
  <2>1. Len(b) = 0
    BY <1>1, <1>3, <1>5, StreamCode
  <2>2. b = <<>>
    BY <1>3, <2>1, EmptySeq
  <2>3. w.stop # "sentence"
    BY <2>2, WalkEmpty
  <2>4. ~(k < n)
    BY <1>1, <1>5
  <2>5. st = Draining(c, o, Sentences(i, k), FALSE)
    BY <1>4, <2>3, Zenon
  <2> QED
    BY <2>4, <2>5, Zenon
<1>6. CASE k # n
  <2> DEFINE s == Said[k + 1]
             es == Codec!EncodeSentence(s)
             long == Len(es)
  <2>1. k + 1 \in 1 .. n /\ k < n /\ (k + 1) - 1 = k
    BY <1>1, <1>6
  <2>2. s \in Seq(Word)
    BY <2>1, SaidTyped
  <2>3. long \in Nat
    BY <2>2, SentenceCode, LenProperties
  <2>4. E(k + 1) = E(k) + long /\ \A m \in 1 .. long : Codec!Stream[E(k) + m] = es[m]
    BY <2>1, StreamCode
  <2> HIDE DEF b
  <2>5. Carries(b, s)
    <3>1. ASSUME NEW m \in 1 .. Len(b), m <= long PROVE b[m] = es[m]
      <4>1. m \in 1 .. long
        BY <1>3, <2>3, <3>1
      <4> HIDE DEF es, long
      <4> QED
        BY <1>3, <2>4, <4>1
    <3> QED
      BY <3>1 DEF Carries
  <2>6. /\ long <= Len(b) => w = [at |-> long, words |-> s, stop |-> "sentence"]
        /\ Len(b) < long => w.stop # "sentence"
    <3> HIDE DEF s
    <3> QED
      BY <1>3, <2>2, <2>5, WalkReads
  <2> HIDE DEF s, es, long
  <2>7. CASE Len(b) < long
    <3>1. t < E(k + 1)
      BY <1>1, <1>3, <2>3, <2>4, <2>7
    <3> QED
      BY <1>4, <2>6, <2>7, <3>1
  <2>8. CASE long <= Len(b)
    <3> DEFINE kk == Codec!Compact(c, o + long)
    <3>1. w.at = long /\ w.words = s /\ w.stop = "sentence"
      BY <2>6, <2>8
    <3>2. st = [chunks |-> kk.chunks, offset |-> kk.offset, out |-> Append(Sentences(i, k), s), more |-> TRUE]
      <4> HIDE DEF kk
      <4>1. Codec!Compact(c, o + w.at) = kk
        BY <3>1 DEF kk
      <4> QED
        BY <1>0, <3>1, <4>1 DEF Codec!NextSentence, b
    <3>3. E(k + 1) <= t
      BY <1>1, <1>3, <2>3, <2>4, <2>8
    <3>4. Append(Sentences(i, k), s) = Sentences(i, k + 1)
      BY <2>1, SentencesMore DEF s
    <3>5. /\ Codec!Bytes(c) \in Seq(Byte) /\ b = Rest(Codec!Bytes(c), o) /\ Len(b) = Len(Codec!Bytes(c)) - o
          /\ o \in 0 .. Len(Codec!Bytes(c)) /\ Len(Codec!Bytes(c)) \in Nat
      BY BufferTyped, LenProperties DEF b, Holds
    <3>6. Holds(c, o + long) /\ long \in 0 .. Len(Codec!Bytes(c)) - o
      BY <2>3, <2>8, <3>5 DEF Holds
    <3>7. Codec!ToBuffer(c, o + long) = Rest(b, long)
      <4>1. Codec!ToBuffer(c, o + long) = Rest(Codec!Bytes(c), o + long)
        BY <3>6, BufferTyped
      <4> QED
        BY <3>5, <3>6, <4>1, RestMore
    <3>8. Rest(b, long) = Rest(Arrived(t), E(k + 1))
      <4>1. long \in 0 .. Len(Arrived(t)) - E(k) /\ E(k) \in 0 .. Len(Arrived(t))
        BY <1>1, <1>2, <1>3, <2>3, <2>8
      <4>2. Rest(Arrived(t), E(k) + long) = Rest(Rest(Arrived(t), E(k)), long)
        BY <1>2, <4>1, RestMore
      <4> QED
        BY <2>4, <4>2 DEF b
    <3>9. Holds(kk.chunks, kk.offset) /\ Codec!ToBuffer(kk.chunks, kk.offset) = Rest(Arrived(t), E(k + 1))
      BY <3>6, <3>7, <3>8, CompactKeeps
    <3>10. st = Draining(kk.chunks, kk.offset, Sentences(i, k + 1), TRUE)
      BY <3>2, <3>4 DEF Draining
    <3> HIDE DEF kk
    <3> QED
      BY <2>1, <3>3, <3>9, <3>10, Zenon
  <2>9. Len(b) < long \/ long <= Len(b)
    BY <1>3, <2>3
  <2> QED
    BY <2>7, <2>8, <2>9, Zenon
<1> QED
  BY <1>5, <1>6

\* f is the run of the loop of push(), which ends after turn m.
DrainRun(f, m, c, o) ==
  /\ f[0] = Draining(c, o, <<>>, TRUE)
  /\ \A i \in 1 .. Len(Codec!ToBuffer(c, o)) : f[i] = Codec!NextSentence(f[i - 1])
  /\ m \in 0 .. Len(Codec!ToBuffer(c, o)) /\ (~f[m].more \/ m = Len(Codec!ToBuffer(c, o)))
  /\ Codec!Drain(c, o) = f[m]

\* The loop of push() has a run: Drain's function is one.
LEMMA DrainRuns ==
  ASSUME NEW c, NEW o, Holds(c, o)
  PROVE  \E f, m : DrainRun(f, m, c, o)
<1> DEFINE n == Len(Codec!ToBuffer(c, o))
           Walks(g, k) == g = [i \in 0 .. k |-> IF i = 0 THEN [chunks |-> c, offset |-> o, out |-> <<>>, more |-> TRUE]
                                                ELSE Codec!NextSentence(g[i - 1])]
           F == CHOOSE g : Walks(g, n)
           S == {k \in Nat : \E g : Walks(g, k)}
           m == CHOOSE i \in 0 .. n : ~F[i].more \/ i = n
<1>0. n \in Nat
  BY BufferTyped, LenProperties
<1>1. 0 \in S
  <2>1. Walks([i \in 0 .. 0 |-> [chunks |-> c, offset |-> o, out |-> <<>>, more |-> TRUE]], 0)
    OBVIOUS
  <2> HIDE DEF Walks
  <2> QED
    BY <2>1
<1>2. ASSUME NEW k \in Nat, k \in S PROVE k + 1 \in S
  <2>1. PICK g : Walks(g, k)
    BY <1>2
  <2> DEFINE r == Codec!NextSentence(g[k])
             h == [i \in 0 .. k + 1 |-> IF i = k + 1 THEN r ELSE g[i]]
             same(i) == IF i = 0 THEN [chunks |-> c, offset |-> o, out |-> <<>>, more |-> TRUE]
                        ELSE Codec!NextSentence(h[i - 1])
  <2>2. ASSUME NEW i \in 0 .. k + 1 PROVE h[i] = same(i)
    <3>1. CASE i = k + 1
      <4>1. i # 0 /\ i - 1 = k /\ k \in 0 .. k + 1 /\ k # k + 1
        BY <3>1
      <4>2. h[i - 1] = g[k] /\ h[i] = r
        BY <3>1, <4>1
      <4> HIDE DEF h
      <4> QED
        BY <4>1, <4>2
    <3>2. CASE i # k + 1
      <4>1. i \in 0 .. k /\ h[i] = g[i]
        BY <3>2
      <4>2. CASE i = 0
        <5> HIDE DEF h
        <5> QED
          BY <2>1, <4>1, <4>2
      <4>3. CASE i # 0
        <5>1. i - 1 \in 0 .. k + 1 /\ i - 1 # k + 1
          BY <4>1, <4>3
        <5>2. h[i - 1] = g[i - 1]
          BY <5>1
        <5>3. g[i] = Codec!NextSentence(g[i - 1])
          <6> HIDE DEF h
          <6> QED
            BY <2>1, <4>1, <4>3
        <5> HIDE DEF h
        <5> QED
          BY <4>1, <4>3, <5>2, <5>3
      <4> QED
        BY <4>2, <4>3
    <3> QED
      BY <3>1, <3>2
  <2>3. h = [i \in 0 .. k + 1 |-> h[i]]
    OBVIOUS
  <2>4. Walks(h, k + 1)
    <3> HIDE DEF h
    <3> QED
      BY <2>2, <2>3
  <2> HIDE DEF Walks, h
  <2> QED
    BY <2>4
<1>3. n \in S
  <2> HIDE DEF S
  <2>1. Nat \subseteq S
    BY <1>1, <1>2, Inductive
  <2> QED
    BY <1>0, <2>1
<1>4. Walks(F, n)
  <2>1. \E g : Walks(g, n)
    BY <1>3
  <2> HIDE DEF Walks
  <2> QED
    BY <2>1
<1>5. Codec!Drain(c, o) = F[m]
  BY DEF Codec!Drain
<1>6. F[0] = Draining(c, o, <<>>, TRUE)
  <2>1. 0 \in 0 .. n
    BY <1>0
  <2> HIDE DEF F
  <2> QED
    BY <1>4, <2>1 DEF Draining
<1>7. ASSUME NEW i \in 1 .. n PROVE F[i] = Codec!NextSentence(F[i - 1])
  <2>1. i \in 0 .. n /\ i # 0
    BY <1>0
  <2> HIDE DEF F
  <2> QED
    BY <1>4, <2>1
<1>8. m \in 0 .. n /\ (~F[m].more \/ m = n)
  <2>1. n \in 0 .. n
    BY <1>0
  <2> HIDE DEF F, n
  <2>2. \E i \in 0 .. n : ~F[i].more \/ i = n
    BY <2>1
  <2> QED
    BY <2>2
<1>9. DrainRun(F, m, c, o)
  <2> HIDE DEF F, m, Walks
  <2> QED
    BY <1>5, <1>6, <1>7, <1>8 DEF DrainRun
<1> HIDE DEF F, m
<1> QED
  BY <1>9

\* The loop of push() reads every sentence that has arrived whole, and no other.
LEMMA Drains ==
  ASSUME NEW t \in 0 .. Len(Codec!Stream), NEW i \in 0 .. Len(Said), E(i) <= t,
         NEW c, NEW o, Holds(c, o), Codec!ToBuffer(c, o) = Rest(Arrived(t), E(i))
  PROVE  LET d == Codec!Drain(c, o)
         IN \E k \in i .. Len(Said) :
              /\ E(k) <= t /\ (k < Len(Said) => t < E(k + 1)) /\ d.out = Sentences(i, k)
              /\ Holds(d.chunks, d.offset) /\ Codec!ToBuffer(d.chunks, d.offset) = Rest(Arrived(t), E(k))
<1> DEFINE n == Len(Said)
           most == Len(Codec!ToBuffer(c, o))
           d == Codec!Drain(c, o)
           At2(c2, o2, k) == /\ Holds(c2, o2) /\ Codec!ToBuffer(c2, o2) = Rest(Arrived(t), E(k))
                             /\ k \in i .. n /\ E(k) <= t
           All(k) == k < n => t < E(k + 1)
<1>0. n \in Nat /\ i \in Nat /\ t \in Nat /\ \A k \in i .. n : E(k) \in Nat /\ k \in Nat
  <2>1. n \in Nat /\ Len(Codec!Stream) \in Nat
    BY SaidTyped, StreamCode, LenProperties
  <2>2. \A k \in i .. n : k \in 0 .. n
    BY <2>1
  <2> QED
    BY <2>1, <2>2, StreamCode
<1>1. most \in Nat /\ most = t - E(i) /\ i \in i .. n
  <2>1. E(i) \in 0 .. Len(Arrived(t)) /\ Arrived(t) \in Seq(Byte) /\ Len(Arrived(t)) = t
    BY <1>0, ArrivedTyped
  <2> QED
    BY <1>0, <2>1, RestTyped
<1>2. PICK f, m : DrainRun(f, m, c, o)
  BY DrainRuns
<1>20. /\ f[0] = Draining(c, o, <<>>, TRUE)
       /\ \A j \in 1 .. most : f[j] = Codec!NextSentence(f[j - 1])
       /\ m \in 0 .. most /\ (~f[m].more \/ m = most)
       /\ d = f[m]
  BY <1>2 DEF DrainRun
<1> DEFINE Going(j) == \E c2, o2 : At2(c2, o2, i + j) /\ f[j] = Draining(c2, o2, Sentences(i, i + j), TRUE)
           Ended(j) == \E c2, o2, k :
                          At2(c2, o2, k) /\ All(k) /\ f[j] = Draining(c2, o2, Sentences(i, k), FALSE)
           Good == {j \in 0 .. most : Going(j) \/ Ended(j)}
<1> HIDE DEF most, n, d, At2, All
<1>3. 0 \in Good
  <2>1. Sentences(i, i) = <<>>
    BY <1>0, SubSeqEmpty DEF Sentences
  <2>2. At2(c, o, i + 0) /\ i + 0 = i
    BY <1>0, <1>1 DEF At2
  <2>3. f[0] = Draining(c, o, Sentences(i, i + 0), TRUE)
    BY <1>20, <2>1, <2>2
  <2>4. Going(0)
    BY <2>2, <2>3, Zenon
  <2>5. 0 \in 0 .. most
    BY <1>1
  <2> QED
    BY <2>4, <2>5, Zenon
<1>4. ASSUME NEW j \in 1 .. most, j - 1 \in Good PROVE j \in Good
  <2>1. f[j] = Codec!NextSentence(f[j - 1]) /\ j \in 0 .. most
    BY <1>1, <1>20
  <2>2. CASE Ended(j - 1)
    <3>1. PICK c2, o2, k : At2(c2, o2, k) /\ All(k) /\ f[j - 1] = Draining(c2, o2, Sentences(i, k), FALSE)
      BY <2>2
    <3>2. ~f[j - 1].more
      BY <3>1 DEF Draining
    <3>3. f[j] = f[j - 1]
      BY <2>1, <3>2 DEF Codec!NextSentence
    <3> QED
      BY <2>1, <3>1, <3>3
  <2>3. CASE Going(j - 1)
    <3> DEFINE k == i + (j - 1)
    <3>1. PICK c2, o2 : At2(c2, o2, k) /\ f[j - 1] = Draining(c2, o2, Sentences(i, k), TRUE)
      BY <2>3
    <3>2. k + 1 = i + j
      BY <1>0, <1>1
    <3> HIDE DEF k
    <3>3. Holds(c2, o2) /\ Codec!ToBuffer(c2, o2) = Rest(Arrived(t), E(k)) /\ k \in i .. Len(Said) /\ E(k) <= t
      BY <3>1 DEF At2, n
    <3> DEFINE g == Codec!NextSentence(Draining(c2, o2, Sentences(i, k), TRUE))
    <3>4. f[j] = g
      BY <2>1, <3>1
    <3>5. \/ /\ k < Len(Said) /\ E(k + 1) <= t
             /\ \E c3, o3 : /\ Holds(c3, o3) /\ Codec!ToBuffer(c3, o3) = Rest(Arrived(t), E(k + 1))
                            /\ f[j] = Draining(c3, o3, Sentences(i, k + 1), TRUE)
          \/ /\ k < Len(Said) => t < E(k + 1)
             /\ f[j] = Draining(c2, o2, Sentences(i, k), FALSE)
      <4>1. \/ /\ k < Len(Said) /\ E(k + 1) <= t
               /\ \E c3, o3 : /\ Holds(c3, o3) /\ Codec!ToBuffer(c3, o3) = Rest(Arrived(t), E(k + 1))
                              /\ g = Draining(c3, o3, Sentences(i, k + 1), TRUE)
            \/ /\ k < Len(Said) => t < E(k + 1)
               /\ g = Draining(c2, o2, Sentences(i, k), FALSE)
        BY <3>3, TurnDrains, Zenon
      <4> HIDE DEF g
      <4> QED
        BY <3>4, <4>1, Zenon
    <3> HIDE DEF g
    <3>6. CASE /\ k < Len(Said) /\ E(k + 1) <= t
               /\ \E c3, o3 : /\ Holds(c3, o3) /\ Codec!ToBuffer(c3, o3) = Rest(Arrived(t), E(k + 1))
                              /\ f[j] = Draining(c3, o3, Sentences(i, k + 1), TRUE)
      <4>1. PICK c3, o3 : /\ Holds(c3, o3) /\ Codec!ToBuffer(c3, o3) = Rest(Arrived(t), E(k + 1))
                          /\ f[j] = Draining(c3, o3, Sentences(i, k + 1), TRUE)
        BY <3>6
      <4>2. k + 1 \in i .. n
        BY <1>0, <3>3, <3>6 DEF n
      <4>3. At2(c3, o3, k + 1)
        BY <3>6, <4>1, <4>2 DEF At2
      <4> QED
        BY <2>1, <3>2, <4>1, <4>3
    <3>7. CASE /\ k < Len(Said) => t < E(k + 1)
               /\ f[j] = Draining(c2, o2, Sentences(i, k), FALSE)
      <4>1. All(k) /\ k \in i .. n
        BY <3>3, <3>7 DEF All, n
      <4> QED
        BY <2>1, <3>1, <3>7, <4>1
    <3> QED
      BY <3>5, <3>6, <3>7
  <2> QED
    BY <1>4, <2>2, <2>3
<1>5. m \in Good
  <2> HIDE DEF Good
  <2>1. \A j \in 0 .. most : j \in Good
    BY <1>1, <1>3, <1>4, LoopKeeps
  <2> QED
    BY <1>20, <2>1
<1>6. PICK c2, o2, k, more : At2(c2, o2, k) /\ All(k) /\ d = Draining(c2, o2, Sentences(i, k), more)
  <2>1. CASE Ended(m)
    BY <1>20, <2>1
  <2>2. CASE Going(m)
    <3> DEFINE k == i + m
    <3>1. PICK c2, o2 : At2(c2, o2, k) /\ f[m] = Draining(c2, o2, Sentences(i, k), TRUE)
      BY <2>2
    <3>2. f[m].more
      BY <3>1 DEF Draining
    <3> HIDE DEF k
    <3>3. m = most /\ k \in i .. n /\ E(k) <= t
      BY <1>20, <3>1, <3>2 DEF At2
    <3>30. k \in 0 .. n /\ k - i = most
      BY <1>0, <1>1, <3>3 DEF k
    <3>4. E(i) + (k - i) <= E(k)
      BY <3>3, StreamCode DEF n
    <3>5. E(k) = t
      BY <1>0, <1>1, <3>3, <3>30, <3>4
    <3>6. All(k)
      <4>1. SUFFICES ASSUME k < n PROVE t < E(k + 1)
        BY DEF All
      <4>2. k + 1 \in i .. n /\ k + 1 \in k .. n
        BY <1>0, <3>3, <3>30, <4>1
      <4>3. E(k) + ((k + 1) - k) <= E(k + 1) /\ E(k + 1) \in Nat
        BY <1>0, <3>30, <4>2, StreamCode DEF n
      <4> QED
        BY <1>0, <3>3, <3>5, <4>3
    <3>7. d = Draining(c2, o2, Sentences(i, k), TRUE)
      BY <1>20, <3>1
    <3> QED
      BY <3>1, <3>6, <3>7, Zenon
  <2> QED
    BY <1>5, <2>1, <2>2
<1>7. k \in i .. n
  BY <1>6 DEF At2
<1>8. d.chunks = c2 /\ d.offset = o2 /\ d.out = Sentences(i, k)
  BY <1>6 DEF Draining
<1>9. /\ Holds(c2, o2) /\ Codec!ToBuffer(c2, o2) = Rest(Arrived(t), E(k)) /\ E(k) <= t
      /\ k < n => t < E(k + 1)
  BY <1>6 DEF At2, All
<1> QED
  BY <1>7, <1>8, <1>9 DEF d, n

-----------------------------------------------------------------------------
(* The codec                                                               *)

\* The first k sentences are heard, those which have arrived whole and no other,
\* and the buffer holds the bytes after them.
HeardAll(k) ==
  /\ heard = Sentences(0, k) /\ E(k) <= fed
  /\ k < Len(Said) => fed < E(k + 1)
  /\ Codec!ToBuffer(chunks, readOffset) = Rest(Arrived(fed), E(k))

CodecInv ==
  /\ fed \in 0 .. Len(Codec!Stream) /\ cuts \in 0 .. MaxChunks
  /\ Holds(chunks, readOffset)
  /\ \E k \in 0 .. Len(Said) : HeardAll(k)

\* Nothing has arrived, nothing is heard; and the first sentence has bytes.
LEMMA InitCodec ==
  ASSUME Codec!Init PROVE CodecInv
<1>1. fed = 0 /\ cuts = 0 /\ chunks = <<>> /\ readOffset = 0 /\ heard = <<>>
  BY DEF Codec!Init
<1>2. Len(Said) \in Nat /\ Len(Codec!Stream) \in Nat /\ MaxChunks \in Nat
  BY SaidTyped, StreamCode, LenProperties, CodecAssumption
<1>3. fed \in 0 .. Len(Codec!Stream) /\ cuts \in 0 .. MaxChunks /\ 0 \in 0 .. Len(Said) /\ 0 \in 0 .. Len(Codec!Stream)
  BY <1>1, <1>2
<1>4. <<>> \in Seq(Seq(Byte)) /\ Codec!Bytes(<<>>) = <<>> /\ Len(<<>>) = 0
  BY FlattenEmpty, EmptySeq DEF Codec!Bytes
<1>5. Holds(chunks, readOffset) /\ Codec!ToBuffer(chunks, readOffset) = <<>>
  BY <1>1, <1>4, SubSeqEmpty DEF Holds, Codec!ToBuffer
<1>6. heard = Sentences(0, 0)
  BY <1>1, SubSeqEmpty DEF Sentences
<1>7. E(0) = 0 /\ E(0) <= fed
  BY <1>1, StreamCode
<1>8. Rest(Arrived(0), 0) = <<>>
  <2>1. Len(Arrived(0)) = 0
    BY <1>3, ArrivedTyped
  <2> QED
    BY <2>1, SubSeqEmpty DEF Rest
<1>9. ASSUME 0 < Len(Said) PROVE fed < E(0 + 1)
  <2>1. 1 \in 0 .. Len(Said)
    BY <1>2, <1>9
  <2>2. E(0) + (1 - 0) <= E(1) /\ E(1) \in 0 .. Len(Codec!Stream)
    BY <1>3, <2>1, StreamCode
  <2>3. E(1) \in Nat
    BY <1>2, <2>2
  <2> QED
    BY <1>1, <1>7, <2>2, <2>3
<1>10. HeardAll(0)
  BY <1>1, <1>5, <1>6, <1>7, <1>8, <1>9 DEF HeardAll
<1> QED
  BY <1>3, <1>5, <1>10 DEF CodecInv

\* push() of the next bytes, wherever the cuts are: what it answers follows what was
\* heard, and is all that has arrived.
LEMMA NextCodec ==
  ASSUME CodecInv, Codec!Next PROVE CodecInv'
<1>1. PICK n \in Sizes : Codec!Push(n)
  BY DEF Codec!Next
<1>2. PICK k \in 0 .. Len(Said) : HeardAll(k)
  BY DEF CodecInv
<1> DEFINE t == fed + n
           x == SubSeq(Codec!Stream, fed + 1, fed + n)
           c == IF n = 0 THEN chunks ELSE Append(chunks, x)
           d == Codec!Drain(c, readOffset)
<1>3. /\ cuts < MaxChunks /\ t <= Len(Codec!Stream) /\ fed' = t /\ cuts' = cuts + 1
      /\ chunks' = d.chunks /\ readOffset' = d.offset /\ heard' = heard \o d.out
  BY <1>1 DEF Codec!Push
<1>4. /\ n \in Nat /\ fed \in Nat /\ fed \in 0 .. Len(Codec!Stream) /\ Len(Codec!Stream) \in Nat
      /\ MaxChunks \in Nat /\ cuts \in Nat /\ Len(Said) \in Nat /\ k \in Nat
  BY SaidTyped, StreamCode, LenProperties, CodecAssumption DEF CodecInv
<1>5. fed' \in 0 .. Len(Codec!Stream) /\ cuts' \in 0 .. MaxChunks /\ t \in 0 .. Len(Codec!Stream) /\ t \in Nat
  BY <1>3, <1>4
<1>6. Holds(chunks, readOffset)
  BY DEF CodecInv
<1>7. /\ heard = Sentences(0, k) /\ E(k) <= fed /\ E(k) \in Nat
      /\ Codec!ToBuffer(chunks, readOffset) = Rest(Arrived(fed), E(k))
  BY <1>2, <1>4, StreamCode DEF HeardAll
<1>8. Holds(c, readOffset) /\ Codec!ToBuffer(c, readOffset) = Rest(Arrived(t), E(k))
  <2>1. CASE n = 0
    <3>1. c = chunks /\ t = fed
      BY <1>4, <2>1
    <3> HIDE DEF c, t
    <3> QED
      BY <1>6, <1>7, <3>1
  <2>2. CASE n # 0
    <3>1. c = Append(chunks, x)
      BY <2>2
    <3>2. Arrived(fed) \o x = Arrived(t)
      <4>1. 1 \in 1 .. Len(Codec!Stream) + 1 /\ fed \in 1 - 1 .. Len(Codec!Stream) /\ t \in fed .. Len(Codec!Stream)
        BY <1>3, <1>4
      <4> QED
        BY <4>1, StreamCode, ConcatAdjacentSubSeq DEF Arrived
    <3>3. x \in Seq(Byte)
      <4>1. \A i \in fed + 1 .. fed + n : i \in 1 .. Len(Codec!Stream)
        BY <1>3, <1>4
      <4>2. \A i \in fed + 1 .. fed + n : Codec!Stream[i] \in Byte
        BY <4>1, StreamCode, ElementOfSeq
      <4>3. fed + 1 \in Int /\ fed + n \in Int
        BY <1>4
      <4> QED
        BY <4>2, <4>3, SubSeqProperties
    <3> HIDE DEF x, t, c
    <3>4. chunks \in Seq(Seq(Byte)) /\ Codec!Bytes(chunks) \in Seq(Byte)
          /\ readOffset \in 0 .. Len(Codec!Bytes(chunks)) /\ Len(Codec!Bytes(chunks)) \in Nat
          /\ Codec!ToBuffer(chunks, readOffset) = Rest(Codec!Bytes(chunks), readOffset)
      BY <1>6, BufferTyped, LenProperties DEF Holds
    <3>5. c \in Seq(Seq(Byte))
      BY <3>1, <3>3, <3>4, AppendProperties
    <3>6. Codec!Bytes(c) = Codec!Bytes(chunks) \o x
      BY <3>1, <3>3, <3>4, FlattenAppend DEF Codec!Bytes
    <3>7. readOffset \in 0 .. Len(Codec!Bytes(c))
      <4>1. Len(Codec!Bytes(c)) = Len(Codec!Bytes(chunks)) + Len(x) /\ Len(x) \in Nat
        BY <3>3, <3>4, <3>6, ConcatProperties, LenProperties
      <4> QED
        BY <3>4, <4>1
    <3>8. Holds(c, readOffset)
      BY <3>5, <3>7 DEF Holds
    <3>9. Codec!ToBuffer(c, readOffset) = Rest(Codec!Bytes(chunks) \o x, readOffset)
      BY <3>6, <3>8, BufferTyped
    <3>10. Rest(Codec!Bytes(chunks) \o x, readOffset) = Rest(Codec!Bytes(chunks), readOffset) \o x
      BY <3>3, <3>4, RestJoined
    <3>11. Rest(Arrived(fed) \o x, E(k)) = Rest(Arrived(fed), E(k)) \o x
      <4>1. Arrived(fed) \in Seq(Byte) /\ Len(Arrived(fed)) = fed
        BY <1>4, ArrivedTyped
      <4>2. E(k) \in 0 .. Len(Arrived(fed))
        BY <1>4, <1>7, <4>1
      <4> QED
        BY <3>3, <4>1, <4>2, RestJoined
    <3> QED
      BY <1>7, <3>2, <3>4, <3>8, <3>9, <3>10, <3>11
  <2> QED
    BY <2>1, <2>2
<1>9. E(k) <= t
  BY <1>4, <1>7
<1> HIDE DEF c, t
<1>10. PICK K \in k .. Len(Said) :
         /\ E(K) <= t /\ (K < Len(Said) => t < E(K + 1)) /\ d.out = Sentences(k, K)
         /\ Holds(d.chunks, d.offset) /\ Codec!ToBuffer(d.chunks, d.offset) = Rest(Arrived(t), E(K))
  <2> HIDE DEF d
  <2>1. \E j \in k .. Len(Said) :
          /\ E(j) <= t /\ (j < Len(Said) => t < E(j + 1)) /\ d.out = Sentences(k, j)
          /\ Holds(d.chunks, d.offset) /\ Codec!ToBuffer(d.chunks, d.offset) = Rest(Arrived(t), E(j))
    BY <1>5, <1>8, <1>9, Drains DEF d
  <2> QED
    BY <2>1
<1> HIDE DEF d
<1>11. K \in 0 .. Len(Said)
  BY <1>4, <1>10
<1>12. Sentences(0, k) \o Sentences(k, K) = Sentences(0, K)
  <2> DEFINE Sentence == Seq(Seq(0 .. 255) \ {<<>>})
  <2>1. Said \in Seq(Sentence)
    BY CodecAssumption, Zenon
  <2> HIDE DEF Sentence
  <2>2. 1 \in 1 .. Len(Said) + 1 /\ k \in 1 - 1 .. Len(Said) /\ K \in k .. Len(Said) /\ 0 + 1 = 1
    BY <1>4, <1>10
  <2>3. SubSeq(Said, 1, k) \o SubSeq(Said, k + 1, K) = SubSeq(Said, 1, K)
    BY <2>1, <2>2, ConcatAdjacentSubSeq
  <2> QED
    BY <2>2, <2>3 DEF Sentences
<1>13. HeardAll(K)'
  BY <1>3, <1>7, <1>10, <1>12 DEF HeardAll
<1>14. Holds(chunks', readOffset')
  BY <1>3, <1>10
<1> QED
  BY <1>5, <1>11, <1>13, <1>14 DEF CodecInv

\* The length field of routeros-core: whatever number a word's length is, below 2^31,
\* decodeLength() reads it back from the bytes encodeLength() wrote.
THEOREM LengthsSurvive ==
  \A n \in Nat : n < 2147483648 => Codec!DecodeLength(Codec!EncodeLength(n), 0) = n
<1>1. ASSUME NEW n \in Length PROVE Codec!DecodeLength(Codec!EncodeLength(n), 0) = n
  <2> DEFINE e == Codec!EncodeLength(n)
  <2>1. Len(e) \in 1 .. 5 /\ \A b : \A o \in Nat :
          (\A i \in 1 .. Len(e) : b[o + i] = e[i]) => Codec!DecodeLength(b, o) = n
    BY LengthSurvives, Zenon
  <2> HIDE DEF e
  <2>2. \A i \in 1 .. Len(e) : 0 + i = i
    BY <2>1
  <2>3. \A i \in 1 .. Len(e) : e[0 + i] = e[i]
    BY <2>2
  <2>4. Codec!DecodeLength(e, 0) = n
    BY <2>1, <2>3
  <2> QED
    BY <2>4 DEF e
<1> QED
  BY <1>1, SMT DEF Length

\* What the invariant says of the sentences, and of the buffer.
LEMMA CodecHolds ==
  ASSUME CodecInv PROVE Codec!CutsDoNotMatter /\ Codec!TypeOK
<1>1. PICK k \in 0 .. Len(Said) : HeardAll(k)
  BY DEF CodecInv
<1>2. /\ fed \in 0 .. Len(Codec!Stream) /\ fed \in Nat /\ Codec!Stream \in Seq(Byte)
      /\ E(k) \in Nat /\ E(k) <= fed /\ Len(Codec!Stream) \in Nat
  <2>1. Codec!Stream \in Seq(Byte) /\ Len(Codec!Stream) \in Nat
    BY StreamCode, LenProperties
  <2>2. E(k) \in 0 .. Len(Codec!Stream)
    BY StreamCode
  <2> QED
    BY <1>1, <2>1, <2>2 DEF CodecInv, HeardAll
<1>3. heard = SubSeq(Said, 1, k)
  <2>1. 0 + 1 = 1
    OBVIOUS
  <2> QED
    BY <1>1, <2>1 DEF HeardAll, Sentences
<1>4. Rest(Arrived(fed), E(k)) = SubSeq(Codec!Stream, E(k) + 1, fed)
  <2>1. Arrived(fed) \in Seq(Byte) /\ Len(Arrived(fed)) = fed /\ \A j \in 1 .. fed : Arrived(fed)[j] = Codec!Stream[j]
    BY <1>2, ArrivedTyped
  <2>2. PICK a \in Seq(Byte) : a = Arrived(fed) /\ Len(a) = fed
    BY <2>1
  <2>3. E(k) \in 0 .. Len(a)
    BY <1>2, <2>2
  <2>4. PICK u \in Seq(Byte) : u = Rest(a, E(k)) /\ Len(u) = fed - E(k) /\ \A j \in 1 .. fed - E(k) : u[j] = a[E(k) + j]
    <3>1. /\ Rest(a, E(k)) \in Seq(Byte) /\ Len(Rest(a, E(k))) = Len(a) - E(k)
          /\ \A j \in 1 .. Len(a) - E(k) : Rest(a, E(k))[j] = a[E(k) + j]
      BY <2>3, RestTyped
    <3> QED
      BY <2>2, <3>1
  <2>5. E(k) + 1 \in Int /\ fed \in Int /\ \A j \in E(k) + 1 .. fed : j \in 1 .. Len(Codec!Stream)
    BY <1>2
  <2> DEFINE r == SubSeq(Codec!Stream, E(k) + 1, fed)
             from == E(k) + 1
  <2>6. /\ r \in Seq(Byte) /\ Len(r) = (IF from <= fed THEN fed - from + 1 ELSE 0)
        /\ \A j \in 1 .. fed - from + 1 : r[j] = Codec!Stream[from + j - 1]
    <3>1. \A j \in from .. fed : Codec!Stream[j] \in Byte
      BY <1>2, <2>5, ElementOfSeq
    <3> HIDE DEF from
    <3> QED
      BY <2>5, <3>1, SubSeqProperties DEF from
  <2>7. /\ fed - from + 1 = fed - E(k) /\ (~(from <= fed) => fed - E(k) = 0)
        /\ \A j \in 1 .. fed - E(k) : from + j - 1 = E(k) + j /\ E(k) + j \in 1 .. fed
    BY <1>2
  <2> HIDE DEF r, from
  <2>8. Len(u) = Len(r) /\ \A j \in 1 .. Len(u) : u[j] = r[j]
    BY <2>1, <2>2, <2>4, <2>6, <2>7
  <2>9. u = r
    BY <2>4, <2>6, <2>8, SeqEqual
  <2> QED
    BY <2>2, <2>4, <2>9 DEF r, from
<1>5. ASSUME NEW n \in Codec!Boundaries PROVE Codec!DecodeLength(Codec!EncodeLength(n), 0) = n
  <2>1. n \in Nat /\ n < 2147483648
    BY SMT DEF Codec!Boundaries
  <2> QED
    BY <2>1, LengthsSurvive, SMT
<1>6. Codec!CutsDoNotMatter
  <2>1. /\ heard = SubSeq(Said, 1, k) /\ Len(Codec!Prefix(k)) <= fed
        /\ k < Len(Said) => fed < Len(Codec!Prefix(k + 1))
        /\ Codec!ToBuffer(chunks, readOffset) = SubSeq(Codec!Stream, Len(Codec!Prefix(k)) + 1, fed)
    BY <1>1, <1>3, <1>4 DEF HeardAll, E
  <2> QED
    BY <1>5, <2>1, Zenon DEF Codec!CutsDoNotMatter
<1>7. Codec!TypeOK
  BY DEF CodecInv, Holds, Codec!TypeOK
<1> QED
  BY <1>6, <1>7

\* The protocol of the routers: however the stream is cut into chunks, whatever the
\* words and the offset at which the buffer is compacted, the sentences heard are those
\* said, as far as they have arrived whole, and the buffer keeps the bytes after them.
THEOREM CutsAlways == Spec => []CutsDoNotMatter
<1> DEFINE I == part = "protocol" => CodecInv
<1>1. Init => I
  BY InitCodec DEF Init
<1>2. I /\ [Next]_allVars => I'
  <2> SUFFICES ASSUME I, [Next]_allVars, part' = "protocol" PROVE CodecInv'
    OBVIOUS
  <2>1. part = "protocol"
    BY DEF Next, allVars
  <2>2. Codec!Next \/ UNCHANGED codecVars
    BY <2>1 DEF Next, allVars, codecVars
  <2>3. CASE UNCHANGED codecVars
    BY <2>1, <2>3 DEF CodecInv, HeardAll, codecVars
  <2> QED
    BY <2>1, <2>2, <2>3, NextCodec
<1>3. I => CutsDoNotMatter
  BY CodecHolds DEF CutsDoNotMatter
<1> QED
  BY <1>1, <1>2, <1>3, PTL DEF Spec
=============================================================================
