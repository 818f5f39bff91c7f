------------------------ MODULE AlertLifecycleProofs ------------------------
(***************************************************************************)
(* Proofs about the alerts of one device, for every table of event types   *)
(* and rules in which no event clears the rule it raises, and for every    *)
(* number of handlers, users, events and requests.                         *)
(***************************************************************************)
EXTENDS AlertLifecycle, FiniteSetTheorems, WellFoundedInduction, TLAPS

\* The handlers that may still create the row of their event.
Makers == {h \in Handlers : at[h] \in {"clear", "clearing", "config", "read", "create"}}

Budget == size + Cardinality(Makers) <= published

\* Actors work on rows that exist, and a handler resolves rows only while it
\* clears, or after one of them rejected.
Tidy ==
  /\ \A x \in Actors : \A a \in Ids : stage[x][a] # "none" => a \in Rows
  /\ \A h \in Handlers : at[h] \in {"update", "open"} => found[h] \in Rows
  /\ \A h \in Handlers : stage[h] # Idle => at[h] \in {"idle", "clearing"}
  /\ \A a \in Ids \ Rows : stamped[a] = {} /\ told[a] = {}

\* Who owes a publication: the handler that created the row, or the actor that
\* found the timestamp unset and wrote it.
OwesOpen(a) == \E h \in Handlers : at[h] = "open" /\ found[h] = a
Owes(a, o) == \E x \in Actors : stage[x][a] = "tell" /\ OpOf(x) = o

Stamps ==
  \A a \in Rows \ Gone :
    /\ told[a] \subseteq stamped[a] \cup {"open"}
    /\ \A x \in Actors : stage[x][a] \in {"again", "tell"} => OpOf(x) \in stamped[a]

Debts ==
  \A a \in Rows \ Gone :
    a \notin cut =>
      /\ "open" \in told[a] \/ OwesOpen(a)
      /\ \A o \in stamped[a] : o \in told[a] \/ Owes(a, o)

\* As long as handlers did not overlap, the one that is live handles the last event.
OneHandler ==
  orderly =>
    /\ \A g, h \in Handlers : ~Free(g) /\ ~Free(h) => g = h
    /\ \A h \in Handlers : at[h] # "idle" => event[h] = last

Single ==
  orderly => \A k \in Keys \ LogKeys : \A a, b \in Active({k}) \ revived : a = b

\* Since a handler found no active row of its rule, users made none but by
\* reviving resolved ones.
NoneToDouble ==
  orderly =>
    \A h \in Handlers :
      at[h] = "create" /\ Raised(event[h]) \notin LogKeys =>
        Active({Raised(event[h])}) \subseteq revived

\* Once the last event's handler has read what it clears, it has in hand every
\* row that is still active.
InHand ==
  orderly /\ (\A h \in Handlers : at[h] # "clear") =>
    \A a \in Active(Cleared(last)) \ revived :
      \E h \in Handlers : stage[h][a] \in {"read", "first", "again"}

Order == OneHandler /\ Single /\ NoneToDouble /\ InHand

AInv ==
  /\ TypeOK
  /\ Budget
  /\ Tidy
  /\ Stamps
  /\ Debts
  /\ Order

-----------------------------------------------------------------------------
(* What the operators of the module do.                                    *)

LEMMA HandlersFinite == IsFiniteSet(Handlers) /\ Handlers \subseteq Actors
BY FS_Interval, AlertAssumption DEF Handlers, Actors

LEMMA MakersShrink ==
  ASSUME Makers' \subseteq Makers
  PROVE  /\ Cardinality(Makers) \in Nat /\ Cardinality(Makers') \in Nat
         /\ Cardinality(Makers') <= Cardinality(Makers)
<1>1. IsFiniteSet(Makers)
  BY HandlersFinite, FS_Subset DEF Makers
<1> QED
  BY <1>1, FS_Subset, FS_CardinalityType

LEMMA MakersAdd ==
  ASSUME NEW h, Makers' \subseteq Makers \cup {h}
  PROVE  /\ Cardinality(Makers) \in Nat /\ Cardinality(Makers') \in Nat
         /\ Cardinality(Makers') <= Cardinality(Makers) + 1
<1>1. IsFiniteSet(Makers)
  BY HandlersFinite, FS_Subset DEF Makers
<1>2. /\ IsFiniteSet(Makers \cup {h})
      /\ Cardinality(Makers \cup {h}) <= Cardinality(Makers) + 1
      /\ Cardinality(Makers \cup {h}) \in Nat
  <2>1. Cardinality(Makers) \in Nat
    BY <1>1, FS_CardinalityType
  <2>2. /\ IsFiniteSet(Makers \cup {h})
        /\ Cardinality(Makers \cup {h})
             = IF h \in Makers THEN Cardinality(Makers) ELSE Cardinality(Makers) + 1
    BY <1>1, FS_AddElement, Zenon
  <2> QED
    BY <2>1, <2>2
<1> QED
  BY <1>1, <1>2, FS_Subset, FS_CardinalityType

LEMMA MakersRemove ==
  ASSUME NEW h \in Makers, Makers' \subseteq Makers \ {h}
  PROVE  /\ Cardinality(Makers) \in Nat /\ Cardinality(Makers') \in Nat
         /\ Cardinality(Makers') + 1 <= Cardinality(Makers)
<1>1. IsFiniteSet(Makers)
  BY HandlersFinite, FS_Subset DEF Makers
<1>2. /\ IsFiniteSet(Makers \ {h})
      /\ Cardinality(Makers \ {h}) = Cardinality(Makers) - 1
      /\ Cardinality(Makers \ {h}) \in Nat /\ Cardinality(Makers) \in Nat
  BY <1>1, FS_RemoveElement, FS_CardinalityType
<1> QED
  BY <1>2, FS_Subset, FS_CardinalityType

\* A set of natural numbers has a least element ...
LEMMA Least ==
  ASSUME NEW S, S \subseteq Nat, S # {}
  PROVE  \E m \in S : \A n \in S : m <= n
<1> DEFINE R == {ss \in Nat \X Nat : ss[1] < ss[2]}
<1>1. OpToRel(<, Nat) = R
  BY Zenon DEF OpToRel
<1>2. IsWellFoundedOn(R, Nat)
  BY <1>1, NatLessThanWellFounded, Zenon
<1>3. \E m \in S : \A n \in S : <<n, m>> \notin R
  BY <1>2, WFMin, Zenon
<1>4. ASSUME NEW m \in S, NEW n \in S, <<n, m>> \notin R PROVE m <= n
  BY <1>4, SMT
<1> QED
  BY <1>3, <1>4

\* ... and a bounded one a greatest, which is what Newest chooses.
LEMMA NewestRow ==
  ASSUME NEW n \in Nat, NEW S, S \subseteq 1 .. n, S # {}
  PROVE  Newest(S) \in S
<1> DEFINE D == {n - a : a \in S}
<1>1. D \subseteq Nat /\ D # {}
  OBVIOUS
<1> HIDE DEF D
<1>2. PICK d \in D : \A e \in D : d <= e
  BY <1>1, Least
<1>3. PICK a \in S : d = n - a
  BY <1>2 DEF D
<1>4. \A b \in S : b <= a
  <2> SUFFICES ASSUME NEW b \in S PROVE b <= a
    OBVIOUS
  <2>1. n - b \in D
    BY DEF D
  <2> QED
    BY <2>1, <1>2, <1>3
<1> QED
  BY <1>3, <1>4 DEF Newest

LEMMA StageChange ==
  ASSUME stage \in [Actors -> [Ids -> Stage]], NEW x \in Actors, NEW a \in Ids,
         NEW s \in Stage, Stagewise(x, a, s)
  PROVE  /\ stage' \in [Actors -> [Ids -> Stage]]
         /\ stage'[x][a] = s
         /\ \A b \in Ids \ {a} : stage'[x][b] = stage[x][b]
         /\ \A y \in Actors \ {x} : stage'[y] = stage[y]
<1>1. stage' = [stage EXCEPT ![x] = [stage[x] EXCEPT ![a] = s]]
  BY DEF Stagewise
<1>2. stage[x] \in [Ids -> Stage]
  OBVIOUS
<1>3. [stage[x] EXCEPT ![a] = s] \in [Ids -> Stage]
  BY <1>2
<1> QED
  BY <1>1, <1>2, <1>3

LEMMA StageStart ==
  ASSUME stage \in [Actors -> [Ids -> Stage]], NEW x \in Actors, NEW S, Start(x, S)
  PROVE  /\ stage' \in [Actors -> [Ids -> Stage]]
         /\ \A b \in Ids : stage'[x][b] = IF b \in S THEN "read" ELSE "none"
         /\ \A y \in Actors \ {x} : stage'[y] = stage[y]
BY DEF Start, Stage

LEMMA IdleStage ==
  ASSUME stage \in [Actors -> [Ids -> Stage]], NEW x \in Actors
  PROVE  stage[x] = Idle <=> \A a \in Ids : stage[x][a] = "none"
BY DEF Idle

LEMMA OpOfActor ==
  ASSUME TypeOK, NEW x \in Actors PROVE OpOf(x) \in Ops
BY DEF TypeOK, OpOf, Ops

LEMMA OpOfHandler ==
  ASSUME NEW h \in Handlers PROVE OpOf(h) = "resolve" /\ OpOf(h)' = "resolve"
<1>1. h \notin Users
  BY AlertAssumption DEF Handlers
<1> QED
  BY <1>1 DEF OpOf

LEMMA NoEventIn == NoEvent \in Events
BY AlertAssumption DEF NoEvent

LEMMA NoKeyIn == NoKey \in Keys
BY AlertAssumption DEF NoKey

-----------------------------------------------------------------------------
LEMMA InitAInv == Init => AInv
<1> SUFFICES ASSUME Init PROVE AInv
  OBVIOUS
<1>1. Rows = {} /\ \A x \in Actors : \A a \in Ids : stage[x][a] = "none"
  BY DEF Init, Rows, NoOps, Idle
<1>2. TypeOK
  <2>1. stage \in [Actors -> [Ids -> Stage]]
    BY DEF Init, NoOps, Idle, Stage
  <2>2. size \in 0 .. published /\ published \in 0 .. MaxEvents /\ calls \in 0 .. MaxCalls
    BY AlertAssumption DEF Init
  <2>3. key \in [Ids -> Keys] /\ last \in Events /\ event \in [Handlers -> Events]
    BY NoEventIn, NoKeyIn DEF Init
  <2>4. \A a \in Ids : status[a] = "none" <=> a > size
    BY AlertAssumption DEF Init, Ids
  <2>5. status \in [Ids -> {"none", "open", "acknowledged", "resolved", "deleted"}]
    BY DEF Init
  <2>6. stamped \in [Ids -> SUBSET Ops] /\ told \in [Ids -> SUBSET (Ops \cup {"open"})]
    BY DEF Init
  <2>7. at \in [Handlers -> Pc] /\ found \in [Handlers -> 0 .. size] /\ op \in [Users -> Ops]
    BY DEF Init, Pc, Ops
  <2>8. orderly \in BOOLEAN /\ revived \subseteq Rows /\ cut \subseteq Rows
    BY DEF Init
  <2> QED
    BY <2>1, <2>2, <2>3, <2>4, <2>5, <2>6, <2>7, <2>8 DEF TypeOK
<1>3. Budget
  <2>1. Makers = {}
    BY DEF Init, Makers
  <2> QED
    BY <2>1, FS_EmptySet DEF Init, Budget
<1>4. Tidy
  <2>1. \A h \in Handlers : stage[h] = Idle
    BY HandlersFinite DEF Init, NoOps
  <2> QED
    BY <1>1, <2>1 DEF Init, Tidy
<1>5. Stamps /\ Debts
  BY <1>1 DEF Stamps, Debts
<1>6. \A K : Active(K) = {}
  BY <1>1 DEF Active
<1>7. Order
  <2>1. \A h \in Handlers : Free(h)
    BY HandlersFinite DEF Init, Free, NoOps
  <2> QED
    BY <1>6, <2>1 DEF Init, Order, OneHandler, Single, NoneToDouble, InHand
<1> QED
  BY <1>2, <1>3, <1>4, <1>5, <1>7 DEF AInv
-----------------------------------------------------------------------------
(* What a step must keep for a group of conjuncts to survive it.            *)

\* A row already announced or owed stays so while rows do not change.
LEMMA DebtsKept ==
  ASSUME Stamps, Debts, UNCHANGED <<size, status, stamped, told, cut>>,
         \A a \in Rows : OwesOpen(a) => OwesOpen(a)',
         \A a \in Rows : \A o : Owes(a, o) => Owes(a, o)',
         \A x \in Actors : \A a \in Rows \ Gone :
           stage'[x][a] \in {"again", "tell"} => OpOf(x)' \in stamped[a]
  PROVE  Stamps' /\ Debts'
<1>1. Rows' = Rows /\ Gone' = Gone
  BY DEF Rows, Gone
<1>2. Stamps'
  BY <1>1 DEF Stamps
<1>3. Debts'
  BY <1>1 DEF Debts
<1> QED
  BY <1>2, <1>3

\* Handlers only end, and rows only leave the active ones.
LEMMA OrderKept ==
  ASSUME Order, orderly' => orderly, last' = last,
         \A K : Active(K)' \ revived' \subseteq Active(K) \ revived,
         \A h \in Handlers : Free(h) => Free(h)',
         \A h \in Handlers : at'[h] # "idle" => at[h] # "idle" /\ event'[h] = event[h],
         \A h \in Handlers :
           at'[h] = "create" =>
             \/ at[h] = "create"
             \/ Raised(event[h]) \in LogKeys
             \/ Active({Raised(event[h])}) = {}
  PROVE  OneHandler' /\ Single' /\ NoneToDouble'
<1>1. OneHandler'
  BY DEF Order, OneHandler
<1>2. Single'
  BY DEF Order, Single
<1>3. NoneToDouble'
  <2> SUFFICES ASSUME orderly', NEW h \in Handlers, at'[h] = "create",
                      Raised(event'[h]) \notin LogKeys
               PROVE  Active({Raised(event[h])})' \subseteq revived'
    BY DEF NoneToDouble
  <2>1. event'[h] = event[h]
    OBVIOUS
  <2>2. Active({Raised(event[h])}) \subseteq revived
    BY <2>1 DEF Order, NoneToDouble
  <2>3. Active({Raised(event[h])})' \ revived' \subseteq Active({Raised(event[h])}) \ revived
    BY <2>1
  <2> QED
    BY <2>2, <2>3
<1> QED
  BY <1>1, <1>2, <1>3

LEMMA InHandKept ==
  ASSUME Order, orderly' => orderly, last' = last,
         \A K : Active(K)' \ revived' \subseteq Active(K) \ revived,
         \A h \in Handlers : at[h] = "clear" => at'[h] = "clear",
         \A h \in Handlers : \A K : \A a \in Active(K)' \ revived' :
           stage[h][a] \in {"read", "first", "again"} => stage'[h][a] \in {"read", "first", "again"}
  PROVE  InHand'
<1> SUFFICES ASSUME orderly', \A h \in Handlers : at'[h] # "clear",
                    NEW a \in Active(Cleared(last))' \ revived'
             PROVE  \E h \in Handlers : stage'[h][a] \in {"read", "first", "again"}
  BY DEF InHand
<1>1. Active(Cleared(last))' \ revived' \subseteq Active(Cleared(last)) \ revived
  BY DEF Active
<1>2. PICK h \in Handlers : stage[h][a] \in {"read", "first", "again"}
  BY <1>1 DEF Order, InHand
<1> QED
  BY <1>2

\* Steps of a handler that change no row.
LEMMA RowsStill ==
  ASSUME UNCHANGED <<rowVars, revived>>
  PROVE  Rows' = Rows /\ Gone' = Gone /\ \A K : Active(K)' \ revived' = Active(K) \ revived
BY DEF rowVars, Rows, Gone, Active

-----------------------------------------------------------------------------
(* One lemma per action.                                                    *)

LEMMA PublishAInv ==
  ASSUME AInv, NEW h \in Handlers, NEW e \in Events, Publish(h, e)
  PROVE  AInv'
<1> USE HandlersFinite
<1>0. TypeOK /\ Free(h) /\ at[h] = "idle" /\ stage[h] = Idle /\ published < MaxEvents
  BY DEF AInv, Publish, Free
<1>1. /\ UNCHANGED <<rowVars, found, op, stage, calls, revived, cut>>
      /\ at' = [at EXCEPT ![h] = IF Cleared(e) = {} THEN "config" ELSE "clear"]
      /\ event' = [event EXCEPT ![h] = e]
      /\ published' = published + 1
      /\ last' = e
      /\ orderly' = (orderly /\ \A g \in Handlers : Free(g))
  BY DEF Publish, Go
<1>2. Rows' = Rows /\ Gone' = Gone /\ \A K : Active(K)' = Active(K)
  BY <1>1 DEF rowVars, Rows, Gone, Active
<1>3. at'[h] \in {"config", "clear"} /\ \A g \in Handlers \ {h} : at'[g] = at[g] /\ event'[g] = event[g]
  BY <1>0, <1>1 DEF TypeOK
<1>4. event'[h] = e
  BY <1>0, <1>1 DEF TypeOK
<1>5. Makers' \subseteq Makers \cup {h}
  BY <1>3 DEF Makers
<1>6. size' + Cardinality(Makers') <= published'
  <2>1. /\ Cardinality(Makers) \in Nat /\ Cardinality(Makers') \in Nat
        /\ Cardinality(Makers') <= Cardinality(Makers) + 1
    BY <1>5, MakersAdd
  <2>2. size \in Nat /\ published \in Nat /\ size' = size
    BY <1>0, <1>1 DEF TypeOK, rowVars
  <2> QED
    BY <1>1, <2>1, <2>2 DEF AInv, Budget
<1>7. TypeOK'
  <2>1. at' \in [Handlers -> Pc] /\ event' \in [Handlers -> Events]
    BY <1>0, <1>1 DEF TypeOK, Pc
  <2>2. published' \in 0 .. MaxEvents /\ size' \in 0 .. published'
    BY <1>0, <1>1, AlertAssumption DEF TypeOK, rowVars
  <2> QED
    BY <1>0, <1>1, <1>2, <2>1, <2>2 DEF TypeOK, rowVars
<1>8. Tidy'
  BY <1>0, <1>1, <1>2, <1>3 DEF AInv, Tidy, rowVars
<1>9. Stamps' /\ Debts'
  <2>1. \A a \in Rows : OwesOpen(a) => OwesOpen(a)'
    BY <1>0, <1>1, <1>3 DEF OwesOpen
  <2>2. \A x : OpOf(x)' = OpOf(x)
    BY <1>1 DEF OpOf
  <2>3. \A a \in Rows : \A o : Owes(a, o) => Owes(a, o)'
    BY <1>1, <2>2 DEF Owes
  <2>4. Stamps /\ Debts
    BY DEF AInv
  <2>5. UNCHANGED <<size, status, stamped, told, cut>>
    BY <1>1 DEF rowVars
  <2>6. \A x \in Actors : \A a \in Rows \ Gone :
          stage'[x][a] \in {"again", "tell"} => OpOf(x)' \in stamped[a]
    BY <1>1, <2>2, <2>4 DEF Stamps
  <2> QED
    BY <2>1, <2>3, <2>4, <2>5, <2>6, DebtsKept
<1>10. Order'
  <2>1. ASSUME orderly', NEW g \in Handlers \ {h} PROVE Free(g)' /\ at'[g] = "idle"
    BY <1>1, <1>3, <2>1 DEF Free
  <2>2. OneHandler'
    BY <1>1, <1>3, <1>4, <2>1 DEF OneHandler
  <2>3. Single'
    BY <1>1, <1>2 DEF AInv, Order, Single
  <2>4. NoneToDouble'
    BY <1>3, <2>1 DEF NoneToDouble
  <2>5. InHand'
    <3>1. CASE Cleared(e) = {}
      BY <3>1, <1>1 DEF InHand, Active
    <3>2. CASE Cleared(e) # {}
      BY <3>2, <1>0, <1>1 DEF InHand, TypeOK
    <3> QED
      BY <3>1, <3>2
  <2> QED
    BY <2>2, <2>3, <2>4, <2>5 DEF Order
<1> QED
  BY <1>6, <1>7, <1>8, <1>9, <1>10 DEF AInv, Budget

\* A handler reads the rows its event clears: whatever is active of them it has
\* in hand from now on.
LEMMA FindClearedAInv ==
  ASSUME AInv, NEW h \in Handlers, FindCleared(h)
  PROVE  AInv'
<1> USE HandlersFinite
<1> DEFINE S == FindMany(Cleared(event[h]))
<1>0. TypeOK /\ at[h] = "clear" /\ S \subseteq Rows
  BY DEF AInv, FindCleared, FindMany
<1>1. /\ UNCHANGED <<rowVars, event, found, op, histVars>>
      /\ at' = [at EXCEPT ![h] = "clearing"]
      /\ Start(h, S)
  BY DEF FindCleared, Go
<1> HIDE DEF S
<1>2. Rows' = Rows /\ Gone' = Gone /\ \A K : Active(K)' \ revived' = Active(K) \ revived
  BY <1>1, RowsStill DEF rowVars, histVars
<1>3. at'[h] = "clearing" /\ \A g \in Handlers \ {h} : at'[g] = at[g]
  BY <1>0, <1>1 DEF TypeOK
<1>4. /\ stage' \in [Actors -> [Ids -> Stage]]
      /\ \A b \in Ids : stage'[h][b] = IF b \in S THEN "read" ELSE "none"
      /\ \A y \in Actors \ {h} : stage'[y] = stage[y]
  BY <1>0, <1>1, StageStart DEF TypeOK
<1>5. stage[h] = Idle /\ \A b \in Ids : stage[h][b] = "none"
  BY <1>0, IdleStage DEF AInv, Tidy, TypeOK
<1>6. TypeOK'
  <2>1. at' \in [Handlers -> Pc]
    BY <1>0, <1>1 DEF TypeOK, Pc
  <2> QED
    BY <1>0, <1>1, <1>2, <1>4, <2>1 DEF TypeOK, rowVars, histVars
<1>7. Budget'
  <2>1. Makers' \subseteq Makers
    BY <1>0, <1>3 DEF Makers
  <2> QED
    BY <1>0, <1>1, <2>1, MakersShrink DEF AInv, Budget, TypeOK, rowVars, histVars
<1>8. Tidy'
  <2>1. \A x \in Actors : \A a \in Ids : stage'[x][a] # "none" => a \in Rows'
    BY <1>0, <1>2, <1>4 DEF AInv, Tidy
  <2> QED
    BY <1>0, <1>1, <1>2, <1>3, <1>4, <2>1 DEF AInv, Tidy, rowVars, histVars
<1>9. Stamps' /\ Debts'
  <2>1. \A a \in Rows : OwesOpen(a) => OwesOpen(a)'
    BY <1>0, <1>1, <1>3 DEF OwesOpen
  <2>2. \A x : OpOf(x)' = OpOf(x)
    BY <1>1 DEF OpOf
  <2>0. Rows \subseteq Ids
    BY <1>0, AlertAssumption DEF TypeOK, Rows, Ids
  <2>3. \A a \in Rows : \A o : Owes(a, o) => Owes(a, o)'
    BY <1>4, <1>5, <2>0, <2>2 DEF Owes
  <2>4. Stamps /\ Debts
    BY DEF AInv
  <2>5. UNCHANGED <<size, status, stamped, told, cut>>
    BY <1>1 DEF rowVars, histVars
  <2>6. \A x \in Actors : \A a \in Rows \ Gone :
          stage'[x][a] \in {"again", "tell"} => OpOf(x)' \in stamped[a]
    BY <1>4, <2>0, <2>2, <2>4 DEF Stamps
  <2> QED
    BY <2>1, <2>3, <2>4, <2>5, <2>6, DebtsKept
<1>10. Order'
  <2>1. \A g \in Handlers : Free(g) => Free(g)'
    BY <1>0, <1>3, <1>4 DEF Free
  <2>2. OneHandler' /\ Single' /\ NoneToDouble'
    BY <1>0, <1>1, <1>2, <1>3, <2>1, OrderKept DEF AInv, histVars
  <2>3. InHand'
    <3> SUFFICES ASSUME orderly, NEW a \in Active(Cleared(last)) \ revived
                 PROVE  stage'[h][a] = "read"
      BY <1>1, <1>2 DEF InHand, histVars
    <3>1. event[h] = last
      BY <1>0 DEF AInv, Order, OneHandler
    <3>2. a \in S /\ a \in Ids
      BY <1>0, <3>1, AlertAssumption DEF S, FindMany, Active, Rows, Ids, TypeOK
    <3> QED
      BY <1>4, <3>2
  <2> QED
    BY <2>2, <2>3 DEF Order
<1> QED
  BY <1>6, <1>7, <1>8, <1>9, <1>10 DEF AInv

\* What AllCleared, ReadConfig, FindActive and UpdateRow have in common: a handler
\* that is resolving nothing moves on, or ends, and the rows stay as they are.
LEMMA QuietMove ==
  ASSUME AInv, NEW h \in Handlers, UNCHANGED <<rowVars, op, stage, histVars>>,
         at[h] \in {"clearing", "config", "read", "update"}, stage[h] = Idle,
         at' \in [Handlers -> Pc], event' \in [Handlers -> Events], found' \in [Handlers -> 0 .. size],
         \A g \in Handlers \ {h} : at'[g] = at[g] /\ event'[g] = event[g] /\ found'[g] = found[g],
         at'[h] \in {"idle", "config", "read", "update", "create"},
         at'[h] # "idle" => event'[h] = event[h],
         at'[h] \in {"config", "read", "create"} => at[h] # "update",
         at'[h] = "update" => found'[h] \in Rows,
         at'[h] = "create" => Raised(event[h]) \in LogKeys \/ Active({Raised(event[h])}) = {}
  PROVE  AInv'
<1> USE HandlersFinite
<1>1. TypeOK /\ Order /\ Stamps /\ Debts
  BY DEF AInv
<1>2. Rows' = Rows /\ Gone' = Gone /\ \A K : Active(K)' \ revived' = Active(K) \ revived
  BY RowsStill DEF rowVars, histVars
<1>3. TypeOK'
  BY <1>1, <1>2 DEF TypeOK, rowVars, histVars
<1>4. Budget'
  <2>1. Makers' \subseteq Makers
    BY DEF Makers
  <2>2. size \in Nat /\ published \in Nat /\ size' = size /\ published' = published
    BY <1>1 DEF TypeOK, rowVars, histVars
  <2> QED
    BY <2>1, <2>2, MakersShrink DEF AInv, Budget
<1>5. Tidy'
  BY <1>2 DEF AInv, Tidy, rowVars
<1>6. Stamps' /\ Debts'
  <2>1. \A a \in Rows : OwesOpen(a) => OwesOpen(a)'
    BY DEF OwesOpen
  <2>2. \A x : OpOf(x)' = OpOf(x)
    BY DEF OpOf
  <2>3. \A a \in Rows : \A o : Owes(a, o) => Owes(a, o)'
    BY <2>2 DEF Owes
  <2>4. \A x \in Actors : \A a \in Rows \ Gone :
          stage'[x][a] \in {"again", "tell"} => OpOf(x)' \in stamped[a]
    BY <1>1, <2>2 DEF Stamps
  <2> QED
    BY <1>1, <2>1, <2>3, <2>4, DebtsKept DEF rowVars, histVars
<1>7. Order'
  <2>1. \A g \in Handlers : Free(g) => Free(g)'
    BY DEF Free
  <2>2. OneHandler' /\ Single' /\ NoneToDouble'
    BY <1>1, <1>2, <2>1, OrderKept DEF histVars
  <2>3. InHand'
    BY <1>1, <1>2, InHandKept DEF histVars
  <2> QED
    BY <2>2, <2>3 DEF Order
<1> QED
  BY <1>3, <1>4, <1>5, <1>6, <1>7 DEF AInv

\* The activation is over: what End leaves.
LEMMA EndMoves ==
  ASSUME TypeOK, NEW h \in Handlers, End(h)
  PROVE  /\ at' \in [Handlers -> Pc] /\ event' \in [Handlers -> Events] /\ found' \in [Handlers -> 0 .. size]
         /\ at'[h] = "idle"
         /\ \A g \in Handlers \ {h} : at'[g] = at[g] /\ event'[g] = event[g] /\ found'[g] = found[g]
<1>1. size \in Nat
  BY DEF TypeOK
<1>2. /\ at \in [Handlers -> Pc] /\ event \in [Handlers -> Events] /\ found \in [Handlers -> 0 .. size]
  BY DEF TypeOK
<1> QED
  BY <1>1, <1>2, NoEventIn DEF End, Go, Pc

LEMMA GoMoves ==
  ASSUME TypeOK, NEW h \in Handlers, NEW l \in Pc, Go(h, l)
  PROVE  at' \in [Handlers -> Pc] /\ at'[h] = l /\ \A g \in Handlers \ {h} : at'[g] = at[g]
BY DEF TypeOK, Go

LEMMA AllClearedAInv ==
  ASSUME AInv, NEW h \in Handlers, AllCleared(h)
  PROVE  AInv'
<1>1. TypeOK
  BY DEF AInv
<1>2. at' \in [Handlers -> Pc] /\ at'[h] = "config" /\ \A g \in Handlers \ {h} : at'[g] = at[g]
  BY <1>1, GoMoves DEF AllCleared, Pc
<1>3. UNCHANGED <<rowVars, event, found, op, stage, histVars>> /\ at[h] = "clearing" /\ stage[h] = Idle
  BY DEF AllCleared
<1>4. event' \in [Handlers -> Events] /\ found' \in [Handlers -> 0 .. size]
  BY <1>1, <1>3 DEF TypeOK
<1> QED
  BY <1>2, <1>3, <1>4, QuietMove

LEMMA ReadConfigAInv ==
  ASSUME AInv, NEW h \in Handlers, ReadConfig(h)
  PROVE  AInv'
<1>1. TypeOK /\ at[h] = "config" /\ UNCHANGED <<rowVars, op, stage, histVars>>
  BY DEF AInv, ReadConfig
<1>2. stage[h] = Idle
  BY <1>1 DEF AInv, Tidy
<1>3. CASE End(h)
  BY <1>1, <1>2, <1>3, EndMoves, QuietMove
<1>4. CASE /\ Go(h, IF Raised(event[h]) \in LogKeys THEN "create" ELSE "read")
           /\ UNCHANGED <<event, found>>
  <2>1. /\ at' \in [Handlers -> Pc]
        /\ at'[h] = (IF Raised(event[h]) \in LogKeys THEN "create" ELSE "read")
        /\ \A g \in Handlers \ {h} : at'[g] = at[g]
    BY <1>1, <1>4, GoMoves DEF Pc
  <2>2. event' \in [Handlers -> Events] /\ found' \in [Handlers -> 0 .. size]
    BY <1>1, <1>4 DEF TypeOK
  <2> QED
    BY <1>1, <1>2, <1>4, <2>1, <2>2, QuietMove
<1> QED
  BY <1>3, <1>4 DEF ReadConfig

LEMMA FindActiveAInv ==
  ASSUME AInv, NEW h \in Handlers, FindActive(h)
  PROVE  AInv'
<1> DEFINE S == FindMany({Raised(event[h])})
<1>1. TypeOK /\ at[h] = "read" /\ UNCHANGED <<rowVars, event, op, stage, histVars>>
  BY DEF AInv, FindActive
<1>2. stage[h] = Idle /\ S = Active({Raised(event[h])}) /\ S \subseteq Rows
  BY <1>1 DEF AInv, Tidy, FindMany, Active
<1>3. event' \in [Handlers -> Events]
  BY <1>1 DEF TypeOK
<1>4. CASE S = {}
  <2>1. Go(h, "create") /\ UNCHANGED found
    BY <1>4 DEF FindActive
  <2>2. at' \in [Handlers -> Pc] /\ at'[h] = "create" /\ \A g \in Handlers \ {h} : at'[g] = at[g]
    BY <1>1, <2>1, GoMoves DEF Pc
  <2>3. found' \in [Handlers -> 0 .. size]
    BY <1>1, <2>1 DEF TypeOK
  <2> QED
    BY <1>1, <1>2, <1>3, <1>4, <2>1, <2>2, <2>3, QuietMove
<1>5. CASE S # {}
  <2>1. Go(h, "update") /\ found' = [found EXCEPT ![h] = Newest(S)]
    BY <1>5 DEF FindActive
  <2>2. at' \in [Handlers -> Pc] /\ at'[h] = "update" /\ \A g \in Handlers \ {h} : at'[g] = at[g]
    BY <1>1, <2>1, GoMoves DEF Pc
  <2>3. size \in Nat /\ found \in [Handlers -> 0 .. size]
    BY <1>1 DEF TypeOK
  <2>4. Newest(S) \in Rows
    BY <1>2, <1>5, <2>3, NewestRow DEF Rows
  <2> HIDE DEF S
  <2>5. /\ found' \in [Handlers -> 0 .. size] /\ found'[h] \in Rows
        /\ \A g \in Handlers \ {h} : found'[g] = found[g]
    BY <2>1, <2>3, <2>4 DEF Rows
  <2> QED
    BY <1>1, <1>2, <1>3, <2>2, <2>5, QuietMove
<1> QED
  BY <1>4, <1>5

LEMMA UpdateRowAInv ==
  ASSUME AInv, NEW h \in Handlers, UpdateRow(h)
  PROVE  AInv'
<1>1. TypeOK /\ at[h] = "update" /\ End(h) /\ UNCHANGED <<rowVars, op, stage, histVars>>
  BY DEF AInv, UpdateRow
<1>2. stage[h] = Idle
  BY <1>1 DEF AInv, Tidy
<1> QED
  BY <1>1, <1>2, EndMoves, QuietMove

\* The row created is the one active row of its rule, when handlers did not overlap.
LEMMA CreateRowAInv ==
  ASSUME AInv, NEW h \in Handlers, CreateRow(h)
  PROVE  AInv'
<1> USE HandlersFinite
<1> DEFINE n == size + 1
           r == Raised(event[h])
<1>1. TypeOK /\ Order /\ Stamps /\ Debts /\ at[h] = "create" /\ r \in Keys /\ event[h] \in Events
  BY AlertAssumption DEF AInv, CreateRow, TypeOK
<1>2. stage[h] = Idle
  BY <1>1 DEF AInv, Tidy
<1>3. /\ size' = n
      /\ key' = [key EXCEPT ![n] = r]
      /\ status' = [status EXCEPT ![n] = "open"]
      /\ found' = [found EXCEPT ![h] = n]
      /\ UNCHANGED <<stamped, told, event, op, stage, histVars>>
  BY DEF CreateRow
<1>4. at' \in [Handlers -> Pc] /\ at'[h] = "open" /\ \A g \in Handlers \ {h} : at'[g] = at[g]
  BY <1>1, GoMoves DEF CreateRow, Pc
<1>5. size \in Nat /\ published \in Nat /\ MaxEvents \in Nat /\ published <= MaxEvents
  BY <1>1, AlertAssumption DEF TypeOK
<1>6. n + Cardinality(Makers') <= published /\ n <= published
  <2>1. h \in Makers /\ Makers' \subseteq Makers \ {h}
    BY <1>1, <1>4 DEF Makers
  <2>2. /\ Cardinality(Makers) \in Nat /\ Cardinality(Makers') \in Nat
        /\ Cardinality(Makers') + 1 <= Cardinality(Makers)
    BY <2>1, MakersRemove
  <2> QED
    BY <1>5, <2>2 DEF AInv, Budget
<1>7. n \in Ids /\ n \notin Rows /\ Rows' = Rows \cup {n} /\ Rows \subseteq Ids
  BY <1>3, <1>5, <1>6 DEF Ids, Rows
<1>8. status[n] = "none" /\ stamped[n] = {} /\ told[n] = {}
  BY <1>1, <1>5, <1>7 DEF AInv, Tidy, TypeOK
<1>9. /\ key \in [Ids -> Keys]
      /\ status \in [Ids -> {"none", "open", "acknowledged", "resolved", "deleted"}]
      /\ found \in [Handlers -> 0 .. size]
  BY <1>1 DEF TypeOK
<1>10. /\ key'[n] = r /\ status'[n] = "open" /\ found'[h] = n
       /\ \A a \in Rows : key'[a] = key[a] /\ status'[a] = status[a]
       /\ \A g \in Handlers \ {h} : found'[g] = found[g]
  BY <1>3, <1>7, <1>9
<1>11. Gone' = Gone
  BY <1>7, <1>10 DEF Gone
<1>12. \A K : Active(K)' = Active(K) \cup (IF r \in K THEN {n} ELSE {})
  BY <1>7, <1>10 DEF Active
<1> HIDE DEF n, r
<1>13. TypeOK'
  <2>1. /\ key' \in [Ids -> Keys]
        /\ status' \in [Ids -> {"none", "open", "acknowledged", "resolved", "deleted"}]
    BY <1>1, <1>3, <1>7, <1>9
  <2>2. found' \in [Handlers -> 0 .. size']
    BY <1>3, <1>5, <1>9 DEF n
  <2>3. \A a \in Ids : status'[a] = "none" <=> a > size'
    BY <1>1, <1>3, <1>5, <1>7, <1>9 DEF TypeOK, n, Ids
  <2>4. size' \in 0 .. published'
    BY <1>3, <1>5, <1>6 DEF n, histVars
  <2> QED
    BY <1>1, <1>3, <1>4, <1>7, <2>1, <2>2, <2>3, <2>4 DEF TypeOK, histVars
<1>14. Budget'
  BY <1>3, <1>6 DEF Budget, histVars
<1>15. Tidy'
  <2>1. \A g \in Handlers : at'[g] \in {"update", "open"} => found'[g] \in Rows'
    BY <1>4, <1>7, <1>10 DEF AInv, Tidy
  <2> QED
    BY <1>2, <1>3, <1>4, <1>7, <2>1 DEF AInv, Tidy
<1>16. Stamps' /\ Debts'
  <2>1. \A x : OpOf(x)' = OpOf(x)
    BY <1>3 DEF OpOf
  <2>2. \A a \in Rows : OwesOpen(a) => OwesOpen(a)'
    BY <1>1, <1>4, <1>10 DEF OwesOpen
  <2>3. \A a : a = n => OwesOpen(a)'
    BY <1>4, <1>10 DEF OwesOpen
  <2>4. \A a : \A o : Owes(a, o) => Owes(a, o)'
    BY <1>3, <2>1 DEF Owes
  <2>5. \A x \in Actors : stage[x][n] = "none"
    BY <1>7 DEF AInv, Tidy
  <2>6. Stamps'
    BY <1>1, <1>3, <1>7, <1>8, <1>11, <2>1, <2>5 DEF Stamps
  <2>7. cut' = cut /\ told' = told /\ stamped' = stamped
    BY <1>3 DEF histVars
  <2>8. Debts'
    <3> SUFFICES ASSUME NEW a \in Rows \cup {n}, a \notin Gone, a \notin cut
                 PROVE  /\ "open" \in told[a] \/ OwesOpen(a)'
                        /\ \A o \in stamped[a] : o \in told[a] \/ Owes(a, o)'
      BY <1>7, <1>11, <2>7 DEF Debts
    <3>1. CASE a = n
      BY <1>8, <2>3, <3>1
    <3>2. CASE a # n
      BY <1>1, <2>2, <2>4, <3>2 DEF Debts
    <3> QED
      BY <3>1, <3>2
  <2> QED
    BY <2>6, <2>8
<1>17. Order'
  <2>1. UNCHANGED <<orderly, last, revived, stage, event>> /\ revived \subseteq Rows
    BY <1>1, <1>3 DEF histVars, TypeOK
  <2>2. \A g \in Handlers : Free(g)' <=> Free(g)
    BY <1>1, <1>4, <2>1 DEF Free
  <2>3. \A g \in Handlers \ {h} : orderly => at[g] = "idle"
    BY <1>1 DEF Order, OneHandler, Free
  <2>4. orderly => event[h] = last
    BY <1>1 DEF Order, OneHandler
  <2>5. OneHandler'
    BY <1>1, <1>4, <2>1, <2>2, <2>3 DEF Order, OneHandler
  <2>6. Single'
    <3> SUFFICES ASSUME orderly, NEW k \in Keys \ LogKeys,
                        NEW a \in Active({k})' \ revived, NEW b \in Active({k})' \ revived
                 PROVE  a = b
      BY <2>1 DEF Single
    <3>1. CASE k = r
      <4>1. Active({k}) \subseteq revived
        BY <1>1, <3>1 DEF Order, NoneToDouble, r
      <4> QED
        BY <1>12, <3>1, <4>1
    <3>2. CASE k # r
      BY <1>1, <1>12, <3>2 DEF Order, Single
    <3> QED
      BY <3>1, <3>2
  <2>7. NoneToDouble'
    BY <1>4, <2>1, <2>3 DEF NoneToDouble
  <2>8. InHand'
    <3> SUFFICES ASSUME orderly, \A g \in Handlers : at'[g] # "clear",
                        NEW a \in Active(Cleared(last))' \ revived
                 PROVE  \E g \in Handlers : stage[g][a] \in {"read", "first", "again"}
      BY <2>1 DEF InHand
    <3>1. r \notin Cleared(last)
      BY <1>1, <2>4, AlertAssumption DEF r
    <3>2. a \in Active(Cleared(last)) \ revived
      BY <1>12, <2>1, <3>1
    <3>3. \A g \in Handlers : at[g] # "clear"
      BY <1>1, <1>4
    <3> QED
      BY <1>1, <3>2, <3>3 DEF Order, InHand
  <2> QED
    BY <2>5, <2>6, <2>7, <2>8 DEF Order
<1> QED
  BY <1>13, <1>14, <1>15, <1>16, <1>17 DEF AInv

\* The handler that created the row pays the debt: ALERT_OPENED is published.
LEMMA TellOpenedAInv ==
  ASSUME AInv, NEW h \in Handlers, TellOpened(h)
  PROVE  AInv'
<1> USE HandlersFinite
<1>1. TypeOK /\ Order /\ Stamps /\ Debts /\ at[h] = "open"
  BY DEF AInv, TellOpened
<1>2. UNCHANGED <<size, key, status, stamped, op, stage, histVars>> /\ End(h)
  BY DEF TellOpened
<1>3. /\ at' \in [Handlers -> Pc] /\ event' \in [Handlers -> Events] /\ found' \in [Handlers -> 0 .. size]
      /\ at'[h] = "idle"
      /\ \A g \in Handlers \ {h} : at'[g] = at[g] /\ event'[g] = event[g] /\ found'[g] = found[g]
  BY <1>1, <1>2, EndMoves
<1>4. stage[h] = Idle /\ found[h] \in Rows
  BY <1>1 DEF AInv, Tidy
<1>5. Rows' = Rows /\ Gone' = Gone /\ \A K : Active(K)' \ revived' = Active(K) \ revived
  BY <1>2 DEF Rows, Gone, Active, histVars
<1>6. Rows \subseteq Ids
  BY <1>1, AlertAssumption DEF TypeOK, Rows, Ids
<1>7. /\ told' \in [Ids -> SUBSET (Ops \cup {"open"})]
      /\ \A a \in Rows \ Gone : told'[a] = IF a = found[h] THEN told[a] \cup {"open"} ELSE told[a]
      /\ \A a \in Ids \ Rows : told'[a] = told[a]
  <2>1. told \in [Ids -> SUBSET (Ops \cup {"open"})]
    BY <1>1 DEF TypeOK
  <2>2. told' = IF found[h] \in Gone THEN told
                ELSE [told EXCEPT ![found[h]] = told[found[h]] \cup {"open"}]
    BY DEF TellOpened, Publication
  <2> QED
    BY <1>4, <1>6, <2>1, <2>2
<1>8. TypeOK'
  BY <1>1, <1>2, <1>3, <1>5, <1>7 DEF TypeOK, histVars
<1>9. Budget'
  <2>1. Makers' \subseteq Makers
    BY <1>3 DEF Makers
  <2>2. size \in Nat /\ published \in Nat /\ size' = size /\ published' = published
    BY <1>1, <1>2 DEF TypeOK, histVars
  <2> QED
    BY <2>1, <2>2, MakersShrink DEF AInv, Budget
<1>10. Tidy'
  <2>1. \A a \in Ids \ Rows' : stamped'[a] = {} /\ told'[a] = {}
    BY <1>2, <1>5, <1>7 DEF AInv, Tidy
  <2> QED
    BY <1>2, <1>3, <1>4, <1>5, <2>1 DEF AInv, Tidy
<1>11. Stamps' /\ Debts'
  <2>1. \A x : OpOf(x)' = OpOf(x)
    BY <1>2 DEF OpOf
  <2>2. \A a \in Rows \ {found[h]} : OwesOpen(a) => OwesOpen(a)'
    BY <1>3 DEF OwesOpen
  <2>3. \A a : \A o : Owes(a, o) => Owes(a, o)'
    BY <1>2, <2>1 DEF Owes
  <2>4. stamped' = stamped /\ stage' = stage /\ cut' = cut
    BY <1>2 DEF histVars
  <2>5. Stamps'
    BY <1>1, <1>5, <1>7, <2>1, <2>4, ZenonT(40) DEF Stamps
  <2>6. Debts'
    <3> SUFFICES ASSUME NEW a \in Rows \ Gone, a \notin cut
                 PROVE  /\ "open" \in told'[a] \/ OwesOpen(a)'
                        /\ \A o \in stamped[a] : o \in told'[a] \/ Owes(a, o)'
      BY <1>5, <2>4 DEF Debts
    <3> QED
      BY <1>1, <1>7, <2>2, <2>3 DEF Debts
  <2> QED
    BY <2>5, <2>6
<1>12. Order'
  <2>1. \A g \in Handlers : Free(g) => Free(g)'
    BY <1>2, <1>3 DEF Free
  <2>2. orderly' = orderly /\ last' = last /\ stage' = stage
    BY <1>2 DEF histVars
  <2>3. OneHandler' /\ Single' /\ NoneToDouble'
    BY <1>1, <1>3, <1>5, <2>1, <2>2, OrderKept
  <2>4. InHand'
    BY <1>1, <1>3, <1>5, <2>2, InHandKept
  <2> QED
    BY <2>3, <2>4 DEF Order
<1> QED
  BY <1>8, <1>9, <1>10, <1>11, <1>12 DEF AInv

\* What ReadRow, RejectRow and TellRow have in common, and WriteRow but for the
\* row: one actor's operation on one row moves on.
LEMMA RowStepMoves ==
  ASSUME AInv, NEW x \in Actors, NEW a \in Ids, stage[x][a] # "none",
         NEW s \in Stage, Stagewise(x, a, s)
  PROVE  /\ TypeOK /\ Order /\ Stamps /\ Debts
         /\ a \in Rows /\ Rows \subseteq Ids
         /\ ~Free(x)
         /\ stage' \in [Actors -> [Ids -> Stage]]
         /\ stage'[x][a] = s
         /\ \A b \in Ids \ {a} : stage'[x][b] = stage[x][b]
         /\ \A y \in Actors \ {x} : stage'[y] = stage[y]
         /\ x \in Handlers => at[x] \in {"idle", "clearing"}
<1>1. TypeOK /\ Order /\ Stamps /\ Debts
  BY DEF AInv
<1>2. stage \in [Actors -> [Ids -> Stage]]
  BY <1>1 DEF TypeOK
<1>3. stage[x] # Idle
  BY <1>2, IdleStage
<1>4. a \in Rows /\ Rows \subseteq Ids
  BY <1>1, AlertAssumption DEF AInv, Tidy, TypeOK, Rows, Ids
<1>5. ~Free(x) /\ (x \in Handlers => at[x] \in {"idle", "clearing"})
  BY <1>3 DEF Free, AInv, Tidy
<1> QED
  BY <1>1, <1>2, <1>4, <1>5, StageChange

LEMMA ReadRowAInv ==
  ASSUME AInv, NEW x \in Actors, NEW a \in Ids, ReadRow(x, a)
  PROVE  AInv'
<1> USE HandlersFinite
<1> DEFINE s == IF status[a] = "deleted" THEN "none"
                ELSE IF OpOf(x) \in stamped[a] THEN "again" ELSE "first"
<1>1. /\ stage[x][a] = "read" /\ Stagewise(x, a, s) /\ s \in Stage
      /\ UNCHANGED <<rowVars, handlerVars, op, histVars>>
  BY DEF ReadRow, Stage
<1>2. UNCHANGED <<size, key, status, stamped, told, at, event, found, op, published, calls, last,
                  orderly, revived, cut>>
  BY <1>1 DEF rowVars, handlerVars, histVars
<1> HIDE DEF s
<1>3. /\ TypeOK /\ Order /\ Stamps /\ Debts
      /\ a \in Rows /\ Rows \subseteq Ids
      /\ ~Free(x)
      /\ stage' \in [Actors -> [Ids -> Stage]]
      /\ stage'[x][a] = s
      /\ \A b \in Ids \ {a} : stage'[x][b] = stage[x][b]
      /\ \A y \in Actors \ {x} : stage'[y] = stage[y]
      /\ x \in Handlers => at[x] \in {"idle", "clearing"}
  BY <1>1, RowStepMoves
<1>4. Rows' = Rows /\ Gone' = Gone /\ \A K : Active(K)' \ revived' = Active(K) \ revived
  BY <1>2 DEF Rows, Gone, Active
<1>5. TypeOK'
  BY <1>2, <1>3, <1>4 DEF TypeOK
<1>6. Budget'
  BY <1>2 DEF AInv, Budget, Makers
<1>7. Tidy'
  BY <1>2, <1>3, <1>4 DEF AInv, Tidy
<1>8. Stamps' /\ Debts'
  <2>1. \A y : OpOf(y)' = OpOf(y)
    BY <1>2 DEF OpOf
  <2>2. \A b \in Rows : OwesOpen(b) => OwesOpen(b)'
    BY <1>2 DEF OwesOpen
  <2>3. \A b \in Rows : \A o : Owes(b, o) => Owes(b, o)'
    BY <1>1, <1>3, <2>1 DEF Owes
  <2>4. ASSUME NEW y \in Actors, NEW b \in Rows \ Gone, stage'[y][b] \in {"again", "tell"}
        PROVE  OpOf(y)' \in stamped[b]
    <3>1. CASE y = x /\ b = a
      BY <1>3, <2>1, <2>4, <3>1 DEF s
    <3>2. CASE y # x \/ b # a
      <4>1. stage[y][b] \in {"again", "tell"}
        BY <1>3, <2>4, <3>2
      <4> QED
        BY <1>3, <2>1, <4>1 DEF Stamps
    <3> QED
      BY <3>1, <3>2
  <2> QED
    BY <1>2, <1>3, <2>2, <2>3, <2>4, DebtsKept
<1>9. Order'
  <2>1. \A g \in Handlers : Free(g) => Free(g)'
    BY <1>2, <1>3 DEF Free
  <2>2. OneHandler' /\ Single' /\ NoneToDouble'
    BY <1>2, <1>3, <1>4, <2>1, OrderKept
  <2>3. ASSUME NEW g \in Handlers, NEW K, NEW b \in Active(K)' \ revived',
               stage[g][b] \in {"read", "first", "again"}
        PROVE  stage'[g][b] \in {"read", "first", "again"}
    <3>1. b \in Rows /\ status[b] # "deleted"
      BY <1>4, <1>2 DEF Active
    <3>2. CASE g = x /\ b = a
      BY <1>3, <3>1, <3>2 DEF s
    <3>3. CASE g # x \/ b # a
      BY <1>3, <2>3, <3>1, <3>3
    <3> QED
      BY <3>2, <3>3
  <2>4. InHand'
    BY <1>2, <1>3, <1>4, <2>3, InHandKept
  <2> QED
    BY <2>2, <2>4 DEF Order
<1> QED
  BY <1>5, <1>6, <1>7, <1>8, <1>9 DEF AInv

\* Whoever wrote a timestamp that was not there owes its publication, and a row
\* only joins the active ones as a revived one.
LEMMA WriteRowAInv ==
  ASSUME AInv, NEW x \in Actors, NEW a \in Ids, WriteRow(x, a)
  PROVE  AInv'
<1> USE HandlersFinite
<1> DEFINE s == IF stage[x][a] = "first" THEN "tell" ELSE "none"
<1>1. /\ stage[x][a] \in {"first", "again"} /\ Stagewise(x, a, s) /\ s \in Stage
      /\ status[a] # "deleted"
      /\ status' = [status EXCEPT ![a] = Result(OpOf(x))]
      /\ stamped' = [stamped EXCEPT ![a] = stamped[a] \cup {OpOf(x)}]
      /\ revived' = IF OpOf(x) = "acknowledge" /\ status[a] = "resolved"
                    THEN revived \cup {a} ELSE revived
  BY DEF WriteRow, Stage
<1>2. UNCHANGED <<size, key, told, at, event, found, op, published, calls, last, orderly, cut>>
  BY DEF WriteRow, handlerVars
<1> HIDE DEF s
<1>3. /\ TypeOK /\ Order /\ Stamps /\ Debts
      /\ a \in Rows /\ Rows \subseteq Ids
      /\ ~Free(x)
      /\ stage' \in [Actors -> [Ids -> Stage]]
      /\ stage'[x][a] = s
      /\ \A b \in Ids \ {a} : stage'[x][b] = stage[x][b]
      /\ \A y \in Actors \ {x} : stage'[y] = stage[y]
      /\ x \in Handlers => at[x] \in {"idle", "clearing"}
  BY <1>1, RowStepMoves
<1>4. /\ OpOf(x) \in Ops
      /\ Result(OpOf(x)) = IF OpOf(x) = "resolve" THEN "resolved" ELSE "acknowledged"
  BY <1>3, OpOfActor DEF Result
<1>5. /\ status \in [Ids -> {"none", "open", "acknowledged", "resolved", "deleted"}]
      /\ stamped \in [Ids -> SUBSET Ops]
      /\ status[a] # "none"
  BY <1>3 DEF TypeOK, Rows
<1>6. /\ status' \in [Ids -> {"none", "open", "acknowledged", "resolved", "deleted"}]
      /\ stamped' \in [Ids -> SUBSET Ops]
      /\ status'[a] = Result(OpOf(x)) /\ stamped'[a] = stamped[a] \cup {OpOf(x)}
      /\ \A b \in Ids \ {a} : status'[b] = status[b] /\ stamped'[b] = stamped[b]
  BY <1>1, <1>4, <1>5
<1>7. Rows' = Rows /\ Gone' = Gone
  BY <1>1, <1>2, <1>3, <1>4, <1>6 DEF Rows, Gone
<1>8. ASSUME NEW K PROVE Active(K)' \ revived' \subseteq Active(K) \ revived
  <2> SUFFICES ASSUME NEW b \in Active(K)', b \notin revived'
               PROVE  b \in Active(K) /\ b \notin revived
    OBVIOUS
  <2>1. b \in Rows /\ key[b] \in K /\ status'[b] \in {"open", "acknowledged"} /\ b \notin revived
    BY <1>1, <1>2, <1>7 DEF Active
  <2>2. CASE b = a
    BY <1>1, <1>4, <1>5, <1>6, <2>1, <2>2 DEF Active, Ops
  <2>3. CASE b # a
    BY <1>3, <1>6, <2>1, <2>3 DEF Active
  <2> QED
    BY <2>2, <2>3
<1>9. TypeOK'
  <2>1. revived' \subseteq Rows'
    BY <1>1, <1>3, <1>7 DEF TypeOK
  <2>2. \A b \in Ids : status'[b] = "none" <=> b > size'
    BY <1>2, <1>3, <1>4, <1>5, <1>6 DEF TypeOK
  <2> QED
    BY <1>2, <1>3, <1>6, <1>7, <2>1, <2>2 DEF TypeOK
<1>10. Budget'
  BY <1>2 DEF AInv, Budget, Makers
<1>11. Tidy'
  BY <1>2, <1>3, <1>6, <1>7 DEF AInv, Tidy
<1>12. Stamps' /\ Debts'
  <2>1. \A y : OpOf(y)' = OpOf(y)
    BY <1>2 DEF OpOf
  <2>2. \A b \in Rows : OwesOpen(b) => OwesOpen(b)'
    BY <1>2 DEF OwesOpen
  <2>3. \A b \in Rows : \A o : Owes(b, o) => Owes(b, o)'
    BY <1>1, <1>3, <2>1 DEF Owes
  <2>4. \A b \in Rows : stamped[b] \subseteq stamped'[b]
    BY <1>3, <1>6
  <2>5. ASSUME NEW y \in Actors, NEW b \in Rows \ Gone, stage'[y][b] \in {"again", "tell"}
        PROVE  OpOf(y)' \in stamped'[b]
    <3>1. CASE y = x /\ b = a
      BY <1>6, <2>1, <3>1
    <3>2. CASE y # x \/ b # a
      <4>1. stage[y][b] \in {"again", "tell"}
        BY <1>3, <2>5, <3>2
      <4> QED
        BY <1>3, <2>1, <2>4, <4>1 DEF Stamps
    <3> QED
      BY <3>1, <3>2
  <2>6. Stamps'
    BY <1>2, <1>3, <1>7, <2>4, <2>5 DEF Stamps
  <2>7. ASSUME NEW b \in Rows \ Gone, b \notin cut, NEW o \in stamped'[b]
        PROVE  o \in told[b] \/ Owes(b, o)'
    <3>1. CASE o \in stamped[b]
      BY <1>3, <2>3, <2>7, <3>1 DEF Debts
    <3>2. CASE o \notin stamped[b]
      <4>1. b = a /\ o = OpOf(x)
        BY <1>3, <1>6, <2>7, <3>2
      <4>2. stage[x][a] = "first"
        BY <1>1, <1>3, <2>7, <3>2, <4>1 DEF Stamps
      <4> QED
        BY <1>3, <2>1, <4>1, <4>2 DEF Owes, s
    <3> QED
      BY <3>1, <3>2
  <2>8. Debts'
    BY <1>2, <1>3, <1>7, <2>2, <2>7 DEF Debts
  <2> QED
    BY <2>6, <2>8
<1>13. Order'
  <2>1. \A g \in Handlers : Free(g) => Free(g)'
    BY <1>2, <1>3 DEF Free
  <2>2. OneHandler' /\ Single' /\ NoneToDouble'
    BY <1>2, <1>3, <1>8, <2>1, OrderKept
  <2>3. ASSUME NEW g \in Handlers, NEW K, NEW b \in Active(K)' \ revived',
               stage[g][b] \in {"read", "first", "again"}
        PROVE  stage'[g][b] \in {"read", "first", "again"}
    <3>1. b \in Rows /\ status'[b] \in {"open", "acknowledged"}
      BY <1>7 DEF Active
    <3>2. ~(g = x /\ b = a)
      BY <1>4, <1>6, <3>1, OpOfHandler
    <3> QED
      BY <1>3, <2>3, <3>1, <3>2
  <2>4. InHand'
    BY <1>2, <1>3, <1>8, <2>3, InHandKept
  <2> QED
    BY <2>2, <2>4 DEF Order
<1> QED
  BY <1>9, <1>10, <1>11, <1>12, <1>13 DEF AInv

LEMMA RejectRowAInv ==
  ASSUME AInv, NEW x \in Actors, NEW a \in Ids, RejectRow(x, a)
  PROVE  AInv'
<1> USE HandlersFinite
<1>1. /\ stage[x][a] \in {"first", "again"} /\ Stagewise(x, a, "none") /\ "none" \in Stage
      /\ status[a] = "deleted"
      /\ UNCHANGED <<size, key, status, stamped, told, op, published, calls, last, orderly, revived, cut>>
  BY DEF RejectRow, Stage, rowVars, histVars
<1>2. /\ TypeOK /\ Order /\ Stamps /\ Debts
      /\ a \in Rows /\ Rows \subseteq Ids
      /\ ~Free(x)
      /\ stage' \in [Actors -> [Ids -> Stage]]
      /\ stage'[x][a] = "none"
      /\ \A b \in Ids \ {a} : stage'[x][b] = stage[x][b]
      /\ \A y \in Actors \ {x} : stage'[y] = stage[y]
      /\ x \in Handlers => at[x] \in {"idle", "clearing"}
  BY <1>1, RowStepMoves
<1>3. /\ at' \in [Handlers -> Pc] /\ event' \in [Handlers -> Events] /\ found' \in [Handlers -> 0 .. size]
      /\ x \in Handlers => at'[x] = "idle"
      /\ \A g \in Handlers \ {x} : at'[g] = at[g] /\ event'[g] = event[g] /\ found'[g] = found[g]
  <2>1. CASE x \in Handlers
    BY <1>2, <2>1, EndMoves DEF RejectRow
  <2>2. CASE x \notin Handlers
    BY <1>2, <2>2 DEF RejectRow, handlerVars, TypeOK
  <2> QED
    BY <2>1, <2>2
<1>4. Rows' = Rows /\ Gone' = Gone /\ \A K : Active(K)' \ revived' = Active(K) \ revived
  BY <1>1 DEF Rows, Gone, Active
<1>5. TypeOK'
  BY <1>1, <1>2, <1>3, <1>4 DEF TypeOK
<1>6. Budget'
  <2>1. Makers' \subseteq Makers
    BY <1>3 DEF Makers
  <2>2. size \in Nat /\ published \in Nat /\ size' = size /\ published' = published
    BY <1>1, <1>2 DEF TypeOK
  <2> QED
    BY <2>1, <2>2, MakersShrink DEF AInv, Budget
<1>7. Tidy'
  <2>1. \A y \in Actors : \A b \in Ids : stage'[y][b] # "none" => b \in Rows'
    BY <1>2, <1>4 DEF AInv, Tidy
  <2>2. \A g \in Handlers : at'[g] \in {"update", "open"} => found'[g] \in Rows'
    BY <1>2, <1>3, <1>4 DEF AInv, Tidy
  <2>3. \A g \in Handlers : stage'[g] # Idle => at'[g] \in {"idle", "clearing"}
    BY <1>2, <1>3 DEF AInv, Tidy
  <2> QED
    BY <1>1, <1>4, <2>1, <2>2, <2>3 DEF AInv, Tidy
<1>8. Stamps' /\ Debts'
  <2>1. \A y : OpOf(y)' = OpOf(y)
    BY <1>1 DEF OpOf
  <2>2. \A b \in Rows : OwesOpen(b) => OwesOpen(b)'
    BY <1>2, <1>3 DEF OwesOpen
  <2>3. \A b \in Rows : \A o : Owes(b, o) => Owes(b, o)'
    BY <1>1, <1>2, <2>1 DEF Owes
  <2>4. \A y \in Actors : \A b \in Rows \ Gone :
          stage'[y][b] \in {"again", "tell"} => OpOf(y)' \in stamped[b]
    BY <1>2, <2>1 DEF Stamps
  <2> QED
    BY <1>1, <1>2, <2>2, <2>3, <2>4, DebtsKept
<1>9. Order'
  <2>1. \A g \in Handlers : Free(g) => Free(g)'
    BY <1>2, <1>3 DEF Free
  <2>2. OneHandler' /\ Single' /\ NoneToDouble'
    BY <1>1, <1>2, <1>3, <1>4, <2>1, OrderKept
  <2>3. ASSUME NEW g \in Handlers, NEW K, NEW b \in Active(K)' \ revived',
               stage[g][b] \in {"read", "first", "again"}
        PROVE  stage'[g][b] \in {"read", "first", "again"}
    <3>1. b \in Rows /\ b # a
      BY <1>1, <1>4 DEF Active
    <3> QED
      BY <1>2, <2>3, <3>1
  <2>4. InHand'
    BY <1>1, <1>2, <1>3, <1>4, <2>3, InHandKept
  <2> QED
    BY <2>2, <2>4 DEF Order
<1> QED
  BY <1>5, <1>6, <1>7, <1>8, <1>9 DEF AInv

LEMMA TellRowAInv ==
  ASSUME AInv, NEW x \in Actors, NEW a \in Ids, TellRow(x, a)
  PROVE  AInv'
<1> USE HandlersFinite
<1>1. /\ stage[x][a] = "tell" /\ Stagewise(x, a, "none") /\ "none" \in Stage
      /\ Publication(a, OpOf(x))
      /\ UNCHANGED <<size, key, status, stamped, at, event, found, op, published, calls, last,
                     orderly, revived, cut>>
  BY DEF TellRow, Stage, handlerVars, histVars
<1>2. /\ TypeOK /\ Order /\ Stamps /\ Debts
      /\ a \in Rows /\ Rows \subseteq Ids
      /\ ~Free(x)
      /\ stage' \in [Actors -> [Ids -> Stage]]
      /\ stage'[x][a] = "none"
      /\ \A b \in Ids \ {a} : stage'[x][b] = stage[x][b]
      /\ \A y \in Actors \ {x} : stage'[y] = stage[y]
      /\ x \in Handlers => at[x] \in {"idle", "clearing"}
  BY <1>1, RowStepMoves
<1>3. OpOf(x) \in Ops
  BY <1>2, OpOfActor
<1>4. Rows' = Rows /\ Gone' = Gone /\ \A K : Active(K)' \ revived' = Active(K) \ revived
  BY <1>1 DEF Rows, Gone, Active
<1>5. /\ told' \in [Ids -> SUBSET (Ops \cup {"open"})]
      /\ \A b \in Rows \ Gone : told'[b] = IF b = a THEN told[b] \cup {OpOf(x)} ELSE told[b]
      /\ \A b \in Ids \ Rows : told'[b] = told[b]
  <2>1. told \in [Ids -> SUBSET (Ops \cup {"open"})]
    BY <1>2 DEF TypeOK
  <2>2. told' = IF a \in Gone THEN told ELSE [told EXCEPT ![a] = told[a] \cup {OpOf(x)}]
    BY <1>1 DEF Publication
  <2> QED
    BY <1>2, <1>3, <2>1, <2>2
<1>6. TypeOK'
  BY <1>1, <1>2, <1>4, <1>5 DEF TypeOK
<1>7. Budget'
  BY <1>1 DEF AInv, Budget, Makers
<1>8. Tidy'
  BY <1>1, <1>2, <1>4, <1>5 DEF AInv, Tidy
<1>9. Stamps' /\ Debts'
  <2>1. \A y : OpOf(y)' = OpOf(y)
    BY <1>1 DEF OpOf
  <2>2. \A b \in Rows : OwesOpen(b) => OwesOpen(b)'
    BY <1>1 DEF OwesOpen
  <2>3. \A b \in Rows : \A o : Owes(b, o) => Owes(b, o)' \/ (b = a /\ o = OpOf(x))
    BY <1>1, <1>2, <2>1 DEF Owes
  <2>4. \A y \in Actors : \A b \in Rows \ Gone :
          stage'[y][b] \in {"again", "tell"} => OpOf(y)' \in stamped[b]
    BY <1>2, <2>1 DEF Stamps
  <2>5. a \notin Gone => OpOf(x) \in stamped[a]
    BY <1>1, <1>2 DEF Stamps
  <2>6. Stamps'
    <3>1. \A b \in Rows \ Gone : told'[b] \subseteq stamped[b] \cup {"open"}
      <4>1. ASSUME NEW b \in Rows \ Gone PROVE told[b] \subseteq stamped[b] \cup {"open"}
        BY <1>2 DEF Stamps
      <4>2. ASSUME NEW b \in Rows \ Gone, b = a PROVE told'[b] \subseteq stamped[b] \cup {"open"}
        <5>1. told'[b] = told[b] \cup {OpOf(x)} /\ OpOf(x) \in stamped[b]
          BY <1>5, <2>5, <4>2
        <5> QED
          BY <4>1, <5>1
      <4>3. ASSUME NEW b \in Rows \ Gone, b # a PROVE told'[b] \subseteq stamped[b] \cup {"open"}
        BY <1>5, <4>1, <4>3
      <4> QED
        BY <4>2, <4>3
    <3> QED
      BY <1>1, <1>4, <2>4, <3>1 DEF Stamps
  <2>7. Debts'
    <3> SUFFICES ASSUME NEW b \in Rows \ Gone, b \notin cut
                 PROVE  /\ "open" \in told'[b] \/ OwesOpen(b)'
                        /\ \A o \in stamped[b] : o \in told'[b] \/ Owes(b, o)'
      BY <1>1, <1>4 DEF Debts
    <3> QED
      BY <1>2, <1>5, <2>2, <2>3 DEF Debts
  <2> QED
    BY <2>6, <2>7
<1>10. Order'
  <2>1. \A g \in Handlers : Free(g) => Free(g)'
    BY <1>1, <1>2 DEF Free
  <2>2. OneHandler' /\ Single' /\ NoneToDouble'
    BY <1>1, <1>2, <1>4, <2>1, OrderKept
  <2>3. ASSUME NEW g \in Handlers, NEW K, NEW b \in Active(K)' \ revived',
               stage[g][b] \in {"read", "first", "again"}
        PROVE  stage'[g][b] \in {"read", "first", "again"}
    <3>1. b \in Ids
      BY <1>2, <1>4 DEF Active
    <3>2. ~(g = x /\ b = a)
      BY <1>1, <2>3
    <3> QED
      BY <1>2, <2>3, <3>1, <3>2
  <2>4. InHand'
    BY <1>1, <1>2, <1>4, <2>3, InHandKept
  <2> QED
    BY <2>2, <2>4 DEF Order
<1> QED
  BY <1>6, <1>7, <1>8, <1>9, <1>10 DEF AInv

LEMMA RequestAInv ==
  ASSUME AInv, NEW u \in Users, NEW o \in Ops, NEW S \in SUBSET Rows, Request(u, o, S)
  PROVE  AInv'
<1> USE HandlersFinite
<1>1. /\ Free(u) /\ op' = [op EXCEPT ![u] = o] /\ Start(u, S) /\ calls < MaxCalls /\ calls' = calls + 1
      /\ UNCHANGED <<size, key, status, stamped, told, at, event, found, published, last, orderly,
                     revived, cut>>
  BY DEF Request, Call, rowVars, handlerVars
<1>2. /\ TypeOK /\ Order /\ Stamps /\ Debts
      /\ u \in Actors /\ u \notin Handlers
      /\ Rows \subseteq Ids
  BY AlertAssumption DEF AInv, Actors, Handlers, TypeOK, Rows, Ids
<1>3. /\ stage' \in [Actors -> [Ids -> Stage]]
      /\ \A b \in Ids : stage'[u][b] = IF b \in S THEN "read" ELSE "none"
      /\ \A y \in Actors \ {u} : stage'[y] = stage[y]
  BY <1>1, <1>2, StageStart DEF TypeOK
<1>4. \A b \in Ids : stage[u][b] = "none"
  BY <1>1, <1>2, IdleStage DEF Free, TypeOK
<1>5. Rows' = Rows /\ Gone' = Gone /\ \A K : Active(K)' \ revived' = Active(K) \ revived
  BY <1>1 DEF Rows, Gone, Active
<1>6. TypeOK'
  <2>1. op' \in [Users -> Ops]
    BY <1>1, <1>2 DEF TypeOK
  <2>2. calls' \in 0 .. MaxCalls
    BY <1>1, <1>2, AlertAssumption DEF TypeOK
  <2> QED
    BY <1>1, <1>2, <1>3, <1>5, <2>1, <2>2 DEF TypeOK
<1>7. Budget'
  BY <1>1 DEF AInv, Budget, Makers
<1>8. Tidy'
  BY <1>1, <1>2, <1>3, <1>5 DEF AInv, Tidy
<1>9. Stamps' /\ Debts'
  <2>1. \A y \in Actors \ {u} : OpOf(y)' = OpOf(y)
    BY <1>1, <1>2 DEF OpOf, TypeOK
  <2>2. \A b \in Rows : OwesOpen(b) => OwesOpen(b)'
    BY <1>1 DEF OwesOpen
  <2>3. \A b \in Rows : \A p : Owes(b, p) => Owes(b, p)'
    BY <1>2, <1>3, <1>4, <2>1 DEF Owes
  <2>4. \A y \in Actors : \A b \in Rows \ Gone :
          stage'[y][b] \in {"again", "tell"} => OpOf(y)' \in stamped[b]
    BY <1>2, <1>3, <2>1 DEF Stamps
  <2> QED
    BY <1>1, <1>2, <2>2, <2>3, <2>4, DebtsKept
<1>10. Order'
  <2>1. \A g \in Handlers : stage'[g] = stage[g] /\ (Free(g) => Free(g)')
    BY <1>1, <1>2, <1>3 DEF Free
  <2>2. OneHandler' /\ Single' /\ NoneToDouble'
    BY <1>1, <1>2, <1>5, <2>1, OrderKept
  <2>3. InHand'
    BY <1>1, <1>2, <1>5, <2>1, InHandKept
  <2> QED
    BY <2>2, <2>3 DEF Order
<1> QED
  BY <1>6, <1>7, <1>8, <1>9, <1>10 DEF AInv

LEMMA DeleteAInv ==
  ASSUME AInv, NEW S \in SUBSET Rows, Delete(S)
  PROVE  AInv'
<1> USE HandlersFinite
<1>1. /\ status' = [a \in Ids |-> IF a \in S THEN "deleted" ELSE status[a]]
      /\ key' = [a \in Ids |-> IF a \in S THEN NoKey ELSE key[a]]
      /\ stamped' = [a \in Ids |-> IF a \in S THEN {} ELSE stamped[a]]
      /\ told' = [a \in Ids |-> IF a \in S THEN {} ELSE told[a]]
      /\ revived' = revived \ S
      /\ cut' = cut \ S
      /\ calls < MaxCalls /\ calls' = calls + 1
      /\ UNCHANGED <<size, at, event, found, op, stage, published, last, orderly>>
  BY DEF Delete, Call, handlerVars
<1>2. /\ TypeOK /\ Order /\ Stamps /\ Debts
      /\ Rows \subseteq Ids /\ Rows' = Rows
  BY <1>1, AlertAssumption DEF AInv, TypeOK, Rows, Ids
<1>3. Gone' = Gone \cup S
  BY <1>1, <1>2 DEF Gone
<1>4. ASSUME NEW K PROVE Active(K)' \ revived' \subseteq Active(K) \ revived
  BY <1>1, <1>2 DEF Active
<1>5. TypeOK'
  <2>1. key' \in [Ids -> Keys]
    BY <1>1, <1>2, NoKeyIn DEF TypeOK
  <2>2. /\ status' \in [Ids -> {"none", "open", "acknowledged", "resolved", "deleted"}]
        /\ stamped' \in [Ids -> SUBSET Ops] /\ told' \in [Ids -> SUBSET (Ops \cup {"open"})]
    BY <1>1, <1>2 DEF TypeOK
  <2>3. \A a \in Ids : status'[a] = "none" <=> a > size'
    <3>1. \A a \in Ids : status[a] = "none" <=> a > size
      BY <1>2 DEF TypeOK
    <3>2. \A a \in S : a <= size
      BY <1>2 DEF TypeOK, Rows
    <3>3. \A a \in Ids : status'[a] = IF a \in S THEN "deleted" ELSE status[a]
      BY <1>1
    <3>4. size \in Nat /\ \A a \in Ids : a \in Nat
      BY <1>2 DEF TypeOK, Ids
    <3> QED
      BY <1>1, <3>1, <3>2, <3>3, <3>4
  <2>4. calls' \in 0 .. MaxCalls
    BY <1>1, <1>2, AlertAssumption DEF TypeOK
  <2> QED
    BY <1>1, <1>2, <2>1, <2>2, <2>3, <2>4 DEF TypeOK
<1>6. Budget'
  BY <1>1 DEF AInv, Budget, Makers
<1>7. Tidy'
  BY <1>1, <1>2 DEF AInv, Tidy
<1>8. \A x : OpOf(x)' = OpOf(x)
  BY <1>1 DEF OpOf
<1>9. Stamps'
  BY <1>1, <1>2, <1>3, <1>8 DEF Stamps
<1>10. Debts'
  <2>1. \A a \in Rows : OwesOpen(a) => OwesOpen(a)'
    BY <1>1 DEF OwesOpen
  <2>2. \A a \in Rows : \A o : Owes(a, o) => Owes(a, o)'
    BY <1>1, <1>8 DEF Owes
  <2> SUFFICES ASSUME NEW a \in (Rows \ Gone) \ S, a \notin cut
               PROVE  /\ "open" \in told'[a] \/ OwesOpen(a)'
                      /\ \A o \in stamped'[a] : o \in told'[a] \/ Owes(a, o)'
    BY <1>1, <1>2, <1>3 DEF Debts
  <2> QED
    BY <1>1, <1>2, <2>1, <2>2 DEF Debts
<1>11. Order'
  <2>1. \A g \in Handlers : Free(g) => Free(g)'
    BY <1>1 DEF Free
  <2>2. OneHandler' /\ Single' /\ NoneToDouble'
    BY <1>1, <1>2, <1>4, <2>1, OrderKept
  <2>3. InHand'
    BY <1>1, <1>2, <1>4, InHandKept
  <2> QED
    BY <2>2, <2>3 DEF Order
<1> QED
  BY <1>5, <1>6, <1>7, <1>9, <1>10, <1>11 DEF AInv

\* A crash settles every debt by writing it off: the rows it hit are the cut ones.
LEMMA CrashAInv ==
  ASSUME AInv, Crash
  PROVE  AInv'
<1> USE HandlersFinite
<1>1. /\ cut' = cut \cup {a \in Rows \ Gone : Busy(a)}
      /\ orderly' = (orderly /\ \A h \in Handlers : Free(h))
      /\ stage' = NoOps
      /\ at' = [h \in Handlers |-> "idle"]
      /\ event' = [h \in Handlers |-> NoEvent]
      /\ found' = [h \in Handlers |-> 0]
      /\ op' = [u \in Users |-> "resolve"]
      /\ calls < MaxCalls /\ calls' = calls + 1
      /\ UNCHANGED <<size, key, status, stamped, told, published, last, revived>>
  BY DEF Crash, Call, rowVars
<1>2. /\ TypeOK /\ Order /\ Stamps /\ Debts
      /\ Rows \subseteq Ids
  BY AlertAssumption DEF AInv, TypeOK, Rows, Ids
<1>3. Rows' = Rows /\ Gone' = Gone /\ \A K : Active(K)' \ revived' = Active(K) \ revived
  BY <1>1 DEF Rows, Gone, Active
<1>4. /\ \A x \in Actors : stage'[x] = Idle /\ \A a \in Ids : stage'[x][a] = "none"
      /\ stage' \in [Actors -> [Ids -> Stage]]
  BY <1>1 DEF NoOps, Idle, Stage
<1>5. \A h \in Handlers : at'[h] = "idle"
  BY <1>1
<1>6. TypeOK'
  <2>1. at' \in [Handlers -> Pc] /\ event' \in [Handlers -> Events] /\ op' \in [Users -> Ops]
    BY <1>1, NoEventIn DEF Pc, Ops
  <2>2. found' \in [Handlers -> 0 .. size']
    BY <1>1, <1>2 DEF TypeOK
  <2>3. calls' \in 0 .. MaxCalls
    BY <1>1, <1>2, AlertAssumption DEF TypeOK
  <2>4. cut' \subseteq Rows' /\ orderly' \in BOOLEAN
    BY <1>1, <1>2, <1>3 DEF TypeOK
  <2> QED
    BY <1>1, <1>2, <1>3, <1>4, <2>1, <2>2, <2>3, <2>4 DEF TypeOK
<1>7. Budget'
  <2>1. Makers' \subseteq Makers
    BY <1>5 DEF Makers
  <2>2. size \in Nat /\ published \in Nat /\ size' = size /\ published' = published
    BY <1>1, <1>2 DEF TypeOK
  <2> QED
    BY <2>1, <2>2, MakersShrink DEF AInv, Budget
<1>8. Tidy'
  BY <1>1, <1>3, <1>4, <1>5 DEF AInv, Tidy
<1>9. Stamps'
  BY <1>1, <1>2, <1>3, <1>4 DEF Stamps
<1>10. Debts'
  <2> SUFFICES ASSUME NEW a \in Rows \ Gone, a \notin cut, ~Busy(a)
               PROVE  /\ "open" \in told[a]
                      /\ \A o \in stamped[a] : o \in told[a]
    BY <1>1, <1>3 DEF Debts
  <2>1. ~OwesOpen(a) /\ \A o : ~Owes(a, o)
    BY DEF Busy, OwesOpen, Owes
  <2> QED
    BY <1>2, <2>1 DEF Debts
<1>11. Order'
  <2>1. OneHandler' /\ NoneToDouble'
    BY <1>4, <1>5 DEF OneHandler, NoneToDouble, Free
  <2>2. Single'
    BY <1>1, <1>2, <1>3 DEF Order, Single
  <2>3. InHand'
    <3> SUFFICES ASSUME orderly, \A h \in Handlers : Free(h), NEW a \in Active(Cleared(last)) \ revived
                 PROVE  FALSE
      BY <1>1, <1>3 DEF InHand
    <3>1. PICK h \in Handlers : stage[h][a] \in {"read", "first", "again"}
      BY <1>2 DEF Order, InHand, Free
    <3>2. a \in Ids /\ stage[h] = Idle
      BY <1>2 DEF Active, Free
    <3> QED
      BY <3>1, <3>2 DEF Idle
  <2> QED
    BY <2>1, <2>2, <2>3 DEF Order
<1> QED
  BY <1>6, <1>7, <1>8, <1>9, <1>10, <1>11 DEF AInv

LEMMA StutterAInv == AInv /\ UNCHANGED vars => AInv'
<1> SUFFICES ASSUME AInv, UNCHANGED vars PROVE AInv'
  OBVIOUS
<1>1. UNCHANGED <<size, key, status, stamped, told, at, event, found, op, stage, published, calls,
                  last, orderly, revived, cut>>
  BY DEF vars, rowVars, handlerVars, histVars
<1>2. TypeOK'
  BY <1>1 DEF AInv, TypeOK, Rows
<1>3. Budget' /\ Tidy'
  BY <1>1 DEF AInv, Budget, Makers, Tidy, Rows
<1>4. Stamps' /\ Debts'
  BY <1>1 DEF AInv, Stamps, Debts, Rows, Gone, OwesOpen, Owes, OpOf
<1>5. Order'
  BY <1>1 DEF AInv, Order, OneHandler, Single, NoneToDouble, InHand, Active, Rows, Free
<1> QED
  BY <1>2, <1>3, <1>4, <1>5 DEF AInv

LEMMA NextAInv == AInv /\ [Next]_vars => AInv'
<1> SUFFICES ASSUME AInv, [Next]_vars PROVE AInv'
  OBVIOUS
<1>1. ASSUME NEW h \in Handlers, NEW e \in Events, Publish(h, e) PROVE AInv'
  BY <1>1, PublishAInv
<1>2. ASSUME NEW h \in Handlers, HandlerStep(h) PROVE AInv'
  BY <1>2, FindClearedAInv, AllClearedAInv, ReadConfigAInv, FindActiveAInv, UpdateRowAInv,
     CreateRowAInv, TellOpenedAInv DEF HandlerStep
<1>3. ASSUME NEW x \in Actors, NEW a \in Ids, RowStep(x, a) PROVE AInv'
  BY <1>3, ReadRowAInv, WriteRowAInv, RejectRowAInv, TellRowAInv DEF RowStep
<1>4. ASSUME NEW u \in Users, NEW o \in Ops, NEW S \in SUBSET Rows, Request(u, o, S) PROVE AInv'
  BY <1>4, RequestAInv
<1>5. ASSUME NEW a \in Rows, Delete({a}) PROVE AInv'
  BY <1>5, DeleteAInv
<1>6. CASE Delete(Rows \ Gone)
  BY <1>6, DeleteAInv
<1>7. CASE Crash
  BY <1>7, CrashAInv
<1>8. CASE UNCHANGED vars
  BY <1>8, StutterAInv
<1> QED
  BY <1>1, <1>2, <1>3, <1>4, <1>5, <1>6, <1>7, <1>8 DEF Next

\* Every reachable state of the alerts satisfies the inductive invariant.
THEOREM AInvariance == Spec => []AInv
<1> QED
  BY InitAInv, NextAInv, PTL DEF Spec

-----------------------------------------------------------------------------
\* The state of the alerts is always of its type: in particular there are never
\* more rows than events published.
THEOREM AlertTypeCorrect == Spec => []TypeOK
<1>1. AInv => TypeOK
  BY DEF AInv
<1> QED
  BY <1>1, AInvariance, PTL

\* When nobody works on an alert no crash cut, every timestamp it bears, and its
\* opening, has been published, whatever operations interleaved on it.
THEOREM AlertsAnnounced == Spec => []Announced
<1>1. AInv => Announced
  <2> SUFFICES ASSUME AInv, NEW a \in Rows \ Gone, ~Busy(a), a \notin cut
               PROVE  told[a] = stamped[a] \cup {"open"}
    BY DEF Announced
  <2>1. ~OwesOpen(a) /\ \A o : ~Owes(a, o)
    BY DEF Busy, OwesOpen, Owes
  <2>2. told[a] \subseteq stamped[a] \cup {"open"}
    BY DEF AInv, Stamps
  <2>3. "open" \in told[a] /\ \A o \in stamped[a] : o \in told[a]
    BY <2>1 DEF AInv, Debts
  <2> QED
    BY <2>2, <2>3
<1> QED
  BY <1>1, AInvariance, PTL

\* A set any two of whose members are equal has one at most.
LEMMA AtMostOne ==
  ASSUME NEW S, \A a, b \in S : a = b
  PROVE  Cardinality(S) <= 1
<1>1. CASE S = {}
  BY <1>1, FS_EmptySet
<1>2. CASE S # {}
  <2>1. PICK a \in S : TRUE
    BY <1>2
  <2>2. S = {a}
    OBVIOUS
  <2> QED
    BY <2>2, FS_Singleton
<1> QED
  BY <1>1, <1>2

\* A rule outside the log rules never has two active alerts, and what an event
\* clears is cleared, as long as handlers did not overlap and none was cut.
THEOREM AlertsNotDoubled == Spec => []OneActivePerRule
<1>1. AInv => OneActivePerRule
  <2> SUFFICES ASSUME AInv, orderly PROVE OneActivePerRule
    BY DEF OneActivePerRule
  <2>1. ASSUME NEW k \in Keys \ LogKeys PROVE Cardinality(Active({k}) \ revived) <= 1
    <3> DEFINE S == Active({k}) \ revived
    <3>1. \A a, b \in S : a = b
      BY DEF AInv, Order, Single
    <3> HIDE DEF S
    <3>2. Cardinality(S) <= 1
      BY <3>1, AtMostOne
    <3> QED
      BY <3>2 DEF S
  <2>2. ASSUME \A h \in Handlers : Free(h) PROVE Active(Cleared(last)) \subseteq revived
    <3> SUFFICES ASSUME NEW a \in Active(Cleared(last)) \ revived PROVE FALSE
      OBVIOUS
    <3>1. \A h \in Handlers : at[h] = "idle" /\ stage[h] = Idle
      BY <2>2 DEF Free
    <3>2. PICK h \in Handlers : stage[h][a] \in {"read", "first", "again"}
      BY <3>1 DEF AInv, Order, InHand
    <3>3. a \in Ids
      BY AlertAssumption DEF AInv, TypeOK, Active, Rows, Ids
    <3> QED
      BY <3>1, <3>2, <3>3 DEF Idle
  <2> QED
    BY <2>1, <2>2 DEF OneActivePerRule
<1> QED
  BY <1>1, AInvariance, PTL

\* No step reopens an alert, and only an acknowledgement revives a resolved one:
\* what a step may do to a row's status.
LEMMA StatusStep ==
  ASSUME AInv, [Next]_vars, NEW a \in Rows
  PROVE  /\ status[a] # "open" => status'[a] # "open"
         /\ status[a] = "resolved" => status'[a] \in {"resolved", "deleted"} \/ a \in revived'
         /\ status[a] = "deleted" => status'[a] = "deleted"
<1> DEFINE P == /\ status[a] # "open" => status'[a] # "open"
                /\ status[a] = "resolved" => status'[a] \in {"resolved", "deleted"} \/ a \in revived'
                /\ status[a] = "deleted" => status'[a] = "deleted"
<1>1. TypeOK /\ a \in Ids /\ a <= size /\ size \in Nat
  BY AlertAssumption DEF AInv, TypeOK, Rows, Ids
<1>2. CASE status' = status
  BY <1>2
<1>3. ASSUME NEW h \in Handlers, CreateRow(h) PROVE P
  BY <1>1, <1>3 DEF CreateRow, TypeOK
<1>4. ASSUME NEW x \in Actors, NEW b \in Ids, WriteRow(x, b) PROVE P
  <2>1. /\ status' = [status EXCEPT ![b] = Result(OpOf(x))]
        /\ status[b] # "deleted"
        /\ revived' = IF OpOf(x) = "acknowledge" /\ status[b] = "resolved"
                      THEN revived \cup {b} ELSE revived
    BY <1>4 DEF WriteRow
  <2>2. OpOf(x) \in Ops
    BY <1>1, OpOfActor
  <2>3. \/ OpOf(x) = "resolve" /\ Result(OpOf(x)) = "resolved"
        \/ OpOf(x) = "acknowledge" /\ Result(OpOf(x)) = "acknowledged"
    BY <2>2 DEF Result, Ops
  <2> QED
    BY <1>1, <2>1, <2>3 DEF TypeOK
<1>5. ASSUME NEW S, Delete(S) PROVE P
  BY <1>1, <1>5 DEF Delete
<1>6. ASSUME NEW h \in Handlers, NEW e \in Events, Publish(h, e) PROVE status' = status
  BY <1>6 DEF Publish, rowVars
<1>7. ASSUME NEW h \in Handlers, HandlerStep(h) PROVE status' = status \/ CreateRow(h)
  BY <1>7 DEF HandlerStep, FindCleared, AllCleared, ReadConfig, FindActive, UpdateRow, TellOpened, rowVars
<1>8. ASSUME NEW x \in Actors, NEW b \in Ids, RowStep(x, b) PROVE status' = status \/ WriteRow(x, b)
  BY <1>8 DEF RowStep, ReadRow, RejectRow, TellRow, rowVars
<1>9. ASSUME NEW u \in Users, NEW o \in Ops, NEW S \in SUBSET Rows, Request(u, o, S) PROVE status' = status
  BY <1>9 DEF Request, rowVars
<1>10. Crash \/ UNCHANGED vars => status' = status
  BY DEF Crash, vars, rowVars
<1> QED
  BY <1>2, <1>3, <1>4, <1>5, <1>6, <1>7, <1>8, <1>9, <1>10 DEF Next

\* No operation, however stale the row it read, takes an alert back to open.
THEOREM AlertsNotReopened == Spec => NeverReopened
<1> DEFINE A == \A a \in Rows :
       /\ status[a] # "open" => status'[a] # "open"
       /\ status[a] = "resolved" => status'[a] \in {"resolved", "deleted"} \/ a \in revived'
       /\ status[a] = "deleted" => status'[a] = "deleted"
<1>1. AInv /\ [Next]_vars => [A]_vars
  BY StatusStep
<1> QED
  BY <1>1, AInvariance, PTL DEF Spec, NeverReopened
=============================================================================
