--------------------------- MODULE AlertLifecycle ---------------------------
(***************************************************************************)
(* The alerts of one device (modules/alert-lifecycle): the bridge that     *)
(* turns device events into alert rows, and the routes by which users      *)
(* acknowledge, resolve and delete them.                                   *)
(*                                                                         *)
(* The application event bus calls the bridge without awaiting it, so      *)
(* handlers of successive events overlap.  Each database call is one step  *)
(* and every other actor may run between two of them.  Rows survive a      *)
(* crash; handlers and requests under way do not.  A row is named by its   *)
(* place in the order of creation (createdAt).                             *)
(***************************************************************************)
EXTENDS Naturals, FiniteSets

CONSTANTS
  Events,       \* event types published for the device
  Keys,         \* alert rules
  Raised(_),    \* event -> ruleKeyForEventType
  Cleared(_),   \* event -> alertRuleKeysToResolve
  LogKeys,      \* the rules whose key starts with `log.'
  MaxHandlers,  \* bridge activations that may be live together
  Users,        \* requests that may be live together
  MaxEvents,    \* bound: events published; each creates at most one row
  MaxCalls      \* bound: requests of users, and crashes

\* No event clears the rule it raises (alert-lifecycle.rules.ts).
ASSUME AlertAssumption ==
  /\ Events # {}
  /\ \A e \in Events : Raised(e) \in Keys /\ Cleared(e) \subseteq Keys
  /\ \A e \in Events : Raised(e) \notin Cleared(e)
  /\ LogKeys \subseteq Keys
  /\ Users \cap Nat = {}
  /\ MaxHandlers \in Nat
  /\ MaxEvents \in Nat
  /\ MaxCalls \in Nat

VARIABLES
  size,         \* rows created
  key,          \* row -> ruleKey
  status,       \* row -> AlertLifecycleStatus, or "deleted"
  stamped,      \* row -> which of acknowledgedAt and resolvedAt are set
  told,         \* row -> ALERT_* events published for it
  at,           \* handler -> where it is
  event,        \* handler -> the event it handles
  found,        \* handler -> the row it read or created
  op,           \* user -> the operation requested
  stage,        \* actor -> row -> where its acknowledge() or resolve() is
  published,    \* events published (history)
  calls,        \* requests and crashes so far (history)
  last,         \* the last event published (history)
  orderly,      \* no two handlers overlapped, none was cut by a crash (history)
  revived,      \* rows acknowledged after they were resolved (history)
  cut           \* rows whose operation was cut by a crash (history)

rowVars == <<size, key, status, stamped, told>>
handlerVars == <<at, event, found>>
histVars == <<published, calls, last, orderly, revived, cut>>
vars == <<rowVars, handlerVars, op, stage, histVars>>

Ids == 1 .. MaxEvents
Handlers == 1 .. MaxHandlers
Rows == 1 .. size
Actors == Handlers \cup Users
Ops == {"acknowledge", "resolve"}
Pc == {"idle", "clear", "clearing", "config", "read", "update", "create", "open"}
\* "first" and "again": about to write, the row's timestamp was null or not.
Stage == {"none", "read", "first", "again", "tell"}

Idle == [a \in Ids |-> "none"]
NoOps == [x \in Actors |-> Idle]
NoKey == CHOOSE k \in Keys : TRUE
NoEvent == CHOOSE e \in Events : TRUE

Init ==
  /\ size = 0
  /\ key = [a \in Ids |-> NoKey]
  /\ status = [a \in Ids |-> "none"]
  /\ stamped = [a \in Ids |-> {}]
  /\ told = [a \in Ids |-> {}]
  /\ at = [h \in Handlers |-> "idle"]
  /\ event = [h \in Handlers |-> NoEvent]
  /\ found = [h \in Handlers |-> 0]
  /\ op = [u \in Users |-> "resolve"]
  /\ stage = NoOps
  /\ published = 0
  /\ calls = 0
  /\ last = NoEvent
  /\ orderly = TRUE
  /\ revived = {}
  /\ cut = {}

-----------------------------------------------------------------------------
\* Mutant: the queries look for open alerts only.
FindMany_OpenOnly(K) == {a \in Rows : key[a] \in K /\ status[a] = "open"}

\* What the queries with status in ['open', 'acknowledged'] find.
FindMany(K) == {a \in Rows : key[a] \in K /\ status[a] \in {"open", "acknowledged"}}

Gone == {a \in Rows : status[a] = "deleted"}

Newest(S) == CHOOSE a \in S : \A b \in S : b <= a

OpOf(x) == IF x \in Users THEN op[x] ELSE "resolve"

\* Mutant: the status written is not one of the declared ones.
Result_Closed(o) == IF o = "resolve" THEN "closed" ELSE "acknowledged"

Result(o) == IF o = "resolve" THEN "resolved" ELSE "acknowledged"

Free(x) == stage[x] = Idle /\ (x \in Handlers => at[x] = "idle")

Go(h, l) == at' = [at EXCEPT ![h] = l]

\* The activation is over, and its local variables with it.
End(h) ==
  /\ Go(h, "idle")
  /\ event' = [event EXCEPT ![h] = NoEvent]
  /\ found' = [found EXCEPT ![h] = 0]

Publication(a, e) == told' = IF a \in Gone THEN told ELSE [told EXCEPT ![a] = @ \cup {e}]

-----------------------------------------------------------------------------
(* acknowledge() and resolve() of one row: each reads it, writes it and     *)
(* publishes if the row it read had no timestamp of that operation.         *)

Start(x, S) == stage' = [stage EXCEPT ![x] = [a \in Ids |-> IF a \in S THEN "read" ELSE "none"]]
Stagewise(x, a, s) == stage' = [stage EXCEPT ![x][a] = s]

\* Mutant: whether to publish is read off the status: an alert that was
\* acknowledged before is taken for announced.
ReadRow_ByStatus(x, a) ==
  /\ stage[x][a] = "read"
  /\ Stagewise(x, a, IF status[a] = "deleted" THEN "none"
                     ELSE IF status[a] # "open" THEN "again" ELSE "first")
  /\ UNCHANGED <<rowVars, handlerVars, op, histVars>>

\* findUnique(): a row that is gone ends the operation with null.
ReadRow(x, a) ==
  /\ stage[x][a] = "read"
  /\ Stagewise(x, a, IF status[a] = "deleted" THEN "none"
                     ELSE IF OpOf(x) \in stamped[a] THEN "again" ELSE "first")
  /\ UNCHANGED <<rowVars, handlerVars, op, histVars>>

WriteRow(x, a) ==
  /\ stage[x][a] \in {"first", "again"}
  /\ status[a] # "deleted"
  /\ status' = [status EXCEPT ![a] = Result(OpOf(x))]
  /\ stamped' = [stamped EXCEPT ![a] = @ \cup {OpOf(x)}]
  /\ revived' = IF OpOf(x) = "acknowledge" /\ status[a] = "resolved"
                THEN revived \cup {a} ELSE revived
  /\ Stagewise(x, a, IF stage[x][a] = "first" THEN "tell" ELSE "none")
  /\ UNCHANGED <<size, key, told, handlerVars, op, published, calls, last, orderly, cut>>

\* Mutant: the rejection of one update abandons the others.
RejectRow_Abandons(x, a) ==
  /\ stage[x][a] \in {"first", "again"}
  /\ status[a] = "deleted"
  /\ stage' = [stage EXCEPT ![x] = Idle]
  /\ IF x \in Handlers THEN End(x) ELSE UNCHANGED handlerVars
  /\ UNCHANGED <<rowVars, op, histVars>>

\* The row was deleted after it was read: update() rejects, and with it the
\* Promise.all.  A handler ends there, raising nothing, while the operations on
\* the other rows go on.
RejectRow(x, a) ==
  /\ stage[x][a] \in {"first", "again"}
  /\ status[a] = "deleted"
  /\ Stagewise(x, a, "none")
  /\ IF x \in Handlers THEN End(x) ELSE UNCHANGED handlerVars
  /\ UNCHANGED <<rowVars, op, histVars>>

TellRow(x, a) ==
  /\ stage[x][a] = "tell"
  /\ Publication(a, OpOf(x))
  /\ Stagewise(x, a, "none")
  /\ UNCHANGED <<size, key, status, stamped, handlerVars, op, histVars>>

-----------------------------------------------------------------------------
(* handleEvent() of the bridge                                             *)

\* eventBus.publish(): the handler runs up to its first database call.
\* Activations are alike: the first free one is taken.
Publish(h, e) ==
  /\ published < MaxEvents
  /\ Free(h)
  /\ \A g \in 1 .. h - 1 : ~Free(g)
  /\ event' = [event EXCEPT ![h] = e]
  /\ Go(h, IF Cleared(e) = {} THEN "config" ELSE "clear")
  /\ published' = published + 1
  /\ last' = e
  /\ orderly' = (orderly /\ \A g \in Handlers : Free(g))
  /\ UNCHANGED <<rowVars, found, op, stage, calls, revived, cut>>

\* resolveForDevice(): findMany, then resolve() on every row found.
FindCleared(h) ==
  /\ at[h] = "clear"
  /\ Start(h, FindMany(Cleared(event[h])))
  /\ Go(h, "clearing")
  /\ UNCHANGED <<rowVars, event, found, op, histVars>>

AllCleared(h) ==
  /\ at[h] = "clearing"
  /\ stage[h] = Idle
  /\ Go(h, "config")
  /\ UNCHANGED <<rowVars, event, found, op, stage, histVars>>

\* The device's configuration of the rule, which users change at any time.  A
\* health-engine DEVICE_ONLINE has no alert of its own: it ends here too.
ReadConfig(h) ==
  /\ at[h] = "config"
  /\ \/ End(h)
     \/ /\ Go(h, IF Raised(event[h]) \in LogKeys THEN "create" ELSE "read")
        /\ UNCHANGED <<event, found>>
  /\ UNCHANGED <<rowVars, op, stage, histVars>>

FindActive(h) ==
  /\ at[h] = "read"
  /\ LET S == FindMany({Raised(event[h])}) IN
       IF S = {} THEN Go(h, "create") /\ UNCHANGED found
       ELSE Go(h, "update") /\ found' = [found EXCEPT ![h] = Newest(S)]
  /\ UNCHANGED <<rowVars, event, op, stage, histVars>>

\* Mutant: the update reopens the row.
UpdateRow_Reopens(h) ==
  /\ at[h] = "update"
  /\ End(h)
  /\ status' = IF status[found[h]] = "deleted" THEN status ELSE [status EXCEPT ![found[h]] = "open"]
  /\ UNCHANGED <<size, key, stamped, told, op, stage, histVars>>

\* Title, message and metadata change, the status does not; a row deleted
\* meanwhile rejects the update.  Either way the handler ends.
UpdateRow(h) ==
  /\ at[h] = "update"
  /\ End(h)
  /\ UNCHANGED <<rowVars, op, stage, histVars>>

CreateRow(h) ==
  /\ at[h] = "create"
  /\ size' = size + 1
  /\ key' = [key EXCEPT ![size + 1] = Raised(event[h])]
  /\ status' = [status EXCEPT ![size + 1] = "open"]
  /\ found' = [found EXCEPT ![h] = size + 1]
  /\ Go(h, "open")
  /\ UNCHANGED <<stamped, told, event, op, stage, histVars>>

TellOpened(h) ==
  /\ at[h] = "open"
  /\ Publication(found[h], "open")
  /\ End(h)
  /\ UNCHANGED <<size, key, status, stamped, op, stage, histVars>>

-----------------------------------------------------------------------------
(* Users                                                                   *)

Call == calls < MaxCalls /\ calls' = calls + 1

\* One row, a selection, or every active row (resolveActiveForDevice()).
Request(u, o, S) ==
  /\ Call
  /\ Free(u)
  /\ S # {}
  /\ op' = [op EXCEPT ![u] = o]
  /\ Start(u, S)
  /\ UNCHANGED <<rowVars, handlerVars, published, last, orderly, revived, cut>>

\* delete() of one row or deleteAll(); nothing is kept of a row.
Delete(S) ==
  /\ Call
  /\ S # {}
  /\ S \cap Gone = {}
  /\ status' = [a \in Ids |-> IF a \in S THEN "deleted" ELSE status[a]]
  /\ key' = [a \in Ids |-> IF a \in S THEN NoKey ELSE key[a]]
  /\ stamped' = [a \in Ids |-> IF a \in S THEN {} ELSE stamped[a]]
  /\ told' = [a \in Ids |-> IF a \in S THEN {} ELSE told[a]]
  /\ revived' = revived \ S
  /\ cut' = cut \ S
  /\ UNCHANGED <<size, handlerVars, op, stage, published, last, orderly>>

\* Somebody is between the database and the publication that follows.
Busy(a) ==
  \/ \E x \in Actors : stage[x][a] # "none"
  \/ \E h \in Handlers : at[h] = "open" /\ found[h] = a

\* The program ends and is started again.
Crash ==
  /\ Call
  /\ \E x \in Actors : ~Free(x)
  /\ cut' = cut \cup {a \in Rows \ Gone : Busy(a)}
  /\ orderly' = (orderly /\ \A h \in Handlers : Free(h))
  /\ stage' = NoOps
  /\ at' = [h \in Handlers |-> "idle"]
  /\ event' = [h \in Handlers |-> NoEvent]
  /\ found' = [h \in Handlers |-> 0]
  /\ op' = [u \in Users |-> "resolve"]
  /\ UNCHANGED <<rowVars, published, last, revived>>

RowStep(x, a) == ReadRow(x, a) \/ WriteRow(x, a) \/ RejectRow(x, a) \/ TellRow(x, a)

HandlerStep(h) ==
  \/ FindCleared(h)
  \/ AllCleared(h)
  \/ ReadConfig(h)
  \/ FindActive(h)
  \/ UpdateRow(h)
  \/ CreateRow(h)
  \/ TellOpened(h)

Next ==
  \/ \E h \in Handlers, e \in Events : Publish(h, e)
  \/ \E h \in Handlers : HandlerStep(h)
  \/ \E x \in Actors, a \in Ids : RowStep(x, a)
  \/ \E u \in Users, o \in Ops, S \in SUBSET Rows : Request(u, o, S)
  \/ \E a \in Rows : Delete({a})
  \/ Delete(Rows \ Gone)
  \/ Crash

Spec == Init /\ [][Next]_vars

\* The database answers and the event loop resumes whoever awaited it.
FairSpec ==
  /\ Spec
  /\ \A h \in Handlers : WF_vars(HandlerStep(h))
  /\ \A x \in Actors : WF_vars(\E a \in Ids : RowStep(x, a))

-----------------------------------------------------------------------------
TypeOK ==
  /\ size \in 0 .. published
  /\ key \in [Ids -> Keys]
  /\ status \in [Ids -> {"none", "open", "acknowledged", "resolved", "deleted"}]
  /\ \A a \in Ids : status[a] = "none" <=> a > size
  /\ stamped \in [Ids -> SUBSET Ops]
  /\ told \in [Ids -> SUBSET (Ops \cup {"open"})]
  /\ at \in [Handlers -> Pc]
  /\ event \in [Handlers -> Events]
  /\ found \in [Handlers -> 0 .. size]
  /\ op \in [Users -> Ops]
  /\ stage \in [Actors -> [Ids -> Stage]]
  /\ published \in 0 .. MaxEvents
  /\ calls \in 0 .. MaxCalls
  /\ last \in Events
  /\ orderly \in BOOLEAN
  /\ revived \subseteq Rows
  /\ cut \subseteq Rows

\* Nothing that happened to an alert stays unannounced: when nobody works on a
\* row that no crash cut, ALERT_OPENED was published for it, and an
\* ALERT_ACKNOWLEDGED or ALERT_RESOLVED for each timestamp it bears, although
\* every publisher decides by a row it read before it wrote.
Announced ==
  \A a \in Rows \ Gone : ~Busy(a) /\ a \notin cut => told[a] = stamped[a] \cup {"open"}

\* No operation, however stale the row it read, takes an alert back to open, and
\* only an acknowledgement makes a resolved one active again.
NeverReopened ==
  [][\A a \in Rows :
       /\ status[a] # "open" => status'[a] # "open"
       /\ status[a] = "resolved" => status'[a] \in {"resolved", "deleted"} \/ a \in revived'
       /\ status[a] = "deleted" => status'[a] = "deleted"]_vars

\* The rows of the rules K that users see as active.
Active(K) == {a \in Rows : key[a] \in K /\ status[a] \in {"open", "acknowledged"}}

\* As long as no two handlers overlapped and none was cut short, a rule outside
\* the log rules has one active alert at most, whatever users did meanwhile; and
\* when the last event's handler has ended, no alert of a rule it clears is
\* active, even if a row was deleted under the handler.  Rows users revived apart.
OneActivePerRule ==
  orderly =>
    /\ \A k \in Keys \ LogKeys : Cardinality(Active({k}) \ revived) <= 1
    /\ published > 0 /\ (\A h \in Handlers : Free(h)) => Active(Cleared(last)) \subseteq revived

\* Every row a handler set out to resolve is resolved or deleted in the end, even when
\* Promise.all rejected because of another row; unless a crash cut it.
FoundAlertIsResolved ==
  \A h \in Handlers, a \in Ids :
    stage[h][a] = "read" ~> ("resolve" \in stamped[a] \/ status[a] = "deleted" \/ a \in cut)
=============================================================================
