------------------------- MODULE InventoryTopology --------------------------
(***************************************************************************)
(* The inventory of one router and the topology history made of it         *)
(* (modules/inventory/application/inventory-collector.service.ts and       *)
(* inventory-scheduler.service.ts, modules/topology/application/           *)
(* topology.service.ts capture(), the refresh routes of                    *)
(* topology.routes.ts).                                                    *)
(*                                                                         *)
(* A snapshot row is created before the router is asked, so its            *)
(* collectedAt is its place in the order of creation.  What the router     *)
(* answers is a version number; the graph is what resolveTopology() is     *)
(* given: the newest finished snapshot, the status of the device and the   *)
(* manual links (here: whether there is one).                              *)
(***************************************************************************)
EXTENDS Naturals, Sequences, FiniteSets, SequencesExt

CONSTANTS
  Callers,       \* <<kind, n>>: the n-th caller of a kind that may run at once
  Sections,      \* collectors that run by default
  Required,      \* those that are not optional
  Keep,          \* topology rows kept per scope (the code: 200)
  MaxSnapshots,  \* bound: snapshots taken
  MaxTurns       \* bound: changes of the router or the links, failures, ends of the program

VARIABLES
  answers,    \* external: version of what the router answers
  link,       \* a manual link exists
  status,     \* the status column of the device
  snapshots,  \* inventory rows, oldest first: status, sections (0: absent), collected
  rows,       \* scope -> topology rows, oldest first: graph, and whether it was made alone
  roundInFlight, \* InventorySchedulerService.inFlight
  deviceJob,  \* deviceJobs holds the device
  work,       \* caller -> steps its request still has to make
  at,         \* caller -> where it is within the first of them
  snap,       \* caller -> the snapshot it collects
  seen,       \* caller -> the graph its capture() read
  changes,      \* changes so far, for the bound
  stale,      \* history: caller -> the graph changed while its capture() was under way
  alone,      \* history: caller -> no other capture stored a row since it read
  current     \* history: scope -> the last capture() to end read what is still so

itVars == <<answers, link, status, snapshots, rows, roundInFlight, deviceJob, work, at, snap,
            seen, changes, stale, alone, current>>
inputs == <<answers, link>>
flags == <<roundInFlight, deviceJob>>
captures == <<rows, seen, stale, alone, current>>

Scopes == {"all", "device"}
Kinds == {"round", "all", "device", "manual"}

\* loadDevices(): the newest snapshot that is finished.
Finished(i) == snapshots[i].status \in {"completed", "partial"}
Inventory ==
  IF \A i \in DOMAIN snapshots : ~Finished(i) THEN <<>>
  ELSE snapshots[CHOOSE i \in DOMAIN snapshots :
         Finished(i) /\ \A j \in DOMAIN snapshots : Finished(j) => j <= i].sections

Graph == [inventory |-> Inventory, status |-> status, link |-> link]
NoGraph == [inventory |-> <<>>, status |-> "none", link |-> FALSE]

Init ==
  /\ answers = 1 /\ link = FALSE /\ status = "unknown"
  /\ snapshots = <<>>
  /\ rows = [s \in Scopes |-> <<>>]
  /\ roundInFlight = FALSE /\ deviceJob = FALSE
  /\ work = [c \in Callers |-> <<>>]
  /\ at = [c \in Callers |-> "begin"]
  /\ snap = [c \in Callers |-> 0]
  /\ seen = [c \in Callers |-> NoGraph]
  /\ changes = 0
  /\ stale = [c \in Callers |-> FALSE]
  /\ alone = [c \in Callers |-> TRUE]
  /\ current = [s \in Scopes |-> FALSE]

Turn == changes < MaxTurns /\ changes' = changes + 1

\* What a step that changes the graph does to the accounts.
GraphMoves ==
  /\ stale' = IF Graph' # Graph THEN [c \in Callers |-> at[c] \in {"load", "compare", "create"}] ELSE stale
  /\ current' = IF Graph' # Graph THEN [s \in Scopes |-> FALSE] ELSE current

World ==
  /\ Turn
  /\ \/ answers' = answers + 1 /\ UNCHANGED link
     \/ link' = ~link /\ UNCHANGED answers
  /\ UNCHANGED <<status, snapshots, rows, flags, work, at, snap, seen, alone>>
  /\ GraphMoves

-----------------------------------------------------------------------------
(* What a request or the timer does, in order                              *)

\* runOnce() and runDevice() return at once when one of them is under way.
Plan(kind) ==
  CASE kind = "manual" -> <<"collect">>
    [] kind = "round"  -> IF roundInFlight THEN <<>> ELSE <<"collect", "all", "endRound">>
    [] kind = "all"    -> (IF roundInFlight THEN <<>> ELSE <<"collect", "all", "endRound">>) \o <<"all">>
    [] kind = "device" -> (IF deviceJob THEN <<>> ELSE <<"collect", "all", "device", "endJob">>)
                            \o <<"all", "device">>

Begin(c) ==
  /\ work[c] = <<>> /\ Plan(c[1]) # <<>>
  /\ work' = [work EXCEPT ![c] = Plan(c[1])]
  /\ roundInFlight' = (roundInFlight \/ Contains(Plan(c[1]), "endRound"))
  /\ deviceJob' = (deviceJob \/ Contains(Plan(c[1]), "endJob"))
  /\ UNCHANGED <<inputs, status, snapshots, at, snap, changes, captures>>

Doing(c, step) == work[c] # <<>> /\ Head(work[c]) = step
Goto(c, l) == at' = [at EXCEPT ![c] = l]
Done(c) == work' = [work EXCEPT ![c] = Tail(@)] /\ Goto(c, "begin")

\* The finally blocks.
EndGuard(c) ==
  /\ \/ Doing(c, "endRound") /\ roundInFlight' = FALSE /\ UNCHANGED deviceJob
     \/ Doing(c, "endJob") /\ deviceJob' = FALSE /\ UNCHANGED roundInFlight
  /\ Done(c)
  /\ UNCHANGED <<inputs, status, snapshots, snap, changes, captures>>

\* A step rejects.  A round survives it: allSettled() takes a failed collect(),
\* the catch block a failed capture().  A device job ends and its request with
\* it, and so does any other request.
Rejects(c) ==
  /\ Goto(c, "begin")
  /\ work' = [work EXCEPT ![c] =
       IF Contains(@, "endRound") THEN Tail(@) ELSE IF Contains(@, "endJob") THEN <<"endJob">> ELSE <<>>]

-----------------------------------------------------------------------------
(* collect()                                                               *)

CreateSnapshot(c) ==
  /\ Doing(c, "collect") /\ at[c] = "begin"
  /\ Len(snapshots) < MaxSnapshots
  /\ snapshots' = Append(snapshots, [status |-> "running", sections |-> [s \in Sections |-> 0]])
  /\ snap' = [snap EXCEPT ![c] = Len(snapshots')]
  /\ Goto(c, "collect")
  /\ UNCHANGED <<inputs, status, flags, work, changes, captures>>

\* The collectors run in order; one that fails twice is left out.
CollectSections(c, answered) ==
  /\ Doing(c, "collect") /\ at[c] = "collect"
  /\ snapshots' = [snapshots EXCEPT ![snap[c]].sections =
       [s \in Sections |-> IF s \in answered THEN answers ELSE 0]]
  /\ Goto(c, "finish")
  /\ UNCHANGED <<inputs, status, flags, work, snap, changes, captures>>

Missing(i) == {s \in Required : snapshots[i].sections[s] = 0}

\* Mutant: the status does not depend on what was collected.
Complete_Always(c) ==
  /\ Doing(c, "collect") /\ at[c] = "finish"
  /\ snapshots' = [snapshots EXCEPT ![snap[c]].status = "completed"]
  /\ Goto(c, "online")
  /\ UNCHANGED <<inputs, status, rows, flags, work, snap, seen, changes, alone>>
  /\ GraphMoves

Complete(c) ==
  /\ Doing(c, "collect") /\ at[c] = "finish"
  /\ snapshots' = [snapshots EXCEPT ![snap[c]].status =
       IF Missing(snap[c]) = {} THEN "completed" ELSE "partial"]
  /\ Goto(c, "online")
  /\ UNCHANGED <<inputs, status, rows, flags, work, snap, seen, changes, alone>>
  /\ GraphMoves

MarkDevice(c) ==
  /\ Doing(c, "collect") /\ at[c] \in {"online", "offline"}
  /\ status' = at[c]
  /\ Done(c)
  /\ snap' = [snap EXCEPT ![c] = 0]
  /\ UNCHANGED <<inputs, snapshots, rows, flags, seen, changes, alone>>
  /\ GraphMoves

\* No connection, a section that cannot be stored, or an error after the
\* snapshot was finished (the status of the device, close()): the catch block
\* makes it failed, whatever it was.
Fail(c) ==
  /\ Turn
  /\ Doing(c, "collect") /\ at[c] \in {"collect", "finish", "online"}
  /\ snapshots' = [snapshots EXCEPT ![snap[c]].status = "failed"]
  /\ Goto(c, "offline")
  /\ UNCHANGED <<inputs, status, rows, flags, work, snap, seen, alone>>
  /\ GraphMoves

\* The catch block fails itself: the snapshot stays as it is.
FailsTwice(c) ==
  /\ Turn
  /\ Doing(c, "collect") /\ at[c] # "begin"
  /\ Rejects(c)
  /\ snap' = [snap EXCEPT ![c] = 0]
  /\ UNCHANGED <<inputs, status, snapshots, flags, captures>>

-----------------------------------------------------------------------------
(* capture(scope)                                                          *)

Capturing(c, s) == Doing(c, s) /\ s \in Scopes

\* The rows of devices are read, then the snapshots and the manual links.
ReadDevices(c, s) ==
  /\ Capturing(c, s) /\ at[c] = "begin"
  /\ seen' = [seen EXCEPT ![c] = [NoGraph EXCEPT !.status = status]]
  /\ Goto(c, "load")
  /\ UNCHANGED <<inputs, status, snapshots, rows, flags, work, snap, changes, stale, alone, current>>

ReadGraph(c, s) ==
  /\ Capturing(c, s) /\ at[c] = "load"
  /\ seen' = [seen EXCEPT ![c].inventory = Inventory, ![c].link = link]
  /\ Goto(c, "compare")
  /\ UNCHANGED <<inputs, status, snapshots, rows, flags, work, snap, changes, stale, alone, current>>

\* What was read is settled: the accounts of the capture are closed.
Settle(c, s) ==
  /\ current' = [current EXCEPT ![s] = ~stale[c]]
  /\ seen' = [seen EXCEPT ![c] = NoGraph]
  /\ stale' = [stale EXCEPT ![c] = FALSE]

\* Mutant: any stored row with the same graph will do.
Known_Any(c, s) == \E i \in DOMAIN rows[s] : rows[s][i].graph = seen[c]

\* The newest row has the same hash.
Known(c, s) == rows[s] # <<>> /\ Last(rows[s]).graph = seen[c]

Compare(c, s) ==
  /\ Capturing(c, s) /\ at[c] = "compare"
  /\ IF Known(c, s)
     THEN Done(c) /\ Settle(c, s) /\ alone' = [alone EXCEPT ![c] = TRUE]
     ELSE Goto(c, "create") /\ UNCHANGED <<work, current, seen, stale, alone>>
  /\ UNCHANGED <<inputs, status, snapshots, rows, flags, snap, changes>>

Create(c, s) ==
  /\ Capturing(c, s) /\ at[c] = "create"
  /\ rows' = [rows EXCEPT ![s] = Append(@, [graph |-> seen[c], alone |-> alone[c]])]
  /\ alone' = [d \in Callers |-> d = c \/ (alone[d] /\ ~(Doing(d, s) /\ at[d] \in {"load", "compare", "create"}))]
  /\ Settle(c, s)
  /\ Goto(c, "prune")
  /\ UNCHANGED <<inputs, status, snapshots, flags, work, snap, changes>>

\* Mutant: the oldest rows are the ones kept.
Prune_Oldest(c, s) ==
  /\ Capturing(c, s) /\ at[c] = "prune"
  /\ rows' = [rows EXCEPT ![s] = IF Len(@) > Keep THEN SubSeq(@, 1, Keep) ELSE @]
  /\ Done(c)
  /\ UNCHANGED <<inputs, status, snapshots, flags, snap, seen, changes, stale, alone, current>>

Prune(c, s) ==
  /\ Capturing(c, s) /\ at[c] = "prune"
  /\ rows' = [rows EXCEPT ![s] = IF Len(@) > Keep THEN SubSeq(@, Len(@) - Keep + 1, Len(@)) ELSE @]
  /\ Done(c)
  /\ UNCHANGED <<inputs, status, snapshots, flags, snap, seen, changes, stale, alone, current>>

CaptureFails(c) ==
  /\ Turn
  /\ \E s \in Scopes : Capturing(c, s)
  /\ Rejects(c)
  /\ seen' = [seen EXCEPT ![c] = NoGraph]
  /\ stale' = [stale EXCEPT ![c] = FALSE]
  /\ alone' = [alone EXCEPT ![c] = TRUE]
  /\ UNCHANGED <<inputs, status, snapshots, flags, snap, rows, current>>

\* The program ends, wherever it is, and is started again.
Restart ==
  /\ Turn
  /\ roundInFlight' = FALSE /\ deviceJob' = FALSE
  /\ work' = [c \in Callers |-> <<>>]
  /\ at' = [c \in Callers |-> "begin"]
  /\ snap' = [c \in Callers |-> 0]
  /\ seen' = [c \in Callers |-> NoGraph]
  /\ stale' = [c \in Callers |-> FALSE]
  /\ alone' = [c \in Callers |-> TRUE]
  /\ UNCHANGED <<inputs, status, snapshots, rows, current>>

Step(c) ==
  \/ Begin(c) \/ EndGuard(c)
  \/ CreateSnapshot(c)
  \/ \E answered \in SUBSET Sections : CollectSections(c, answered)
  \/ Complete(c) \/ MarkDevice(c) \/ Fail(c) \/ FailsTwice(c)
  \/ \E s \in Scopes : ReadDevices(c, s) \/ ReadGraph(c, s) \/ Compare(c, s) \/ Create(c, s) \/ Prune(c, s)
  \/ CaptureFails(c)

Next == World \/ (\E c \in Callers : Step(c)) \/ Restart

Spec == Init /\ [][Next]_itVars

-----------------------------------------------------------------------------
TypeOK ==
  /\ status \in {"unknown", "online", "offline"}
  /\ \A i \in DOMAIN snapshots :
       /\ snapshots[i].status \in {"running", "completed", "partial", "failed"}
       /\ snapshots[i].sections \in [Sections -> 0 .. answers]
  /\ \A c \in Callers :
       /\ c[1] \in Kinds
       /\ snap[c] \in 0 .. Len(snapshots)
       /\ at[c] \in {"begin", "collect", "finish", "online", "offline", "load", "compare", "create", "prune"}
  /\ roundInFlight = (\E c \in Callers : Contains(work[c], "endRound"))
  /\ deviceJob = (\E c \in Callers : Contains(work[c], "endJob"))

\* A finished snapshot is not one that was still being collected, whatever
\* failed: it is complete exactly when no required collector is missing.
SnapshotsAreWhole ==
  \A i \in DOMAIN snapshots :
    Finished(i) => (snapshots[i].status = "completed") = (Missing(i) = {})

\* The newest row of the topology history is the graph as it is, from the end of
\* a capture() whose inputs did not change meanwhile until they change (or an
\* overtaken capture() ends): also when captures of rounds, refreshes and
\* device jobs overlap.  And two neighbouring rows are equal only when another
\* capture stored its row in between.
HistoryIsCurrent ==
  \A s \in Scopes :
    /\ current[s] => rows[s] # <<>> /\ Last(rows[s]).graph = Graph
    /\ \A i \in 2 .. Len(rows[s]) : rows[s][i].alone => rows[s][i].graph # rows[s][i - 1].graph

\* What is stored of a device is true: whole snapshots, a current history.
HistoryHolds == SnapshotsAreWhole /\ HistoryIsCurrent
=============================================================================
