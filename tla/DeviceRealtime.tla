--------------------------- MODULE DeviceRealtime ---------------------------
(***************************************************************************)
(* What the server knows of one router while it polls it                   *)
(* (modules/device/application/device-realtime.service.ts and              *)
(* device-realtime-scheduler.service.ts), beside the edits and the         *)
(* deletion of the device (device.service.ts) and the table of RouterOS    *)
(* log entries already seen (routeros-log-fingerprint.repository.ts).      *)
(*                                                                         *)
(* Every map of the service is keyed by the device, so one device shows    *)
(* all of it.  Settings are a generation number: an edit writes the next   *)
(* one.  A refresh is cut at its awaits; the commands between two of them  *)
(* that fail silently (safePrint) are one step.                            *)
(***************************************************************************)
EXTENDS Naturals, FiniteSets

CONSTANTS
  Callers,     \* who may run a refresh: the scheduler's round, a request
  MaxEntries,  \* bound: entries of interest the router logs
  LogSize,     \* entries the router keeps in its log
  Keep,        \* fingerprints prune() leaves (the code: 5000)
  MaxEdits,    \* bound: edits of the device
  MaxTurns     \* bound: changes of the router, losses of the program or the database

VARIABLES
  router,      \* external: is it up, is its port running, is it healthy
  entries,     \* entries of interest the router logged
  turns,       \* changes so far, for the bound
  device,      \* the device's row: settings generation (0: deleted) and status
  seenLog,     \* fingerprints stored for the device
  baseline,    \* the baseline row is stored
  refreshOf,   \* the refreshes map: the caller whose promise is pending
  job,         \* caller -> the refresh it runs
  client,      \* the clients map
  cached,      \* the cache map: online state of the snapshot
  last,        \* lastOnlineState, lastInterfaceState, lastHealthFingerprint
  edit,        \* an update() or delete() of the device between clear() and its write
  round,       \* where the scheduler's round is
  told,        \* history: what the last event of each kind said, until that is forgotten
  announced,   \* history: entry -> events published for it
  old,         \* history: entries remembered before there was a baseline
  rejected     \* history: the last refresh to get past its row rejected

drVars == <<router, entries, turns, device, seenLog, baseline, refreshOf, job, client,
            cached, last, edit, round, told, announced, old, rejected>>
history == <<told, announced, old, rejected>>
world == <<router, entries, turns>>

None == "none"
Entries == 1 .. MaxEntries
NoClient == [gen |-> 0, ok |-> FALSE]
Unknown == [online |-> None, port |-> None, health |-> "well"]
Silence == [online |-> None, port |-> None, health |-> None]
NoJob == [pc |-> "idle", seen |-> 0, client |-> NoClient, reused |-> FALSE, force |-> FALSE,
          logs |-> {}, polled |-> FALSE, port |-> None, health |-> None, known |-> FALSE,
          entry |-> 0, excuse |-> FALSE]

Init ==
  /\ router = [up |-> TRUE, port |-> "up", health |-> "well"]
  /\ entries = 0
  /\ turns = 0
  /\ device = [gen |-> 1, status |-> "unknown"]
  /\ seenLog = {}
  /\ baseline = FALSE
  /\ refreshOf = None
  /\ job = [c \in Callers |-> NoJob]
  /\ client = NoClient
  /\ cached = None
  /\ last = Unknown
  /\ edit = None
  /\ round = "idle"
  /\ told = Silence
  /\ announced = [e \in Entries |-> 0]
  /\ old = {}
  /\ rejected = FALSE

Go(c, l) == job' = [job EXCEPT ![c].pc = l]
Past(c) == job[c].pc \in {"talk", "traffic", "online", "logged", "remember", "prune"}

-----------------------------------------------------------------------------
(* The router                                                              *)

Turn == turns < MaxTurns /\ turns' = turns + 1

\* It goes away: every connection to it is dead from now on.
RouterDown ==
  /\ Turn /\ router.up
  /\ router' = [router EXCEPT !.up = FALSE]
  /\ client' = [client EXCEPT !.ok = FALSE]
  /\ job' = [c \in Callers |-> [job[c] EXCEPT !.client.ok = FALSE]]
  /\ UNCHANGED <<entries, device, seenLog, baseline, refreshOf, cached, last, edit, round, history>>

RouterTurns ==
  /\ \/ ~router.up /\ router' = [router EXCEPT !.up = TRUE] /\ UNCHANGED turns
     \/ Turn /\ router.up /\ router' = [router EXCEPT !.port = IF @ = "up" THEN "down" ELSE "up"]
     \/ Turn /\ router.up /\ router' = [router EXCEPT !.health = IF @ = "well" THEN "sick" ELSE "well"]
  /\ UNCHANGED <<entries, device, seenLog, baseline, refreshOf, job, client, cached, last, edit, round, history>>

RouterLogs ==
  /\ router.up /\ entries < MaxEntries
  /\ entries' = entries + 1
  /\ UNCHANGED <<router, turns, device, seenLog, baseline, refreshOf, job, client, cached, last, edit, round, history>>

\* What /log/print answers: the newest entries.
LogOf(n) == {e \in 1 .. n : e + LogSize > n}

-----------------------------------------------------------------------------
(* refreshSnapshot()                                                       *)

\* Mutant: a caller does not join the pending refresh.
Refresh_NotJoined(c) ==
  /\ job[c].pc = "idle"
  /\ refreshOf' = c
  /\ job' = [job EXCEPT ![c] = [NoJob EXCEPT !.pc = "find"]]

\* A pending refresh is joined; otherwise the caller starts one.
Refresh(c) ==
  /\ refreshOf = None
  /\ job[c].pc = "idle"
  /\ refreshOf' = c
  /\ job' = [job EXCEPT ![c] = [NoJob EXCEPT !.pc = "find"]]

\* The finally handler takes the promise out of the map; a scheduler's round
\* that awaits it (allSettled) ends.
Settle(c) ==
  /\ job' = [job EXCEPT ![c] = NoJob]
  /\ refreshOf' = IF refreshOf = c THEN None ELSE refreshOf
  /\ round' = IF round = "wait" THEN "idle" ELSE round

\* POST .../refresh, or a view whose cache entry has expired.
Request(c) ==
  /\ c # "scheduler"
  /\ Refresh(c)
  /\ UNCHANGED <<world, device, seenLog, baseline, client, cached, last, edit, round, history>>

\* findById() answers no row, or fails: the refresh rejects.
FindFails(c) ==
  /\ job[c].pc = "find"
  /\ \/ device.gen = 0
     \/ Turn
  /\ device.gen = 0 => UNCHANGED turns
  /\ Settle(c)
  /\ UNCHANGED <<router, entries, device, seenLog, baseline, client, cached, last, edit, history>>

\* Mutant: the connection in the map is used whatever settings it was opened with.
Find_AnyKey(c) ==
  /\ job[c].pc = "find"
  /\ device.gen # 0
  /\ IF client.gen # 0 /\ ~job[c].force
     THEN /\ job' = [job EXCEPT ![c].pc = "talk", ![c].seen = device.gen,
                                ![c].client = client, ![c].reused = TRUE]
          /\ UNCHANGED client
     ELSE /\ job' = [job EXCEPT ![c].pc = "connect", ![c].seen = device.gen, ![c].reused = FALSE,
                                ![c].client = [gen |-> device.gen, ok |-> FALSE]]
          /\ client' = [client EXCEPT !.ok = FALSE]
  /\ UNCHANGED <<world, device, seenLog, baseline, refreshOf, cached, last, edit, round, history>>

\* The row is read.  The connection of the map is used when it was opened with
\* the same settings; otherwise it is closed, left in the map, and a new one
\* is opened.
Find(c) ==
  /\ job[c].pc = "find"
  /\ device.gen # 0
  /\ IF client.gen = device.gen /\ ~job[c].force
     THEN /\ job' = [job EXCEPT ![c].pc = "talk", ![c].seen = device.gen,
                                ![c].client = client, ![c].reused = TRUE]
          /\ UNCHANGED client
     ELSE /\ job' = [job EXCEPT ![c].pc = "connect", ![c].seen = device.gen, ![c].reused = FALSE,
                                ![c].client = [gen |-> device.gen, ok |-> FALSE]]
          /\ client' = [client EXCEPT !.ok = FALSE]
  /\ UNCHANGED <<world, device, seenLog, baseline, refreshOf, cached, last, edit, round, history>>

Connected(c) ==
  /\ job[c].pc = "connect" /\ router.up
  /\ client' = [gen |-> job[c].seen, ok |-> TRUE]
  /\ job' = [job EXCEPT ![c].pc = "talk", ![c].client = client']
  /\ UNCHANGED <<world, device, seenLog, baseline, refreshOf, cached, last, edit, round, history>>

\* Each print but /system/resource/print may fail alone (safePrint), or read the
\* rows of another command on a connection out of step: it then shows an empty
\* log, no ports, or no sensor that is ill.
PortsPrinted == {router.port, None}
SensorsPrinted == {router.health, "well"}

\* The commands, when /system/resource/print is answered.  The log is read at
\* every request, and by the scheduler every ten seconds at most.
Talk(c) ==
  /\ job[c].pc = "talk" /\ job[c].client.ok
  /\ \E polled \in BOOLEAN, answered \in BOOLEAN, port \in PortsPrinted, health \in SensorsPrinted :
       /\ c # "scheduler" => polled
       /\ answered => polled
       /\ job' = [job EXCEPT ![c].pc = "traffic", ![c].polled = polled,
                             ![c].logs = IF answered THEN LogOf(entries) ELSE {},
                             ![c].port = port, ![c].health = health]
  /\ UNCHANGED <<world, device, seenLog, baseline, refreshOf, client, cached, last, edit, round, history>>

\* The traffic history is recorded, or fails and is ignored; then the row is
\* updated.  A deleted row cannot be (Orphan).
SaveOnline(c) ==
  /\ job[c].pc = "traffic" /\ device.gen # 0
  /\ device' = [device EXCEPT !.status = "online"]
  /\ Go(c, "online")
  /\ UNCHANGED <<world, seenLog, baseline, refreshOf, client, cached, last, edit, round, history>>

-----------------------------------------------------------------------------
(* publishRealtimeEvents() and publishInterfaceEvents()                    *)

\* What a subscriber hears when the event of kind k says s: "twice" when it
\* had heard just that.
Hear(t, k, s) == [t EXCEPT ![k] = IF @ = s THEN "twice" ELSE s]

\* Mutant: what was published last is not looked at.
SayOnline_Again(s, t) == IF last.online # None \/ s = "offline" THEN Hear(t, "online", s) ELSE t

\* An event when the state changed; the first look is silent unless offline.
SayOnline(s, t) ==
  IF last.online # s /\ (last.online # None \/ s = "offline") THEN Hear(t, "online", s) ELSE t

\* An event when the port was known before and is seen changed; a look without
\* ports replaces what was known, so what was heard of it before is history.
SayPort(s, t) ==
  IF s = None THEN [t EXCEPT !.port = None]
  ELSE IF last.port \notin {s, None} THEN Hear(t, "port", s) ELSE t

\* The synchronous part: online state, ports; then whether there is a baseline
\* is asked when the log was read.
PublishOnline(c) ==
  /\ job[c].pc = "online"
  /\ last' = [last EXCEPT !.online = "online", !.port = job[c].port]
  /\ told' = SayPort(job[c].port, SayOnline("online", told))
  /\ job' = [job EXCEPT ![c].pc = IF job[c].polled THEN "logged" ELSE "health", ![c].port = None]
  /\ UNCHANGED <<world, device, seenLog, baseline, refreshOf, client, cached, edit, round, announced, old, rejected>>

\* The health fingerprint; then the snapshot enters the cache and the refresh
\* settles.  Well on the first look says nothing.
PublishHealth(c) ==
  /\ job[c].pc = "health"
  /\ told' = IF last.health # job[c].health THEN Hear(told, "health", job[c].health) ELSE told
  /\ last' = [last EXCEPT !.health = job[c].health]
  /\ cached' = "online" /\ rejected' = FALSE
  /\ Settle(c)
  /\ UNCHANGED <<world, device, seenLog, baseline, client, edit, announced, old>>

-----------------------------------------------------------------------------
(* publishLogEvents()                                                      *)

AskBaseline(c) ==
  /\ job[c].pc = "logged"
  /\ job' = [job EXCEPT ![c].pc = "remember", ![c].known = baseline]
  /\ UNCHANGED <<world, device, seenLog, baseline, refreshOf, client, cached, last, edit, round, history>>

Oldest(S) == CHOOSE e \in S : \A f \in S : e <= f

\* Mutant: every entry is announced, remembered before or not.
Remember_All(c) ==
  /\ job[c].pc = "remember" /\ job[c].entry = 0 /\ job[c].logs # {}
  /\ LET e == Oldest(job[c].logs) IN
       /\ e \in seenLog \/ device.gen # 0
       /\ job' = [job EXCEPT ![c].logs = @ \ {e},
                             ![c].entry = IF job[c].known THEN e ELSE 0]
       /\ seenLog' = seenLog \cup {e}
       /\ old' = IF e \notin seenLog /\ ~job[c].known THEN old \cup {e} ELSE old
  /\ UNCHANGED <<world, device, baseline, refreshOf, client, cached, last, edit, round, told, announced, rejected>>

\* remember() of the next entry: the unique key tells a new one.  The rows of
\* a deleted device cannot be created (Orphan).  `entry' is the one to publish.
Remember(c) ==
  /\ job[c].pc = "remember" /\ job[c].entry = 0 /\ job[c].logs # {}
  /\ LET e == Oldest(job[c].logs) IN
       /\ e \in seenLog \/ device.gen # 0
       /\ job' = [job EXCEPT ![c].logs = @ \ {e},
                             ![c].entry = IF e \notin seenLog /\ job[c].known THEN e ELSE 0]
       /\ seenLog' = seenLog \cup {e}
       /\ old' = IF e \notin seenLog /\ ~job[c].known THEN old \cup {e} ELSE old
  /\ UNCHANGED <<world, device, baseline, refreshOf, client, cached, last, edit, round, told, announced, rejected>>

Publish(c) ==
  /\ job[c].entry # 0
  /\ announced' = [announced EXCEPT ![job[c].entry] = @ + 1]
  /\ job' = [job EXCEPT ![c].entry = 0]
  /\ UNCHANGED <<world, device, seenLog, baseline, refreshOf, client, cached, last, edit, round, told, old, rejected>>

MarkInitialized(c) ==
  /\ job[c].pc = "remember" /\ job[c].entry = 0 /\ job[c].logs = {}
  /\ job[c].known \/ device.gen # 0
  /\ baseline' = TRUE
  /\ job' = [job EXCEPT ![c].pc = "prune", ![c].known = FALSE]
  /\ UNCHANGED <<world, device, seenLog, refreshOf, client, cached, last, edit, round, history>>

\* Mutant: prune() keeps the rows first seen, not those seen last.
Prune_Newest(c) ==
  /\ job[c].pc = "prune"
  /\ seenLog' = {e \in seenLog : Cardinality({f \in seenLog : f < e}) < Keep}
  /\ Go(c, "health")
  /\ UNCHANGED <<world, device, baseline, refreshOf, client, cached, last, edit, round, history>>

\* All but the Keep newest rows are deleted, never the baseline row.
Prune(c) ==
  /\ job[c].pc = "prune"
  /\ seenLog' = {e \in seenLog : Cardinality({f \in seenLog : f > e}) < Keep}
  /\ Go(c, "health")
  /\ UNCHANGED <<world, device, baseline, refreshOf, client, cached, last, edit, round, history>>

-----------------------------------------------------------------------------
(* The catch block                                                         *)

\* What brings a refresh there: no connection, an unanswered command, a
\* connection closed under it, or the database (deleted row, failed write).
Broken(c) ==
  \/ job[c].pc = "connect" /\ (~router.up \/ job[c].seen # device.gen)
  \/ job[c].pc = "talk" /\ ~job[c].client.ok

\* Costs a turn of the bound: an answer that does not come in time, and a
\* failed access to the database.
Fails(c) == job[c].pc \in {"talk", "traffic", "logged", "remember", "prune"} /\ job[c].entry = 0

\* The row of the device, which every write needs, is gone.
Orphan(c) == device.gen = 0 /\ job[c].pc \in {"traffic", "remember"} /\ job[c].entry = 0

\* What makes it right to call the router offline: a connection of this very
\* attempt failed, or the database did.
Excused(c) == ~job[c].reused \/ job[c].pc # "talk"

\* Mutant: a connection that was lying in the map is not given a second try.
Caught_NoRetry(c) ==
  /\ client' = NoClient
  /\ job' = [job EXCEPT ![c].pc = "offline", ![c].client = NoClient,
                        ![c].excuse = Excused(c)]

\* The client is closed and leaves the map.  A reused connection may only have
\* been idle too long: the refresh starts over with a new one.
Caught(c) ==
  /\ client' = NoClient
  /\ job' = [job EXCEPT ![c] =
       IF @.reused THEN [NoJob EXCEPT !.pc = "find", !.force = TRUE]
       ELSE [@ EXCEPT !.pc = "offline", !.client = NoClient, !.excuse = Excused(c)]]

Fail(c) ==
  /\ \/ (Broken(c) \/ Orphan(c)) /\ UNCHANGED turns
     \/ Fails(c) /\ Turn
  /\ Caught(c)
  /\ UNCHANGED <<router, entries, device, seenLog, baseline, refreshOf, cached, last, edit, round, history>>

\* The device is stored as offline, published, cached; a failed write rejects.
Offline(c) ==
  /\ job[c].pc = "offline"
  /\ \/ /\ device.gen # 0
        /\ device' = [device EXCEPT !.status = "offline"]
        /\ last' = [last EXCEPT !.online = "offline"]
        /\ told' = SayOnline("offline", told)
        /\ cached' = "offline" /\ rejected' = FALSE
        /\ UNCHANGED turns
     \/ /\ IF device.gen = 0 THEN UNCHANGED turns ELSE Turn
        /\ rejected' = TRUE
        /\ UNCHANGED <<device, last, told, cached>>
  /\ Settle(c)
  /\ UNCHANGED <<router, entries, seenLog, baseline, client, edit, announced, old>>

-----------------------------------------------------------------------------
(* The scheduler, the edits of the device, the end of the program          *)

\* runOnce() while no round is in flight: the rows are listed, then each device
\* is refreshed (one that is being refreshed is joined).  start() makes the
\* first call; it and stop() only decide when the timer makes the others.
Tick ==
  /\ round = "idle"
  /\ round' = "list"
  /\ UNCHANGED <<world, device, seenLog, baseline, refreshOf, job, client, cached, last, edit, history>>

Listed ==
  /\ round = "list"
  /\ round' = IF device.gen = 0 THEN "idle" ELSE "wait"
  /\ IF device.gen # 0 /\ refreshOf = None THEN Refresh("scheduler") ELSE UNCHANGED <<refreshOf, job>>
  /\ UNCHANGED <<world, device, seenLog, baseline, client, cached, last, edit, history>>

\* clear(): a refresh that uses the connection of the map loses it.
Clear ==
  /\ client' = NoClient
  /\ job' = [c \in Callers |-> IF job[c].client = client THEN [job[c] EXCEPT !.client.ok = FALSE] ELSE job[c]]
  /\ cached' = None
  /\ last' = Unknown
  /\ told' = Silence

\* update() and delete() clear first and write after: two steps.
EditBegins(kind) ==
  /\ edit = None /\ device.gen # 0
  /\ kind = "update" => device.gen <= MaxEdits
  /\ edit' = kind
  /\ Clear
  /\ UNCHANGED <<world, device, seenLog, baseline, refreshOf, round, announced, old, rejected>>

\* Deleting the device takes its fingerprints with it.
EditWrites ==
  /\ edit # None
  /\ edit' = None
  /\ IF edit = "update"
     THEN device' = [device EXCEPT !.gen = @ + 1] /\ UNCHANGED <<seenLog, baseline>>
     ELSE device' = [device EXCEPT !.gen = 0] /\ seenLog' = {} /\ baseline' = FALSE
  /\ UNCHANGED <<world, refreshOf, job, client, cached, last, round, history>>

\* The program ends, wherever it is, and is started again: the maps are empty.
Restart ==
  /\ Turn
  /\ refreshOf' = None
  /\ job' = [c \in Callers |-> NoJob]
  /\ client' = NoClient /\ cached' = None /\ last' = Unknown /\ told' = Silence
  /\ edit' = None
  /\ round' = "list"
  /\ UNCHANGED <<router, entries, device, seenLog, baseline, announced, old, rejected>>

Step(c) ==
  \/ Request(c) \/ FindFails(c) \/ Find(c) \/ Connected(c) \/ Talk(c) \/ SaveOnline(c)
  \/ PublishOnline(c) \/ AskBaseline(c) \/ Remember(c) \/ Publish(c) \/ MarkInitialized(c)
  \/ Prune(c) \/ PublishHealth(c) \/ Fail(c) \/ Offline(c)

Next ==
  \/ RouterDown \/ RouterTurns \/ RouterLogs
  \/ \E c \in Callers : Step(c)
  \/ Tick \/ Listed
  \/ \E kind \in {"update", "delete"} : EditBegins(kind)
  \/ EditWrites
  \/ Restart

Spec == Init /\ [][Next]_drVars

-----------------------------------------------------------------------------
Online == {None, "online", "offline"}

TypeOK ==
  /\ router \in [up : BOOLEAN, port : {"up", "down"}, health : {"well", "sick"}]
  /\ entries \in 0 .. MaxEntries
  /\ turns \in 0 .. MaxTurns
  /\ device \in [gen : 0 .. MaxEdits + 1, status : {"unknown", "online", "offline"}]
  /\ seenLog \subseteq Entries /\ old \subseteq Entries
  /\ baseline \in BOOLEAN
  /\ refreshOf \in Callers \cup {None}
  /\ client \in [gen : 0 .. MaxEdits + 1, ok : BOOLEAN]
  /\ \A c \in Callers :
       /\ job[c].client \in [gen : 0 .. MaxEdits + 1, ok : BOOLEAN]
       /\ job[c].logs \subseteq Entries
       /\ job[c].pc # "idle" => refreshOf = c
  /\ cached \in Online
  /\ edit \in {None, "update", "delete"}
  /\ round \in {"idle", "list", "wait"}
  /\ announced \in [Entries -> Nat]

\* Whoever listens to the events never hears the same state twice in a row
\* (between two clear() and, for a port, between two looks that show no ports:
\* after one the next change is not told), and what was heard last is what the
\* service holds and, with no refresh under way and none rejected since, what the cached
\* snapshot shows.  A RouterOS log entry is heard of once at most, whatever
\* reconnects, retries of a refresh after a failed write, prunings and restarts
\* come between; and what the log held before there was a baseline is not heard
\* of (the fingerprint table of publishLogEvents; HUONG-DAN-TINH-NANG-5.1.md:7).
EventsTellTheState ==
  /\ \A k \in {"online", "port", "health"} : told[k] \in {None, last[k]}
  /\ refreshOf = None /\ ~rejected /\ cached # None /\ last.online # None => cached = last.online
  /\ \A e \in Entries : announced[e] <= 1 /\ (e \in old => announced[e] = 0)

\* A connection left in the map that turns out dead is no outage: the device is
\* called offline only after a connection opened for this refresh failed, or
\* the database did (the retry with forceNewConnection).  And commands never
\* run over a connection opened with other settings than the row the refresh
\* read, although clear() of an edit is undone by a refresh under way.
OutageIsReal ==
  \A c \in Callers :
    /\ job[c].pc = "offline" => job[c].excuse
    /\ Past(c) => job[c].client.gen = job[c].seen
=============================================================================
