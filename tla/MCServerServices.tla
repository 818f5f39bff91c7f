---- MODULE MCServerServices ----
\* One run for ten parts of the system that share no state with one another:
\* the first state chooses the part under check, the variables of the others
\* stay Idle.  A product of the ten would add no behaviour of any of them.
\* Constants of one name in two modules are told apart by WITH.
EXTENDS Naturals, Sequences

CONSTANTS
  Refreshers, MaxEntries, LogSize, Keep, MaxEdits, MaxOutages, Configs,
  Default, MaxUpdates, MaxFaults, Schedules, Periods, MaxTime, MaxSaves,
  MaxMishaps, Collectors, Sections, Required, KeepRows, MaxSnapshots,
  MaxTurns, Configurers, MaxRuns, MaxBreaks, Devices, Observers, Macs, Ips,
  Names, Claimed, MaxRows, Said, CompactAt, Sizes, MaxChunks, Payloads,
  MaxInstalls, MaxUpsets, Scripts, RowLimit, Owner, First, Stored, MaxAsks,
  MaxPosts, MaxEvents

\* A syslog port is 1 at least (syslog.routes.ts, env.ts), so that 0 can stand
\* for a transport that is not held.
ASSUME SettingsAssumption ==
  \A c \in Configs \cup {Default} : c.wants \subseteq {"udp", "tcp"} /\ c.port \in Nat \ {0}

\* A period is 5 minutes at least (report.routes.ts:12), and the first migration
\* brings version 2 (sqlite-migration.service.ts:12), so every payload has it.
ASSUME ReportsAssumption == Periods \subseteq Nat \ {0}

ASSUME UpgradeAssumption == Payloads \subseteq Nat \ {0, 1}

\* prune() leaves 5000 rows (routeros-log-fingerprint.repository.ts:52), more than
\* the lines a router's log holds (1000 in RouterOS unless it is set otherwise).
ASSUME RealtimeAssumption ==
  /\ "scheduler" \in Refreshers /\ "none" \notin Refreshers
  /\ {MaxEntries, LogSize, Keep} \subseteq Nat /\ LogSize <= Keep

\* 200 rows are kept per scope (topology.service.ts:139), and a caller of the inventory is
\* the timer, one of the two refresh routes or the collection by hand.
ASSUME InventoryAssumption ==
  /\ KeepRows \in Nat \ {0}
  /\ Collectors \subseteq ({"round", "all", "device", "manual"} \X Nat)

\* A script is a list of commands (batch-runner.ts).
ASSUME SdkAssumption == \A s \in Scripts : s.length \in Nat

\* The routers are gone through in order, and what a row does not hold is no address
\* and no name.
ASSUME ResolverAssumption ==
  /\ Devices \in Seq({Devices[i] : i \in DOMAIN Devices})
  /\ "absent" \notin Macs \cup Ips \cup Names

\* A word has a byte at least: the one without ends the sentence (packet-assembler.ts:12).
ASSUME CodecAssumption ==
  Said \in Seq(Seq(Seq(0 .. 255) \ {<<>>})) /\ Sizes \subseteq Nat /\ MaxChunks \in Nat

\* A word is a string of the runtime, and none has 2^31 bytes.
ASSUME LengthAssumption ==
  \A i \in DOMAIN Said : \A j \in DOMAIN Said[i] : Len(Said[i][j]) <= 2147483647

\* The bounds are numbers, and the page opens with a router or all of them.
ASSUME BoundsAssumption ==
  /\ {MaxOutages, MaxEdits, MaxSaves, MaxMishaps, MaxRuns, MaxBreaks, MaxPosts} \subseteq Nat
  /\ {MaxTime, MaxAsks} \subseteq Nat \ {0}
  /\ First \in {Owner[b] : b \in DOMAIN Owner} \cup {"__all__"} /\ Stored \subseteq DOMAIN Owner

VARIABLES
  part,  \* the part under check
  router, entries, turns, device, seenLog, baseline, refreshOf, job, client,
  cached, last, edit, round, told, announced, old, rejected,
  memory, persisted, rule, bound, held, open, taken, call, boot, update,
  waiting, asked, faults, raced, degraded, unsynced,
  schedules, file, clock, inFlight, active, sending, saves, mishaps, first,
  served, slip, disturbed,
  answers, link, status, snapshots, rows, roundInFlight, deviceJob, work, at,
  snap, seen, changes, stale, alone, current,
  actions, rules, fresh, runs, breaks, step, offers, actionId, removals,
  overlap,
  managedAliases, externalAliases, nodes, links, place, count, landed,
  fed, cuts, chunks, readOffset, heard,
  payload, service, env, dbs, request, phase, backup, wasActive, installs,
  upsets, before, verdict, cutShort, unrestored,
  script, dry, sock, stage, cur, todo, results, undo, leg, read, arrived,
  sent, inbox, answered, refused, carried,
  chosen, shown, loading, failed, lastAsk, asks, selected, busy, posts,
  stock, unborn, posted, events, ticked, removed

Realtime == INSTANCE DeviceRealtime WITH
  Callers <- Refreshers, MaxTurns <- MaxOutages

Settings == INSTANCE SyslogSettings

Reports == INSTANCE ReportScheduler

Inventory == INSTANCE InventoryTopology WITH
  Callers <- Collectors, Keep <- KeepRows

RouterOs == INSTANCE SyslogRouterOs WITH
  Callers <- Configurers

Resolver == INSTANCE TopologyResolver

Codec == INSTANCE PacketCodec

Upgrade == INSTANCE LinuxUpgrade

Sdk == INSTANCE SdkSession WITH
  round <- leg, told <- answered, at <- stage

Page == INSTANCE BackupPage WITH
  asked <- lastAsk

realtimeVars ==
  <<router, entries, turns, device, seenLog, baseline, refreshOf, job,
    client, cached, last, edit, round, told, announced, old, rejected>>

settingsVars ==
  <<memory, persisted, rule, bound, held, open, taken, call, boot, update,
    waiting, asked, faults, raced, degraded, unsynced>>

reportsVars ==
  <<schedules, file, clock, inFlight, active, sending, saves, mishaps, first,
    served, slip, disturbed>>

inventoryVars ==
  <<answers, link, status, snapshots, rows, roundInFlight, deviceJob, work,
    at, snap, seen, changes, stale, alone, current>>

routerOsVars ==
  <<actions, rules, fresh, runs, breaks, step, offers, actionId, removals,
    overlap>>

resolverVars ==
  <<managedAliases, externalAliases, nodes, links, place, count, landed>>

codecVars ==
  <<fed, cuts, chunks, readOffset, heard>>

upgradeVars ==
  <<payload, service, env, dbs, request, phase, backup, wasActive, installs,
    upsets, before, verdict, cutShort, unrestored>>

sdkVars ==
  <<script, dry, sock, stage, cur, todo, results, undo, leg, read, arrived,
    sent, inbox, answered, refused, carried>>

pageVars ==
  <<chosen, shown, loading, failed, lastAsk, asks, selected, busy, posts,
    stock, unborn, posted, events, ticked, removed>>

Idle == 0

RealtimeIdle ==
  /\ router = Idle /\ entries = Idle /\ turns = Idle /\ device = Idle
  /\ seenLog = Idle /\ baseline = Idle /\ refreshOf = Idle /\ job = Idle
  /\ client = Idle /\ cached = Idle /\ last = Idle /\ edit = Idle
  /\ round = Idle /\ told = Idle /\ announced = Idle /\ old = Idle
  /\ rejected = Idle

SettingsIdle ==
  /\ memory = Idle /\ persisted = Idle /\ rule = Idle /\ bound = Idle
  /\ held = Idle /\ open = Idle /\ taken = Idle /\ call = Idle
  /\ boot = Idle /\ update = Idle /\ waiting = Idle /\ asked = Idle
  /\ faults = Idle /\ raced = Idle /\ degraded = Idle /\ unsynced = Idle

ReportsIdle ==
  /\ schedules = Idle /\ file = Idle /\ clock = Idle /\ inFlight = Idle
  /\ active = Idle /\ sending = Idle /\ saves = Idle /\ mishaps = Idle
  /\ first = Idle /\ served = Idle /\ slip = Idle /\ disturbed = Idle

InventoryIdle ==
  /\ answers = Idle /\ link = Idle /\ status = Idle /\ snapshots = Idle
  /\ rows = Idle /\ roundInFlight = Idle /\ deviceJob = Idle /\ work = Idle
  /\ at = Idle /\ snap = Idle /\ seen = Idle /\ changes = Idle
  /\ stale = Idle /\ alone = Idle /\ current = Idle

RouterOsIdle ==
  /\ actions = Idle /\ rules = Idle /\ fresh = Idle /\ runs = Idle
  /\ breaks = Idle /\ step = Idle /\ offers = Idle /\ actionId = Idle
  /\ removals = Idle /\ overlap = Idle

ResolverIdle ==
  /\ managedAliases = Idle /\ externalAliases = Idle /\ nodes = Idle /\ links = Idle
  /\ place = Idle /\ count = Idle /\ landed = Idle

CodecIdle ==
  /\ fed = Idle /\ cuts = Idle /\ chunks = Idle /\ readOffset = Idle
  /\ heard = Idle

UpgradeIdle ==
  /\ payload = Idle /\ service = Idle /\ env = Idle /\ dbs = Idle
  /\ request = Idle /\ phase = Idle /\ backup = Idle /\ wasActive = Idle
  /\ installs = Idle /\ upsets = Idle /\ before = Idle /\ verdict = Idle
  /\ cutShort = Idle /\ unrestored = Idle

SdkIdle ==
  /\ script = Idle /\ dry = Idle /\ sock = Idle /\ stage = Idle
  /\ cur = Idle /\ todo = Idle /\ results = Idle /\ undo = Idle
  /\ leg = Idle /\ read = Idle /\ arrived = Idle /\ sent = Idle
  /\ inbox = Idle /\ answered = Idle /\ refused = Idle /\ carried = Idle

PageIdle ==
  /\ chosen = Idle /\ shown = Idle /\ loading = Idle /\ failed = Idle
  /\ lastAsk = Idle /\ asks = Idle /\ selected = Idle /\ busy = Idle
  /\ posts = Idle /\ stock = Idle /\ unborn = Idle /\ posted = Idle
  /\ events = Idle /\ ticked = Idle /\ removed = Idle

Init ==
  /\ part \in {"device realtime", "syslog settings", "reports", "inventory",
              "router logging", "topology", "protocol", "upgrade",
              "SDK", "backup page"}
  /\ IF part = "device realtime" THEN Realtime!Init ELSE RealtimeIdle
  /\ IF part = "syslog settings" THEN Settings!Init ELSE SettingsIdle
  /\ IF part = "reports" THEN Reports!Init ELSE ReportsIdle
  /\ IF part = "inventory" THEN Inventory!Init ELSE InventoryIdle
  /\ IF part = "router logging" THEN RouterOs!Init ELSE RouterOsIdle
  /\ IF part = "topology" THEN Resolver!Init ELSE ResolverIdle
  /\ IF part = "protocol" THEN Codec!Init ELSE CodecIdle
  /\ IF part = "upgrade" THEN Upgrade!Init ELSE UpgradeIdle
  /\ IF part = "SDK" THEN Sdk!Init ELSE SdkIdle
  /\ IF part = "backup page" THEN Page!Init ELSE PageIdle

Next ==
  /\ UNCHANGED part
  /\ IF part = "device realtime" THEN Realtime!Next ELSE UNCHANGED realtimeVars
  /\ IF part = "syslog settings" THEN Settings!Next ELSE UNCHANGED settingsVars
  /\ IF part = "reports" THEN Reports!Next ELSE UNCHANGED reportsVars
  /\ IF part = "inventory" THEN Inventory!Next ELSE UNCHANGED inventoryVars
  /\ IF part = "router logging" THEN RouterOs!Next ELSE UNCHANGED routerOsVars
  /\ IF part = "topology" THEN Resolver!Next ELSE UNCHANGED resolverVars
  /\ IF part = "protocol" THEN Codec!Next ELSE UNCHANGED codecVars
  /\ IF part = "upgrade" THEN Upgrade!Next ELSE UNCHANGED upgradeVars
  /\ IF part = "SDK" THEN Sdk!Next ELSE UNCHANGED sdkVars
  /\ IF part = "backup page" THEN Page!Next ELSE UNCHANGED pageVars

allVars ==
  << part,
     realtimeVars, settingsVars, reportsVars,
     inventoryVars, routerOsVars, resolverVars,
     codecVars, upgradeVars, sdkVars,
     pageVars >>

Spec == Init /\ [][Next]_allVars

\* The type invariant of the part under check.
TypeOK ==
  /\ part = "device realtime" => Realtime!TypeOK
  /\ part = "syslog settings" => Settings!TypeOK
  /\ part = "reports" => Reports!TypeOK
  /\ part = "inventory" => Inventory!TypeOK
  /\ part = "router logging" => RouterOs!TypeOK
  /\ part = "topology" => Resolver!TypeOK
  /\ part = "protocol" => Codec!TypeOK
  /\ part = "upgrade" => Upgrade!TypeOK
  /\ part = "SDK" => Sdk!TypeOK
  /\ part = "backup page" => Page!TypeOK

\* Whoever listens to the events never hears the same state twice in a row
\* (between two clear() and, for a port, between two looks that show no ports:
\* after one the next change is not told), and what was heard last is what the
\* service holds and, with no refresh under way and none rejected since, what the cached
\* snapshot shows.  A RouterOS log entry is heard of once at most, whatever
\* reconnects, retries of a refresh after a failed write, prunings and restarts
\* come between; and what the log held before there was a baseline is not heard
\* of (the fingerprint table of publishLogEvents; HUONG-DAN-TINH-NANG-5.1.md:7).
EventsTellTheState == part = "device realtime" => Realtime!EventsTellTheState

\* A connection left in the map that turns out dead is no outage: the device is
\* called offline only after a connection opened for this refresh failed, or
\* the database did (the retry with forceNewConnection).  And commands never
\* run over a connection opened with other settings than the row the refresh
\* read, although clear() of an edit is undone by a refresh under way.
OutageIsReal == part = "device realtime" => Realtime!OutageIsReal

\* Between two updates the memory, the database, the listeners and the
\* firewall hold one and the same configuration, whichever of them refused an
\* update, unless restoring the previous listeners or rule failed as well, the
\* program began and no update set the firewall yet, or an update met start()
\* half-way (the rollbacks of applySettings, settingsUpdateQueue).
SettingsAgree == part = "syslog settings" => Settings!SettingsAgree

\* The timer serves each period of a schedule once: what it sent since the
\* schedule was saved and the run it waits for differ by whole periods, and by
\* nothing but the lateness of the rounds that sent it; and a schedule is never
\* sent twice at the same time.  Manual sends, deliveries longer than a period
\* and a 409 met by the round change none of this ("Send now" does not shift
\* the configured cycle, report.service.ts:344).  Left out: a schedule saved
\* while the timer sends it, and a program or a disk that fails between the
\* message and markRun().
EachPeriodOnce == part = "reports" => Reports!EachPeriodOnce

\* A finished snapshot is not one that was still being collected, whatever
\* failed: it is complete exactly when no required collector is missing.
\* And the newest row of the topology history is the graph as it is, from the end of
\* a capture() whose inputs did not change meanwhile until they change (or an
\* overtaken capture() ends): also when captures of rounds, refreshes and
\* device jobs overlap.  And two neighbouring rows are equal only when another
\* capture stored its row in between.
HistoryHolds == part = "inventory" => Inventory!HistoryHolds

\* A configuration that reports success, no other having run meanwhile, left
\* one rule on one action of the new name, which sends to the address and port
\* asked for in the form of the profile reported (its format of the log may be
\* that of an earlier profile, which is not verified), with the topics asked
\* for, and nothing of the former name, whatever earlier runs left half-done.
\* And whatever breaks, requests that overlap included, no rule is left on an
\* action that does not exist.
OneRuleOneAction == part = "router logging" => RouterOs!OneRuleOneAction

\* All rows of one MAC address that are not recognised as a managed router land
\* on one node, which the MAC stands for from then on, in whatever order the
\* tables tell its addresses; a MAC that one router claims never has such a node,
\* and its links are links to that router.  Every other link is to the node each
\* address of its row stands for, as long as it stands for one: an IP that two
\* nodes had stands for none (resolveExternalAlias gives up on it), so a client
\* of which one table told the IP alone and another the MAC alone, before a third
\* told both, keeps two nodes.
OneNodePerMac == part = "topology" => Resolver!OneNodePerMac

\* However the stream is cut, inside a length field or a word included, what was
\* heard is what was said up to the last sentence that has arrived whole, and
\* the buffer holds the bytes after it; and a length survives its encoding on
\* both sides of every boundary of its forms.
CutsDoNotMatter == part = "protocol" => Codec!CutsDoNotMatter

\* Wherever an upgrade fails or loses its power, and however often it is begun
\* again with whatever package: a recorded schema version is true, with all
\* objects of the migrations up to it, and, unless the file was left half-made,
\* those of the first schema; an upgrade reported as done has the version of its
\* payload; and one reported as rolled back left an mme.db that was in use, the
\* configuration and the state of the service as it found them, each of them
\* unless the command that was to bring it back failed: the script ignores that
\* and reports the roll-back all the same (mme-control:531-534, 554-557, 566-570).
UpgradeKeepsItsWord == part = "upgrade" => Upgrade!UpgradeKeepsItsWord

\* What a result says happened on the router.  A command reported as carried
\* out was, and the rows read are its own, as long as nothing on the connection
\* failed before it.  A plan that stops at failures sends nothing after one, so
\* its rollback undoes only what was done, even though it runs on a connection
\* out of step, and undoes it last first; a dry run does nothing.
ReportIsTrue == part = "SDK" => Sdk!ReportIsTrue

\* The page acts on what it shows.  Only listed backups are ticked, and only
\* those ticked since the device was chosen, so nothing else can be named for
\* deletion.  A list that has loaded is of the devices chosen and without what
\* the page itself was told is deleted, although a list asked for earlier may
\* be answered later; until it has loaded, or when it fails, the page says so.
PageIsTrue == part = "backup page" => Page!PageIsTrue

-----------------------------------------------------------------------------
\* Values of the constants.
MCConfigs ==
  [wants : {{"udp", "tcp"}}, port : {1, 2}] \union {[wants |-> {}, port |-> 1]}

MCDefault == [wants |-> {"udp", "tcp"}, port |-> 1]

MCCollectors == {<<"device", 1>>, <<"round", 1>>}

MCDevices == <<"d1", "d2">>

MCClaimed == {<<"mac", "m2">>}

\* Three sentences: one with a word of 130 bytes (a length of two bytes), one
\* of a word of two bytes, one of a word of one byte.
MCSaid == <<<<<<3>>, [i \in 1..130 |-> 2]>>, <<<<7, 7>>>>, <<<<1>>>>>>

\* A plan that stops at a failure, one that goes on, and the adapter's
\* inventory with its last two prints tolerated.
MCScripts ==
  {[length |-> 3, tolerated |-> {}, undoable |-> {1, 2, 3}],
   [length |-> 3, tolerated |-> {1, 2, 3}, undoable |-> {1, 3}],
   [length |-> 3, tolerated |-> {2, 3}, undoable |-> {}]}

MCOwner == [b \in {"b1", "b2", "b3"} |-> IF b = "b3" THEN "B" ELSE "A"]
=============================================================================
