# MikroTik Manager Enterprise: a verification project

TLA+ models, model-checking configurations and machine-checked proofs for the
server of MikroTik Manager Enterprise (`src/apps/server`), its RouterOS clients
(`src/packages/routeros-core`, `src/packages/routeros-sdk`), its upgrade
(`src/packaging/linux`) and one page of its web application (`src/apps/web`).

The server is one Node process.  Nothing runs in parallel, but every `await` is
a point where another request, timer, socket event or activation of the same
function may run, and most of the code that matters reads something, awaits, and
then acts on what it read.  The models take that as their unit: an operation is
one action per stretch of code between two awaits at which somebody else can
change what it uses.

## The system

| part | state | operations | interacts with | modelled in |
|---|---|---|---|---|
| core jobs (`core/jobs`, `core/events`) | a `Map` of jobs, handlers, `running` | `enqueue`, `process`, `runJob` | awaits its listeners through the core event bus | `JobQueue`, `JobLife` |
| core audit and alert listeners (`core/modules`) | rows in the database | one row per event of a job | called by the event bus, may reject | `JobQueue` (rows as counters) |
| core scheduler (`core/scheduler`) | tasks with `nextRunAt`, a timer | `start`, `stop`, `tick` | enqueues jobs, awaits listeners | `CoreScheduler` |
| application event bus (`modules/events`) | the newest events, subscribers | `publish` | calls subscribers without awaiting them | in `AlertLifecycle` |
| alert lifecycle | alert rows | `openOrUpdate`, `acknowledge`, `resolve`, their bulk forms, `delete` | bridge from device events; publishes ALERT_* events | `AlertLifecycle` |
| notifications | channels, rules, deliveries, a file | `enqueue`, `processPending`, `retryDelivery`, `retryFailed`, `testChannel` | bridge from ALERT_* events; HTTP, SMTP | `NotificationDelivery` |
| syslog receiver | a bounded queue, counters, sockets, a timer | `receive`, `flush`, `start`, `stop` | UDP, TCP, the database | `SyslogReceiver` |
| syslog settings, firewall | settings in memory and database, listeners, a firewall rule | `start`, `updateSettings` with its rollbacks | receiver, operating system, database | `SyslogSettings` |
| RouterOS logging | actions and rules on the router | `configure` | RouterOS client | `SyslogRouterOs` |
| RouterOS connection (`packages/routeros-core`) | connection state, queue of chunks, a waiting reader | `connect`, `login`, `command`, `close` | sockets; used by realtime, inventory, backup | `RouterConnection` |
| RouterOS codec | chunks and a read offset | length and sentence encoding, packet assembler | the connection | `PacketCodec` |
| backup | backup records, files, schedules | `create`, `delete`, `deleteMany`, `configureSchedule`, `enforceRetention` | a RouterOS client, the router's ssh and ftp services | `BackupService` |
| device realtime, device rows | cache, clients, refreshes under way, previous states, log fingerprints | `refreshSnapshot`, `clear`, `update`, `delete`, the scheduler's round | RouterOS client, event bus, database | `DeviceRealtime` |
| inventory, topology history | snapshots, topology rows, `inFlight`, `deviceJobs` | `runOnce`, `runDevice`, `collect`, `capture` | RouterOS client, database | `InventoryTopology` |
| topology resolver | nodes, links, aliases of one resolution | `resolveTopology` | inventory rows, manual links | `TopologyResolver` |
| reports | schedules, history, a file | `runDue`, `sendScheduleNow`, `saveSchedule`, `markRun` | Telegram | `ReportScheduler` |
| installation, upgrade, migrations | files, database, configuration, the service | `install_or_upgrade`, `setup-native`, migrations, roll-back | systemd, the package manager | `LinuxUpgrade` |
| authentication, roles, audit, alert rules, compliance, dashboard, preferences, administration | tables | requests that read or write in one step | database | not modelled |
| RouterOS SDK (`packages/routeros-sdk`) | a socket, pending replies, a batch's results | `connect`, `readReplySet`, `execute`, `rollback` | the server's adapter for probes | `SdkSession` |
| web application (`apps/web`) | what a page shows, ticks and has asked for | `useAsyncData`, the backup page | the routes | `BackupPage` |
| the other pages, server start-up | | input, output and presentation | the routes | not modelled |

What is hard here: activations of one function that overlap (`process`, `tick`,
`handleEvent`, `processPending`, `flush`, `create`, `capture`, `configure`), rows read
before an await and written after it, listeners that reject in the middle of an
operation, roll-backs that fail themselves, batches that fail and return, late replies
on a shared connection, a time limit against a late answer, and a process that ends
between two steps.  `PROJECT.json` lists these
hazards at their lines with the properties that watch them.

What makes each part correct is stated with its module below.

## Plan

Order and state of the work; the most important behaviour first.

1. `JobQueue`, `CoreScheduler` (extends it) and their proofs.  Done.
2. `AlertLifecycle`, `NotificationDelivery`.  Done.
3. `SyslogReceiver` and its proofs.  Done.
4. `RouterConnection`, `BackupService`.  Done.
5. `DeviceRealtime`, `SyslogSettings`, `ReportScheduler`, `InventoryTopology`.  Done.
6. `SyslogRouterOs`, `TopologyResolver`, `PacketCodec`, `LinuxUpgrade`, `SdkSession`,
   `BackupPage`.  Done.
7. `JobLife`, what the queue promises, shown to be implemented by `JobQueue`.  Done.
8. Proofs: the refinement `JobsLive`, and every safety invariant and type invariant the
   passing runs check, of the seven modules with a run of their own and of the ten further
   parts.  Done.
9. Further abstract specifications worth stating: a lossy bounded channel in order (by
   `SyslogReceiver`), a sequence of request and answer pairs (by `RouterConnection`
   while no command fails).

`CoreScheduler` composes the queue with the scheduler, `SyslogSettings` the service with
the receiver's `start()` and `stop()`, `InventoryTopology` the inventory with the history
made of it.  The other modules meet at the event bus or the database, where what another
part does is an action of the receiving module's environment.

## Modules, runs and what they show

Each run has an `MC` module and a `.cfg` with small constants.  All bounds are
constants with a comment that says "bound", and appear as guards.  Counters
and sets commented "history" are not in the code; they record what a property
speaks of.  In all runs deadlock is not checked, because each of these systems may
come to rest.

### JobQueue (`core/jobs/job-queue.ts`, run `job_queue`)

A job is named by its place in the `Map`.  `Enqueue`, `CreatedOk` and `CreatedThrows`
are `enqueue()` up to, and after, the await of the `job.created` listeners; `Process`
is the call from the microtask (it returns at once when `running` is set); `Take` is
the loop finding a pending job and the beginning of `runJob`; `StartedOk`,
`HandlerOk`, `CompletedOk`, `Catch`, `RetryOk`, `FailedOk`, `AlertOk` follow
`runJob` from await to await; `ProcessThrows` is any rejection that leaves
`process()`, which nobody handles, so that Node ends the process; `Restart` is the
service manager starting it again with an empty `Map` (`Restart=` in
`packaging/linux/mme.service`).  Database rows of earlier lives are not counted:
`row` belongs to the jobs of the life under way.

- `OneAtATime`: two activations are never both past the flag.
- `FirstAttemptsInOrder`: first attempts follow the order of `enqueue()`.
- `AuditTrail`: the rows explain the state of every job nobody has in hand.
- `JobsLive`: the queue implements `JobLife`, the life of a job as those who enqueue it
  see it: absent, waiting, tried, failing, completed or failed; settled once, after as
  many attempts as were asked for, one job tried at a time.  The mapping reads a job's
  stage off the status, the rows written for it and the activation that has it in hand:
  a job is `completed` when its completion is recorded, not when the handler returns.
  The `job.completed` emit stands inside the `try`, so a listener that rejects after the
  handler succeeded leads to another attempt or a failure; that a recorded completion is
  final nevertheless follows because the only listener writes the row last.
- `NoJobForgotten`: no lost wakeup, although a microtask that finds the flag set does
  nothing and a retried job lies behind the iteration that retried it.  A retried job
  needs a *later* `process()`: without another `enqueue()` it may wait for ever, and the
  property says only what the code gives.

Bounds: three jobs, two attempts (the largest any caller asks for), two
activations.  Three jobs allow one in hand, one behind and one ahead of the cursor.
Fairness: weak fairness of each activation's step.  The event loop runs queued
microtasks and resumes awaits; handlers and listeners are assumed to settle.

### CoreScheduler (`core/scheduler/scheduler.ts`, run `core_scheduler`)

Extends `JobQueue`; a tick awaits the queue's `enqueue()` and then its own
`schedule.triggered` listeners, and other ticks may start meanwhile.

- `NeverTooOften`: n jobs of a task need n intervals of time, because `nextRunAt` moves
  before the first await.
- `DueTaskIsTriggered`: a due task is triggered, unless the scheduler stops, the
  program ends or the bound on jobs is reached.

Bounds: tasks of one and two periods, two ticks, two jobs.  Fairness: the
timer fires again whenever a tick has ended (`setInterval`), and ticks and activations are
resumed; that time passes is not assumed.

### AlertLifecycle (`modules/alert-lifecycle`, run `alert_lifecycle`)

One device, three events (offline, online, a log line), two bridge handlers that may
overlap, one request of a user at a time, a crash.  Each call of the database is a
step.  `ReadRow`, `WriteRow`, `TellRow` are the read, the write and the publication of
`acknowledge()` and `resolve()`; `stage` says for each actor and row how far it is,
since `Promise.all` works on many rows at once; `RejectRow` is the rejection by a
row that is gone.

- `Announced`: what happened to a row is published, although the decision to publish
  rests on a row read before the write (rows cut by a crash apart).
- `OneActivePerRule`: at most one active alert per rule and none whose opposite came
  later.  Promised by the code only while handlers do not overlap (`orderly`), since
  `openOrUpdate()` looks and then creates; it holds then whatever users do meanwhile.
- `NeverReopened`: nothing returns to `open`, and only an acknowledgement from a stale
  row makes a resolved one active again (`revived`).
- `FoundAlertIsResolved`: every row a handler set out to resolve is resolved or
  deleted in the end, even when another row made `Promise.all` reject.

Bounds: three events suffice for a pair that overlaps and a third that meets what
they left.  The safety properties were also run with two calls of users.  Fairness:
the database answers.

### NotificationDelivery (`modules/notifications`, run `notification_delivery`)

The web inbox and one webhook, two activations, three deliveries, one request of a
user or crash.  An activation takes its list once (`Begin`) and handles it one by one:
`Listed` is the snapshot, the newest pending ones oldest first; `Dispatch` looks at the channel, `Reach` is the message at the service, `Answer`
the end of the request, `Fail` a request that was refused, timed out or was
answered with an error, before or after the service got it.  `Crash` keeps what
`persist()` would have written, the newest `KeepStored` deliveries.

- `EveryMessageCounted`: no message reaches a service off the books, and "sent" means
  that the service got it.
- `OncePerRequest`: without overlapping activations a message arrives once, and once
  more per request of a user.  With overlap it may arrive twice, which is
  what the snapshot of pending deliveries gives.
- `FreshIsAttempted`: the activation that enqueued a delivery attempts it, although it
  asks only for the newest pending ones; with two deliveries of one millisecond that
  may fail, so the property speaks of one that came alone.

The safety properties were also run with `MaxCalls = 2`, and with two deliveries and
three calls.  Fairness: every request has a time limit, so it ends.

### SyslogReceiver (`modules/syslog/syslog.receiver.ts`, run `syslog_receiver`)

`Receive` is `receive()` with the flush it may start (its outcomes: accepted, dropped
for its size or because the queue is full, unparsable); `Flush` takes a batch,
`WriteOk` and `WriteFails` end it; `Stop`, `Closed`, `Flushed`, `Listen`, `Bound` are
`stop()` and `start()` from await to await.  A write that is rejected is taken to have
stored nothing.  Two calls of `start()` at once, and `stop()` at shutdown during an
application of settings, are not modelled.

- `Conservation`, `InOrder`: the queue never exceeds its limit, the counters
  account for every message, and messages are written in the order they came, also when a
  failed batch returns to a queue that filled up meanwhile.
- `QueueDrains`: a message leaves the queue unless the receiver is stopped.

Bounds: a queue of three, batches of two and six messages let the queue overflow and
a failed batch find no room.  Fairness: the timer calls `flush()` and writes end; that
a write repeated for ever does not fail for ever (strong fairness of `WriteOk`) is
an assumption about the database, used by `QueueDrains` alone.

### RouterConnection (`packages/routeros-core`, runs `router_connection`, `stale_reply`, `silent_router`)

One `RouterClient`: the states of `ConnectionManager`, the transport's queue of chunks
and its one waiting reader (`Block`, `Wake`), the login as command 0, and commands one
after the other, as the server issues them.  The router and the network are external:
`Row`, `Finish`, `AfterTrap` are what a router may say, `Deliver(k)` is a chunk of any
size, cut between sentences; the two exchanges of a challenge login are one.
`ReadChunk` is the whole of `readResponse()` for a chunk: `Heard` are the places of the
replies it takes up, for those of another tag are ignored and what follows the reply that
ends the command is lost; the time limit is looked at only then.  A failed `connect()` leaves the state `error`: the
`error` event of a client without listener throws before the state could become
`closed`.  Closing the socket does not change the connection's state, and a fatal reply
does not close it.  A reconnection makes a new client and is a new instance.

- `AnswersMatch`: as long as no earlier command failed, a command reads exactly its
  rows, in order, however the stream was cut and even if the client is closed.
- `AnsweredCommandEnds`: no chunk slips past the waiting reader, and a close reaches the
  command under way.
- `OwnRows` (expected to fail): `COMMAND-PIPELINE.md:5` says that `.tag` associates
  responses.  `command()` makes a new tag generator for every command, so every tag
  is `req-1`, and the command after a failed one reads what is left of its answer.
- `CommandEnds` (expected to fail): a command has a time limit, but only data makes
  the code look at the clock.  A router that falls silent keeps it waiting, and with
  it every later refresh of the device.

Bounds: two commands of two rows: one to fail and one to suffer from it, with answers that
may be cut anywhere.  Fairness: the reader is resumed, bytes sent arrive unless the
socket closes, `close()` destroys the socket, time passes.  Nothing is assumed of the
router.

### BackupService (`modules/backup`, runs `backup_service`, `retention_race`)

One device.  Each record is the process of its `create()`; `Config` and `User` are an
edit of the schedule and a deletion.  `Save` to `RestoreFails` follow
`downloadRouterFile()` and `withTemporaryRouterService()`, with a router whose commands
may fail before or after they took effect; `Write` to `Catch` the file and the
record; `ReadLimit`, `List`, `Check`, `Select`, `DeleteFile`, `DeleteRecord` are
`enforceRetention()` from await to await, the last two also `delete()` and
`deleteMany()`.  What precedes the record changes nothing.  Archives, downloads
and validation are reads.  When a schedule is due is left out: the scheduler is one more
caller.  Records created in one millisecond and errors of `unlink` other than a
missing file are not modelled; nobody else edits the router's services.

- `ServicesRestored`: a service enabled for a transfer is disabled again, however many
  backups share it, unless the restoring command failed or the server crashed; one that
  was enabled is never touched.
- `RetentionHolds`: retention never deletes one of the newest `maxFiles` backups; a
  completed backup has its file, between a deletion's two steps apart; and at rest no
  more than `maxFiles` are completed, unless a retention gave up because another had
  deleted what it was about to delete (`crossed`).
- `FilesWithinLimit` (expected to fail): of two retentions at once, the one that
  meets a record already deleted is rejected, and the catch of `create()` turns the backup
  just stored into a failed one; its file stays and is never counted again.

Bounds: three backups, two at a time, limits of one, two and the default, and one edit,
deletion or crash.  Two overlapping retentions and a third that meets their result
need three.

### Ten further parts (run `server_services`)

`MCServerServices` checks ten modules in one run.  They share no variable and no
action, so a product would only multiply their states: the first state chooses the part
under check (`part`), the variables of the others stay `Idle`, and each invariant speaks
of its own part.  It is the union of ten runs with one configuration; each module keeps
its own `Init`, `Next` and properties.

#### DeviceRealtime (`modules/device`)

One device and two callers of `refreshSnapshot()`, the scheduler's round and a request;
`refreshOf`, `client`, `cached` and `last` are the service's maps at that device.
Settings are a generation number, since the code compares the whole key of a connection.
`Refresh` joins or starts; `Find` to `PublishHealth` follow `loadSnapshot()` and
`publishRealtimeEvents()` from await to await; `Caught` is the catch block with its second
attempt over a new connection, `Offline` its end.  In `Talk` every print but that of the
resource may fail alone, or read another command's rows, as `safePrint()` allows: the
refresh then goes on without ports, sensors or log.  `EditBegins` and `EditWrites` are
`update()` and `delete()`, which clear first and write after.  `RouterDown`,
`RouterTurns`, `RouterLogs` are the router, `Restart` the end of the program.

- `EventsTellTheState`: a subscriber never hears the same state twice in a row, and the
  last thing heard is what the cache shows.  A port is the exception: a look that shows
  none empties what the service knows of it, and the next change is not told, so that the
  property speaks of what was heard since (`told`).  And the stored fingerprints keep a log entry
  from being announced twice through retries, prunings and restarts.  With a `Keep` below
  the router's own log this would fail; the code keeps 5000 rows, RouterOS logs 1000
  lines.
- `OutageIsReal`: a dead connection left in the map is no outage, and no command
  runs over a connection opened with other settings than those read.

Bounds: two log entries of which the router keeps one, one edit, one change, loss or
failure.  One of each makes a retry, a stale connection or a prune meet a
poll.

#### SyslogSettings (`syslog.service.ts`, `syslog.receiver.ts`, `syslog-firewall.service.ts`)

A configuration on its way to four places.  `CallStart` to `KeepTcp` are
`SyslogReceiver.start()` for either caller, `BootRead` to `BootEnd` `SyslogService.start()`;
`Apply`, `Started`, `FirewallOk`, `SaveOk` the way forward of `applySettings()`,
`FirewallFails`, `SaveFails`, `RolledBack`, `UndoFirewall` the way back.  Other programs may
hold a port.

- `SettingsAgree`: between two updates memory, database, listeners and firewall hold one
  configuration, whichever of them refused.  Excused, each by a history variable named
  for it: a roll-back that failed as well, a firewall no update has set since the
  program began (`start()` does not look at it), and an update that met `start()` half-way,
  which the update queue does not cover.

Bounds: configurations for both transports, one or none on two ports; two updates, two
faults: one to start the roll-back, one to break it.

#### ReportScheduler (`modules/report`)

`Tick` is a round of the timer with all schedules due, `Deliver` the message at Telegram,
`End` the history and `markRun()`, `Throws` the errors that skip it.  Time is counted in
periods of the timer.

- `EachPeriodOnce`: what the timer sent since a schedule was saved, and the run it waits
  for, differ by whole periods and by the lateness of the rounds; a schedule is never sent
  twice at a time.  Manual sends change none of it (`report.service.ts:344`).

Bounds: one schedule every two units over seven units, two saves, two mishaps; schedules
meet only in the round that sends them.

#### InventoryTopology (`modules/inventory`, `modules/topology`)

The round, a device job, a request to refresh and a manual collection, as the list of
steps (`Plan`) each still has to make, with the guards `inFlight` and `deviceJobs`.
`CreateSnapshot` to `FailsTwice` are `collect()`, `ReadDevices` to `CaptureFails`
`capture()`.

- `HistoryHolds`: a finished snapshot is complete exactly when no required collector is
  missing; the newest topology row is the graph as it is, unless what a capture read
  changed under it; and neighbouring rows are equal only when another capture came
  between.

Bounds: a device job and the round of the timer (`MCCollectors`), one required and one optional section, two snapshots, one change.

#### SyslogRouterOs (`syslog-routeros.service.ts`)

`configure()` command by command against a router that refuses, silently ignores or
leaves a command unanswered, before or after it took effect.  Rules are printed in the
order of their identifiers, so that the list in hand is a set: `Foremost` is its first.
An action is known by the profile written last, and `Matches` compares what
`actionMatchesProfile()` compares, its `Destination`: an earlier run's action in another
profile's format is accepted when the router ignored the new one.

- `OneRuleOneAction`: a configuration that reports success leaves one rule on one action
  that sends where it was asked to, also after runs that broke off; the format of the log
  is not verified.  Two at once may leave two rules and are excepted (`overlap`), but
  whatever happens no rule is on an action that is gone.

Bounds: two callers, two runs, one break.

#### TopologyResolver (`topology-resolver.ts`)

The rows of the inventory are resolved one by one in the order of the tables; aliases are
per managed device and for everybody else, as in the code.

- `OneNodePerMac`: whatever the order of the tables and what a row leaves out, the rows of a
  MAC address that are not recognised as a router land on one node; a MAC that one router
  claims has no such node and is linked to that router; and a link leads to a node that
  each address of its row stands for (`Drawn`).  It does not say that a client has one
  node: told by its IP alone and by its MAC alone before a row has both, it keeps two.

Bounds: two devices, one of which observes, two MACs, one address, one name, three rows.

#### PacketCodec (`packages/routeros-core/src/protocol`)

Length encoding, the buffer and the assembler as functions; `Push` is a chunk of any of
the sizes given.  The two loops of the assembler are recursive functions of the number of
turns: `NextWord` is a turn of `tryReadSentence()`, which reads a word, or ends with the
empty word or where bytes miss; `NextSentence` is a turn of `push()`, which takes a whole
sentence and its bytes out of the buffer.  After as many turns as there are bytes both
have ended, because each turn before the last takes one at least.

- `CutsDoNotMatter`: what was heard is what was said, up to the last sentence that has
  arrived whole, and the buffer holds the rest, however the stream is cut; and a length
  survives its encoding on both sides of every boundary of its forms.

Bounds: three sentences, one with a word of 130 bytes, so that a length field of two
bytes is cut; chunks of 0, 1, 2, 5, 64 and 129 bytes; the buffer compacts from an
offset of 20 bytes, where the code says 4096, so that both of its conditions occur.

#### LinuxUpgrade (`mme-control`, `mme-ubuntu-install.sh`, `setup-native.ts`, migrations)

`StopService` to `Ready` are `install_or_upgrade` in order, `Create` to `Seed` the
database's part, statement by statement where there is no transaction; `StepFails` is
the ERR trap or a branch of its own, `RestoreDb` to `Restart` `restore_state()` and the start
of the service.  These run under `set +e`, so that each may fail and the roll-back goes on
and is reported as complete; the history variable `unrestored` names what was not brought
back.  `PowerLoss` leaves everything where it is.

- `UpgradeKeepsItsWord`: a recorded schema version is true, an upgrade reported as done
  has its payload's version, and one reported as rolled back left `mme.db`, configuration
  and service as found, wherever it failed and however often it was begun again, except
  for what is `unrestored`.
- `RolledBack` (run `upgrade_rollback`, expected to fail): `mme-control:557` and `570` say
  that database and configuration were rolled back, but `backup_state()` (line 310) saves
  only `mme.db`.  With a database in another file, which `mme-ubuntu-install.sh:701`
  allows, a failed upgrade leaves that database migrated, also when no command of the
  roll-back failed.

Bounds: payloads of two schema versions, three installations, two upsets: one to fail the
upgrade, one its roll-back.  A configuration file of which only a part was written is left
out.

#### SdkSession (`packages/routeros-sdk`, `modules/routeros/routeros-sdk.adapter.ts`)

One client on its transport: `Connect`, `Send`, `Read`, `TimeOut`, `Close` are
`TcpTransport` with the login of `RouterOsClient`; `NextCommand` to `Rollback` the loop of
`BatchRunner` and the rollback of its result.  A script says which failures it goes on
after, so it stands for both modes of a batch and for the adapter's prints with their
`catch`.  The router and the network are external; after a refusal the router says `!done`.

- `ReportIsTrue`: what is reported as done was done and read its own rows, until something
  on the connection fails; a plan that stops at failures sends nothing after one, so its
  rollback undoes only what was done and last first, though it runs over a connection out
  of step; and a dry run does nothing.  A plan that goes on after a refusal has no such
  promise: the `!done` that follows the `!trap` answers the next command.

Bounds: three commands, with none, all or two tolerated; one row an answer.

#### BackupPage (`apps/web`: `useAsyncData.ts`, `BackupCenter.tsx`)

`Load`, `Answer`, `Loaded`, `LoadFails` are the hook with its `mounted` flag, `Choose` to
`Create` the user, `Serve` to `Rejected` what was posted, `Elsewhere` the scheduler and other
users.  The server's part is `BackupService`, here a set.

- `PageIsTrue`: only listed backups are ticked, and only those ticked since the device was
  chosen, so that nothing else is named for deletion; and a loaded list is of the devices
  chosen and free of what the page was told is deleted, though an older list may be answered
  later.

Bounds: two devices with three backups; three lists, two posts, one choice or change
elsewhere: an answer can be overtaken, and a deletion can meet it.

## Findings

Four disagreements between the code and what its documents, messages or tests say, each a
run of its own that TLC finds violated: `stale_reply`, `silent_router`, `retention_race` and
`upgrade_rollback`, described above and in `PROJECT.json` with the quoted lines.  Also met
while modelling, without a run:

- a backup deleted while it is running leaves the file it writes later without a record
  (`backup.service.ts:222`);
- events of one device handled at once may leave two active alerts of a rule;
- a report schedule edited while the timer sends it has its next run overwritten by
  `markRun()` (`report.service.ts:362`);
- a database error while events are published marks the device offline although the
  router answered (`device-realtime.service.ts:330`);
- three ARP rows of one endpoint score 66 and so make an "inferred" link, where
  `topology-resolver.test.ts:144` says that what only ARP has seen stays unresolved;
- after a refused command, the adapter's `inventory()` takes the `!done` that is left for
  the answer of the next print, so that later prints return the rows of earlier ones
  (`routeros-sdk.adapter.ts:149`, `tcp-transport.ts:91`);
- the older login never succeeds: its challenge is looked for among rows, but `!done`
  bears it, and the `!done` of the refused first login is taken for its answer
  (`routeros-client.ts:119`);
- a dry run returns a rollback plan that is not dry (`batch-runner.ts:73`);
- a port that changes between a failed `/interface/print` and the next look is not told
  of (`device-realtime.service.ts:521`);
- the profile reported for a router's logging may not be the one in its action, whose
  format is not verified (`syslog-routeros.service.ts:48`);
- a client told by its IP alone and by its MAC alone before a row has both keeps two nodes
  in the topology (`topology-resolver.ts:300`);
- an upgrade reports "rolled back" also when a command of the roll-back, the start of the
  service included, has failed (`mme-control:531`, `554`, `566`);
- a manual link to a node that vanished brings the node back under its identifier
  (`topology-resolver.ts:593`).

## Proofs

TLAPS checks these for every value of the constants that satisfies the assumptions below;
TLC evaluates the assumptions in the runs.  They say what kind of thing a constant is
(numbers, finite sets, values outside a set) and, beyond that, only this:

- `AlertAssumption`: some event exists, and raising an alert is not one of the ways to
  clear it;
- `NotificationAssumption`: there is an inbox, for `seedDefaults()` makes an `in_app`
  channel, and a service that gets messages is none;
- `ReceiverAssumption`, `BackupAssumption`, `SchedulerAssumption`, `ConstantsAssumption`: limits,
  intervals and numbers of attempts are positive, as in the source;
- `ReportsAssumption`, `UpgradeAssumption`, `SettingsAssumption`: a schedule's period
  (`report.routes.ts:12`) and a listener's port (`syslog.routes.ts`) are positive, and a
  payload has at least the schema version the first migration brings
  (`sqlite-migration.service.ts:12`);
- `RealtimeAssumption`: prune() leaves at least as many fingerprints as the router's log
  has entries (5000, `routeros-log-fingerprint.repository.ts:52`, against the 1000 lines
  RouterOS holds unless it is set otherwise); with a longer log an entry whose fingerprint
  was pruned would be told again;
- `InventoryAssumption`: some row is kept per scope (200, `topology.service.ts:139`), and who
  collects is the timer, one of the two refresh routes or the collection by hand;
- `SdkAssumption`: a script is a list of commands (`batch-runner.ts`), so it has a length;
- `ResolverAssumption`: the devices are a list, and what a row does not hold is no address
  and no name;
- `CodecAssumption`, `LengthAssumption`: words are sequences of bytes and have one at least,
  for the empty word ends a sentence (`packet-assembler.ts:12`), and less than 2^31 of them,
  which no string of the runtime reaches; above that the shifts of `length.ts` would give a
  negative number;
- `BoundsAssumption`: the bounds are numbers, and the page opens with one of the routers or
  with all of them, with backups that exist.

### The queue, the scheduler

`CoreSchedulerProofs`, of the queue: type correctness, `OneAtATime`, `FirstAttemptsInOrder`,
`AuditTrail`, and the refinement `JobsLive`.  None is inductive alone.  The invariant `IInv` adds `Flag`
(the flag is up exactly while an activation is past it), `Fresh` (jobs not created yet are
untouched), `Ledger` (what the rows of the job in hand look like at each await) and
`Behind` (what an iteration has passed has been tried).  `OneAtATime` makes the job
in hand unique, so a step changes one job's rows, and `Ledger` hands the job over to
`AuditTrail` when its activation lets go of it.  For the refinement each action is shown
to move the stage of at most one job along one arrow of `JobLife`, or to stutter.

And of the scheduler: type correctness and `NeverTooOften`, and everything above once
more under the scheduler, since each of its steps is a step of the queue or leaves it alone.
`SysInv` adds to `IInv` that every job of a task has moved its `nextRunAt` by an interval
(`Spaced`), that `nextRunAt` is at most one interval ahead of the clock, and that no tick,
however long it is held at its awaits, works with a time still to come (`NowIsPast`).

### Alerts and notifications

`AlertLifecycleProofs`: type correctness, `Announced`, `OneActivePerRule` and
`NeverReopened`.  `AInv` names who owes what: every timestamp set and not published is
owed by an actor that found it unset in the row it read (`Debts`), and every opening by
the handler that created the row.  As long as handlers do not overlap, the one that is live handles the
last event, and what that event clears and is still active is in its hands (`InHand`);
until it creates a row, users can have made active ones only by reviving resolved ones
(`NoneToDouble`).

`NotificationDeliveryProofs`: type correctness, `EveryMessageCounted` and `OncePerRequest`.
`NInv` bounds what a service received by the attempts counted, the answers still awaited and
the attempts of which the books were lost (`Counted`); an activation's list holds no delivery twice
and none that is unknown (`Lists`); and without overlap what it still holds is pending, so that a
message its service already has is not in the list (`Requested`).

### The receiver

`SyslogReceiverProofs`: type correctness, `Conservation`, which includes the bound
`Bounded`, and `InOrder`.  The
invariant speaks of the pipe `batch \o queue`: it is sorted, everything written is older,
and nothing is newer than the last message received.  Taking a batch and returning it
whole leave the pipe as it is; returning part of it cuts the batch's end out, and a
part of a sorted sequence is sorted.  `BatchOfFlush` says that a batch belongs to the
flush under way and bounds its length, which `Bounded` and the counters need.

### The connection

`RouterConnectionProofs`: type correctness and `AnswersMatch`.  `RInv` says of the stream
what the property says of its end: as long as no command has failed, the chunks in the
queue and then the bytes under way are consecutive stretches of the answer to the pending
command, the first of which begins where the rows read so far end (`Stream`, with the
places at which the chunks begin as a witness); nothing is left of an answer that was read to
its end (`OnItsWay`).  `Order` says which command the router answers.  `HeardOfStretch`,
about what a reader takes from such a chunk, and `PlacesTaken`, about the ranks of a finite
set of numbers, are the lemmas it needs.

### Backups

`BackupServiceProofs`: type correctness, `ServicesRestored` and `RetentionHolds`.  `BInv`
has how far each record has come (`Stages`), which services are open and for whom (`Windows`),
the files of completed records (`Files`), what a retention may delete as long as nobody edits or
deletes (`DeletesOld`), and, for the last part of `RetentionHolds`, who answers for the
number of backups (`ListsCover`): of any set of listed backups one retention, the last to
take its list, has all of them in hand or leaves no more than the limit.

That part used to be stated without `crossed`, and the attempt to prove it failed for a
reason TLC then confirmed with four backups and the limits 1 and 2: an edit that lowers the limit meets the
retention of a `create()` under the older limit; that one deletes a record which the
edit's retention had listed, too; the edit's is rejected where it looks the record up
(`backup.service.ts:278`) and stops, and more than the limit remain until the next backup.
Deleting a schedule does the same, for the limit is then 30 (`backup.service.ts:269`) and
may have been 500 (`backup.routes.ts:18`).  With the three backups of the run this needs
one more.

### Parts of `MCServerServices`

`ServerServicesProofs`: `EventsTellTheState`, `OutageIsReal`, `SettingsAgree`,
`EachPeriodOnce`, `HistoryHolds`, `OneNodePerMac`, `UpgradeKeepsItsWord`, `PageIsTrue` and
type correctness, and `ProtocolProofs`: `OneRuleOneAction`, `ReportIsTrue` and `CutsDoNotMatter`,
each as an invariant of the composition, whose other parts are then idle. What makes them inductive: for a device,
that a refresh under way is the only one and holds at each stage a connection opened
with the settings it read (`Refreshing`), that a connection lies in the map only while
the device was not found offline, or a refresh is at work on it (`Shown`), and that an
entry told or older than the baseline is remembered or has left the router's log
(`Remembered`; `PruneKeeps` is where the assumption above is needed); for the settings,
which configuration each place holds at each stage of the start and of an update
(`Booting`, `Updating`); for the reports, the account of the runs a timer served, which
the run under way will be marked with (`Balanced`), and that a restart reads what is in
memory (`Recorded`); for the inventory, that a snapshot has one collector and is not finished
before it (`OwnSnapshot`), that what a capture has read is the graph unless the graph moved
since, and that what it is about to store differs from the newest row unless another
capture came between (`ReadAlone`); for a router's logging, that names and identifiers are
kept apart and an action is there as long as a rule is on it (`OnePerName`), that whoever
has rules still to remove has those of the former action in hand, so that the action
they need is not removed before them, however many requests run at once (`AllCare`),
and that who had the router alone knows it (`AloneAtIt`); for the upgrade, which files are still, or again, as found at each
step of the way (`UpgradeSaved`) unless they are `unrestored`, and that what was saved of
them is true; for the page,
that the last list asked for is free of what was removed, however late it comes
(`PageLists`), and that nothing the page can name is still to be made (`PagePosts`); for
the resolver, that what an address stands for is the one node it landed on, or nothing
yet (`OneEach`), whichever of the rows' branches put it there, that what routers claim
stays apart from it (`Claims`), and that what is drawn goes on agreeing with the aliases
that later rows add (`RowsDrawn`).

Type correctness (`TypeAlways`) needs a little more than the types in most parts, since a
state may be typed only because of where the others are.  `AllTyped` collects it:
a round of reports is in flight as long as a delivery of the timer is (`ReportTyped`);
no connection was opened with settings later than the last edit, whoever holds it
(`RealtimeTyped`); an open socket is on a configuration's port and nobody else holds it,
also after an update met the start half-way (`SocketsTyped`); and the end of a round, or
of a device job, is one caller's to do, once, as long as the flag is up, which bounds what
each still has to do (`ErrandsTyped`).

For a session of the SDK the invariant speaks of the stream as `RouterConnectionProofs`
does: as long as nothing failed, what was read, what has arrived and what is under way make
up, in this order, the answer to the exchange under way as far as the router gave it, whole
and ended by `!done`, or cut by a refusal or by the loss of the connection (`InStep`,
`AnswerOf`); between two exchanges nothing is left of it.  A result once true stays so,
for nobody else writes to its command (`Settled`).  The second half needs no stream in
step: every exchange the router was given comes before those still to be given, a rollback before the
rollbacks of earlier commands (`Ordered`, `Owed`), what is undone was done, and a plan that
stops has nothing left to do after a failure (`Stopped`), so that late answers can make
results wrong but never the order of what is sent.

For the codec (`CodecInv`) the invariant is the property, for some number of sentences heard,
with the offset within the buffer.  The work is in the loops, recursive functions whose
values an induction must give for every stream; the induction needed is over sets of
numbers (`Inductive`, `LoopRuns`, `LoopKeeps`), for the library's theorems take an operator
as parameter.  `LengthSurvives` goes through the five forms of a length field,
and says that a field cut short is seen to be (`Complete`); with it `WalkReads` shows that
a buffer which begins with a whole sentence yields that sentence and the place of its
end, and one that holds only the beginning of a sentence nothing.  Compaction leaves the
bytes still to be read as they are (`Holds`), so that `Drains` can count sentences:
`push()` answers as many as have arrived whole, and stops in the beginning of the next.
Beyond the property, `LengthsSurvive` has the length encoding for every length below 2^31.

### What is only model-checked

Every safety and type invariant and the action property of the passing runs have a theorem.
Liveness (`NoJobForgotten`, `DueTaskIsTriggered`, `FoundAlertIsResolved`,
`FreshIsAttempted`, `QueueDrains`, `AnsweredCommandEnds`) is out of the prover's reach, and
so are the violations the four findings rest on, which are behaviours TLC shows.  The
proofs take the numbers of the source where TLC takes small ones, but not more of the
source: what a module leaves out, no theorem covers.

## Not modelled

Text, presentation, persistence formats, hashing and input validation; overload of the
process, and a database that answers wrongly.  By part, as in `PROJECT.json`:

- authentication, sessions, roles, preferences, administration: requests that read and
  write one row each; the rest is hashing and policy;
- audit module, alert rule evaluation, compliance, dashboard, collector: an append-only
  list, queries, and evaluations over stored data in one pass;
- syslog file store and parser: text, and what a file system does with a file deleted
  while it is appended to;
- device management beyond update and deletion, routeros and routeros-api modules: each
  request has a connection of its own, which is `RouterConnection`;
- the SDK's pool, retries and streaming: they have no caller in the repository, and the
  pool lets several readers share one client without telling their replies apart;
- the Windows installer, PostgreSQL and MySQL set-up; server start-up;
- the other pages of the web application.  Those that do not load through the hook
  (topology, syslog, the rules of a device) cannot tell an overtaken answer from the last
  one, so that no property of their data holds without excluding it.
