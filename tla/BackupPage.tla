----------------------------- MODULE BackupPage -----------------------------
(***************************************************************************)
(* The list of the backup page (apps/web, BackupCenter.tsx on the hook     *)
(* useAsyncData.ts): which device is chosen, what is listed, what is       *)
(* ticked, and the requests under way.  A request is overtaken when        *)
(* another is made; its answer may still come.  An effect runs with the    *)
(* change of state that caused it, before the next event of the browser.   *)
(*                                                                         *)
(* The page begins with its list of devices loaded; filters decide which   *)
(* of the listed backups "select all" means.  The server is external: its  *)
(* own transfers and retention are the module BackupService.               *)
(***************************************************************************)
EXTENDS Naturals, FiniteSets

CONSTANTS
  Owner,     \* backup -> its device
  First,     \* the first device listed
  Stored,    \* backups stored when the page is opened
  MaxAsks,   \* bound: lists asked for
  MaxPosts,  \* bound: backups created or deleted by the page, requests
  MaxEvents  \* bound: changes made elsewhere and choices of a device

VARIABLES
  chosen,    \* activeDeviceId: a device or "__all__"
  shown,     \* backups.data
  loading, failed,  \* backups.loading, backups.error
  asked,     \* the effect under way: `mounted' is true for this one alone
  asks,      \* lists under way: number, and what each device's answer was
  selected,  \* selectedBackupIds
  busy,      \* bulkBusy
  posts,     \* other requests under way: number, kind, backups left, backups named
  stock,     \* external: backups at the server
  unborn,    \* backups not created yet
  posted,    \* requests posted, for the bound and to tell them apart
  events,    \* for the bound
  ticked,    \* history: ticked since the device was chosen
  removed    \* history: backups the page was told are deleted

bpVars == <<chosen, shown, loading, failed, asked, asks, selected, busy, posts,
            stock, unborn, posted, events, ticked, removed>>
list == <<shown, loading, failed, asked, asks>>

Backups == DOMAIN Owner
Routers == {Owner[b] : b \in Backups}
All == "__all__"
None == {"none"}  \* a device that has not answered
Targets(d) == IF d = All THEN Routers ELSE {d}

Ask(n, d) == [nr |-> n, lists |-> [x \in Targets(d) |-> None]]

Init ==
  /\ chosen = First
  /\ shown = {} /\ loading = TRUE /\ failed = FALSE
  /\ asked = 1 /\ asks = {Ask(1, First)}
  /\ selected = {} /\ busy = FALSE /\ posts = {}
  /\ stock = Stored /\ unborn = Backups \ Stored
  /\ posted = 0 /\ events = 0 /\ ticked = {} /\ removed = {}

\* The effect of useAsyncData: another loader or another version.
Load(d) ==
  /\ asked < MaxAsks
  /\ asked' = asked + 1
  /\ asks' = asks \cup {Ask(asked + 1, d)}
  /\ loading' = TRUE /\ failed' = FALSE
  /\ UNCHANGED shown

-----------------------------------------------------------------------------
(* Answers                                                                 *)

\* Mutant: an overtaken answer is not recognized.
Mounted_Always(r) == TRUE

Mounted(r) == r.nr = asked

\* Mutant: what is no longer listed stays ticked.
Prune_Skipped(S) == selected

\* The effect on backups.data.
Prune(S) == selected \cap S

\* The server answers a list of one device.
Answer(r, d) ==
  /\ r.lists[d] = None
  /\ asks' = (asks \ {r}) \cup {[r EXCEPT !.lists[d] = {b \in stock : Owner[b] = d}]}
  /\ UNCHANGED <<chosen, shown, loading, failed, asked, selected, busy, posts, stock, unborn,
                 events, ticked, removed, posted>>

Loaded(r) ==
  /\ \A d \in DOMAIN r.lists : r.lists[d] # None
  /\ asks' = asks \ {r}
  /\ IF Mounted(r)
     THEN /\ shown' = UNION {r.lists[d] : d \in DOMAIN r.lists}
          /\ selected' = Prune(shown')
          /\ loading' = FALSE
     ELSE UNCHANGED <<shown, selected, loading>>
  /\ UNCHANGED <<chosen, failed, asked, busy, posts, stock, unborn, events, ticked, removed, posted>>

\* One list is enough to reject Promise.all; the data stay as they were.
LoadFails(r) ==
  /\ asks' = asks \ {r}
  /\ IF Mounted(r) THEN failed' = TRUE /\ loading' = FALSE ELSE UNCHANGED <<failed, loading>>
  /\ UNCHANGED <<chosen, shown, asked, selected, busy, posts, stock, unborn, events, ticked, removed, posted>>

-----------------------------------------------------------------------------
(* The user                                                                *)

\* Mutant: the ticks survive the choice of another device.
Clear_Kept == selected

\* The effect on activeDeviceId.
Clear == {}

Choose(d) ==
  /\ d # chosen /\ events < MaxEvents
  /\ chosen' = d
  /\ Load(d)
  /\ selected' = Clear
  /\ ticked' = {}
  /\ events' = events + 1
  /\ UNCHANGED <<busy, posts, stock, unborn, removed, posted>>

\* A card's box.
Toggle(b) ==
  /\ b \in shown
  /\ selected' = IF b \in selected THEN selected \ {b} ELSE selected \cup {b}
  /\ ticked' = ticked \cup {b}
  /\ UNCHANGED <<chosen, list, busy, posts, stock, unborn, events, removed, posted>>

\* toggleSelectAll() for the backups V the filters leave.
ToggleAll(V) ==
  /\ selected' = IF V # {} /\ V \subseteq selected THEN selected \ V ELSE selected \cup V
  /\ ticked' = ticked \cup V
  /\ UNCHANGED <<chosen, list, busy, posts, stock, unborn, events, removed, posted>>

Post(kind, S) ==
  /\ posted < MaxPosts
  /\ posted' = posted + 1
  /\ posts' = posts \cup {[nr |-> posted, kind |-> kind, left |-> S, named |-> S]}

\* deleteSelected(): also what a filter hides by now.
DeleteSelected ==
  /\ ~busy /\ selected # {}
  /\ busy' = TRUE
  /\ Post("deleteMany", selected)
  /\ UNCHANGED <<chosen, list, selected, stock, unborn, events, ticked, removed>>

DeleteOne(b) ==
  /\ b \in shown
  /\ Post("delete", {b})
  /\ UNCHANGED <<chosen, list, selected, busy, stock, unborn, events, ticked, removed>>

\* createBackup() for every device chosen that has a backup left to make.
Create(S) ==
  /\ S # {} /\ {Owner[b] : b \in S} \subseteq Targets(chosen)
  /\ \A a, b \in S : Owner[a] = Owner[b] => a = b
  /\ unborn' = unborn \ S
  /\ Post("create", S)
  /\ UNCHANGED <<chosen, list, selected, busy, stock, events, ticked, removed>>

-----------------------------------------------------------------------------
(* The server and its answers to what was posted                           *)

\* It works on one backup after the other.
Serve(p, b) ==
  /\ b \in p.left
  /\ posts' = (posts \ {p}) \cup {[p EXCEPT !.left = @ \ {b}]}
  /\ stock' = IF p.kind = "create" THEN stock \cup {b} ELSE stock \ {b}
  /\ UNCHANGED <<chosen, list, selected, busy, unborn, events, ticked, removed, posted>>

\* Mutant: the list is not asked for again.
Refresh_Forgotten == UNCHANGED <<shown, loading, failed, asked, asks>>

\* refresh(), with the loader of the device chosen by now.
Refresh == Load(chosen)

Succeeds(p) ==
  /\ p.left = {}
  /\ posts' = posts \ {p}
  /\ IF p.kind = "deleteMany" THEN selected' = {} /\ busy' = FALSE ELSE UNCHANGED <<selected, busy>>
  /\ removed' = IF p.kind = "create" THEN removed ELSE removed \cup p.named
  /\ Refresh
  /\ UNCHANGED <<chosen, stock, unborn, events, ticked, posted>>

\* Rejected half-way, or the answer is lost; createBackup() settles and
\* refreshes in any case.
Rejected(p) ==
  /\ posts' = posts \ {p}
  /\ busy' = (busy /\ p.kind # "deleteMany")
  /\ IF p.kind = "create" THEN Refresh ELSE UNCHANGED list
  /\ UNCHANGED <<chosen, selected, stock, unborn, events, ticked, removed, posted>>

\* The scheduler, retention, another user.
Elsewhere ==
  /\ events < MaxEvents
  /\ events' = events + 1
  /\ \/ \E b \in unborn : stock' = stock \cup {b} /\ unborn' = unborn \ {b}
     \/ \E b \in stock : stock' = stock \ {b} /\ UNCHANGED unborn
  /\ UNCHANGED <<chosen, list, selected, busy, posts, ticked, removed, posted>>

Next ==
  \/ \E r \in asks : Loaded(r) \/ LoadFails(r) \/ \E d \in DOMAIN r.lists : Answer(r, d)
  \/ \E d \in Routers \cup {All} : Choose(d)
  \/ \E b \in shown : Toggle(b) \/ DeleteOne(b)
  \/ \E V \in SUBSET shown : ToggleAll(V)
  \/ \E S \in SUBSET unborn : Create(S)
  \/ DeleteSelected \/ Elsewhere
  \/ \E p \in posts : Succeeds(p) \/ Rejected(p) \/ \E b \in p.left : Serve(p, b)

Spec == Init /\ [][Next]_bpVars

-----------------------------------------------------------------------------
TypeOK ==
  /\ chosen \in Routers \cup {All}
  /\ {loading, failed, busy} \subseteq BOOLEAN
  /\ posted \in 0 .. MaxPosts /\ asked \in 1 .. MaxAsks /\ \A r \in asks : r.nr \in 1 .. asked
  /\ \A p \in posts : p.left \subseteq p.named
  /\ stock \cap unborn = {} /\ stock \cup shown \subseteq Backups

\* The page acts on what it shows.  Only listed backups are ticked, and only
\* those ticked since the device was chosen, so nothing else can be named for
\* deletion.  A list that has loaded is of the devices chosen and without what
\* the page itself was told is deleted, although a list asked for earlier may
\* be answered later; until it has loaded, or when it fails, the page says so.
PageIsTrue ==
  /\ selected \subseteq shown \cap ticked
  /\ loading <=> \E r \in asks : r.nr = asked
  /\ ~loading /\ ~failed =>
       /\ {Owner[b] : b \in shown} \subseteq Targets(chosen)
       /\ shown \cap removed = {}
=============================================================================
