---------------------------- MODULE BackupService ----------------------------
(***************************************************************************)
(* The backups of one device: the create() calls of users and of the       *)
(* backup scheduler, which may overlap, the edits of the schedule, the     *)
(* deletions by users, and a crash.  An activation is a step machine cut   *)
(* at the awaits that touch the router, the files or the records.          *)
(*                                                                         *)
(* A backup is named by its record: number n is the nth record created,    *)
(* so the order of numbers is the order of createdAt.  What create() does  *)
(* before its record exists changes nothing and is left out.               *)
(*                                                                         *)
(* External: the router (its ssh and ftp services, and whether a command   *)
(* or a transfer succeeds).  A command that fails may have been carried    *)
(* out all the same.  Nobody else edits the services or the files.         *)
(***************************************************************************)
EXTENDS Naturals, FiniteSets, Sequences

CONSTANTS
  MaxBackups,       \* bound: records of the device
  MaxOverlap,       \* bound: create() calls under way at a time
  Limits,           \* values of a schedule's maxFiles
  DefaultMaxFiles,  \* maxFiles of a device without schedule
  OffAtFirst,       \* what the router's services may be like in the beginning
  MaxEvents         \* bound: edits of the schedule, deletions and crashes in all

ASSUME BackupAssumption ==
  /\ {MaxBackups, MaxOverlap, MaxEvents} \subseteq Nat
  /\ Limits \subseteq Nat \ {0}
  /\ DefaultMaxFiles \in Nat \ {0}
  /\ OffAtFirst \subseteq [{"ssh", "ftp"} -> BOOLEAN]

VARIABLES
  status,     \* backup -> the status of its record, "none" before it, "gone" after it
  file,       \* backup -> whether its file is in the storage
  off,        \* service of the router -> disabled
  maxFiles,   \* as a reader of the schedule finds it
  pc,         \* process -> what it does next
  plan,       \* backup -> the transfer candidates its create() has left
  got,        \* backup -> the transfer under way has succeeded
  limit,      \* process -> the maxFiles it has read
  todo,       \* process -> backups whose file it has yet to look for
  victims,    \* process -> stored backups it has found, then those it deletes
  was,        \* history: off in the beginning
  stuck,      \* history: services that could not be disabled again
  stored,     \* history: backups once completed
  crossed,    \* history: an edit of the schedule met a create(), or lowered the limit alone
  edits, deletions, crashes

records == <<status, file, stored>>
router == <<off, was, stuck>>
transfer == <<plan, got>>
retention == <<limit, todo, victims>>
counts == <<edits, deletions, crashes, crossed>>
vars == <<records, router, maxFiles, pc, transfer, retention, counts>>

Backups == 1 .. MaxBackups
Config == 0
User == MaxBackups + 1
Processes == 0 .. MaxBackups + 1
Services == {"ssh", "ftp"}
Kept == {"running", "completed", "failed"}

Init ==
  /\ status = [b \in Backups |-> "none"]
  /\ file = [b \in Backups |-> FALSE]
  /\ off \in OffAtFirst
  /\ maxFiles \in Limits \cup {DefaultMaxFiles}
  /\ pc = [p \in Processes |-> "idle"]
  /\ plan = [b \in Backups |-> <<>>]
  /\ got = [b \in Backups |-> FALSE]
  /\ limit = [p \in Processes |-> 0]
  /\ todo = [p \in Processes |-> {}]
  /\ victims = [p \in Processes |-> {}]
  /\ was = off
  /\ stuck = {}
  /\ stored = {}
  /\ crossed = FALSE
  /\ edits = 0
  /\ deletions = 0
  /\ crashes = 0

Event == edits + deletions + crashes < MaxEvents

Goto(p, l) == pc' = [pc EXCEPT ![p] = l]

-----------------------------------------------------------------------------
(* create(): the file on the router                                        *)

Active == {b \in Backups : pc[b] # "idle"}

Create(b) ==
  /\ status[b] = "none"
  /\ \A a \in Backups : a < b => status[a] # "none"
  /\ Cardinality(Active) < MaxOverlap
  /\ status' = [status EXCEPT ![b] = "running"]
  /\ Goto(b, "save")
  /\ crossed' = (crossed \/ pc[Config] # "idle")
  /\ UNCHANGED <<file, stored, router, maxFiles, transfer, retention, edits, deletions, crashes>>

\* The export or the binary backup was made and its file has appeared.
Save(b) ==
  /\ pc[b] = "save"
  /\ Goto(b, "services")
  /\ UNCHANGED <<records, router, maxFiles, transfer, retention, counts>>

CommandFails(b) ==
  /\ pc[b] \in {"save", "services"}
  /\ Goto(b, "catch")
  /\ UNCHANGED <<records, router, maxFiles, transfer, retention, counts>>

-----------------------------------------------------------------------------
(* The transfer                                                            *)

\* Services that are enabled first, ssh before ftp.
Candidates ==
  LET order == IF off["ssh"] /\ ~off["ftp"] THEN <<"ftp", "ssh">> ELSE <<"ssh", "ftp">>
  IN  [i \in 1 .. 2 |-> [service |-> order[i], off |-> off[order[i]]]]

Begin(c) == IF c.off THEN "enable" ELSE "transfer"

ReadServices(b) ==
  /\ pc[b] = "services"
  /\ plan' = [plan EXCEPT ![b] = Candidates]
  /\ Goto(b, Begin(Head(Candidates)))
  /\ UNCHANGED <<records, router, maxFiles, got, retention, counts>>

Service(b) == Head(plan[b]).service

Enable(b) ==
  /\ pc[b] = "enable"
  /\ \/ /\ off' = [off EXCEPT ![Service(b)] = FALSE]
        /\ Goto(b, "transfer")
        /\ UNCHANGED got
     \/ /\ \/ off' = [off EXCEPT ![Service(b)] = FALSE]
           \/ UNCHANGED off
        /\ Goto(b, "restore")
        /\ got' = [got EXCEPT ![b] = FALSE]
  /\ UNCHANGED <<records, was, stuck, maxFiles, plan, retention, counts>>

\* Mutant: a file that is in hand is completed before it is written.
Leave_Unwritten(b, ok) ==
  /\ plan' = [plan EXCEPT ![b] = IF ok THEN <<>> ELSE Tail(@)]
  /\ Goto(b, IF ok THEN "complete"
             ELSE IF Len(plan[b]) = 1 THEN "catch" ELSE Begin(plan[b][2]))

\* Mutant: the candidates that are left are not dropped with a file in hand.
Leave_KeepsPlan(b, ok) ==
  /\ plan' = [plan EXCEPT ![b] = IF ok THEN @ ELSE Tail(@)]
  /\ Goto(b, IF ok THEN "write"
             ELSE IF Len(plan[b]) = 1 THEN "catch" ELSE Begin(plan[b][2]))

\* What follows a candidate: the file is there, or the next one is tried.
Leave(b, ok) ==
  /\ plan' = [plan EXCEPT ![b] = IF ok THEN <<>> ELSE Tail(@)]
  /\ Goto(b, IF ok THEN "write"
             ELSE IF Len(plan[b]) = 1 THEN "catch" ELSE Begin(plan[b][2]))

\* Only an enabled service transfers a file; it may always fail.
Transfer(b) ==
  /\ pc[b] = "transfer"
  /\ \E ok \in BOOLEAN :
       /\ ok => ~off[Service(b)]
       /\ IF Head(plan[b]).off
          THEN /\ got' = [got EXCEPT ![b] = ok]
               /\ Goto(b, "restore")
               /\ UNCHANGED plan
          ELSE /\ Leave(b, ok)
               /\ UNCHANGED got
  /\ UNCHANGED <<records, router, maxFiles, retention, counts>>

\* Mutant: the service is disabled again only after a transfer that succeeded.
Restore_OnSuccess(b) ==
  /\ pc[b] = "restore"
  /\ off' = IF got[b] THEN [off EXCEPT ![Service(b)] = TRUE] ELSE off
  /\ got' = [got EXCEPT ![b] = FALSE]
  /\ Leave(b, got[b])
  /\ UNCHANGED <<records, was, stuck, maxFiles, retention, counts>>

Restore(b) ==
  /\ pc[b] = "restore"
  /\ off' = [off EXCEPT ![Service(b)] = TRUE]
  /\ got' = [got EXCEPT ![b] = FALSE]
  /\ Leave(b, got[b])
  /\ UNCHANGED <<records, was, stuck, maxFiles, retention, counts>>

\* RouterServiceRestoreError: no other candidate is tried.
RestoreFails(b) ==
  /\ pc[b] = "restore"
  /\ \/ off' = [off EXCEPT ![Service(b)] = TRUE]
     \/ UNCHANGED off
  /\ stuck' = stuck \cup {Service(b)}
  /\ got' = [got EXCEPT ![b] = FALSE]
  /\ plan' = [plan EXCEPT ![b] = <<>>]
  /\ Goto(b, "catch")
  /\ UNCHANGED <<records, was, maxFiles, retention, counts>>

-----------------------------------------------------------------------------
(* create(): the file in the storage and the record                        *)

Write(b) ==
  /\ pc[b] = "write"
  /\ file' = [file EXCEPT ![b] = TRUE]
  /\ Goto(b, "stat")
  /\ UNCHANGED <<status, stored, router, maxFiles, transfer, retention, counts>>

\* A write that fails may leave part of the file.
WriteFails(b) ==
  /\ pc[b] = "write"
  /\ \E f \in BOOLEAN : file' = [file EXCEPT ![b] = f]
  /\ Goto(b, "catch")
  /\ UNCHANGED <<status, stored, router, maxFiles, transfer, retention, counts>>

\* The file is looked for once more: it may have been deleted meanwhile.
Stat(b) ==
  /\ pc[b] = "stat"
  /\ Goto(b, IF file[b] THEN "complete" ELSE "catch")
  /\ UNCHANGED <<records, router, maxFiles, transfer, retention, counts>>

\* The update rejects when the record is gone.
Complete(b) ==
  /\ pc[b] = "complete"
  /\ IF status[b] = "gone"
     THEN /\ Goto(b, "catch")
          /\ UNCHANGED <<status, stored>>
     ELSE /\ status' = [status EXCEPT ![b] = "completed"]
          /\ stored' = stored \cup {b}
          /\ Goto(b, "limit")
  /\ UNCHANGED <<file, router, maxFiles, transfer, retention, counts>>

\* Whatever rejected, enforceRetention() included, the record says "failed".
Catch(b) ==
  /\ pc[b] = "catch"
  /\ status' = [status EXCEPT ![b] = IF @ = "gone" THEN "gone" ELSE "failed"]
  /\ Goto(b, "idle")
  /\ UNCHANGED <<file, stored, router, maxFiles, transfer, retention, counts>>

-----------------------------------------------------------------------------
(* enforceRetention(), by create() and configureSchedule()                 *)

ReadLimit(p) ==
  /\ pc[p] = "limit"
  /\ limit' = [limit EXCEPT ![p] = maxFiles]
  /\ Goto(p, "list")
  /\ UNCHANGED <<records, router, maxFiles, transfer, todo, victims, counts>>

List(p) ==
  /\ pc[p] = "list"
  /\ todo' = [todo EXCEPT ![p] = {b \in Backups : status[b] = "completed"}]
  /\ Goto(p, "check")
  /\ UNCHANGED <<records, router, maxFiles, transfer, limit, victims, counts>>

\* getFileInfo() of one completed backup, the newest first.
Check(p) ==
  /\ pc[p] = "check"
  /\ \E b \in todo[p] :
       /\ \A a \in todo[p] : a <= b
       /\ todo' = [todo EXCEPT ![p] = @ \ {b}]
       /\ victims' = [victims EXCEPT ![p] = IF file[b] THEN @ \cup {b} ELSE @]
  /\ UNCHANGED <<records, router, maxFiles, pc, transfer, limit, counts>>

Newer(B, b) == Cardinality({a \in B : a > b})

\* Mutant: the slice begins one too early.
Beyond_OffByOne(B, k) == {b \in B : Newer(B, b) + 1 >= k}

\* Mutant: the slice begins one too late.
Beyond_OneMore(B, k) == {b \in B : Newer(B, b) > k}

\* stored.slice(maxFiles), the newest being first.
Beyond(B, k) == {b \in B : Newer(B, b) >= k}

Select(p) ==
  /\ pc[p] = "check"
  /\ todo[p] = {}
  /\ victims' = [victims EXCEPT ![p] = Beyond(@, limit[p])]
  /\ limit' = [limit EXCEPT ![p] = 0]
  /\ Goto(p, "file")
  /\ UNCHANGED <<records, router, maxFiles, transfer, todo, counts>>

-----------------------------------------------------------------------------
(* Deletion, by enforceRetention(), delete() and deleteMany()              *)

\* Retention deletes the newest of its victims first, a user the oldest.
Victim(p, b) ==
  /\ b \in victims[p]
  /\ \A a \in victims[p] : IF p = User THEN b <= a ELSE a <= b

DeleteFile(p) ==
  /\ pc[p] = "file"
  /\ \E b \in Backups : Victim(p, b) /\ file' = [file EXCEPT ![b] = FALSE]
  /\ Goto(p, "record")
  /\ UNCHANGED <<status, stored, router, maxFiles, transfer, retention, counts>>

\* The delete rejects when the record is gone, and the rest is not deleted.
DeleteRecord(p) ==
  /\ pc[p] = "record"
  /\ \E b \in Backups :
       /\ Victim(p, b)
       /\ IF status[b] = "gone"
          THEN /\ victims' = [victims EXCEPT ![p] = {}]
               /\ Goto(p, IF p \in Backups THEN "catch" ELSE "idle")
               /\ UNCHANGED status
          ELSE /\ status' = [status EXCEPT ![b] = "gone"]
               /\ victims' = [victims EXCEPT ![p] = @ \ {b}]
               /\ Goto(p, "file")
  /\ UNCHANGED <<file, stored, router, maxFiles, transfer, limit, todo, counts>>

Deleted(p) ==
  /\ pc[p] = "file"
  /\ victims[p] = {}
  /\ Goto(p, "idle")
  /\ UNCHANGED <<records, router, maxFiles, transfer, retention, counts>>

-----------------------------------------------------------------------------
(* Users                                                                   *)

ConfigureSchedule(k) ==
  /\ Event
  /\ edits' = edits + 1
  /\ pc[Config] = "idle"
  /\ maxFiles' = k
  /\ Goto(Config, "limit")
  /\ crossed' = (crossed \/ Active # {})
  /\ UNCHANGED <<records, router, transfer, retention, deletions, crashes>>

DeleteSchedule ==
  /\ Event
  /\ edits' = edits + 1
  /\ maxFiles' = DefaultMaxFiles
  /\ crossed' = (crossed \/ DefaultMaxFiles < maxFiles)
  /\ UNCHANGED <<records, router, pc, transfer, retention, deletions, crashes>>

\* Any records, also of backups under way.
DeleteMany(B) ==
  /\ Event
  /\ deletions' = deletions + 1
  /\ pc[User] = "idle"
  /\ victims' = [victims EXCEPT ![User] = B]
  /\ Goto(User, "file")
  /\ UNCHANGED <<records, router, maxFiles, transfer, limit, todo, edits, crashes, crossed>>

\* The records, the files and the router survive.
Crash ==
  /\ Event
  /\ crashes' = crashes + 1
  /\ pc' = [p \in Processes |-> "idle"]
  /\ plan' = [b \in Backups |-> <<>>]
  /\ got' = [b \in Backups |-> FALSE]
  /\ limit' = [p \in Processes |-> 0]
  /\ todo' = [p \in Processes |-> {}]
  /\ victims' = [p \in Processes |-> {}]
  /\ UNCHANGED <<records, router, maxFiles, edits, deletions, crossed>>

-----------------------------------------------------------------------------
CreateStep(b) ==
  \/ Create(b)
  \/ Save(b)
  \/ CommandFails(b)
  \/ ReadServices(b)
  \/ Enable(b)
  \/ Transfer(b)
  \/ Restore(b)
  \/ RestoreFails(b)
  \/ Write(b)
  \/ WriteFails(b)
  \/ Stat(b)
  \/ Complete(b)
  \/ Catch(b)

DeletionStep(p) ==
  \/ ReadLimit(p)
  \/ List(p)
  \/ Check(p)
  \/ Select(p)
  \/ DeleteFile(p)
  \/ DeleteRecord(p)
  \/ Deleted(p)

Next ==
  \/ \E b \in Backups : CreateStep(b)
  \/ \E p \in Processes : DeletionStep(p)
  \/ \E k \in Limits : ConfigureSchedule(k)
  \/ DeleteSchedule
  \/ \E B \in SUBSET {b \in Backups : status[b] \in Kept} : DeleteMany(B)
  \/ Crash

Spec == Init /\ [][Next]_vars

-----------------------------------------------------------------------------
Candidate == [service : Services, off : BOOLEAN]
Numbers == Limits \cup {DefaultMaxFiles}

TypeOK ==
  /\ status \in [Backups -> Kept \cup {"none", "gone"}]
  /\ file \in [Backups -> BOOLEAN]
  /\ \A b \in Backups : file[b] => status[b] # "none"
  /\ off \in [Services -> BOOLEAN]
  /\ maxFiles \in Numbers
  /\ \A b \in Backups :
       /\ pc[b] \in {"idle", "save", "services", "enable", "transfer", "restore", "write",
                     "stat", "complete", "catch", "limit", "list", "check", "file", "record"}
       /\ plan[b] \in Seq(Candidate)
       /\ pc[b] \in {"enable", "transfer", "restore"} <=> plan[b] # <<>>
  /\ pc[Config] \in {"idle", "limit", "list", "check", "file", "record"}
  /\ pc[User] \in {"idle", "file", "record"}
  /\ got \in [Backups -> BOOLEAN]
  /\ limit \in [Processes -> Numbers \cup {0}]
  /\ \A p \in Processes :
       /\ todo[p] \subseteq Backups /\ victims[p] \subseteq Backups
       /\ pc[p] = "record" => victims[p] # {}
  /\ was \in [Services -> BOOLEAN]
  /\ stuck \subseteq Services
  /\ stored \subseteq Backups
  /\ crossed \in BOOLEAN
  /\ {edits, deletions, crashes} \subseteq 0 .. MaxEvents

\* A create() that may still disable service s again.
InWindow(b, s) == pc[b] \in {"transfer", "restore"} /\ Service(b) = s /\ Head(plan[b]).off

\* A service that was disabled is enabled only while a create() is about to
\* disable it, unless a restore failed or the server crashed, however many
\* create() calls share it; one that was enabled stays so.
ServicesRestored ==
  \A s \in Services :
    off[s] # was[s] =>
      /\ was[s]
      /\ s \in stuck \/ crashes > 0 \/ \E b \in Backups : InWindow(b, s)

AtRest == \A p \in Processes : pc[p] = "idle"

\* A completed backup has its file, unless somebody is between deleting the file
\* and deleting the record, or crashed there.  Retention never deletes one of the
\* newest maxFiles backups that were stored, with any number of create() calls at
\* once, when no user edits the schedule or deletes backups.  And at rest no more
\* than maxFiles backups are completed, unless the server crashed, a user deleted
\* backups, or an edit of the schedule met a create(): of several retentions at
\* once, one that gives up because another deleted the record leaves nothing undone.
RetentionHolds ==
  /\ \A b \in Backups :
       status[b] = "completed" =>
         \/ file[b]
         \/ crashes > 0
         \/ \E p \in Processes : pc[p] = "record" /\ Victim(p, b)
  /\ edits = 0 /\ deletions = 0 =>
       \A b \in stored : Newer(stored, b) < maxFiles => file[b] /\ status[b] # "gone"
  /\ AtRest /\ crashes = 0 /\ deletions = 0 /\ ~crossed =>
       Cardinality({b \in Backups : status[b] = "completed" /\ file[b]}) <= maxFiles

\* At rest, no more than maxFiles of the files that were stored remain: the number
\* of files of a device is limited, whatever became of their records.
FilesWithinLimit ==
  AtRest /\ crashes = 0 /\ deletions = 0 /\ ~crossed =>
    Cardinality({b \in stored : file[b]}) <= maxFiles
=============================================================================
