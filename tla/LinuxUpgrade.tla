---------------------------- MODULE LinuxUpgrade ----------------------------
(***************************************************************************)
(* Installing and upgrading the server on Ubuntu: mme-ubuntu-install.sh    *)
(* puts the new files in place and calls packaging/linux/mme-control       *)
(* install_or_upgrade, which stops the service, saves the database and the *)
(* configuration, runs scripts/setup-native.ts (the schema of a new SQLite *)
(* file, database/sqlite-migration.service.ts, the seed), starts the       *)
(* service and, when something fails, puts back what it saved.             *)
(*                                                                         *)
(* A payload is named by the schema version it brings.  Object 1 of a      *)
(* database is what the first schema had, object k what migration k adds.  *)
(* The other database engines, ports, firewall rules and rows are left out,*)
(* and a configuration of which only some lines were written.              *)
(***************************************************************************)
EXTENDS Integers

CONSTANTS
  Payloads,    \* packages that may be installed
  MaxInstalls, \* bound: installations begun
  MaxUpsets    \* bound: failing steps and power losses

VARIABLES
  payload,     \* the package whose files are in place (0: none)
  service,     \* the payload whose server runs (0: none)
  env,         \* mme.env: [there, url, app]
  dbs,         \* SQLite file -> [there, objects, version (0: not recorded)]
  request,     \* database asked for: "keep" or "other"
  phase,       \* where mme-control is
  backup,      \* what backup_state() saved: [db, env]
  wasActive,   \* was_active
  installs,    \* installations begun, for the bound
  upsets,      \* upsets so far, for the bound
  before,      \* history: env and dbs when mme-control began
  verdict,     \* history: how the last run of mme-control ended
  cutShort,    \* history: files that a power loss or an error left half-made
  unrestored   \* history: what this roll-back did not manage: "db", "env", "service"

luVars == <<payload, service, env, dbs, request, phase, backup, wasActive,
            installs, upsets, before, verdict, cutShort, unrestored>>

\* "main" is the data directory's mme.db, the only one backup_state() knows;
\* "other" a file made because an administrator refused the existing one.
Files == {"main", "other"}
NoFile == [there |-> FALSE, objects |-> {}, version |-> 0]
NoEnv == [there |-> FALSE, url |-> "main", app |-> 0]
Db == dbs[env.url]
Setup == {"create", "schema", "read", "migrate", "seed"}

Init ==
  /\ payload = 0 /\ service = 0
  /\ env = NoEnv
  /\ dbs = [f \in Files |-> NoFile]
  /\ request = "keep" /\ phase = "idle"
  /\ backup = [db |-> NoFile, env |-> NoEnv]
  /\ wasActive = FALSE
  /\ installs = 0 /\ upsets = 0
  /\ before = [env |-> NoEnv, dbs |-> dbs]
  /\ verdict = "none"
  /\ cutShort = {} /\ unrestored = {}

Upset == upsets < MaxUpsets /\ upsets' = upsets + 1
Phase(from, to) == phase = from /\ phase' = to
Change(change) == dbs' = [dbs EXCEPT ![env.url] = change]

-----------------------------------------------------------------------------
(* mme-ubuntu-install.sh                                                   *)

\* dpkg puts the files in place under a service that may be running.
Install(p, wanted) ==
  /\ Phase("idle", "stop")
  /\ installs < MaxInstalls /\ installs' = installs + 1
  /\ wanted = "other" => env.there /\ ~dbs["other"].there
  /\ payload' = p /\ request' = wanted
  /\ verdict' = "none" /\ unrestored' = {}
  /\ UNCHANGED <<service, env, dbs, backup, wasActive, upsets, before, cutShort>>

\* mme-control start and stop.
Toggle ==
  /\ phase = "idle" /\ payload # 0
  /\ service' = IF service # 0 THEN 0 ELSE IF env.there THEN payload ELSE 0
  /\ verdict' = "none"
  /\ UNCHANGED <<payload, env, dbs, request, phase, backup, wasActive, installs, upsets, before, cutShort, unrestored>>

-----------------------------------------------------------------------------
(* mme-control install_or_upgrade                                          *)

StopService ==
  /\ Phase("stop", "backup")
  /\ wasActive' = (service # 0)
  /\ service' = 0
  /\ before' = [env |-> env, dbs |-> dbs]
  /\ backup' = [db |-> NoFile, env |-> NoEnv]
  /\ UNCHANGED <<payload, env, dbs, request, installs, upsets, verdict, cutShort, unrestored>>

BackupState ==
  /\ Phase("backup", "env")
  /\ backup' = [db |-> dbs["main"], env |-> env]
  /\ UNCHANGED <<payload, service, env, dbs, request, wasActive, installs, upsets, before, verdict, cutShort, unrestored>>

InitializeEnv ==
  /\ Phase("env", "create")
  /\ env' = [there |-> TRUE, app |-> payload, url |-> IF request = "other" THEN "other" ELSE env.url]
  /\ UNCHANGED <<payload, service, dbs, request, backup, wasActive, installs, upsets, before, verdict, cutShort, unrestored>>

\* Mutant: the configuration is not put back.
RestoreEnv_Skipped ==
  /\ Phase("restoreEnv", "restart")
  /\ UNCHANGED <<payload, service, env, dbs, request, backup, wasActive, installs, upsets, before, verdict, cutShort, unrestored>>

\* What a failing install leaves where the file was: it, nothing, or no table.
Emptied == [NoFile EXCEPT !.there = TRUE]

\* restore_state(): what was saved is put back; what was not there is left.  The
\* errors of the roll-back are ignored (set +e); one of tar is one for both files.
RestoreDb ==
  /\ Phase("restoreDb", "restoreEnv")
  /\ \/ /\ dbs' = IF backup.db.there THEN [dbs EXCEPT !["main"] = backup.db] ELSE dbs
        /\ UNCHANGED <<upsets, cutShort, unrestored>>
     \/ /\ backup.db.there /\ Upset
        /\ unrestored' = unrestored \cup {"db"}
        /\ \E left \in {dbs["main"], NoFile, Emptied} :
             /\ dbs' = [dbs EXCEPT !["main"] = left]
             /\ cutShort' = IF left = Emptied THEN cutShort \cup {"main"} ELSE cutShort
  /\ UNCHANGED <<payload, service, env, request, backup, wasActive, installs, before, verdict>>

RestoreEnv ==
  /\ Phase("restoreEnv", "restart")
  /\ \/ /\ env' = IF backup.env.there THEN backup.env ELSE env
        /\ UNCHANGED <<upsets, unrestored>>
     \/ /\ backup.env.there
        /\ IF "db" \in unrestored THEN UNCHANGED upsets ELSE Upset
        /\ unrestored' = unrestored \cup {"env"}
        /\ env' \in {env, NoEnv}
  /\ UNCHANGED <<payload, service, dbs, request, backup, wasActive, installs, before, verdict, cutShort>>

\* The service is started again, with the files that are in place now, unless it
\* still runs; it needs its configuration, and may fail to start.  The message
\* says that all was rolled back.
Restart ==
  /\ Phase("restart", "idle")
  /\ \/ /\ service' = IF wasActive /\ service = 0 /\ env.there THEN payload ELSE service
        /\ UNCHANGED <<upsets, unrestored>>
     \/ /\ wasActive /\ service = 0 /\ Upset
        /\ unrestored' = unrestored \cup {"service"}
        /\ UNCHANGED service
  /\ verdict' = "rolledBack"
  /\ UNCHANGED <<payload, env, dbs, request, backup, wasActive, installs, before, cutShort>>

-----------------------------------------------------------------------------
(* setup-native.ts and sqlite-migration.service.ts                         *)

\* A file that is not there gets the schema of the payload.
Create ==
  /\ phase = "create"
  /\ IF Db.there
     THEN phase' = "read" /\ UNCHANGED dbs
     ELSE phase' = "schema" /\ Change([NoFile EXCEPT !.there = TRUE])
  /\ UNCHANGED <<payload, service, env, request, backup, wasActive, installs, upsets, before, verdict, cutShort, unrestored>>

\* One statement of it after the other, outside any transaction.
Schema ==
  /\ phase = "schema"
  /\ LET missing == 1 .. payload \ Db.objects IN
       IF missing = {} THEN phase' = "read" /\ UNCHANGED dbs
       ELSE \E k \in missing : Change([Db EXCEPT !.objects = @ \cup {k}]) /\ UNCHANGED phase
  /\ UNCHANGED <<payload, service, env, request, backup, wasActive, installs, upsets, before, verdict, cutShort, unrestored>>

ReadVersion ==
  /\ phase = "read" /\ Db.version <= payload
  /\ phase' = "migrate"
  /\ UNCHANGED <<payload, service, env, dbs, request, backup, wasActive, installs, upsets, before, verdict, cutShort, unrestored>>

\* Mutant: the final version is recorded with the first migration.
Migrate_RecordsLast ==
  /\ phase = "migrate"
  /\ LET k == IF Db.version < 2 THEN 2 ELSE Db.version + 1 IN
       IF k > payload THEN phase' = "seed" /\ UNCHANGED dbs
       ELSE /\ Change([Db EXCEPT !.objects = @ \cup {k}, !.version = payload])
            /\ UNCHANGED phase
  /\ UNCHANGED <<payload, service, env, request, backup, wasActive, installs, upsets, before, verdict, cutShort, unrestored>>

\* The next migration and its version, in one transaction; what it would make
\* may be there already.
Migrate ==
  /\ phase = "migrate"
  /\ LET k == IF Db.version < 2 THEN 2 ELSE Db.version + 1 IN
       IF k > payload THEN phase' = "seed" /\ UNCHANGED dbs
       ELSE /\ Change([Db EXCEPT !.objects = @ \cup {k}, !.version = k])
            /\ UNCHANGED phase
  /\ UNCHANGED <<payload, service, env, request, backup, wasActive, installs, upsets, before, verdict, cutShort, unrestored>>

\* seedDatabase() needs the tables of the first schema.
Seed ==
  /\ phase = "seed" /\ 1 \in Db.objects
  /\ phase' = "start"
  /\ UNCHANGED <<payload, service, env, dbs, request, backup, wasActive, installs, upsets, before, verdict, cutShort, unrestored>>

StartService ==
  /\ Phase("start", "wait")
  /\ service' = payload
  /\ UNCHANGED <<payload, env, dbs, request, backup, wasActive, installs, upsets, before, verdict, cutShort, unrestored>>

Ready ==
  /\ Phase("wait", "idle")
  /\ verdict' = "done"
  /\ UNCHANGED <<payload, service, env, dbs, request, backup, wasActive, installs, upsets, before, cutShort, unrestored>>

-----------------------------------------------------------------------------
(* What goes wrong                                                         *)

\* A database newer than the program, or one without its first tables.
Refused ==
  \/ phase = "read" /\ Db.version > payload
  \/ phase = "seed" /\ 1 \notin Db.objects

\* A step fails: the ERR trap, or the branch of setup-native or wait_ready.  A
\* service that did not become ready is stopped, if it lets itself be stopped.
StepFails ==
  /\ \/ Refused /\ UNCHANGED upsets
     \/ phase \in {"backup", "env", "start", "wait"} \cup Setup /\ Upset
  /\ phase' = "restoreDb"
  /\ \/ service' = 0 /\ UNCHANGED unrestored
     \/ phase = "wait" /\ UNCHANGED service /\ unrestored' = {"service"}
  /\ cutShort' = IF phase = "schema" THEN cutShort \cup {env.url} ELSE cutShort
  /\ UNCHANGED <<payload, env, dbs, request, backup, wasActive, installs, before, verdict>>

\* At boot systemd starts what is in place; nobody goes on with the upgrade.
PowerLoss ==
  /\ Upset /\ phase # "idle"
  /\ phase' = "idle"
  /\ service' = IF env.there THEN payload ELSE 0
  /\ verdict' = "none"
  /\ cutShort' = IF phase = "schema" THEN cutShort \cup {env.url} ELSE cutShort
  /\ UNCHANGED <<payload, env, dbs, request, backup, wasActive, installs, before, unrestored>>

Next ==
  \/ \E p \in Payloads, wanted \in {"keep", "other"} : Install(p, wanted)
  \/ Toggle
  \/ StopService \/ BackupState \/ InitializeEnv
  \/ Create \/ Schema \/ ReadVersion \/ Migrate \/ Seed \/ StartService \/ Ready
  \/ StepFails \/ RestoreDb \/ RestoreEnv \/ Restart
  \/ PowerLoss

Spec == Init /\ [][Next]_luVars

-----------------------------------------------------------------------------
TypeOK ==
  /\ {payload, service, env.app} \subseteq Payloads \cup {0}
  /\ env.url \in Files
  /\ \A f \in Files : ~dbs[f].there => dbs[f] = NoFile
  /\ phase \in {"idle", "stop", "backup", "env", "start", "wait", "restoreDb", "restoreEnv", "restart"} \cup Setup
  /\ service # 0 => phase \in {"idle", "stop", "wait", "restoreDb", "restoreEnv", "restart"}
  /\ cutShort \subseteq Files /\ unrestored \subseteq {"db", "env", "service"}

Whole(db, v) == 2 .. v \subseteq db.objects

\* Wherever an upgrade fails or loses its power, and however often it is begun
\* again with whatever package: a recorded schema version is true, with all
\* objects of the migrations up to it, and, unless the file was left half-made,
\* those of the first schema; an upgrade reported as done has the version of its
\* payload; and one reported as rolled back left an mme.db that was in use, the
\* configuration and the state of the service as it found them, each of them
\* unless the command that was to bring it back failed: the script ignores that
\* and reports the roll-back all the same (mme-control:531-534, 554-557, 566-570).
UpgradeKeepsItsWord ==
  /\ \A f \in Files :
       dbs[f].version > 0 => Whole(dbs[f], dbs[f].version) /\ (1 \in dbs[f].objects \/ f \in cutShort)
  /\ verdict = "done" => Db.version = payload /\ Db.there /\ 1 \in Db.objects /\ service = payload
  /\ verdict = "rolledBack" /\ before.env.there /\ before.env.url = "main" /\ before.dbs["main"].there =>
       /\ "db" \notin unrestored => dbs["main"] = before.dbs["main"]
       /\ "env" \notin unrestored => env = before.env
       /\ unrestored \cap {"env", "service"} = {} => (service # 0) = wasActive

\* "the database and configuration were rolled back" (mme-control:557, 570): an
\* upgrade that failed, no command of its roll-back failing as well, left the
\* database in use, whichever file that is, as it found it.
RolledBack ==
  verdict = "rolledBack" /\ unrestored = {} /\ before.env.there /\ before.dbs[before.env.url].version > 0 =>
    env = before.env /\ Db = before.dbs[before.env.url]
=============================================================================
