------------------------ MODULE BackupServiceProofs ------------------------
(***************************************************************************)
(* Proofs about the backups of one device, for every number of backups, of *)
(* overlapping create() calls, and every limit.                            *)
(***************************************************************************)
EXTENDS BackupService, FiniteSetTheorems, TLAPS

\* Where a create() is while its record says "running", and while it enforces the
\* retention.
Making == {"save", "services", "enable", "transfer", "restore", "write", "stat", "complete"}
Trying == {"enable", "transfer", "restore"}
Deleting == {"file", "record"}
Retaining == {"limit", "list", "check"} \cup Deleting

Types ==
  /\ status \in [Backups -> Kept \cup {"none", "gone"}]
  /\ file \in [Backups -> BOOLEAN]
  /\ off \in [Services -> BOOLEAN]
  /\ maxFiles \in Numbers
  /\ pc \in [Processes -> {"idle", "catch"} \cup Making \cup Retaining]
  /\ pc[Config] \in {"idle"} \cup Retaining
  /\ pc[User] \in {"idle"} \cup Deleting
  /\ plan \in [Backups -> Seq(Candidate)]
  /\ \A b \in Backups : pc[b] \in Trying <=> plan[b] # <<>>
  /\ got \in [Backups -> BOOLEAN]
  /\ limit \in [Processes -> Numbers \cup {0}]
  /\ todo \in [Processes -> SUBSET Backups]
  /\ victims \in [Processes -> SUBSET Backups]
  /\ \A p \in Processes : pc[p] = "record" => victims[p] # {}
  /\ was \in [Services -> BOOLEAN]
  /\ stuck \subseteq Services
  /\ stored \subseteq Backups
  /\ crossed \in BOOLEAN
  /\ edits \in 0 .. MaxEvents /\ deletions \in 0 .. MaxEvents /\ crashes \in 0 .. MaxEvents

\* How far a record has come.
Stages ==
  /\ \A b \in Backups :
       /\ pc[b] \in Making => status[b] \in {"running", "gone"} /\ b \notin stored
       /\ status[b] = "completed" => b \in stored
       /\ status[b] = "none" => pc[b] = "idle" /\ b \notin stored /\ ~file[b]
  /\ \A p \in Processes \ {User} : todo[p] \cup victims[p] \subseteq stored

\* Only a service that was disabled is enabled, and it is disabled again.
Windows ==
  /\ \A s \in Services : off[s] => was[s]
  /\ \A b \in Backups : \A i \in 1 .. Len(plan[b]) : plan[b][i].off => was[plan[b][i].service]
  /\ \A b \in Backups : pc[b] \in {"enable", "restore"} => Head(plan[b]).off
  /\ \A s \in Services :
       was[s] /\ ~off[s] => s \in stuck \/ crashes > 0 \/ \E b \in Backups : InWindow(b, s)

\* A file that is gone, its record not yet.
Missed(b) == crashes > 0 \/ \E p \in Processes : pc[p] = "record" /\ Victim(p, b)

Files ==
  \A b \in Backups :
    status[b] = "completed" \/ pc[b] = "complete" =>
      file[b] \/ status[b] = "gone" \/ Missed(b)

\* Without edits and deletions, what is deleted is beyond the newest maxFiles.
Untouched == edits = 0 /\ deletions = 0

DeletesOld ==
  /\ pc[Config] = "idle" /\ pc[User] = "idle"
  /\ \A b \in Backups : /\ pc[b] \in Making => status[b] # "gone"
                        /\ pc[b] = "complete" => file[b]
  /\ \A p \in Processes :
       /\ pc[p] \in {"list", "check"} => limit[p] = maxFiles
       /\ pc[p] \in Deleting => \A b \in victims[p] : Newer(stored, b) >= maxFiles
  /\ \A b \in stored : ~file[b] \/ status[b] = "gone" => Newer(stored, b) >= maxFiles

NewestKept == Untouched => DeletesOld

\* The backups whose retention has taken its list; and what it means that the
\* retention of z answers for the set U: its list had them all, and what it does
\* not delete of them is not too many.
Quiet == crashes = 0 /\ deletions = 0 /\ ~crossed

Listed ==
  {b \in Backups : status[b] = "completed" /\ file[b] /\ pc[b] \in {"check", "idle"} \cup Deleting}

Covers(z, U) ==
  /\ pc[z] = "check" => U \subseteq todo[z] \cup victims[z]
  /\ pc[z] \in Deleting => Cardinality(U \ victims[z]) <= maxFiles
  /\ pc[z] = "idle" => Cardinality(U) <= maxFiles

\* Of any set of listed backups, the one that took its list last answers for all: a
\* retention that gives up makes its own backup a failed one.
ListsCover ==
  /\ pc[User] = "idle"
  /\ pc[Config] # "idle" => \A b \in Backups : pc[b] = "idle"
  /\ \A p \in Processes : pc[p] \in {"list", "check"} => limit[p] <= maxFiles
  /\ pc[Config] = "check" => \A b \in todo[Config] : status[b] = "completed"
  /\ IF pc[Config] \in {"check"} \cup Deleting
     THEN \A b \in victims[Config] : status[b] = "completed"
     ELSE victims[Config] = {}
  /\ pc[Config] \notin {"limit", "list"} =>
       \A U \in SUBSET Listed :
         U # {} => \/ \E z \in U : Covers(z, U)
                   \/ pc[Config] # "idle" /\ Covers(Config, U)

Covered == Quiet => ListsCover

BInv == Types /\ Stages /\ Windows /\ Files /\ NewestKept /\ Covered

-----------------------------------------------------------------------------
(* Processes, types and the initial state                                  *)

LEMMA Actors ==
  /\ MaxBackups \in Nat /\ Backups \subseteq Nat /\ IsFiniteSet(Backups)
  /\ Backups \subseteq Processes /\ Config \in Processes /\ User \in Processes
  /\ Config \notin Backups /\ User \notin Backups /\ Config # User
  /\ \A p \in Processes : p \in Backups \/ p = Config \/ p = User
<1>1. MaxBackups \in Nat
  BY BackupAssumption
<1> QED
  BY <1>1, FS_Interval DEF Backups, Processes, Config, User

LEMMA LimitTypes ==
  /\ Numbers \subseteq Nat \ {0} /\ DefaultMaxFiles \in Numbers /\ Limits \subseteq Numbers
  /\ MaxEvents \in Nat
BY BackupAssumption DEF Numbers

LEMMA TypesTypeOK == Types /\ Stages => TypeOK
<1> SUFFICES ASSUME Types, Stages PROVE TypeOK
  OBVIOUS
<1>1. \A b \in Backups : file[b] => status[b] # "none"
  BY DEF Stages
<1>2. \A b \in Backups :
        /\ pc[b] \in {"idle", "save", "services", "enable", "transfer", "restore", "write",
                     "stat", "complete", "catch", "limit", "list", "check", "file", "record"}
        /\ plan[b] \in Seq(Candidate)
        /\ pc[b] \in {"enable", "transfer", "restore"} <=> plan[b] # <<>>
  BY Actors DEF Types, Making, Retaining, Trying, Deleting
<1>3. /\ pc[Config] \in {"idle", "limit", "list", "check", "file", "record"}
      /\ pc[User] \in {"idle", "file", "record"}
  BY DEF Types, Retaining, Deleting
<1>4. \A p \in Processes :
        /\ todo[p] \subseteq Backups /\ victims[p] \subseteq Backups
        /\ pc[p] = "record" => victims[p] # {}
  BY DEF Types
<1> QED
  BY <1>1, <1>2, <1>3, <1>4 DEF Types, TypeOK

LEMMA InitBInv == Init => BInv
<1> SUFFICES ASSUME Init PROVE BInv
  OBVIOUS
<1>1. /\ \A p \in Processes : pc[p] = "idle" /\ todo[p] = {} /\ victims[p] = {}
      /\ \A b \in Backups : status[b] = "none" /\ ~file[b] /\ plan[b] = <<>>
  BY DEF Init
<1>2. off \in [Services -> BOOLEAN]
  BY BackupAssumption DEF Init, Services
<1>3. Types
  <2>1. maxFiles \in Numbers /\ limit \in [Processes -> Numbers \cup {0}]
    BY DEF Init, Numbers
  <2>2. \A b \in Backups : pc[b] \in Trying <=> plan[b] # <<>>
    BY <1>1, Actors DEF Trying
  <2>3. edits \in 0 .. MaxEvents /\ deletions \in 0 .. MaxEvents /\ crashes \in 0 .. MaxEvents
    BY LimitTypes DEF Init
  <2>4. plan \in [Backups -> Seq(Candidate)]
    BY DEF Init
  <2>5. /\ pc \in [Processes -> {"idle", "catch"} \cup Making \cup Retaining]
        /\ pc[Config] = "idle" /\ pc[User] = "idle"
        /\ todo \in [Processes -> SUBSET Backups] /\ victims \in [Processes -> SUBSET Backups]
    BY Actors DEF Init
  <2>6. /\ status \in [Backups -> Kept \cup {"none", "gone"}] /\ file \in [Backups -> BOOLEAN]
        /\ got \in [Backups -> BOOLEAN] /\ crossed \in BOOLEAN
        /\ was \in [Services -> BOOLEAN] /\ stuck \subseteq Services /\ stored \subseteq Backups
    BY <1>2 DEF Init
  <2> QED
    BY <1>1, <1>2, <2>1, <2>2, <2>3, <2>4, <2>5, <2>6 DEF Types
<1>4. Stages
  BY <1>1, Actors DEF Init, Stages, Making
<1>5. Windows
  BY <1>1, Actors DEF Init, Windows
<1>6. Files
  BY <1>1, Actors DEF Files
<1>7. NewestKept
  BY <1>1, Actors DEF Init, NewestKept, DeletesOld, Making, Deleting
<1>8. Covered
  <2>1. Listed = {}
    BY <1>1 DEF Listed
  <2> QED
    BY <1>1, <2>1, Actors DEF Covered, ListsCover, Deleting
<1> QED
  BY <1>3, <1>4, <1>5, <1>6, <1>7, <1>8 DEF BInv

-----------------------------------------------------------------------------
(* Types                                                                   *)

\* The candidates are both services, with their state at the time.
LEMMA CandidatesType ==
  ASSUME off \in [Services -> BOOLEAN]
  PROVE  /\ Candidates \in Seq(Candidate) /\ Len(Candidates) = 2
         /\ \A i \in 1 .. 2 : Candidates[i].off = off[Candidates[i].service]
         /\ \A i \in 1 .. 2 : Candidates[i].service \in Services
<1> DEFINE order == IF off["ssh"] /\ ~off["ftp"] THEN <<"ftp", "ssh">> ELSE <<"ssh", "ftp">>
           c(i) == [service |-> order[i], off |-> off[order[i]]]
<1>1. \A i \in 1 .. 2 : order[i] \in Services
  BY DEF Services
<1> HIDE DEF order
<1>2. \A i \in 1 .. 2 : c(i) \in Candidate /\ c(i).service = order[i] /\ c(i).off = off[order[i]]
  BY <1>1 DEF Candidate
<1>3. Candidates = [i \in 1 .. 2 |-> c(i)]
  BY DEF Candidates, order
<1> HIDE DEF c
<1>4. Candidates \in Seq(Candidate) /\ Len(Candidates) = 2
  BY <1>2, <1>3
<1>5. \A i \in 1 .. 2 : Candidates[i] = c(i)
  BY <1>3
<1> QED
  BY <1>1, <1>2, <1>4, <1>5

\* A sequence that is not empty, and what is left of it.
LEMMA Rest ==
  ASSUME NEW S, NEW q \in Seq(S), q # <<>>
  PROVE  /\ Len(q) \in Nat \ {0} /\ Head(q) \in S /\ Head(q) = q[1]
         /\ Tail(q) \in Seq(S) /\ Len(Tail(q)) = Len(q) - 1
         /\ \A i \in 1 .. Len(q) - 1 : Tail(q)[i] = q[i + 1]
         /\ Len(q) = 1 => Tail(q) = <<>>
         /\ Len(q) # 1 => Tail(q) # <<>> /\ Head(Tail(q)) = q[2]
<1>1. Len(q) \in Nat \ {0}
  OBVIOUS
<1>2. /\ Head(q) \in S /\ Head(q) = q[1]
      /\ Tail(q) \in Seq(S) /\ Len(Tail(q)) = Len(q) - 1
      /\ \A i \in 1 .. Len(q) - 1 : Tail(q)[i] = q[i + 1]
  BY <1>1
<1>3. Len(q) = 1 => Tail(q) = <<>>
  <2> SUFFICES ASSUME Len(q) = 1 PROVE Tail(q) = <<>>
    OBVIOUS
  <2> DEFINE r == Tail(q)
  <2>1. Len(r) = 0 /\ r \in Seq(S)
    BY <1>2
  <2> HIDE DEF r
  <2>2. r = <<>>
    BY <2>1
  <2> QED
    BY <2>2 DEF r
<1>4. Len(q) # 1 => Tail(q) # <<>> /\ Head(Tail(q)) = q[2]
  <2> SUFFICES ASSUME Len(q) # 1 PROVE Tail(q) # <<>> /\ Head(Tail(q)) = q[2]
    OBVIOUS
  <2>1. Len(Tail(q)) \in Nat \ {0} /\ 1 \in 1 .. Len(q) - 1
    BY <1>1, <1>2
  <2> DEFINE r == Tail(q)
  <2>2. r \in Seq(S) /\ Len(r) \in Nat \ {0} /\ r[1] = q[2]
    BY <1>2, <2>1
  <2> HIDE DEF r
  <2>3. r # <<>> /\ Head(r) = r[1]
    BY <2>2
  <2> QED
    BY <2>2, <2>3 DEF r
<1> QED
  BY <1>1, <1>2, <1>3, <1>4

-----------------------------------------------------------------------------
(* A create() before its record is completed                               *)

\* b goes on in its create(), or gives it up; its file alone may be another.
Proceeds(b, l) ==
  /\ pc' = [pc EXCEPT ![b] = l]
  /\ pc[b] \in Making /\ l \in Making \cup {"catch"}
  /\ \A a \in Backups : a # b => file'[a] = file[a]
  /\ file' \in [Backups -> BOOLEAN]
  /\ l = "complete" => file'[b]
  /\ UNCHANGED <<maxFiles, retention, counts, status, stored>>

LEMMA ProceedsKeeps ==
  ASSUME BInv, NEW b \in Backups, NEW l, Proceeds(b, l)
  PROVE  Stages' /\ Files' /\ NewestKept' /\ Covered'
<1> USE Actors
<1>1. /\ pc'[b] = l /\ l \in Making \cup {"catch"} /\ pc[b] \in Making
      /\ \A p \in Processes : p # b => pc'[p] = pc[p]
      /\ \A a \in Backups : a # b => file'[a] = file[a]
      /\ l = "complete" => file'[b]
      /\ UNCHANGED <<maxFiles, limit, todo, victims, edits, deletions, crashes, crossed, status, stored>>
  BY DEF Proceeds, BInv, Types, retention, counts
<1>2. status[b] \in {"running", "gone"} /\ b \notin stored
  BY <1>1 DEF BInv, Stages
<1>3. Stages'
  BY <1>1, <1>2 DEF BInv, Stages
<1>4. /\ pc[b] \notin {"idle", "catch"} \cup Retaining
      /\ l \notin {"idle"} \cup Retaining
  BY <1>1 DEF Making, Retaining, Deleting
<1>5. \A a \in Backups : Missed(a)' <=> Missed(a)
  BY <1>1, <1>4 DEF Missed, Victim, Retaining, Deleting
<1>6. Files'
  BY <1>1, <1>2, <1>5 DEF BInv, Files
<1>7. NewestKept'
  <2> SUFFICES ASSUME Untouched' PROVE DeletesOld'
    BY DEF NewestKept
  <2>1. Untouched
    BY <1>1 DEF Untouched
  <2>2. /\ pc'[Config] = "idle" /\ pc'[User] = "idle"
        /\ \A a \in Backups : /\ pc'[a] \in Making => status'[a] # "gone"
                              /\ pc'[a] = "complete" => file'[a]
    BY <1>1, <2>1 DEF BInv, NewestKept, DeletesOld
  <2>3. \A p \in Processes :
          /\ pc'[p] \in {"list", "check"} => limit'[p] = maxFiles'
          /\ pc'[p] \in Deleting => \A a \in victims'[p] : Newer(stored, a)' >= maxFiles'
    BY <1>1, <1>4, <2>1 DEF BInv, NewestKept, DeletesOld, Retaining, Newer
  <2>4. \A a \in stored' : ~file'[a] \/ status'[a] = "gone" => Newer(stored, a)' >= maxFiles'
    BY <1>1, <1>2, <2>1 DEF BInv, NewestKept, DeletesOld, Newer, Types
  <2> QED
    BY <2>2, <2>3, <2>4 DEF DeletesOld
<1>8. Covered'
  <2> SUFFICES ASSUME Quiet' PROVE ListsCover'
    BY DEF Covered
  <2>1. Quiet
    BY <1>1 DEF Quiet
  <2>2. Listed' = Listed
    BY <1>1, <1>2 DEF Listed
  <2>3. \A z \in Processes, U \in SUBSET Listed : z # b => (Covers(z, U)' <=> Covers(z, U))
    BY <1>1 DEF Covers
  <2>4. b \notin Listed
    BY <1>2 DEF Listed
  <2> QED
    BY <1>1, <1>4, <2>1, <2>2, <2>3, <2>4 DEF BInv, Covered, ListsCover, Retaining, Deleting, Listed
<1> QED
  BY <1>3, <1>6, <1>7, <1>8

\* What has to be seen to when b goes on with the candidates q.
LEMMA TryingKeeps ==
  ASSUME BInv, NEW b \in Backups, NEW l, Proceeds(b, l), NEW q \in Seq(Candidate),
         plan' = [plan EXCEPT ![b] = q],
         l \in Trying <=> q # <<>>,
         l \in {"enable", "restore"} => Head(q).off,
         \A i \in 1 .. Len(q) : q[i].off => was[q[i].service],
         off' \in [Services -> BOOLEAN], got' \in [Backups -> BOOLEAN],
         was' = was, stuck \subseteq stuck', stuck' \subseteq Services,
         \A s \in Services : off'[s] => was[s],
         \A s \in Services :
           was[s] /\ ~off'[s] => s \in stuck' \/ InWindow(b, s)' \/ (~off[s] /\ ~InWindow(b, s))
  PROVE  BInv'
<1> USE Actors
<1>1. /\ pc'[b] = l /\ l \in Making \cup {"catch"} /\ pc[b] \in Making
      /\ \A p \in Processes : p # b => pc'[p] = pc[p]
      /\ plan'[b] = q /\ \A a \in Backups : a # b => plan'[a] = plan[a]
      /\ UNCHANGED <<maxFiles, limit, todo, victims, edits, deletions, crashes, crossed, status, stored>>
  BY DEF Proceeds, BInv, Types, retention, counts
<1>2. Types'
  <2>1. pc' \in [Processes -> {"idle", "catch"} \cup Making \cup Retaining]
    BY DEF Proceeds, BInv, Types
  <2>2. plan' \in [Backups -> Seq(Candidate)] /\ \A a \in Backups : pc'[a] \in Trying <=> plan'[a] # <<>>
    BY <1>1 DEF BInv, Types
  <2>3. \A p \in Processes : pc'[p] = "record" => victims'[p] # {}
    BY <1>1 DEF BInv, Types, Making
  <2>4. file' \in [Backups -> BOOLEAN]
    BY DEF Proceeds
  <2> QED
    BY <1>1, <2>1, <2>2, <2>3, <2>4 DEF BInv, Types
<1>3. Windows'
  <2>1. \A a \in Backups, s \in Services : a # b => (InWindow(a, s)' <=> InWindow(a, s))
    BY <1>1 DEF InWindow, Service
  <2>2. ASSUME NEW s \in Services, was[s], ~off'[s]
        PROVE  s \in stuck' \/ crashes' > 0 \/ \E a \in Backups : InWindow(a, s)'
    <3>1. CASE s \in stuck' \/ InWindow(b, s)'
      BY <3>1
    <3>2. CASE ~off[s] /\ ~InWindow(b, s)
      <4>1. s \in stuck \/ crashes > 0 \/ \E a \in Backups : InWindow(a, s)
        BY <2>2, <3>2 DEF BInv, Windows
      <4> QED
        BY <1>1, <2>1, <3>2, <4>1
    <3> QED
      BY <2>2, <3>1, <3>2
  <2>3. /\ \A a \in Backups : \A i \in 1 .. Len(plan'[a]) : plan'[a][i].off => was[plan'[a][i].service]
        /\ \A a \in Backups : pc'[a] \in {"enable", "restore"} => Head(plan'[a]).off
    BY <1>1, SMTT(30) DEF BInv, Windows
  <2> QED
    BY <2>2, <2>3 DEF Windows
<1> QED
  BY <1>2, <1>3, ProceedsKeeps DEF BInv

\* Save, Write, Stat and the failures around them have no service in hand.
LEMMA PlainKeeps ==
  ASSUME BInv, NEW b \in Backups, NEW l, Proceeds(b, l), pc[b] \notin Trying, l \notin Trying,
         UNCHANGED <<router, transfer>>
  PROVE  BInv'
<1>1. plan[b] = <<>> /\ plan' = [plan EXCEPT ![b] = <<>>] /\ <<>> \in Seq(Candidate)
  BY DEF BInv, Types, transfer
<1>2. \A s \in Services : ~InWindow(b, s)
  BY DEF InWindow, Trying
<1>3. /\ off' \in [Services -> BOOLEAN] /\ got' \in [Backups -> BOOLEAN]
      /\ was' = was /\ stuck' = stuck /\ stuck' \subseteq Services /\ off' = off
      /\ \A s \in Services : off'[s] => was[s]
  BY DEF BInv, Types, Windows, router, transfer
<1>4. l \notin {"enable", "restore"}
  BY DEF Trying
<1>5. \A i \in 1 .. Len(<<>>) : <<>>[i].off => was[<<>>[i].service]
  OBVIOUS
<1>6. \A s \in Services : was[s] /\ ~off'[s] => ~off[s] /\ ~InWindow(b, s)
  BY <1>2, <1>3
<1> QED
  BY <1>1, <1>3, <1>4, <1>5, <1>6, TryingKeeps

LEMMA MakingSteps ==
  ASSUME BInv, NEW b \in Backups,
         \/ Save(b) \/ CommandFails(b) \/ Write(b) \/ WriteFails(b) \/ Stat(b)
         \/ Complete(b) /\ status[b] = "gone"
  PROVE  BInv'
<1>1. ASSUME NEW l, pc' = [pc EXCEPT ![b] = l], pc[b] \in {"save", "services", "write", "stat", "complete"},
             l \in {"services", "stat", "complete", "catch"}, l = "complete" => file'[b],
             \A a \in Backups : a # b => file'[a] = file[a], file' \in [Backups -> BOOLEAN],
             UNCHANGED <<status, stored, router, maxFiles, transfer, retention, counts>>
      PROVE  BInv'
  <2>1. Proceeds(b, l) /\ pc[b] \notin Trying /\ l \notin Trying
    BY <1>1 DEF Proceeds, Making, Trying
  <2> QED
    BY <1>1, <2>1, PlainKeeps
<1>2. file \in [Backups -> BOOLEAN]
  BY DEF BInv, Types
<1>3. CASE Save(b)
  BY <1>1, <1>2, <1>3 DEF Save, Goto, records
<1>4. CASE CommandFails(b)
  BY <1>1, <1>2, <1>4 DEF CommandFails, Goto, records
<1>5. CASE Write(b)
  BY <1>1, <1>2, <1>5 DEF Write, Goto
<1>6. CASE WriteFails(b)
  BY <1>1, <1>2, <1>6 DEF WriteFails, Goto
<1>7. CASE Stat(b)
  BY <1>1, <1>2, <1>7 DEF Stat, Goto, records
<1>8. CASE Complete(b) /\ status[b] = "gone"
  BY <1>1, <1>2, <1>8 DEF Complete, Goto
<1> QED
  BY <1>3, <1>4, <1>5, <1>6, <1>7, <1>8

LEMMA ReadServicesKeeps ==
  ASSUME BInv, NEW b \in Backups, ReadServices(b) PROVE BInv'
<1> DEFINE q == Candidates
           l == Begin(Head(q))
<1>1. /\ pc[b] = "services" /\ plan' = [plan EXCEPT ![b] = q] /\ pc' = [pc EXCEPT ![b] = l]
      /\ UNCHANGED <<records, router, maxFiles, got, retention, counts>>
  BY DEF ReadServices, Goto
<1>2. off \in [Services -> BOOLEAN] /\ file \in [Backups -> BOOLEAN] /\ got \in [Backups -> BOOLEAN]
      /\ stuck \subseteq Services /\ \A s \in Services : off[s] => was[s]
  BY DEF BInv, Types, Windows
<1>3. /\ q \in Seq(Candidate) /\ Len(q) = 2
      /\ \A i \in 1 .. 2 : q[i].off = off[q[i].service] /\ q[i].service \in Services
  BY <1>2, CandidatesType
<1> HIDE DEF q
<1>4. q # <<>>
  <2>1. Len(<<>>) # 2
    OBVIOUS
  <2> QED
    BY <1>3, <2>1
<1>5. l \in {"enable", "transfer"} /\ (l = "enable" => Head(q).off)
  BY DEF Begin
<1> HIDE DEF l
<1>6. Proceeds(b, l)
  BY <1>1, <1>2, <1>5 DEF Proceeds, Making, records
<1>7. l \in Trying /\ l # "restore"
  BY <1>5 DEF Trying
<1>8. \A i \in 1 .. Len(q) : q[i].off => was[q[i].service]
  BY <1>2, <1>3
<1>9. off' = off /\ got' = got /\ was' = was /\ stuck' = stuck
  BY <1>1 DEF router
<1>10. /\ off' \in [Services -> BOOLEAN] /\ got' \in [Backups -> BOOLEAN]
       /\ stuck \subseteq stuck' /\ stuck' \subseteq Services
       /\ \A s \in Services : off'[s] => was[s]
  BY <1>2, <1>9
<1>11. \A s \in Services : was[s] /\ ~off'[s] => ~off[s] /\ ~InWindow(b, s)
  BY <1>1, <1>9 DEF InWindow
<1>12. plan' = [plan EXCEPT ![b] = q]
  BY <1>1
<1> QED
  BY <1>3, <1>4, <1>5, <1>6, <1>7, <1>8, <1>9, <1>10, <1>11, <1>12, TryingKeeps

\* The candidate that b tries.
LEMMA Tried ==
  ASSUME BInv, NEW b \in Backups, pc[b] \in Trying
  PROVE  /\ plan[b] \in Seq(Candidate) /\ plan[b] # <<>>
         /\ Head(plan[b]) = plan[b][1] /\ Len(plan[b]) \in Nat \ {0}
         /\ Service(b) \in Services /\ Service(b) = Head(plan[b]).service
         /\ Head(plan[b]).off \in BOOLEAN
         /\ Head(plan[b]).off => was[Service(b)]
         /\ pc[b] \in {"enable", "restore"} => Head(plan[b]).off
<1>1. plan[b] \in Seq(Candidate) /\ plan[b] # <<>>
  BY DEF BInv, Types
<1>2. Head(plan[b]) \in Candidate /\ Head(plan[b]) = plan[b][1] /\ Len(plan[b]) \in Nat \ {0}
  BY <1>1, Rest
<1>3. Head(plan[b]).service \in Services /\ Head(plan[b]).off \in BOOLEAN
  BY <1>2 DEF Candidate
<1>4. Head(plan[b]).off => was[Head(plan[b]).service]
  BY <1>2 DEF BInv, Windows
<1> QED
  BY <1>1, <1>2, <1>3, <1>4 DEF BInv, Windows, Service

LEMMA EnableKeeps ==
  ASSUME BInv, NEW b \in Backups, Enable(b) PROVE BInv'
<1> DEFINE q == plan[b]
<1>1. /\ pc[b] = "enable"
      /\ UNCHANGED <<records, was, stuck, maxFiles, plan, retention, counts>>
  BY DEF Enable
<1>2. pc[b] \in Trying
  BY <1>1 DEF Trying
<1>3. PICK s1 \in Services : s1 = Service(b)
  BY <1>2, Tried
<1>4. /\ q \in Seq(Candidate) /\ q # <<>> /\ s1 = Head(q).service
       /\ Head(q).off /\ was[s1]
  BY <1>1, <1>2, <1>3, Tried
<1>5. PICK l \in {"transfer", "restore"} :
        /\ pc' = [pc EXCEPT ![b] = l]
        /\ off' = [off EXCEPT ![s1] = FALSE] \/ off' = off
        /\ got' = got \/ got' = [got EXCEPT ![b] = FALSE]
  BY <1>3 DEF Enable, Goto
<1>6. /\ off \in [Services -> BOOLEAN] /\ file \in [Backups -> BOOLEAN] /\ got \in [Backups -> BOOLEAN]
      /\ stuck \subseteq Services /\ pc \in [Processes -> {"idle", "catch"} \cup Making \cup Retaining]
      /\ plan \in [Backups -> Seq(Candidate)]
      /\ \A s \in Services : off[s] => was[s]
      /\ \A i \in 1 .. Len(q) : q[i].off => was[q[i].service]
  BY DEF BInv, Types, Windows
<1>7. Proceeds(b, l) /\ l \in Trying
  BY <1>1, <1>5, <1>6 DEF Proceeds, Making, records, Trying
<1>8. InWindow(b, s1)'
  <2>1. pc'[b] = l /\ plan'[b] = q
    BY <1>1, <1>5, <1>6, Actors
  <2> QED
    BY <1>5, <1>4, <2>1 DEF InWindow, Service
<1>9. \A s \in Services : s # s1 => ~InWindow(b, s) /\ off'[s] = off[s]
  BY <1>1, <1>5, <1>6, <1>3 DEF InWindow
<1>10. /\ off' \in [Services -> BOOLEAN] /\ got' \in [Backups -> BOOLEAN]
      /\ \A s \in Services : off'[s] => was[s]
  BY <1>5, <1>6, <1>9, <1>4
<1>11. plan' = [plan EXCEPT ![b] = q] /\ was' = was /\ stuck' = stuck
  BY <1>1, <1>6
<1>12. \A s \in Services : was[s] /\ ~off'[s] => InWindow(b, s)' \/ (~off[s] /\ ~InWindow(b, s))
  BY <1>8, <1>9
<1> HIDE DEF q
<1> QED
  BY <1>6, <1>7, <1>10, <1>11, <1>12, <1>4, TryingKeeps

\* What is left of the candidates when b leaves one of them, and where it goes.
LEMMA LeaveGoes ==
  ASSUME BInv, NEW b \in Backups, pc[b] \in Trying, NEW ok \in BOOLEAN, Leave(b, ok)
  PROVE  \E q \in Seq(Candidate), l \in {"write", "catch", "enable", "transfer"} :
           /\ plan' = [plan EXCEPT ![b] = q] /\ pc' = [pc EXCEPT ![b] = l]
           /\ l \in Trying <=> q # <<>>
           /\ l = "enable" => Head(q).off
           /\ \A i \in 1 .. Len(q) : q[i].off => was[q[i].service]
<1> DEFINE r == plan[b]
           q == IF ok THEN <<>> ELSE Tail(r)
           l == IF ok THEN "write" ELSE IF Len(r) = 1 THEN "catch" ELSE Begin(r[2])
<1>1. r \in Seq(Candidate) /\ r # <<>>
  BY Tried
<1>2. plan' = [plan EXCEPT ![b] = q] /\ pc' = [pc EXCEPT ![b] = l]
  BY DEF Leave, Goto
<1>3. \A i \in 1 .. Len(r) : r[i].off => was[r[i].service]
  BY DEF BInv, Windows
<1> HIDE DEF r
<1>4. q \in Seq(Candidate)
  BY <1>1, Rest
<1>5. CASE ok
  <2>1. q = <<>> /\ l = "write" /\ \A i \in 1 .. Len(q) : q[i].off => was[q[i].service]
    BY <1>5
  <2>2. l \notin Trying /\ l \in {"write", "catch", "enable", "transfer"} /\ l # "enable"
    BY <2>1 DEF Trying
  <2> HIDE DEF q, l
  <2> QED
    BY <1>2, <1>4, <2>1, <2>2
<1>6. CASE ~ok
  <2>1. q = Tail(r)
    BY <1>6
  <2>2. \A i \in 1 .. Len(q) : q[i].off => was[q[i].service]
    <3> SUFFICES ASSUME NEW i \in 1 .. Len(q), q[i].off PROVE was[q[i].service]
      OBVIOUS
    <3>1. Len(q) = Len(r) - 1 /\ Len(r) \in Nat \ {0} /\ \A j \in 1 .. Len(r) - 1 : q[j] = r[j + 1]
      BY <1>1, <2>1, Rest
    <3> HIDE DEF q
    <3>2. i + 1 \in 1 .. Len(r) /\ q[i] = r[i + 1]
      BY <3>1
    <3> QED
      BY <1>3, <3>2
  <2>3. CASE Len(r) = 1
    <3>1. q = <<>> /\ l = "catch"
      BY <1>1, <1>6, <2>1, <2>3, Rest
    <3> HIDE DEF q, l
    <3> QED
      BY <1>2, <1>4, <2>2, <3>1 DEF Trying
  <2>4. CASE Len(r) # 1
    <3>1. q # <<>> /\ Head(q) = r[2] /\ l = Begin(r[2])
      BY <1>1, <1>6, <2>1, <2>4, Rest
    <3> HIDE DEF q
    <3>2. l \in {"enable", "transfer"} /\ (l = "enable" => Head(q).off)
      BY <3>1 DEF Begin
    <3> HIDE DEF l
    <3> QED
      BY <1>2, <1>4, <2>2, <3>1, <3>2 DEF Trying
  <2> QED
    BY <2>3, <2>4
<1> QED
  BY <1>5, <1>6

LEMMA TransferKeeps ==
  ASSUME BInv, NEW b \in Backups, Transfer(b) PROVE BInv'
<1>1. /\ pc[b] = "transfer" /\ pc[b] \in Trying
      /\ UNCHANGED <<records, router, maxFiles, retention, counts>>
  BY DEF Transfer, Trying
<1>2. /\ off' = off /\ was' = was /\ stuck' = stuck /\ off' \in [Services -> BOOLEAN]
      /\ stuck \subseteq stuck' /\ stuck' \subseteq Services
      /\ \A s \in Services : off'[s] => was[s]
      /\ file \in [Backups -> BOOLEAN] /\ got \in [Backups -> BOOLEAN]
  BY <1>1 DEF BInv, Types, Windows, router
<1>3. PICK ok \in BOOLEAN :
        IF Head(plan[b]).off
        THEN /\ got' = [got EXCEPT ![b] = ok]
             /\ Goto(b, "restore")
             /\ plan' = plan
        ELSE Leave(b, ok) /\ got' = got
  BY DEF Transfer
<1>4. CASE Head(plan[b]).off
  <2> DEFINE q == plan[b]
  <2>1. pc' = [pc EXCEPT ![b] = "restore"] /\ got' \in [Backups -> BOOLEAN] /\ plan' = plan
    BY <1>2, <1>3, <1>4 DEF Goto
  <2>2. q \in Seq(Candidate) /\ q # <<>> /\ \A i \in 1 .. Len(q) : q[i].off => was[q[i].service]
    BY <1>1, Tried DEF BInv, Windows
  <2>3. plan' = [plan EXCEPT ![b] = q]
    BY <2>1 DEF BInv, Types
  <2>4. Proceeds(b, "restore")
    BY <1>1, <1>2, <2>1 DEF Proceeds, Making, records
  <2>5. ASSUME NEW s \in Services PROVE InWindow(b, s) => InWindow(b, s)'
    <3>1. pc'[b] = "restore"
      BY <2>1, Actors DEF BInv, Types
    <3> QED
      BY <2>1, <3>1 DEF InWindow, Service
  <2>6. \A s \in Services : was[s] /\ ~off'[s] => InWindow(b, s)' \/ (~off[s] /\ ~InWindow(b, s))
    BY <1>2, <2>5
  <2>7. Head(q).off /\ "restore" \in Trying
    BY <1>4 DEF Trying
  <2> HIDE DEF q
  <2> QED
    BY <1>2, <2>1, <2>2, <2>3, <2>4, <2>6, <2>7, TryingKeeps
<1>5. CASE ~Head(plan[b]).off
  <2>1. Leave(b, ok) /\ got' = got
    BY <1>3, <1>5
  <2>2. PICK q \in Seq(Candidate), l \in {"write", "catch", "enable", "transfer"} :
           /\ plan' = [plan EXCEPT ![b] = q] /\ pc' = [pc EXCEPT ![b] = l]
           /\ l \in Trying <=> q # <<>>
           /\ l = "enable" => Head(q).off
           /\ \A i \in 1 .. Len(q) : q[i].off => was[q[i].service]
    BY <1>1, <2>1, LeaveGoes
  <2>3. Proceeds(b, l)
    BY <1>1, <1>2, <2>2 DEF Proceeds, Making, records
  <2>4. \A s \in Services : was[s] /\ ~off'[s] => ~off[s] /\ ~InWindow(b, s)
    BY <1>2, <1>5 DEF InWindow
  <2>5. l \in {"enable", "restore"} => Head(q).off
    BY <2>2
  <2>6. got' \in [Backups -> BOOLEAN]
    BY <1>2, <2>1
  <2> QED
    BY <1>2, <2>2, <2>3, <2>4, <2>5, <2>6, TryingKeeps
<1> QED
  BY <1>4, <1>5

LEMMA RestoreKeeps ==
  ASSUME BInv, NEW b \in Backups, Restore(b) PROVE BInv'
<1>1. /\ pc[b] = "restore" /\ pc[b] \in Trying /\ Leave(b, got[b])
      /\ off' = [off EXCEPT ![Service(b)] = TRUE] /\ got' = [got EXCEPT ![b] = FALSE]
      /\ UNCHANGED <<records, was, stuck, maxFiles, retention, counts>>
  BY DEF Restore, Trying
<1>2. Service(b) \in Services /\ was[Service(b)]
  BY <1>1, Tried
<1>3. /\ off \in [Services -> BOOLEAN] /\ \A s \in Services : off[s] => was[s]
      /\ file \in [Backups -> BOOLEAN] /\ got \in [Backups -> BOOLEAN] /\ stuck \subseteq Services
  BY DEF BInv, Types, Windows
<1>4. /\ off' \in [Services -> BOOLEAN] /\ got' \in [Backups -> BOOLEAN] /\ was' = was
      /\ stuck \subseteq stuck' /\ stuck' \subseteq Services
      /\ \A s \in Services : off'[s] => was[s]
      /\ \A s \in Services : ~off'[s] => ~off[s] /\ s # Service(b)
  BY <1>1, <1>2, <1>3
<1>5. got[b] \in BOOLEAN
  BY <1>3
<1>6. PICK q \in Seq(Candidate), l \in {"write", "catch", "enable", "transfer"} :
         /\ plan' = [plan EXCEPT ![b] = q] /\ pc' = [pc EXCEPT ![b] = l]
         /\ l \in Trying <=> q # <<>>
         /\ l = "enable" => Head(q).off
         /\ \A i \in 1 .. Len(q) : q[i].off => was[q[i].service]
  BY <1>1, <1>5, LeaveGoes
<1>7. Proceeds(b, l)
  BY <1>1, <1>3, <1>6 DEF Proceeds, Making, records
<1>8. \A s \in Services : was[s] /\ ~off'[s] => ~off[s] /\ ~InWindow(b, s)
  BY <1>4 DEF InWindow
<1>9. l \in {"enable", "restore"} => Head(q).off
  BY <1>6
<1> QED
  BY <1>4, <1>6, <1>7, <1>8, <1>9, TryingKeeps

LEMMA RestoreFailsKeeps ==
  ASSUME BInv, NEW b \in Backups, RestoreFails(b) PROVE BInv'
<1>1. /\ pc[b] = "restore" /\ pc[b] \in Trying /\ pc' = [pc EXCEPT ![b] = "catch"]
      /\ off' = [off EXCEPT ![Service(b)] = TRUE] \/ off' = off
      /\ got' = [got EXCEPT ![b] = FALSE] /\ plan' = [plan EXCEPT ![b] = <<>>]
      /\ stuck' = stuck \cup {Service(b)}
      /\ UNCHANGED <<records, was, maxFiles, retention, counts>>
  BY DEF RestoreFails, Trying, Goto
<1>2. Service(b) \in Services /\ was[Service(b)]
  BY <1>1, Tried
<1>3. /\ off \in [Services -> BOOLEAN] /\ \A s \in Services : off[s] => was[s]
      /\ file \in [Backups -> BOOLEAN] /\ got \in [Backups -> BOOLEAN] /\ stuck \subseteq Services
  BY DEF BInv, Types, Windows
<1>4. /\ off' \in [Services -> BOOLEAN] /\ got' \in [Backups -> BOOLEAN] /\ was' = was
      /\ stuck \subseteq stuck' /\ stuck' \subseteq Services
      /\ \A s \in Services : off'[s] => was[s]
      /\ \A s \in Services : ~off'[s] => ~off[s]
  BY <1>1, <1>2, <1>3
<1>5. Proceeds(b, "catch")
  BY <1>1, <1>3 DEF Proceeds, Making, records
<1>6. \A s \in Services : was[s] /\ ~off'[s] => s \in stuck' \/ (~off[s] /\ ~InWindow(b, s))
  BY <1>1, <1>4 DEF InWindow
<1>7. "catch" \notin Trying /\ <<>> \in Seq(Candidate)
  BY DEF Trying
<1>8. \A i \in 1 .. Len(<<>>) : <<>>[i].off => was[<<>>[i].service]
  OBVIOUS
<1> QED
  BY <1>1, <1>4, <1>5, <1>6, <1>7, <1>8, TryingKeeps

-----------------------------------------------------------------------------
(* A record is made, completed or marked as failed                         *)

LEMMA WindowsKept ==
  ASSUME BInv, UNCHANGED <<router, plan>>, crashes' >= crashes, crashes' \in Nat,
         \A b \in Backups : pc[b] \in Trying \/ pc'[b] \in Trying => pc'[b] = pc[b]
  PROVE  Windows'
<1>1. UNCHANGED <<off, was, stuck, plan>>
  BY DEF router
<1>2. \A b \in Backups, s \in Services : InWindow(b, s) => InWindow(b, s)'
  BY <1>1 DEF InWindow, Service, Trying
<1>3. crashes \in Nat
  BY LimitTypes DEF BInv, Types
<1>4. \A b \in Backups : pc'[b] \in {"enable", "restore"} => pc[b] = pc'[b]
  BY DEF Trying
<1> QED
  BY <1>1, <1>2, <1>3, <1>4 DEF BInv, Windows

LEMMA NewerGrows ==
  ASSUME NEW B \in SUBSET Backups, NEW A \in SUBSET B, NEW b
  PROVE  Newer(A, b) \in Nat /\ Newer(B, b) \in Nat /\ Newer(A, b) <= Newer(B, b)
<1> DEFINE S == {a \in B : a > b}
           T == {a \in A : a > b}
<1>1. IsFiniteSet(S)
  BY Actors, FS_Subset
<1>2. T \in SUBSET S
  OBVIOUS
<1>3. IsFiniteSet(T) /\ Cardinality(T) <= Cardinality(S)
  BY <1>1, <1>2, FS_Subset
<1> QED
  BY <1>1, <1>3, FS_CardinalityType DEF Newer

\* A step of a create() that is not of the listed ones, while the schedule is not
\* being edited.
LEMMA CoveredSame ==
  ASSUME BInv, Quiet' => Quiet /\ pc[Config] = "idle",
         Listed' \subseteq Listed, \A z \in Listed' : pc'[z] = pc[z],
         pc'[Config] = pc[Config], pc'[User] = pc[User],
         \A p \in Processes : pc'[p] \in {"list", "check"} => pc'[p] = pc[p],
         UNCHANGED <<maxFiles, limit, todo, victims>>
  PROVE  Covered'
<1> SUFFICES ASSUME Quiet' PROVE ListsCover'
  BY DEF Covered
<1>1. ListsCover /\ pc[Config] = "idle"
  BY DEF BInv, Covered
<1>2. ASSUME NEW U \in SUBSET Listed', U # {} PROVE \E z \in U : Covers(z, U)'
  <2>1. PICK z \in U : Covers(z, U)
    BY <1>1, <1>2 DEF ListsCover
  <2> QED
    BY <1>2, <2>1 DEF Covers
<1> QED
  BY <1>1, <1>2 DEF ListsCover, Deleting

LEMMA CreateKeeps ==
  ASSUME BInv, NEW b \in Backups, Create(b) PROVE BInv'
<1> USE Actors
<1>1. /\ status[b] = "none" /\ status' = [status EXCEPT ![b] = "running"]
      /\ pc' = [pc EXCEPT ![b] = "save"] /\ crossed' = (crossed \/ pc[Config] # "idle")
      /\ UNCHANGED <<file, stored, off, was, stuck, maxFiles, plan, got, limit, todo, victims,
                     edits, deletions, crashes>>
  BY DEF Create, Goto, router, transfer, retention
<1>2. pc[b] = "idle" /\ b \notin stored /\ ~file[b]
  BY <1>1 DEF BInv, Stages
<1>3. /\ status'[b] = "running" /\ pc'[b] = "save"
      /\ \A a \in Backups : a # b => status'[a] = status[a]
      /\ \A p \in Processes : p # b => pc'[p] = pc[p]
  BY <1>1 DEF BInv, Types
<1>4. Types'
  <2>1. /\ status' \in [Backups -> Kept \cup {"none", "gone"}]
        /\ pc' \in [Processes -> {"idle", "catch"} \cup Making \cup Retaining]
    BY <1>1 DEF BInv, Types, Kept, Making
  <2>2. \A a \in Backups : pc'[a] \in Trying <=> plan'[a] # <<>>
    BY <1>1, <1>2, <1>3 DEF BInv, Types, Trying
  <2>3. /\ pc'[Config] = pc[Config] /\ pc'[User] = pc[User] /\ crossed' \in BOOLEAN
        /\ \A p \in Processes : pc'[p] = "record" => victims'[p] # {}
    BY <1>1, <1>3 DEF BInv, Types
  <2> QED
    BY <1>1, <2>1, <2>2, <2>3 DEF BInv, Types
<1>5. Stages'
  BY <1>1, <1>2, <1>3 DEF BInv, Stages
<1>6. Windows'
  BY <1>1, <1>2, <1>3, WindowsKept, LimitTypes, SMTT(30) DEF BInv, Types, Trying, router
<1>7. Files'
  <2>1. \A a \in Backups : Missed(a) => Missed(a)'
    BY <1>1, <1>2, <1>3 DEF Missed, Victim
  <2> QED
    BY <1>1, <1>2, <1>3, <2>1 DEF BInv, Files
<1>8. NewestKept'
  BY <1>1, <1>2, <1>3 DEF BInv, NewestKept, DeletesOld, Untouched, Newer, Deleting
<1>9. Covered'
  <2>1. Quiet' => Quiet /\ pc[Config] = "idle"
    BY <1>1 DEF Quiet
  <2>2. Listed' \subseteq Listed /\ \A z \in Listed' : pc'[z] = pc[z]
    BY <1>1, <1>3 DEF Listed
  <2> QED
    BY <1>1, <1>3, <2>1, <2>2, CoveredSame
<1> QED
  BY <1>4, <1>5, <1>6, <1>7, <1>8, <1>9 DEF BInv

LEMMA CompleteKeeps ==
  ASSUME BInv, NEW b \in Backups, Complete(b), status[b] # "gone" PROVE BInv'
<1> USE Actors
<1>1. /\ pc[b] = "complete" /\ status' = [status EXCEPT ![b] = "completed"]
      /\ stored' = stored \cup {b} /\ pc' = [pc EXCEPT ![b] = "limit"]
      /\ UNCHANGED <<file, off, was, stuck, maxFiles, plan, got, limit, todo, victims,
                     edits, deletions, crashes, crossed>>
  BY DEF Complete, Goto, router, transfer, retention, counts
<1>2. status[b] \in {"running", "gone"} /\ b \notin stored
  BY <1>1 DEF BInv, Stages, Making
<1>3. /\ status'[b] = "completed" /\ pc'[b] = "limit"
      /\ \A a \in Backups : a # b => status'[a] = status[a]
      /\ \A p \in Processes : p # b => pc'[p] = pc[p]
  BY <1>1 DEF BInv, Types
<1>4. Types'
  <2>1. /\ status' \in [Backups -> Kept \cup {"none", "gone"}]
        /\ pc' \in [Processes -> {"idle", "catch"} \cup Making \cup Retaining]
    BY <1>1 DEF BInv, Types, Kept, Retaining
  <2>2. \A a \in Backups : pc'[a] \in Trying <=> plan'[a] # <<>>
    BY <1>1, <1>3 DEF BInv, Types, Trying
  <2>3. /\ pc'[Config] = pc[Config] /\ pc'[User] = pc[User] /\ stored' \subseteq Backups
        /\ \A p \in Processes : pc'[p] = "record" => victims'[p] # {}
    BY <1>1, <1>3 DEF BInv, Types
  <2> QED
    BY <1>1, <2>1, <2>2, <2>3 DEF BInv, Types
<1>5. Stages'
  BY <1>1, <1>2, <1>3 DEF BInv, Stages, Making
<1>6. Windows'
  BY <1>1, <1>3, WindowsKept, LimitTypes, SMTT(30) DEF BInv, Types, Trying, router
<1>7. Files'
  <2>1. \A a \in Backups : Missed(a) => Missed(a)'
    BY <1>1, <1>3 DEF Missed, Victim
  <2> QED
    BY <1>1, <1>2, <1>3, <2>1 DEF BInv, Files
<1>8. NewestKept'
  <2> SUFFICES ASSUME Untouched' PROVE DeletesOld'
    BY DEF NewestKept
  <2>1. DeletesOld
    BY <1>1 DEF BInv, NewestKept, Untouched
  <2>2. \A a : Newer(stored, a) >= maxFiles => Newer(stored', a) >= maxFiles
    <3>1. stored \subseteq stored' /\ stored' \subseteq Backups /\ maxFiles \in Nat
      BY <1>1, LimitTypes DEF BInv, Types
    <3>2. ASSUME NEW a PROVE /\ Newer(stored, a) \in Nat /\ Newer(stored', a) \in Nat
                             /\ Newer(stored, a) <= Newer(stored', a)
      BY <3>1, NewerGrows
    <3> QED
      BY <3>1, <3>2
  <2>3. \A a : Newer(stored, a)' = Newer(stored', a)
    BY DEF Newer
  <2>4. file[b]
    BY <1>1, <2>1 DEF DeletesOld
  <2>5. \A a \in stored' : ~file'[a] \/ status'[a] = "gone" => Newer(stored', a) >= maxFiles'
    BY <1>1, <1>3, <2>1, <2>2, <2>4 DEF DeletesOld, BInv, Types
  <2>6. \A p \in Processes :
          /\ pc'[p] \in {"list", "check"} => limit'[p] = maxFiles'
          /\ pc'[p] \in Deleting => \A a \in victims'[p] : Newer(stored', a) >= maxFiles'
    BY <1>1, <1>3, <2>1, <2>2 DEF DeletesOld, Deleting
  <2>7. \A a \in Backups : /\ pc'[a] \in Making => status'[a] # "gone"
                           /\ pc'[a] = "complete" => file'[a]
    BY <1>1, <1>3, <2>1 DEF DeletesOld, Making
  <2> QED
    BY <1>3, <2>1, <2>3, <2>5, <2>6, <2>7 DEF DeletesOld
<1>9. Covered'
  <2>1. Quiet' => Quiet /\ pc[Config] = "idle"
    BY <1>1 DEF Quiet, BInv, Covered, ListsCover
  <2>2. Listed' \subseteq Listed /\ \A z \in Listed' : pc'[z] = pc[z]
    BY <1>1, <1>3 DEF Listed, Deleting
  <2> QED
    BY <1>1, <1>3, <2>1, <2>2, CoveredSame
<1> QED
  BY <1>4, <1>5, <1>6, <1>7, <1>8, <1>9 DEF BInv

\* A create() that gave up, the retention of which may have done so.
LEMMA CatchKeeps ==
  ASSUME BInv, NEW b \in Backups, Catch(b) PROVE BInv'
<1> USE Actors
<1>1. /\ pc[b] = "catch" /\ pc' = [pc EXCEPT ![b] = "idle"]
      /\ status' = [status EXCEPT ![b] = IF @ = "gone" THEN "gone" ELSE "failed"]
      /\ UNCHANGED <<file, stored, off, was, stuck, maxFiles, plan, got, limit, todo, victims,
                     edits, deletions, crashes, crossed>>
  BY DEF Catch, Goto, router, transfer, retention, counts
<1>2. /\ status'[b] \in {"failed", "gone"} /\ (status'[b] = "gone" => status[b] = "gone")
      /\ pc'[b] = "idle"
      /\ \A a \in Backups : a # b => status'[a] = status[a]
      /\ \A p \in Processes : p # b => pc'[p] = pc[p]
  BY <1>1 DEF BInv, Types
<1>3. Types'
  <2>1. /\ status' \in [Backups -> Kept \cup {"none", "gone"}]
        /\ pc' \in [Processes -> {"idle", "catch"} \cup Making \cup Retaining]
    BY <1>1 DEF BInv, Types, Kept
  <2>2. \A a \in Backups : pc'[a] \in Trying <=> plan'[a] # <<>>
    BY <1>1, <1>2 DEF BInv, Types, Trying
  <2>3. /\ pc'[Config] = pc[Config] /\ pc'[User] = pc[User]
        /\ \A p \in Processes : pc'[p] = "record" => victims'[p] # {}
    BY <1>1, <1>2 DEF BInv, Types
  <2> QED
    BY <1>1, <2>1, <2>2, <2>3 DEF BInv, Types
<1>4. Stages'
  BY <1>1, <1>2 DEF BInv, Stages, Making
<1>5. Windows'
  BY <1>1, <1>2, WindowsKept, LimitTypes, SMTT(30) DEF BInv, Types, Trying, router
<1>6. Files'
  <2>1. \A a \in Backups : Missed(a) => Missed(a)'
    BY <1>1, <1>2 DEF Missed, Victim
  <2> QED
    BY <1>1, <1>2, <2>1 DEF BInv, Files
<1>7. NewestKept'
  <2>1. \A a : Newer(stored, a)' = Newer(stored, a)
    BY <1>1 DEF Newer
  <2>2. \A a \in Backups : pc'[a] \in Making => pc[a] = pc'[a] /\ a # b
    BY <1>2 DEF Making
  <2>3. \A a \in stored : status'[a] = "gone" => status[a] = "gone"
    BY <1>2 DEF BInv, Types
  <2> QED
    BY <1>1, <1>2, <2>1, <2>2, <2>3 DEF BInv, NewestKept, DeletesOld, Untouched, Deleting
<1>8. Covered'
  <2>1. Quiet' => Quiet /\ pc[Config] = "idle"
    BY <1>1 DEF Quiet, BInv, Covered, ListsCover
  <2>2. Listed' \subseteq Listed /\ \A z \in Listed' : pc'[z] = pc[z]
    BY <1>1, <1>2 DEF Listed
  <2> QED
    BY <1>1, <1>2, <2>1, <2>2, CoveredSame
<1> QED
  BY <1>3, <1>4, <1>5, <1>6, <1>7, <1>8 DEF BInv

-----------------------------------------------------------------------------
(* enforceRetention() and the deletions                                    *)

\* p goes on with its retention or its deletions, to their end perhaps.
Retains(p, l) ==
  /\ pc[p] \in Retaining /\ pc' = [pc EXCEPT ![p] = l]
  /\ l \in Retaining \cup {"idle", "catch"}
  /\ p = User => l \in Deleting \cup {"idle"}
  /\ p = Config => l # "catch"
  /\ \A q \in Processes : q # p => todo'[q] = todo[q] /\ victims'[q] = victims[q] /\ limit'[q] = limit[q]
  /\ UNCHANGED <<stored, router, maxFiles, transfer, counts>>

LEMMA RetainsStep ==
  ASSUME BInv, NEW p \in Processes, NEW l, Retains(p, l)
  PROVE  /\ pc'[p] = l /\ \A q \in Processes : q # p => pc'[q] = pc[q]
         /\ pc[p] \notin Making \cup {"idle", "catch"} /\ l \notin Making
         /\ p = User => pc[p] \in Deleting
         /\ UNCHANGED <<stored, off, was, stuck, maxFiles, plan, got, edits, deletions, crashes, crossed>>
         /\ Untouched' = Untouched /\ Quiet' = Quiet
         /\ \A b \in Backups : pc'[b] \in Making <=> pc[b] \in Making
         /\ \A b \in Backups : pc'[b] \in Making => pc'[b] = pc[b]
         /\ \A a : Newer(stored, a)' = Newer(stored, a)
<1>1. UNCHANGED <<stored, off, was, stuck, maxFiles, plan, got, edits, deletions, crashes, crossed>>
  BY DEF Retains, router, transfer, counts
<1>2. pc'[p] = l /\ \A q \in Processes : q # p => pc'[q] = pc[q]
  BY DEF Retains, BInv, Types
<1>3. pc[p] \notin Making \cup {"idle", "catch"} /\ l \notin Making
  BY DEF Retains, Retaining, Deleting, Making
<1>4. p = User => pc[p] \in Deleting
  BY <1>3 DEF BInv, Types
<1>5. \A b \in Backups : /\ pc'[b] \in Making <=> pc[b] \in Making
                         /\ pc'[b] \in Making => pc'[b] = pc[b]
  BY <1>2, <1>3, Actors
<1>6. \A a : Newer(stored, a)' = Newer(stored, a)
  BY <1>1 DEF Newer
<1> QED
  BY <1>1, <1>2, <1>3, <1>4, <1>5, <1>6 DEF Untouched, Quiet

LEMMA RetainsTypes ==
  ASSUME BInv, NEW p \in Processes, NEW l, Retains(p, l),
         status' \in [Backups -> Kept \cup {"none", "gone"}],
         file' \in [Backups -> BOOLEAN],
         limit' \in [Processes -> Numbers \cup {0}],
         todo' \in [Processes -> SUBSET Backups],
         victims' \in [Processes -> SUBSET Backups],
         l = "record" => victims'[p] # {}
  PROVE  Types' /\ Windows'
<1> USE Actors
<1>1. /\ pc'[p] = l /\ \A q \in Processes : q # p => pc'[q] = pc[q]
      /\ pc[p] \notin Making \cup {"idle", "catch"} /\ l \notin Making
      /\ UNCHANGED <<stored, off, was, stuck, maxFiles, plan, got, edits, deletions, crashes, crossed>>
  BY RetainsStep
<1>2. Trying \subseteq Making
  BY DEF Trying, Making
<1>3. \A b \in Backups : pc[b] \in Trying \/ pc'[b] \in Trying => pc'[b] = pc[b]
  BY <1>1, <1>2
<1>4. Windows'
  BY <1>1, <1>3, WindowsKept, LimitTypes DEF BInv, Types, router
<1>5. Types'
  <2>1. \A b \in Backups : pc'[b] \in Trying <=> plan'[b] # <<>>
    BY <1>1, <1>3 DEF BInv, Types
  <2>2. pc' \in [Processes -> {"idle", "catch"} \cup Making \cup Retaining]
    BY DEF BInv, Types, Retains
  <2>3. pc'[Config] \in {"idle"} \cup Retaining /\ pc'[User] \in {"idle"} \cup Deleting
    BY <1>1 DEF BInv, Types, Retains
  <2>4. \A q \in Processes : pc'[q] = "record" => victims'[q] # {}
    BY <1>1 DEF BInv, Types, Retains
  <2> QED
    BY <1>1, <2>1, <2>2, <2>3, <2>4 DEF BInv, Types
<1> QED
  BY <1>4, <1>5

\* Steps that delete nothing keep what they hold to.
LEMMA ReadLimitKeeps ==
  ASSUME BInv, NEW p \in Processes, ReadLimit(p) PROVE BInv'
<1> USE Actors
<1>1. /\ pc[p] = "limit" /\ limit' = [limit EXCEPT ![p] = maxFiles]
      /\ UNCHANGED <<status, file, todo, victims>>
      /\ Retains(p, "list")
  BY DEF ReadLimit, Retains, Goto, records, Retaining, BInv, Types, Deleting
<1>2. /\ pc'[p] = "list" /\ \A q \in Processes : q # p => pc'[q] = pc[q]
      /\ UNCHANGED <<stored, maxFiles, crashes>>
      /\ Untouched' = Untouched /\ Quiet' = Quiet
      /\ \A b \in Backups : pc'[b] \in Making <=> pc[b] \in Making
      /\ \A b \in Backups : pc'[b] \in Making => pc'[b] = pc[b]
      /\ \A a : Newer(stored, a)' = Newer(stored, a)
  BY <1>1, RetainsStep
<1>3. p # User
  BY <1>1 DEF BInv, Types, Deleting
<1>4. /\ limit' \in [Processes -> Numbers \cup {0}] /\ limit'[p] = maxFiles
      /\ \A q \in Processes : q # p => limit'[q] = limit[q]
  BY <1>1 DEF BInv, Types
<1>5. Types' /\ Windows'
  <2>1. /\ status' \in [Backups -> Kept \cup {"none", "gone"}] /\ file' \in [Backups -> BOOLEAN]
        /\ todo' \in [Processes -> SUBSET Backups] /\ victims' \in [Processes -> SUBSET Backups]
    BY <1>1 DEF BInv, Types
  <2> QED
    BY <1>1, <1>4, <2>1, RetainsTypes
<1>6. Stages'
  BY <1>1, <1>2 DEF BInv, Stages
<1>7. Files'
  <2>1. \A a \in Backups : Missed(a) => Missed(a)'
    BY <1>1, <1>2 DEF Missed, Victim
  <2> QED
    BY <1>1, <1>2, <2>1 DEF BInv, Files
<1>8. NewestKept'
  <2>1. \A b \in Backups : pc'[b] = "complete" => pc[b] = "complete"
    BY <1>1, <1>2
  <2> QED
    BY <1>1, <1>2, <1>3, <1>4, <2>1 DEF BInv, NewestKept, DeletesOld, Deleting
<1>9. Covered'
  <2> SUFFICES ASSUME Quiet' PROVE ListsCover'
    BY DEF Covered
  <2>1. ListsCover
    BY <1>2 DEF BInv, Covered
  <2>2. Listed' = Listed /\ p \notin Listed
    BY <1>1, <1>2 DEF Listed, Deleting
  <2>3. maxFiles \in Nat
    BY LimitTypes DEF BInv, Types
  <2>4. \A q \in Processes : pc'[q] \in {"list", "check"} => limit'[q] <= maxFiles'
    BY <1>2, <1>4, <2>1, <2>3 DEF ListsCover
  <2>5. p = Config => pc'[Config] = "list" /\ victims'[Config] = {} /\ \A b \in Backups : pc'[b] = "idle"
    BY <1>1, <1>2, <2>1 DEF ListsCover, Deleting
  <2>6. CASE p = Config
    BY <1>1, <1>2, <1>3, <2>1, <2>4, <2>5, <2>6 DEF ListsCover, Deleting
  <2>7. CASE p # Config
    <3>1. \A z \in Listed, U \in SUBSET Listed : Covers(z, U) => Covers(z, U)'
      BY <1>1, <1>2, <2>2 DEF Covers, Listed
    <3>2. p \in Backups /\ pc[Config] = "idle" /\ pc'[Config] = "idle"
      BY <1>1, <1>2, <1>3, <2>1, <2>7 DEF ListsCover
    <3> QED
      BY <1>1, <1>2, <1>3, <2>1, <2>2, <2>4, <3>1, <3>2 DEF ListsCover, Deleting
  <2> QED
    BY <2>6, <2>7
<1> QED
  BY <1>5, <1>6, <1>7, <1>8, <1>9 DEF BInv

LEMMA ListKeeps ==
  ASSUME BInv, NEW p \in Processes, List(p) PROVE BInv'
<1> USE Actors
<1> DEFINE Done == {b \in Backups : status[b] = "completed"}
<1>1. /\ pc[p] = "list" /\ todo' = [todo EXCEPT ![p] = Done]
      /\ UNCHANGED <<status, file, limit, victims>>
      /\ Retains(p, "check")
  BY DEF List, Retains, Goto, records, Retaining, BInv, Types, Deleting
<1>2. /\ pc'[p] = "check" /\ \A q \in Processes : q # p => pc'[q] = pc[q]
      /\ UNCHANGED <<stored, maxFiles, crashes>>
      /\ Untouched' = Untouched /\ Quiet' = Quiet
      /\ \A b \in Backups : pc'[b] \in Making <=> pc[b] \in Making
      /\ \A b \in Backups : pc'[b] \in Making => pc'[b] = pc[b]
      /\ \A a : Newer(stored, a)' = Newer(stored, a)
  BY <1>1, RetainsStep
<1>3. p # User
  BY <1>1 DEF BInv, Types, Deleting
<1>4. /\ todo' \in [Processes -> SUBSET Backups] /\ todo'[p] = Done
      /\ \A q \in Processes : q # p => todo'[q] = todo[q]
  BY <1>1 DEF BInv, Types
<1>5. Types' /\ Windows'
  <2>1. /\ status' \in [Backups -> Kept \cup {"none", "gone"}] /\ file' \in [Backups -> BOOLEAN]
        /\ limit' \in [Processes -> Numbers \cup {0}] /\ victims' \in [Processes -> SUBSET Backups]
    BY <1>1 DEF BInv, Types
  <2> QED
    BY <1>1, <1>4, <2>1, RetainsTypes
<1>6. Stages'
  <2>1. Done \subseteq stored
    BY DEF BInv, Stages
  <2> QED
    BY <1>1, <1>2, <1>4, <2>1 DEF BInv, Stages
<1>7. Files'
  <2>1. \A a \in Backups : Missed(a) => Missed(a)'
    BY <1>1, <1>2 DEF Missed, Victim
  <2> QED
    BY <1>1, <1>2, <2>1 DEF BInv, Files
<1>8. NewestKept'
  <2>1. \A b \in Backups : pc'[b] = "complete" => pc[b] = "complete"
    BY <1>1, <1>2
  <2> QED
    BY <1>1, <1>2, <1>3, <2>1 DEF BInv, NewestKept, DeletesOld, Deleting
<1>9. Covered'
  <2> SUFFICES ASSUME Quiet' PROVE ListsCover'
    BY DEF Covered
  <2>1. ListsCover
    BY <1>2 DEF BInv, Covered
  <2>2. Listed' \subseteq Listed \cup {p} /\ p \notin Listed /\ Listed' \subseteq Done
    BY <1>1, <1>2 DEF Listed, Deleting
  <2>3. \A q \in Processes : pc'[q] \in {"list", "check"} => limit'[q] <= maxFiles'
    BY <1>1, <1>2, <2>1 DEF ListsCover
  <2>4. \A U \in SUBSET Listed' : Covers(p, U)'
    BY <1>2, <1>4, <2>2 DEF Covers, Deleting
  <2>5. CASE p = Config
    <3>1. victims'[Config] = {} /\ pc'[Config] = "check" /\ \A b \in Backups : pc'[b] = "idle"
      BY <1>1, <1>2, <2>1, <2>5 DEF ListsCover, Deleting
    <3>2. \A b \in todo'[Config] : status'[b] = "completed"
      BY <1>1, <1>4, <2>5
    <3> QED
      BY <1>2, <1>3, <2>1, <2>3, <2>4, <2>5, <3>1, <3>2 DEF ListsCover
  <2>6. CASE p # Config
    <3>1. \A z \in Listed, U \in SUBSET Listed : Covers(z, U) => Covers(z, U)'
      BY <1>1, <1>2, <1>4, <2>2 DEF Covers, Listed
    <3>2. p \in Backups /\ pc[Config] = "idle" /\ pc'[Config] = "idle" /\ victims'[Config] = {}
      BY <1>1, <1>2, <1>3, <2>1, <2>6 DEF ListsCover, Deleting
    <3>3. ASSUME NEW U \in SUBSET Listed', U # {} PROVE \E z \in U : Covers(z, U)'
      <4>1. CASE p \in U
        BY <2>4, <4>1
      <4>2. CASE p \notin U
        BY <2>1, <2>2, <3>1, <3>2, <3>3, <4>2 DEF ListsCover
      <4> QED
        BY <4>1, <4>2
    <3>4. pc'[User] = "idle"
      BY <1>2, <1>3, <2>1 DEF ListsCover
    <3> QED
      BY <2>3, <3>2, <3>3, <3>4 DEF ListsCover, Deleting
  <2> QED
    BY <2>5, <2>6
<1> QED
  BY <1>5, <1>6, <1>7, <1>8, <1>9 DEF BInv

LEMMA CheckKeeps ==
  ASSUME BInv, NEW p \in Processes, Check(p) PROVE BInv'
<1> USE Actors
<1>1. PICK b \in todo[p] :
        /\ todo' = [todo EXCEPT ![p] = @ \ {b}]
        /\ victims' = [victims EXCEPT ![p] = IF file[b] THEN @ \cup {b} ELSE @]
  BY DEF Check
<1>2. /\ pc[p] = "check" /\ pc' = pc
      /\ UNCHANGED <<status, file, stored, off, was, stuck, maxFiles, plan, got, limit,
                     edits, deletions, crashes, crossed>>
  BY DEF Check, records, router, transfer, counts
<1>3. /\ p # User /\ b \in Backups
      /\ todo' \in [Processes -> SUBSET Backups] /\ victims' \in [Processes -> SUBSET Backups]
      /\ todo'[p] = todo[p] \ {b} /\ victims'[p] = (IF file[b] THEN victims[p] \cup {b} ELSE victims[p])
      /\ \A q \in Processes : q # p => todo'[q] = todo[q] /\ victims'[q] = victims[q]
  BY <1>1, <1>2 DEF BInv, Types, Deleting
<1>4. todo'[p] \cup victims'[p] \subseteq todo[p] \cup victims[p]
  BY <1>1, <1>3
<1>5. Types'
  <2>1. \A q \in Processes : pc'[q] = "record" => victims'[q] # {}
    BY <1>2, <1>3 DEF BInv, Types
  <2> QED
    BY <1>2, <1>3, <2>1 DEF BInv, Types
<1>6. Stages'
  BY <1>2, <1>3, <1>4 DEF BInv, Stages
<1>7. Windows'
  BY <1>2, WindowsKept, LimitTypes, SMTT(30) DEF BInv, Types, router
<1>8. Files'
  <2>1. \A a \in Backups : Missed(a) => Missed(a)'
    BY <1>2, <1>3 DEF Missed, Victim
  <2> QED
    BY <1>2, <2>1 DEF BInv, Files
<1>9. NewestKept'
  <2>1. \A a : Newer(stored, a)' = Newer(stored, a)
    BY <1>2 DEF Newer
  <2> QED
    BY <1>2, <1>3, <2>1 DEF BInv, NewestKept, DeletesOld, Untouched, Deleting
<1>10. Covered'
  <2> SUFFICES ASSUME Quiet' PROVE ListsCover'
    BY DEF Covered
  <2>1. ListsCover
    BY <1>2 DEF BInv, Covered, Quiet
  <2>2. Listed' = Listed
    BY <1>2 DEF Listed
  <2>3. \A z \in Processes, U \in SUBSET Listed : Covers(z, U) => Covers(z, U)'
    <3> SUFFICES ASSUME NEW z \in Processes, NEW U \in SUBSET Listed, Covers(z, U) PROVE Covers(z, U)'
      OBVIOUS
    <3>1. CASE z # p
      BY <1>2, <1>3, <3>1 DEF Covers
    <3>2. CASE z = p
      <4>1. U \subseteq todo[p] \cup victims[p]
        BY <1>2, <3>2 DEF Covers
      <4>2. file[b] \/ b \notin U
        BY DEF Listed
      <4>3. U \subseteq todo'[p] \cup victims'[p]
        BY <1>3, <4>1, <4>2
      <4> QED
        BY <1>2, <3>2, <4>3 DEF Covers, Deleting
    <3> QED
      BY <3>1, <3>2
  <2>4. /\ pc'[Config] = "check" => \A a \in todo'[Config] : status'[a] = "completed"
        /\ IF pc'[Config] \in {"check"} \cup Deleting
           THEN \A a \in victims'[Config] : status'[a] = "completed"
           ELSE victims'[Config] = {}
    BY <1>2, <1>3, <1>4, <2>1 DEF ListsCover
  <2>5. \A z \in Listed : z \in Processes
    BY DEF Listed
  <2>6. ASSUME NEW U \in SUBSET Listed', U # {}, pc'[Config] \notin {"limit", "list"}
        PROVE (\E z \in U : Covers(z, U)') \/ (pc'[Config] # "idle" /\ Covers(Config, U)')
    <3>1. (\E z \in U : Covers(z, U)) \/ (pc[Config] # "idle" /\ Covers(Config, U))
      BY <1>2, <2>1, <2>2, <2>6 DEF ListsCover
    <3> QED
      BY <1>2, <2>2, <2>3, <2>5, <2>6, <3>1
  <2> QED
    BY <1>2, <2>1, <2>4, <2>6 DEF ListsCover
<1> QED
  BY <1>5, <1>6, <1>7, <1>8, <1>9, <1>10 DEF BInv

\* Fewer are newer than the newer of two.
LEMMA NewerOrders ==
  ASSUME NEW V \in SUBSET Backups, NEW a \in V, NEW b \in V, a < b
  PROVE  Newer(V, b) < Newer(V, a)
<1> DEFINE S == {c \in V : c > a}
           T == {c \in V : c > b}
<1>1. IsFiniteSet(S)
  BY Actors, FS_Subset
<1>2. T \in SUBSET S /\ b \in S /\ b \notin T
  <2>1. V \subseteq Nat /\ a \in Nat /\ b \in Nat
    BY Actors
  <2>2. \A c \in Nat : c > b => c > a
    BY <2>1
  <2>3. \A c \in T : c \in S
    BY <2>1, <2>2
  <2>4. b \in S /\ b \notin T
    BY <2>1
  <2> QED
    BY <2>3, <2>4
<1>3. IsFiniteSet(T) /\ Cardinality(T) <= Cardinality(S) /\ (Cardinality(S) = Cardinality(T) => S = T)
  BY <1>1, <1>2, FS_Subset
<1>4. Cardinality(S) \in Nat /\ Cardinality(T) \in Nat
  BY <1>1, <1>3, FS_CardinalityType
<1>5. Cardinality(T) < Cardinality(S)
  BY <1>2, <1>3, <1>4
<1> QED
  BY <1>5 DEF Newer

\* What stored.slice(k) leaves alone is no more than k.
LEMMA FewNewer ==
  ASSUME NEW V \in SUBSET Backups, NEW k \in Nat
  PROVE  Cardinality(V \ Beyond(V, k)) <= k
<1> DEFINE S == V \ Beyond(V, k)
           T == 0 .. k - 1
           f == [b \in S |-> Newer(V, b)]
<1>1. IsFiniteSet(S)
  BY Actors, FS_Subset
<1>2. IsFiniteSet(T) /\ Cardinality(T) = k
  BY FS_Interval
<1>3. \A b \in S : Newer(V, b) \in T
  BY NewerGrows DEF Beyond
<1>4. f \in [S -> T]
  BY <1>3
<1>5. SUFFICES ASSUME k < Cardinality(S) PROVE FALSE
  BY <1>1, FS_CardinalityType
<1>6. PICK a \in S, b \in S : a # b /\ f[a] = f[b]
  <2> HIDE DEF S, T, f
  <2> QED
    BY <1>1, <1>2, <1>4, <1>5, FS_PigeonHole
<1>7. Newer(V, a) = Newer(V, b) /\ Newer(V, a) \in Nat
  BY <1>3, <1>6
<1>8. a < b \/ b < a
  BY <1>6, Actors
<1> QED
  BY <1>7, <1>8, NewerOrders

\* A listed set without what retention is going to delete.
LEMMA FewLeft ==
  ASSUME NEW V \in SUBSET Backups, NEW k \in Nat, NEW U \in SUBSET V
  PROVE  Cardinality(U \ Beyond(V, k)) <= k
<1> DEFINE S == V \ Beyond(V, k)
           T == U \ Beyond(V, k)
<1>1. IsFiniteSet(S) /\ T \in SUBSET S
  BY Actors, FS_Subset
<1>2. IsFiniteSet(T) /\ Cardinality(T) <= Cardinality(S)
  BY <1>1, FS_Subset
<1>3. Cardinality(S) \in Nat /\ Cardinality(T) \in Nat
  BY <1>1, <1>2, FS_CardinalityType
<1> QED
  BY <1>2, <1>3, FewNewer

LEMMA SelectKeeps ==
  ASSUME BInv, NEW p \in Processes, Select(p) PROVE BInv'
<1> USE Actors
<1> DEFINE V == victims[p]
           W == Beyond(V, limit[p])
<1>1. /\ pc[p] = "check" /\ todo[p] = {} /\ victims' = [victims EXCEPT ![p] = W]
      /\ limit' = [limit EXCEPT ![p] = 0]
      /\ UNCHANGED <<status, file, todo>>
      /\ Retains(p, "file")
  BY DEF Select, Retains, Goto, records, Retaining, BInv, Types, Deleting
<1>2. /\ pc'[p] = "file" /\ \A q \in Processes : q # p => pc'[q] = pc[q]
      /\ UNCHANGED <<stored, maxFiles, crashes>>
      /\ Untouched' = Untouched /\ Quiet' = Quiet
      /\ \A b \in Backups : pc'[b] \in Making <=> pc[b] \in Making
      /\ \A b \in Backups : pc'[b] \in Making => pc'[b] = pc[b]
      /\ \A a : Newer(stored, a)' = Newer(stored, a)
  BY <1>1, RetainsStep
<1>3. p # User
  BY <1>1 DEF BInv, Types, Deleting
<1>4. V \subseteq Backups /\ W \subseteq V /\ V \subseteq stored /\ stored \subseteq Backups
  BY <1>3 DEF BInv, Types, Stages, Beyond
<1>5. /\ limit' \in [Processes -> Numbers \cup {0}] /\ limit'[p] = 0
      /\ victims' \in [Processes -> SUBSET Backups] /\ victims'[p] = W
      /\ \A q \in Processes : q # p => limit'[q] = limit[q] /\ victims'[q] = victims[q]
      /\ limit[p] \in Nat /\ maxFiles \in Nat
  <2>1. limit \in [Processes -> Numbers \cup {0}] /\ maxFiles \in Numbers
    BY DEF BInv, Types
  <2>2. limit[p] \in Nat /\ maxFiles \in Nat
    <3>1. \A n \in Numbers \cup {0} : n \in Nat
      BY LimitTypes
    <3>2. limit[p] \in Numbers \cup {0} /\ maxFiles \in Numbers \cup {0}
      BY <2>1
    <3> QED
      BY <3>1, <3>2
  <2> HIDE DEF W, V
  <2> QED
    BY <1>1, <1>4, <2>1, <2>2 DEF BInv, Types
<1> HIDE DEF W
<1>6. Types' /\ Windows'
  <2>1. /\ status' \in [Backups -> Kept \cup {"none", "gone"}] /\ file' \in [Backups -> BOOLEAN]
        /\ todo' \in [Processes -> SUBSET Backups]
    BY <1>1 DEF BInv, Types
  <2> QED
    BY <1>1, <1>5, <2>1, RetainsTypes
<1>7. Stages'
  BY <1>1, <1>2, <1>4, <1>5 DEF BInv, Stages
<1>8. Files'
  <2>1. \A a \in Backups : Missed(a) => Missed(a)'
    BY <1>1, <1>2, <1>5 DEF Missed, Victim
  <2> QED
    BY <1>1, <1>2, <2>1 DEF BInv, Files
<1>9. NewestKept'
  <2> SUFFICES ASSUME Untouched' PROVE DeletesOld'
    BY DEF NewestKept
  <2>1. DeletesOld
    BY <1>2 DEF BInv, NewestKept
  <2>2. ASSUME NEW b \in W PROVE Newer(stored, b) >= maxFiles
    <3>1. limit[p] = maxFiles
      BY <1>1, <2>1 DEF DeletesOld
    <3>2. Newer(V, b) >= maxFiles
      BY <2>2, <3>1 DEF W, Beyond
    <3>3. Newer(V, b) \in Nat /\ Newer(stored, b) \in Nat /\ Newer(V, b) <= Newer(stored, b)
      BY <1>4, NewerGrows
    <3> QED
      BY <1>5, <3>2, <3>3
  <2>3. \A b \in Backups : pc'[b] = "complete" => pc[b] = "complete"
    BY <1>1, <1>2
  <2>4. \A q \in Processes :
          /\ pc'[q] \in {"list", "check"} => limit'[q] = maxFiles'
          /\ pc'[q] \in Deleting => \A a \in victims'[q] : Newer(stored, a) >= maxFiles'
    BY <1>2, <1>5, <2>1, <2>2 DEF DeletesOld
  <2>5. pc[Config] = "idle" /\ pc'[Config] = "idle" /\ pc'[User] = "idle"
    BY <1>1, <1>2, <1>3, <2>1 DEF DeletesOld
  <2> QED
    BY <1>1, <1>2, <2>1, <2>3, <2>4, <2>5 DEF DeletesOld
<1>10. Covered'
  <2> SUFFICES ASSUME Quiet' PROVE ListsCover'
    BY DEF Covered
  <2>1. ListsCover
    BY <1>2 DEF BInv, Covered
  <2>2. Listed' = Listed
    BY <1>1, <1>2 DEF Listed, Deleting
  <2>3. \A z \in Processes, U \in SUBSET Listed : Covers(z, U) => Covers(z, U)'
    <3> SUFFICES ASSUME NEW z \in Processes, NEW U \in SUBSET Listed, Covers(z, U) PROVE Covers(z, U)'
      OBVIOUS
    <3>1. CASE z # p
      BY <1>1, <1>2, <1>5, <3>1 DEF Covers
    <3>2. CASE z = p
      <4>1. U \subseteq V
        BY <1>1, <3>2 DEF Covers
      <4>2. Cardinality(U \ W) <= limit[p]
        BY <1>4, <1>5, <4>1, FewLeft DEF W
      <4>3. IsFiniteSet(U \ W)
        BY FS_Subset DEF Listed
      <4>4. Cardinality(U \ W) \in Nat
        BY <4>3, FS_CardinalityType
      <4>5. limit[p] <= maxFiles
        BY <1>1, <2>1 DEF ListsCover
      <4>6. Cardinality(U \ victims'[p]) <= maxFiles'
        BY <1>2, <1>5, <4>2, <4>4, <4>5
      <4> QED
        BY <1>2, <3>2, <4>6 DEF Covers, Deleting
    <3> QED
      BY <3>1, <3>2
  <2>4. /\ pc'[Config] = "check" => \A a \in todo'[Config] : status'[a] = "completed"
        /\ IF pc'[Config] \in {"check"} \cup Deleting
           THEN \A a \in victims'[Config] : status'[a] = "completed"
           ELSE victims'[Config] = {}
    BY <1>1, <1>2, <1>4, <1>5, <2>1 DEF ListsCover, Deleting
  <2>5. \A z \in Listed : z \in Processes
    BY DEF Listed
  <2>6. ASSUME NEW U \in SUBSET Listed', U # {}, pc'[Config] \notin {"limit", "list"}
        PROVE (\E z \in U : Covers(z, U)') \/ (pc'[Config] # "idle" /\ Covers(Config, U)')
    <3>1. pc[Config] \notin {"limit", "list"} /\ (pc'[Config] = "idle" <=> pc[Config] = "idle")
      BY <1>1, <1>2, <2>6
    <3>2. (\E z \in U : Covers(z, U)) \/ (pc[Config] # "idle" /\ Covers(Config, U))
      BY <2>1, <2>2, <2>6, <3>1 DEF ListsCover
    <3> QED
      BY <2>2, <2>3, <2>5, <2>6, <3>1, <3>2
  <2>7. \A q \in Processes : pc'[q] \in {"list", "check"} => limit'[q] <= maxFiles'
    BY <1>2, <1>5, <2>1 DEF ListsCover
  <2>8. /\ pc'[User] = "idle"
        /\ pc'[Config] # "idle" => \A b \in Backups : pc'[b] = "idle"
    BY <1>1, <1>2, <1>3, <2>1 DEF ListsCover
  <2> QED
    BY <2>4, <2>6, <2>7, <2>8 DEF ListsCover
<1> QED
  BY <1>6, <1>7, <1>8, <1>9, <1>10 DEF BInv

\* Only one backup is the next of a process's victims.
LEMMA OneVictim ==
  ASSUME BInv, NEW p \in Processes, NEW a, NEW b, Victim(p, a), Victim(p, b)
  PROVE  a = b /\ a \in Backups
<1>1. victims[p] \subseteq Nat /\ victims[p] \subseteq Backups
  BY Actors DEF BInv, Types
<1>2. a \in Nat /\ b \in Nat /\ a \in Backups /\ a <= b /\ b <= a
  BY <1>1 DEF Victim
<1> QED
  BY <1>2

LEMMA DeleteFileKeeps ==
  ASSUME BInv, NEW p \in Processes, DeleteFile(p) PROVE BInv'
<1> USE Actors
<1>1. PICK b \in Backups : Victim(p, b) /\ file' = [file EXCEPT ![b] = FALSE]
  BY DEF DeleteFile
<1>2. /\ pc[p] = "file" /\ UNCHANGED <<status, todo, victims, limit>>
      /\ Retains(p, "record")
  BY DEF DeleteFile, Retains, Goto, Retaining, Deleting, retention
<1>3. /\ pc'[p] = "record" /\ \A q \in Processes : q # p => pc'[q] = pc[q]
      /\ UNCHANGED <<stored, maxFiles, crashes>>
      /\ Untouched' = Untouched /\ Quiet' = Quiet
      /\ \A a \in Backups : pc'[a] \in Making <=> pc[a] \in Making
      /\ \A a \in Backups : pc'[a] \in Making => pc'[a] = pc[a]
      /\ \A a : Newer(stored, a)' = Newer(stored, a)
  BY <1>2, RetainsStep
<1>4. /\ file' \in [Backups -> BOOLEAN] /\ ~file'[b]
      /\ \A a \in Backups : a # b => file'[a] = file[a]
  BY <1>1 DEF BInv, Types
<1>5. b \in victims[p]
  BY <1>1 DEF Victim
<1>6. Types' /\ Windows'
  <2>1. /\ status' \in [Backups -> Kept \cup {"none", "gone"}]
        /\ limit' \in [Processes -> Numbers \cup {0}]
        /\ todo' \in [Processes -> SUBSET Backups] /\ victims' \in [Processes -> SUBSET Backups]
    BY <1>2 DEF BInv, Types
  <2> QED
    BY <1>2, <1>4, <1>5, <2>1, RetainsTypes
<1>7. Stages'
  <2>1. \A a \in Backups : file'[a] => file[a]
    BY <1>4
  <2>2. \A a \in Backups : status[a] = "none" => pc'[a] = "idle"
    BY <1>2, <1>3 DEF BInv, Stages
  <2> QED
    BY <1>2, <1>3, <2>1, <2>2 DEF BInv, Stages
<1>8. Files'
  <2>1. \A a \in Backups : Missed(a) => Missed(a)'
    BY <1>2, <1>3 DEF Missed, Victim
  <2>2. Missed(b)'
    BY <1>1, <1>2, <1>3 DEF Missed, Victim
  <2>3. \A a \in Backups : pc'[a] = "complete" => pc[a] = "complete"
    BY <1>2, <1>3
  <2> QED
    BY <1>2, <1>3, <1>4, <2>1, <2>2, <2>3 DEF BInv, Files
<1>9. NewestKept'
  <2> SUFFICES ASSUME Untouched' PROVE DeletesOld'
    BY DEF NewestKept
  <2>1. DeletesOld
    BY <1>3 DEF BInv, NewestKept
  <2>2. p # User /\ p # Config
    BY <1>2, <2>1 DEF DeletesOld
  <2>3. b \in stored /\ pc[b] \notin Making /\ Newer(stored, b) >= maxFiles
    BY <1>2, <1>5, <2>1, <2>2 DEF BInv, Stages, DeletesOld, Deleting
  <2>4. \A a \in Backups : pc'[a] = "complete" => pc[a] = "complete" /\ a # b
    BY <1>2, <1>3, <2>3 DEF Making
  <2>5. /\ pc'[Config] = "idle" /\ pc'[User] = "idle"
        /\ \A a \in Backups : /\ pc'[a] \in Making => status'[a] # "gone"
                              /\ pc'[a] = "complete" => file'[a]
    BY <1>2, <1>3, <1>4, <2>1, <2>2, <2>4 DEF DeletesOld
  <2>6. \A q \in Processes :
          /\ pc'[q] \in {"list", "check"} => limit'[q] = maxFiles'
          /\ pc'[q] \in Deleting => \A a \in victims'[q] : Newer(stored, a) >= maxFiles'
    BY <1>2, <1>3, <2>1 DEF DeletesOld, Deleting
  <2>7. \A a \in stored' : ~file'[a] \/ status'[a] = "gone" => Newer(stored, a) >= maxFiles'
    BY <1>2, <1>3, <1>4, <2>1, <2>3 DEF DeletesOld, BInv, Types
  <2> QED
    BY <1>3, <2>5, <2>6, <2>7 DEF DeletesOld
<1>10. Covered'
  <2> SUFFICES ASSUME Quiet' PROVE ListsCover'
    BY DEF Covered
  <2>1. ListsCover
    BY <1>3 DEF BInv, Covered
  <2>2. Listed' \subseteq Listed
    BY <1>2, <1>3, <1>4 DEF Listed, Deleting
  <2>3. p # User
    BY <1>2, <2>1 DEF ListsCover
  <2>4. \A z \in Processes, U \in SUBSET Listed : Covers(z, U) => Covers(z, U)'
    BY <1>2, <1>3 DEF Covers, Deleting
  <2>5. \A z \in Listed : z \in Processes
    BY DEF Listed
  <2>6. ASSUME NEW U \in SUBSET Listed', U # {}, pc'[Config] \notin {"limit", "list"}
        PROVE (\E z \in U : Covers(z, U)') \/ (pc'[Config] # "idle" /\ Covers(Config, U)')
    <3>1. pc[Config] \notin {"limit", "list"} /\ (pc'[Config] = "idle" <=> pc[Config] = "idle")
      BY <1>2, <1>3, <2>6
    <3>2. (\E z \in U : Covers(z, U)) \/ (pc[Config] # "idle" /\ Covers(Config, U))
      BY <2>1, <2>2, <2>6, <3>1 DEF ListsCover
    <3> QED
      BY <2>2, <2>4, <2>5, <2>6, <3>1, <3>2
  <2>7. /\ pc'[Config] = "check" => \A a \in todo'[Config] : status'[a] = "completed"
        /\ IF pc'[Config] \in {"check"} \cup Deleting
           THEN \A a \in victims'[Config] : status'[a] = "completed"
           ELSE victims'[Config] = {}
    BY <1>2, <1>3, <2>1 DEF ListsCover, Deleting
  <2>8. /\ pc'[User] = "idle"
        /\ pc'[Config] # "idle" => \A a \in Backups : pc'[a] = "idle"
        /\ \A q \in Processes : pc'[q] \in {"list", "check"} => limit'[q] <= maxFiles'
    BY <1>2, <1>3, <2>1, <2>3 DEF ListsCover
  <2> QED
    BY <2>6, <2>7, <2>8 DEF ListsCover
<1> QED
  BY <1>6, <1>7, <1>8, <1>9, <1>10 DEF BInv

LEMMA DeletedKeeps ==
  ASSUME BInv, NEW p \in Processes, Deleted(p) PROVE BInv'
<1> USE Actors
<1>1. /\ pc[p] = "file" /\ victims[p] = {} /\ UNCHANGED <<status, file, todo, victims, limit>>
      /\ Retains(p, "idle")
  BY DEF Deleted, Retains, Goto, Retaining, Deleting, retention, records
<1>2. /\ pc'[p] = "idle" /\ \A q \in Processes : q # p => pc'[q] = pc[q]
      /\ UNCHANGED <<stored, maxFiles, crashes>>
      /\ Untouched' = Untouched /\ Quiet' = Quiet
      /\ \A a \in Backups : pc'[a] \in Making <=> pc[a] \in Making
      /\ \A a \in Backups : pc'[a] \in Making => pc'[a] = pc[a]
      /\ \A a : Newer(stored, a)' = Newer(stored, a)
  BY <1>1, RetainsStep
<1>3. Types' /\ Windows'
  <2>1. /\ status' \in [Backups -> Kept \cup {"none", "gone"}] /\ file' \in [Backups -> BOOLEAN]
        /\ limit' \in [Processes -> Numbers \cup {0}]
        /\ todo' \in [Processes -> SUBSET Backups] /\ victims' \in [Processes -> SUBSET Backups]
    BY <1>1 DEF BInv, Types
  <2> QED
    BY <1>1, <2>1, RetainsTypes
<1>4. Stages'
  BY <1>1, <1>2 DEF BInv, Stages
<1>5. \A a \in Backups : pc'[a] = "complete" => pc[a] = "complete"
  BY <1>1, <1>2
<1>6. Files'
  <2>1. \A a \in Backups : Missed(a) => Missed(a)'
    BY <1>1, <1>2 DEF Missed, Victim
  <2> QED
    BY <1>1, <1>2, <1>5, <2>1 DEF BInv, Files
<1>7. NewestKept'
  BY <1>1, <1>2, <1>5 DEF BInv, NewestKept, DeletesOld, Deleting
<1>8. Covered'
  <2> SUFFICES ASSUME Quiet' PROVE ListsCover'
    BY DEF Covered
  <2>1. ListsCover
    BY <1>2 DEF BInv, Covered
  <2>2. Listed' = Listed
    BY <1>1, <1>2 DEF Listed, Deleting
  <2>3. \A z \in Processes, U \in SUBSET Listed : Covers(z, U) => Covers(z, U)'
    <3> SUFFICES ASSUME NEW z \in Processes, NEW U \in SUBSET Listed, Covers(z, U) PROVE Covers(z, U)'
      OBVIOUS
    <3>1. CASE z # p
      BY <1>1, <1>2, <3>1 DEF Covers
    <3>2. CASE z = p
      <4>1. Cardinality(U \ {}) <= maxFiles /\ U \ {} = U
        BY <1>1, <3>2 DEF Covers, Deleting
      <4> QED
        BY <1>2, <3>2, <4>1 DEF Covers, Deleting
    <3> QED
      BY <3>1, <3>2
  <2>4. \A z \in Listed : z \in Processes
    BY DEF Listed
  <2>5. ASSUME NEW U \in SUBSET Listed', U # {}, pc'[Config] \notin {"limit", "list"}
        PROVE (\E z \in U : Covers(z, U)') \/ (pc'[Config] # "idle" /\ Covers(Config, U)')
    <3>1. pc[Config] \notin {"limit", "list"}
      BY <1>1, <1>2, <2>5
    <3>2. (\E z \in U : Covers(z, U)) \/ (pc[Config] # "idle" /\ Covers(Config, U))
      BY <2>1, <2>2, <2>5, <3>1 DEF ListsCover
    <3>3. CASE \E z \in U : Covers(z, U)
      BY <2>2, <2>3, <2>4, <2>5, <3>3
    <3>4. CASE pc[Config] # "idle" /\ Covers(Config, U) /\ p # Config
      BY <1>2, <2>2, <2>3, <2>5, <3>4
    <3>5. CASE pc[Config] # "idle" /\ Covers(Config, U) /\ p = Config
      <4>1. Cardinality(U \ {}) <= maxFiles /\ U \ {} = U
        BY <1>1, <3>5 DEF Covers, Deleting
      <4>2. PICK z \in U : z \in Backups
        BY <2>2, <2>4, <2>5 DEF Listed
      <4>3. pc'[z] = "idle"
        BY <1>1, <1>2, <2>1, <3>5, <4>2 DEF ListsCover
      <4>4. Covers(z, U)'
        BY <1>2, <4>1, <4>3 DEF Covers, Deleting
      <4> QED
        BY <4>2, <4>4
    <3> QED
      BY <3>2, <3>3, <3>4, <3>5
  <2>6. /\ pc'[Config] = "check" => \A a \in todo'[Config] : status'[a] = "completed"
        /\ IF pc'[Config] \in {"check"} \cup Deleting
           THEN \A a \in victims'[Config] : status'[a] = "completed"
           ELSE victims'[Config] = {}
    BY <1>1, <1>2, <2>1 DEF ListsCover, Deleting
  <2>7. /\ pc'[User] = "idle"
        /\ pc'[Config] # "idle" => \A a \in Backups : pc'[a] = "idle"
        /\ \A q \in Processes : pc'[q] \in {"list", "check"} => limit'[q] <= maxFiles'
    BY <1>1, <1>2, <2>1 DEF ListsCover
  <2> QED
    BY <2>5, <2>6, <2>7 DEF ListsCover
<1> QED
  BY <1>3, <1>4, <1>6, <1>7, <1>8 DEF BInv

\* The record of a victim is deleted.
LEMMA DeleteRecordKeeps ==
  ASSUME BInv, NEW p \in Processes, NEW b \in Backups, Victim(p, b), pc[p] = "record",
         status[b] # "gone",
         status' = [status EXCEPT ![b] = "gone"],
         victims' = [victims EXCEPT ![p] = @ \ {b}],
         pc' = [pc EXCEPT ![p] = "file"],
         UNCHANGED <<file, stored, router, maxFiles, transfer, limit, todo, counts>>
  PROVE  BInv'
<1> USE Actors
<1>1. Retains(p, "file")
  BY DEF Retains, Retaining, Deleting, BInv, Types
<1>2. /\ pc'[p] = "file" /\ \A q \in Processes : q # p => pc'[q] = pc[q]
      /\ UNCHANGED <<file, stored, maxFiles, crashes, limit, todo>>
      /\ Untouched' = Untouched /\ Quiet' = Quiet
      /\ \A a \in Backups : pc'[a] \in Making <=> pc[a] \in Making
      /\ \A a \in Backups : pc'[a] \in Making => pc'[a] = pc[a]
      /\ \A a : Newer(stored, a)' = Newer(stored, a)
  BY <1>1, RetainsStep
<1>3. /\ status' \in [Backups -> Kept \cup {"none", "gone"}] /\ status'[b] = "gone"
      /\ \A a \in Backups : a # b => status'[a] = status[a]
      /\ victims' \in [Processes -> SUBSET Backups] /\ victims'[p] = victims[p] \ {b}
      /\ \A q \in Processes : q # p => victims'[q] = victims[q]
  BY DEF BInv, Types
<1>4. b \in victims[p]
  BY DEF Victim
<1>5. Types' /\ Windows'
  <2>1. /\ file' \in [Backups -> BOOLEAN] /\ limit' \in [Processes -> Numbers \cup {0}]
        /\ todo' \in [Processes -> SUBSET Backups]
    BY <1>2 DEF BInv, Types
  <2> QED
    BY <1>1, <1>3, <2>1, RetainsTypes
<1>6. Stages'
  BY <1>2, <1>3 DEF BInv, Stages
<1>7. Files'
  <2>1. \A a \in Backups : Missed(a) => a = b \/ Missed(a)'
    BY <1>2, <1>3, OneVictim DEF Missed, Victim
  <2>2. \A a \in Backups : pc'[a] = "complete" => pc[a] = "complete"
    BY <1>2
  <2> QED
    BY <1>2, <1>3, <2>1, <2>2 DEF BInv, Files
<1>8. NewestKept'
  <2> SUFFICES ASSUME Untouched' PROVE DeletesOld'
    BY DEF NewestKept
  <2>1. DeletesOld
    BY <1>2 DEF BInv, NewestKept
  <2>2. p # User /\ p # Config
    BY <2>1 DEF DeletesOld
  <2>3. b \in stored /\ pc[b] \notin Making /\ Newer(stored, b) >= maxFiles
    BY <1>4, <2>1, <2>2 DEF BInv, Stages, DeletesOld, Deleting
  <2>4. /\ pc'[Config] = "idle" /\ pc'[User] = "idle"
        /\ \A a \in Backups : /\ pc'[a] \in Making => status'[a] # "gone"
                              /\ pc'[a] = "complete" => file'[a]
    BY <1>2, <1>3, <2>1, <2>2, <2>3 DEF DeletesOld
  <2>5. \A q \in Processes :
          /\ pc'[q] \in {"list", "check"} => limit'[q] = maxFiles'
          /\ pc'[q] \in Deleting => \A a \in victims'[q] : Newer(stored, a) >= maxFiles'
    BY <1>2, <1>3, <2>1 DEF DeletesOld, Deleting
  <2>6. \A a \in stored' : ~file'[a] \/ status'[a] = "gone" => Newer(stored, a) >= maxFiles'
    BY <1>2, <1>3, <2>1, <2>3 DEF DeletesOld, BInv, Types
  <2> QED
    BY <1>2, <2>4, <2>5, <2>6 DEF DeletesOld
<1>9. Covered'
  <2> SUFFICES ASSUME Quiet' PROVE ListsCover'
    BY DEF Covered
  <2>1. ListsCover
    BY <1>2 DEF BInv, Covered
  <2>2. Listed' \subseteq Listed /\ b \notin Listed'
    BY <1>2, <1>3 DEF Listed, Deleting
  <2>3. p # User
    BY <2>1 DEF ListsCover
  <2>4. \A z \in Processes, U \in SUBSET Listed' : Covers(z, U) => Covers(z, U)'
    <3> SUFFICES ASSUME NEW z \in Processes, NEW U \in SUBSET Listed', Covers(z, U) PROVE Covers(z, U)'
      OBVIOUS
    <3>1. U \ victims'[z] = U \ victims[z]
      BY <1>3, <2>2
    <3> QED
      BY <1>2, <1>3, <3>1 DEF Covers, Deleting
  <2>5. \A z \in Listed' : z \in Processes
    BY DEF Listed
  <2>6. ASSUME NEW U \in SUBSET Listed', U # {}, pc'[Config] \notin {"limit", "list"}
        PROVE (\E z \in U : Covers(z, U)') \/ (pc'[Config] # "idle" /\ Covers(Config, U)')
    <3>1. pc[Config] \notin {"limit", "list"} /\ (pc'[Config] = "idle" <=> pc[Config] = "idle")
      BY <1>2, <2>6
    <3>2. (\E z \in U : Covers(z, U)) \/ (pc[Config] # "idle" /\ Covers(Config, U))
      BY <2>1, <2>2, <2>6, <3>1 DEF ListsCover
    <3> QED
      BY <2>4, <2>5, <2>6, <3>1, <3>2
  <2>7. /\ pc'[Config] = "check" => \A a \in todo'[Config] : status'[a] = "completed"
        /\ IF pc'[Config] \in {"check"} \cup Deleting
           THEN \A a \in victims'[Config] : status'[a] = "completed"
           ELSE victims'[Config] = {}
    <3>1. CASE p = Config
      BY <1>2, <1>3, <2>1, <3>1 DEF ListsCover, Deleting
    <3>2. CASE p # Config
      BY <1>2, <1>3, <2>1, <2>3, <3>2 DEF ListsCover, Deleting
    <3> QED
      BY <3>1, <3>2
  <2>8. /\ pc'[User] = "idle"
        /\ pc'[Config] # "idle" => \A a \in Backups : pc'[a] = "idle"
        /\ \A q \in Processes : pc'[q] \in {"list", "check"} => limit'[q] <= maxFiles'
    BY <1>2, <2>1, <2>3 DEF ListsCover
  <2> QED
    BY <2>6, <2>7, <2>8 DEF ListsCover
<1> QED
  BY <1>5, <1>6, <1>7, <1>8, <1>9 DEF BInv

\* The record is gone already, and the other victims stay.
LEMMA GiveUpKeeps ==
  ASSUME BInv, NEW p \in Processes, NEW b \in Backups, Victim(p, b), pc[p] = "record",
         status[b] = "gone", UNCHANGED status,
         victims' = [victims EXCEPT ![p] = {}],
         pc' = [pc EXCEPT ![p] = IF p \in Backups THEN "catch" ELSE "idle"],
         UNCHANGED <<file, stored, router, maxFiles, transfer, limit, todo, counts>>
  PROVE  BInv'
<1> USE Actors
<1>1. PICK l : l = (IF p \in Backups THEN "catch" ELSE "idle")
  OBVIOUS
<1>2. Retains(p, l)
  BY <1>1 DEF Retains, Retaining, Deleting, BInv, Types
<1>3. /\ pc'[p] = l /\ \A q \in Processes : q # p => pc'[q] = pc[q]
      /\ UNCHANGED <<file, stored, maxFiles, crashes, limit, todo>>
      /\ Untouched' = Untouched /\ Quiet' = Quiet
      /\ \A a \in Backups : pc'[a] \in Making <=> pc[a] \in Making
      /\ \A a \in Backups : pc'[a] \in Making => pc'[a] = pc[a]
      /\ \A a : Newer(stored, a)' = Newer(stored, a)
  BY <1>2, RetainsStep
<1>4. /\ victims' \in [Processes -> SUBSET Backups] /\ victims'[p] = {}
      /\ \A q \in Processes : q # p => victims'[q] = victims[q]
  BY DEF BInv, Types
<1>5. b \in victims[p] /\ pc[b] \in {pc[b]}
  BY DEF Victim
<1>6. Types' /\ Windows'
  <2>1. /\ file' \in [Backups -> BOOLEAN] /\ limit' \in [Processes -> Numbers \cup {0}]
        /\ todo' \in [Processes -> SUBSET Backups]
        /\ status' \in [Backups -> Kept \cup {"none", "gone"}]
    BY <1>3 DEF BInv, Types
  <2>2. l # "record"
    BY <1>1
  <2> QED
    BY <1>2, <1>4, <2>1, <2>2, RetainsTypes
<1>7. Stages'
  BY <1>3, <1>4 DEF BInv, Stages
<1>8. Files'
  <2>1. \A a \in Backups : Missed(a) => a = b \/ Missed(a)'
    BY <1>3, <1>4, OneVictim DEF Missed, Victim
  <2>2. \A a \in Backups : pc'[a] = "complete" => pc[a] = "complete"
    BY <1>1, <1>3
  <2> QED
    BY <1>3, <2>1, <2>2 DEF BInv, Files
<1>9. NewestKept'
  <2>1. \A a \in Backups : pc'[a] = "complete" => pc[a] = "complete"
    BY <1>1, <1>3
  <2>2. \A q \in Processes : pc'[q] \in Retaining => pc'[q] = pc[q] /\ victims'[q] = victims[q]
    BY <1>1, <1>3, <1>4 DEF Retaining, Deleting
  <2> QED
    BY <1>3, <1>4, <2>1, <2>2 DEF BInv, NewestKept, DeletesOld, Deleting, Retaining
<1>10. Covered'
  <2> SUFFICES ASSUME Quiet' PROVE ListsCover'
    BY DEF Covered
  <2>1. ListsCover
    BY <1>3 DEF BInv, Covered
  <2>2. p \in Backups
    BY <1>5, <2>1 DEF ListsCover, Deleting
  <2>3. pc[Config] = "idle" /\ pc'[Config] = "idle" /\ pc'[p] = "catch"
    BY <1>1, <1>3, <2>1, <2>2 DEF ListsCover
  <2>4. Listed' \subseteq Listed /\ \A z \in Listed' : z \in Processes /\ z # p
    BY <1>3, <2>3 DEF Listed, Deleting
  <2>5. ASSUME NEW U \in SUBSET Listed', U # {} PROVE \E z \in U : Covers(z, U)'
    <3>1. PICK z \in U : Covers(z, U)
      BY <2>1, <2>3, <2>4, <2>5 DEF ListsCover
    <3>2. z \in Processes /\ z # p
      BY <2>4, <2>5
    <3>3. pc'[z] = pc[z] /\ todo'[z] = todo[z] /\ victims'[z] = victims[z] /\ maxFiles' = maxFiles
      BY <1>3, <1>4, <3>2
    <3>4. Covers(z, U)'
      BY <3>1, <3>3 DEF Covers
    <3> QED
      BY <3>4
  <2>6. victims'[Config] = {}
    BY <1>4, <2>1, <2>2, <2>3 DEF ListsCover, Deleting
  <2>7. /\ pc'[User] = "idle"
        /\ \A q \in Processes : pc'[q] \in {"list", "check"} => limit'[q] <= maxFiles'
    BY <1>3, <2>1, <2>2, <2>3 DEF ListsCover
  <2> QED
    BY <2>3, <2>5, <2>6, <2>7 DEF ListsCover, Deleting
<1> QED
  BY <1>6, <1>7, <1>8, <1>9, <1>10 DEF BInv

LEMMA DeletionKeeps ==
  ASSUME BInv, NEW p \in Processes, DeletionStep(p) PROVE BInv'
<1>1. CASE DeleteRecord(p)
  <2>1. PICK b \in Backups :
          /\ Victim(p, b)
          /\ IF status[b] = "gone"
             THEN /\ victims' = [victims EXCEPT ![p] = {}]
                  /\ Goto(p, IF p \in Backups THEN "catch" ELSE "idle")
                  /\ UNCHANGED status
             ELSE /\ status' = [status EXCEPT ![b] = "gone"]
                  /\ victims' = [victims EXCEPT ![p] = @ \ {b}]
                  /\ Goto(p, "file")
    BY <1>1 DEF DeleteRecord
  <2>2. /\ pc[p] = "record"
        /\ UNCHANGED <<file, stored, router, maxFiles, transfer, limit, todo, counts>>
    BY <1>1 DEF DeleteRecord
  <2>3. CASE status[b] = "gone"
    BY <2>1, <2>2, <2>3, GiveUpKeeps DEF Goto
  <2>4. CASE status[b] # "gone"
    BY <2>1, <2>2, <2>4, DeleteRecordKeeps DEF Goto
  <2> QED
    BY <2>3, <2>4
<1> QED
  BY <1>1, ReadLimitKeeps, ListKeeps, CheckKeeps, SelectKeeps, DeleteFileKeeps, DeletedKeeps
     DEF DeletionStep

-----------------------------------------------------------------------------
(* Users and a crash                                                       *)

LEMMA ConfigureScheduleKeeps ==
  ASSUME BInv, NEW k \in Limits, ConfigureSchedule(k) PROVE BInv'
<1> USE Actors
<1>1. /\ Event /\ edits' = edits + 1 /\ pc[Config] = "idle" /\ maxFiles' = k
      /\ pc' = [pc EXCEPT ![Config] = "limit"] /\ crossed' = (crossed \/ Active # {})
      /\ UNCHANGED <<status, file, stored, off, was, stuck, plan, got, limit, todo, victims,
                     deletions, crashes>>
  BY DEF ConfigureSchedule, Goto, records, router, transfer, retention
<1>2. /\ pc'[Config] = "limit" /\ \A q \in Processes : q # Config => pc'[q] = pc[q]
      /\ \A a \in Backups : pc'[a] = pc[a]
  BY <1>1 DEF BInv, Types
<1>3. /\ edits' \in 1 .. MaxEvents /\ edits' # 0 /\ crashes \in Nat
  BY <1>1, LimitTypes DEF BInv, Types, Event
<1>4. Types'
  <2>1. pc' \in [Processes -> {"idle", "catch"} \cup Making \cup Retaining]
    BY <1>1 DEF BInv, Types, Retaining
  <2>2. maxFiles' \in Numbers /\ crossed' \in BOOLEAN /\ pc'[Config] \in {"idle"} \cup Retaining
    BY <1>1, <1>2, LimitTypes DEF BInv, Types, Retaining
  <2>3. /\ pc'[User] = pc[User] /\ edits' \in 0 .. MaxEvents
        /\ \A p \in Processes : pc'[p] = "record" => victims'[p] # {}
    BY <1>1, <1>2, <1>3 DEF BInv, Types
  <2> QED
    BY <1>1, <1>2, <2>1, <2>2, <2>3 DEF BInv, Types
<1>5. Stages'
  BY <1>1, <1>2 DEF BInv, Stages
<1>6. Windows'
  BY <1>1, <1>2, <1>3, WindowsKept DEF router
<1>7. Files'
  <2>1. \A a \in Backups : Missed(a) => Missed(a)'
    BY <1>1, <1>2 DEF Missed, Victim
  <2> QED
    BY <1>1, <1>2, <2>1 DEF BInv, Files
<1>8. NewestKept'
  BY <1>3 DEF NewestKept, Untouched
<1>9. Covered'
  <2> SUFFICES ASSUME Quiet' PROVE ListsCover'
    BY DEF Covered
  <2>1. Quiet /\ Active = {}
    BY <1>1 DEF Quiet
  <2>2. ListsCover
    BY <2>1 DEF BInv, Covered
  <2>3. \A b \in Backups : pc[b] = "idle"
    BY <2>1 DEF Active
  <2>4. \A p \in Processes : pc'[p] \notin {"list", "check"}
    BY <1>1, <1>2, <2>2, <2>3 DEF ListsCover
  <2> QED
    BY <1>1, <1>2, <2>2, <2>3, <2>4 DEF ListsCover, Deleting
<1> QED
  BY <1>4, <1>5, <1>6, <1>7, <1>8, <1>9 DEF BInv

\* What remains below a limit remains below a higher one.
LEMMA DeleteScheduleKeeps ==
  ASSUME BInv, DeleteSchedule PROVE BInv'
<1> USE Actors
<1>1. /\ Event /\ edits' = edits + 1 /\ maxFiles' = DefaultMaxFiles
      /\ crossed' = (crossed \/ DefaultMaxFiles < maxFiles)
      /\ UNCHANGED <<status, file, stored, off, was, stuck, pc, plan, got, limit, todo, victims,
                     deletions, crashes>>
  BY DEF DeleteSchedule, records, router, transfer, retention
<1>2. /\ edits' \in 0 .. MaxEvents /\ edits' # 0 /\ crashes \in Nat
  BY <1>1, LimitTypes DEF BInv, Types, Event
<1>3. Types'
  <2>1. maxFiles' \in Numbers /\ crossed' \in BOOLEAN
    BY <1>1, LimitTypes DEF BInv, Types
  <2> QED
    BY <1>1, <1>2, <2>1 DEF BInv, Types
<1>4. Stages'
  BY <1>1 DEF BInv, Stages
<1>5. Windows'
  BY <1>1, <1>2, WindowsKept DEF router
<1>6. Files'
  <2>1. \A a \in Backups : Missed(a) => Missed(a)'
    BY <1>1 DEF Missed, Victim
  <2> QED
    BY <1>1, <2>1 DEF BInv, Files
<1>7. NewestKept'
  BY <1>2 DEF NewestKept, Untouched
<1>8. Covered'
  <2> SUFFICES ASSUME Quiet' PROVE ListsCover'
    BY DEF Covered
  <2>1. maxFiles \in Nat /\ maxFiles' \in Nat /\ limit \in [Processes -> Numbers \cup {0}]
    BY <1>1, LimitTypes DEF BInv, Types
  <2>2. Quiet /\ maxFiles <= maxFiles'
    <3>1. ~crossed' /\ crashes' = 0 /\ deletions' = 0
      BY DEF Quiet
    <3>2. ~crossed /\ ~(DefaultMaxFiles < maxFiles)
      BY <1>1, <3>1
    <3>3. DefaultMaxFiles \in Nat /\ maxFiles <= DefaultMaxFiles
      BY <1>1, <2>1, <3>2
    <3> QED
      BY <1>1, <3>1, <3>2, <3>3 DEF Quiet
  <2>3. ListsCover
    BY <2>2 DEF BInv, Covered
  <2>4. \A p \in Processes : limit[p] \in Nat
    <3>1. \A n \in Numbers \cup {0} : n \in Nat
      BY LimitTypes
    <3>2. \A p \in Processes : limit[p] \in Numbers \cup {0}
      BY <2>1
    <3> QED
      BY <3>1, <3>2
  <2>5. \A p \in Processes : pc'[p] \in {"list", "check"} => limit'[p] <= maxFiles'
    BY <1>1, <2>1, <2>2, <2>3, <2>4 DEF ListsCover
  <2>6. Listed' = Listed
    BY <1>1 DEF Listed
  <2>7. ASSUME NEW z \in Processes, NEW U \in SUBSET Listed, Covers(z, U) PROVE Covers(z, U)'
    <3>1. IsFiniteSet(U) /\ IsFiniteSet(U \ victims[z])
      BY FS_Subset DEF Listed
    <3>2. Cardinality(U) \in Nat /\ Cardinality(U \ victims[z]) \in Nat
      BY <3>1, FS_CardinalityType
    <3> QED
      BY <1>1, <2>1, <2>2, <2>7, <3>2 DEF Covers
  <2>8. \A z \in Listed : z \in Processes
    BY DEF Listed
  <2>9. ASSUME NEW U \in SUBSET Listed', U # {}, pc'[Config] \notin {"limit", "list"}
        PROVE (\E z \in U : Covers(z, U)') \/ (pc'[Config] # "idle" /\ Covers(Config, U)')
    <3>1. (\E z \in U : Covers(z, U)) \/ (pc[Config] # "idle" /\ Covers(Config, U))
      BY <1>1, <2>3, <2>6, <2>9 DEF ListsCover
    <3> QED
      BY <1>1, <2>6, <2>7, <2>8, <2>9, <3>1
  <2> QED
    BY <1>1, <2>3, <2>5, <2>9 DEF ListsCover
<1> QED
  BY <1>3, <1>4, <1>5, <1>6, <1>7, <1>8 DEF BInv

LEMMA DeleteManyKeeps ==
  ASSUME BInv, NEW B \in SUBSET {b \in Backups : status[b] \in Kept}, DeleteMany(B) PROVE BInv'
<1> USE Actors
<1>1. /\ Event /\ deletions' = deletions + 1 /\ pc[User] = "idle"
      /\ victims' = [victims EXCEPT ![User] = B] /\ pc' = [pc EXCEPT ![User] = "file"]
      /\ UNCHANGED <<status, file, stored, off, was, stuck, maxFiles, plan, got, limit, todo,
                     edits, crashes, crossed>>
  BY DEF DeleteMany, Goto, records, router, transfer
<1>2. /\ pc'[User] = "file" /\ \A q \in Processes : q # User => pc'[q] = pc[q]
      /\ \A a \in Backups : pc'[a] = pc[a]
      /\ victims' \in [Processes -> SUBSET Backups]
      /\ \A q \in Processes : q # User => victims'[q] = victims[q]
  BY <1>1 DEF BInv, Types
<1>3. /\ deletions' \in 0 .. MaxEvents /\ deletions' # 0 /\ crashes \in Nat
  BY <1>1, LimitTypes DEF BInv, Types, Event
<1>4. Types'
  <2>1. pc' \in [Processes -> {"idle", "catch"} \cup Making \cup Retaining]
    BY <1>1 DEF BInv, Types, Retaining, Deleting
  <2>2. /\ pc'[Config] = pc[Config] /\ pc'[User] \in {"idle"} \cup Deleting
        /\ \A p \in Processes : pc'[p] = "record" => victims'[p] # {}
    BY <1>1, <1>2 DEF BInv, Types, Deleting
  <2> QED
    BY <1>1, <1>2, <1>3, <2>1, <2>2 DEF BInv, Types
<1>5. Stages'
  BY <1>1, <1>2 DEF BInv, Stages
<1>6. Windows'
  BY <1>1, <1>2, <1>3, WindowsKept DEF router
<1>7. Files'
  <2>1. \A a \in Backups : Missed(a) => Missed(a)'
    BY <1>1, <1>2 DEF Missed, Victim
  <2> QED
    BY <1>1, <1>2, <2>1 DEF BInv, Files
<1>8. NewestKept' /\ Covered'
  BY <1>3 DEF NewestKept, Untouched, Covered, Quiet
<1> QED
  BY <1>4, <1>5, <1>6, <1>7, <1>8 DEF BInv

LEMMA CrashKeeps == BInv /\ Crash => BInv'
<1> SUFFICES ASSUME BInv, Crash PROVE BInv'
  OBVIOUS
<1> USE Actors
<1>1. /\ Event /\ crashes' = crashes + 1
      /\ pc' = [p \in Processes |-> "idle"]
      /\ plan' = [b \in Backups |-> <<>>] /\ got' = [b \in Backups |-> FALSE]
      /\ limit' = [p \in Processes |-> 0] /\ todo' = [p \in Processes |-> {}]
      /\ victims' = [p \in Processes |-> {}]
      /\ UNCHANGED <<status, file, stored, off, was, stuck, maxFiles, edits, deletions, crossed>>
  BY DEF Crash, records, router
<1>2. \A p \in Processes : pc'[p] = "idle" /\ todo'[p] = {} /\ victims'[p] = {}
  BY <1>1
<1>3. \A b \in Backups : pc'[b] = "idle" /\ plan'[b] = <<>> /\ plan'[b] \in Seq(Candidate)
  BY <1>1
<1>4. crashes' \in 1 .. MaxEvents /\ crashes' > 0
  BY <1>1, LimitTypes DEF BInv, Types, Event
<1>5. Types'
  <2>1. pc' \in [Processes -> {"idle", "catch"} \cup Making \cup Retaining]
    BY <1>1
  <2>2. \A b \in Backups : pc'[b] \in Trying <=> plan'[b] # <<>>
    BY <1>3 DEF Trying
  <2>3. /\ pc'[Config] \in {"idle"} \cup Retaining /\ pc'[User] \in {"idle"} \cup Deleting
        /\ \A p \in Processes : pc'[p] = "record" => victims'[p] # {}
    BY <1>2
  <2>4. /\ plan' \in [Backups -> Seq(Candidate)] /\ got' \in [Backups -> BOOLEAN]
        /\ limit' \in [Processes -> Numbers \cup {0}]
        /\ todo' \in [Processes -> SUBSET Backups] /\ victims' \in [Processes -> SUBSET Backups]
        /\ crashes' \in 0 .. MaxEvents
    BY <1>1, <1>4
  <2> QED
    BY <1>1, <2>1, <2>2, <2>3, <2>4 DEF BInv, Types
<1>6. Stages'
  BY <1>1, <1>2 DEF BInv, Stages, Making
<1>7. Windows'
  BY <1>1, <1>3, <1>4 DEF BInv, Windows
<1>8. Files'
  BY <1>4 DEF Files, Missed
<1>9. NewestKept'
  <2>1. \A a : Newer(stored, a)' = Newer(stored, a)
    BY <1>1 DEF Newer
  <2> QED
    BY <1>1, <1>2, <2>1 DEF BInv, NewestKept, DeletesOld, Untouched, Making, Deleting
<1>10. Covered'
  BY <1>4 DEF Covered, Quiet
<1> QED
  BY <1>5, <1>6, <1>7, <1>8, <1>9, <1>10 DEF BInv

-----------------------------------------------------------------------------
(* The invariant and the theorems                                          *)

LEMMA StutterKeeps == BInv /\ UNCHANGED vars => BInv'
<1> SUFFICES ASSUME BInv, UNCHANGED vars PROVE BInv'
  OBVIOUS
<1>1. UNCHANGED <<status, file, stored, off, was, stuck, maxFiles, pc, plan, got, limit, todo,
                  victims, edits, deletions, crashes, crossed>>
  BY DEF vars, records, router, transfer, retention, counts
<1>2. Types'
  BY <1>1 DEF BInv, Types
<1>3. Stages'
  BY <1>1 DEF BInv, Stages
<1>4. Windows'
  BY <1>1 DEF BInv, Windows, InWindow, Service
<1>5. Files'
  BY <1>1 DEF BInv, Files, Missed, Victim
<1>6. NewestKept'
  BY <1>1 DEF BInv, NewestKept, Untouched, DeletesOld, Newer
<1>7. Covered'
  BY <1>1 DEF BInv, Covered, Quiet, ListsCover, Listed, Covers
<1> QED
  BY <1>2, <1>3, <1>4, <1>5, <1>6, <1>7 DEF BInv

LEMMA NextKeeps == BInv /\ [Next]_vars => BInv'
<1> SUFFICES ASSUME BInv, [Next]_vars PROVE BInv'
  OBVIOUS
<1>1. ASSUME NEW b \in Backups, CreateStep(b) PROVE BInv'
  <2>1. CASE Complete(b)
    BY <2>1, CompleteKeeps, MakingSteps
  <2>2. CASE Save(b) \/ CommandFails(b) \/ Write(b) \/ WriteFails(b) \/ Stat(b)
    BY <2>2, MakingSteps
  <2>3. CASE Enable(b) \/ Transfer(b) \/ Restore(b) \/ RestoreFails(b)
    BY <2>3, EnableKeeps, TransferKeeps, RestoreKeeps, RestoreFailsKeeps
  <2>4. CASE Create(b) \/ ReadServices(b) \/ Catch(b)
    BY <2>4, CreateKeeps, ReadServicesKeeps, CatchKeeps
  <2> QED
    BY <1>1, <2>1, <2>2, <2>3, <2>4 DEF CreateStep
<1>2. CASE UNCHANGED vars
  BY <1>2, StutterKeeps
<1> QED
  BY <1>1, <1>2, DeletionKeeps, ConfigureScheduleKeeps, DeleteScheduleKeeps, DeleteManyKeeps,
     CrashKeeps DEF Next

\* Every reachable state of the backups satisfies the inductive invariant.
THEOREM BInvariance == Spec => []BInv
BY InitBInv, NextKeeps, PTL DEF Spec

\* The state of the backups stays of its types: in particular no process deletes a
\* record without a victim, and a create() has candidates exactly while it tries them.
THEOREM BackupTypeCorrect == Spec => []TypeOK
<1>1. BInv => TypeOK
  BY TypesTypeOK DEF BInv
<1> QED
  BY <1>1, BInvariance, PTL

\* A service of the router that was disabled is enabled only while a create() is
\* about to disable it again, unless a restore failed or the server crashed,
\* however many create() calls share the router (backup.service.ts).
THEOREM ServicesAlwaysRestored == Spec => []ServicesRestored
<1>1. BInv => ServicesRestored
  <2> SUFFICES ASSUME BInv, NEW s \in Services, off[s] # was[s]
               PROVE  /\ was[s]
                      /\ s \in stuck \/ crashes > 0 \/ \E b \in Backups : InWindow(b, s)
    BY DEF ServicesRestored
  <2>1. off[s] \in BOOLEAN /\ was[s] \in BOOLEAN /\ (off[s] => was[s])
    BY DEF BInv, Types, Windows
  <2>2. was[s] /\ ~off[s]
    BY <2>1
  <2> QED
    BY <2>2 DEF BInv, Windows
<1> QED
  BY <1>1, BInvariance, PTL

\* A completed backup has its file unless its deletion is under way; retention
\* never deletes one of the newest maxFiles; and at rest no more than maxFiles are
\* completed, whatever the overlap of the create() calls, one of which may give
\* its retention up (enforceRetention(), backup.service.ts).
THEOREM RetentionAlwaysHolds == Spec => []RetentionHolds
<1>1. BInv => RetentionHolds
  <2> SUFFICES ASSUME BInv PROVE RetentionHolds
    OBVIOUS
  <2>1. \A b \in Backups :
          status[b] = "completed" =>
            \/ file[b]
            \/ crashes > 0
            \/ \E p \in Processes : pc[p] = "record" /\ Victim(p, b)
    BY DEF BInv, Files, Missed
  <2>2. ASSUME edits = 0 /\ deletions = 0, NEW b \in stored, Newer(stored, b) < maxFiles
        PROVE  file[b] /\ status[b] # "gone"
    <3>1. stored \subseteq Backups /\ maxFiles \in Nat /\ file[b] \in BOOLEAN
      <4>1. stored \subseteq Backups /\ maxFiles \in Numbers /\ file \in [Backups -> BOOLEAN]
        BY DEF BInv, Types
      <4> QED
        BY <2>2, <4>1, LimitTypes
    <3>2. Newer(stored, b) \in Nat
      BY <3>1, NewerGrows
    <3>3. ~(Newer(stored, b) >= maxFiles)
      BY <2>2, <3>1, <3>2
    <3> QED
      BY <2>2, <3>1, <3>3 DEF BInv, NewestKept, Untouched, DeletesOld
  <2>3. ASSUME AtRest /\ crashes = 0 /\ deletions = 0 /\ ~crossed
        PROVE  Cardinality({b \in Backups : status[b] = "completed" /\ file[b]}) <= maxFiles
    <3>1. /\ \A p \in Processes : pc[p] = "idle"
          /\ pc[Config] = "idle" /\ \A b \in Backups : b \in Processes /\ pc[b] = "idle"
      BY <2>3, Actors DEF AtRest
    <3>2. {b \in Backups : status[b] = "completed" /\ file[b]} = Listed
      BY <3>1 DEF Listed
    <3>3. CASE Listed = {}
      <4>1. Cardinality({}) = 0
        BY FS_EmptySet
      <4>2. maxFiles \in Nat
        BY LimitTypes DEF BInv, Types
      <4> QED
        BY <3>2, <3>3, <4>1, <4>2
    <3>4. CASE Listed # {}
      <4>1. PICK z \in Listed : Covers(z, Listed)
        BY <2>3, <3>1, <3>4 DEF BInv, Covered, Quiet, ListsCover
      <4>2. z \in Backups
        BY DEF Listed
      <4> QED
        BY <3>1, <3>2, <4>1, <4>2 DEF Covers
    <3> QED
      BY <3>3, <3>4
  <2> QED
    BY <2>1, <2>2, <2>3 DEF RetentionHolds
<1> QED
  BY <1>1, BInvariance, PTL
=============================================================================
