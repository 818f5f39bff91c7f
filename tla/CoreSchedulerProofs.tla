------------------------ MODULE CoreSchedulerProofs ------------------------
(***************************************************************************)
(* Proofs about the job queue alone and composed with the scheduler, for   *)
(* every number of jobs, attempts, process() activations, tasks, intervals *)
(* and overlapping ticks.  The inductive invariant of the queue adds to    *)
(* the checked properties what holds while an activation has a job in      *)
(* hand; it is kept under the scheduler's steps, and the scheduler adds    *)
(* what relates nextRunAt to the jobs created so far.                      *)
(***************************************************************************)
EXTENDS CoreScheduler, TLAPS

-----------------------------------------------------------------------------
(* The queue alone                                                         *)

\* The flag is up exactly while an activation is past it.
Flag == running <=> \E p \in Procs : pc[p] # "idle"

\* Jobs not created yet are as Init left them.
Fresh ==
  \A i \in Ids \ Live :
    status[i] = "pending" /\ attempts[i] = 0 /\ row[i] = NoRows

\* The rows of a job that an activation has taken as far as l.
InHand(l, known, max, st, n, r) ==
  /\ r["completed"] = 0
  /\ r["alert"] = 0
  /\ r["failed"] = IF l = "alert" THEN 1 ELSE 0
  /\ r["started"] = IF l = "started" THEN n - 1 ELSE n
  /\ n <= max
  /\ ~known => n = 0
  /\ l \in {"started", "handler", "completed", "retry"} => r["retry"] + 1 = n
  /\ l \in {"started", "handler"} => st = "running"
  /\ l = "completed" => st = "completed"
  /\ l = "retry" => st = "pending" /\ n < max
  /\ l \in {"failed", "alert"} =>
       /\ st = "failed"
       /\ IF known THEN n = max /\ r["retry"] + 1 = n ELSE r["retry"] = 0

InRunJob == Busy \ {"scan"}

Held(p, l) ==
  LET i == at[p]
  IN  InHand(l, handled[i], limit[i], status[i], attempts[i], row[i])

Ledger ==
  \A p \in Procs : pc[p] \in InRunJob => at[p] \in Live /\ Held(p, pc[p])

Tried(i) == attempts[i] > 0 \/ status[i] = "failed"

\* Everything behind an iteration has been tried, and so has every job that is
\* no longer pending.
Behind ==
  /\ \A p \in Procs : pc[p] # "idle" => at[p] <= size
  /\ \A p \in Procs : \A i \in Live : pc[p] # "idle" /\ i <= at[p] => Tried(i)
  /\ \A i \in Live : status[i] # "pending" => Tried(i)

IInv ==
  /\ TypeOK
  /\ Flag
  /\ OneAtATime
  /\ Fresh
  /\ Ledger
  /\ AuditTrail
  /\ Behind
  /\ FirstAttemptsInOrder

-----------------------------------------------------------------------------
LEMMA LiveIds == TypeOK => Live \subseteq Ids
BY ConstantsAssumption DEF TypeOK, Live, Ids

\* What one more row of an event does to the counts.
LEMMA WriteRow ==
  ASSUME TypeOK, NEW i \in Ids, NEW e \in Event, Write(i, e)
  PROVE  /\ row' \in [Ids -> [Event -> Nat]]
         /\ row'[i] = [row[i] EXCEPT ![e] = @ + 1]
         /\ \A j \in Ids \ {i} : row'[j] = row[j]
<1>1. [row[i] EXCEPT ![e] = @ + 1] \in [Event -> Nat]
  BY DEF TypeOK
<1>2. row' = [row EXCEPT ![i] = [row[i] EXCEPT ![e] = @ + 1]]
  BY DEF Write
<1> QED
  BY <1>1, <1>2 DEF TypeOK

\* While p is past the flag, every other activation is idle.
LEMMA Alone ==
  ASSUME OneAtATime, NEW p \in Procs, pc[p] # "idle"
  PROVE  \A q \in Procs \ {p} : pc[q] = "idle"
BY DEF OneAtATime

SameJob(i) ==
  /\ handled'[i] = handled[i]
  /\ limit'[i] = limit[i]
  /\ status'[i] = status[i]
  /\ attempts'[i] = attempts[i]
  /\ row'[i] = row[i]

\* A step of runJob moves one activation to l and touches its own job only.
\* What it must show is the ledger of that job.
LEMMA Turn ==
  ASSUME IInv, NEW p \in Procs, NEW l \in Busy,
         pc[p] \in InRunJob, pc' = [pc EXCEPT ![p] = l],
         at' = at, size' = size, alive' = alive, alive,
         \A j \in Ids \ {at[p]} : SameJob(j),
         l # "scan" => Held(p, l)',
         l = "scan" => Trail(at[p])'
  PROVE  Ledger' /\ AuditTrail'
<1>1. pc[p] # "idle" /\ pc \in [Procs -> Pc] /\ OneAtATime
  BY DEF InRunJob, Busy, IInv, TypeOK
<1>2. \A q \in Procs \ {p} : pc[q] = "idle" /\ pc'[q] = "idle"
  BY <1>1, Alone
<1>3. pc'[p] = l /\ at[p] \in Live /\ Live' = Live
  BY <1>1 DEF IInv, Ledger, Live
<1>4. Ledger'
  <2> SUFFICES ASSUME NEW q \in Procs, pc'[q] \in InRunJob
               PROVE  at'[q] \in Live' /\ Held(q, pc[q])'
    BY DEF Ledger
  <2>1. q = p
    BY <1>2 DEF InRunJob, Busy
  <2> QED
    BY <2>1, <1>3 DEF InRunJob
<1>5. AuditTrail'
  <2> SUFFICES ASSUME NEW i \in Live', \A q \in Procs : ~Holds(q, i)'
               PROVE  Trail(i)'
    BY DEF AuditTrail
  <2>1. i \in Live /\ i \in Ids
    BY <1>3, LiveIds DEF IInv
  <2>2. CASE i = at[p]
    <3>1. l = "scan"
      BY <2>2, <1>3 DEF Holds
    <3> QED
      BY <3>1, <2>2
  <2>3. CASE i # at[p]
    <3>1. \A q \in Procs : ~Holds(q, i)
      BY <2>3, <1>2 DEF Holds, Busy
    <3>2. Trail(i)
      BY <3>1, <2>1 DEF IInv, AuditTrail
    <3> QED
      BY <3>2, <2>1, <2>3 DEF Trail, SameJob
  <2> QED
    BY <2>2, <2>3
<1> QED
  BY <1>4, <1>5

-----------------------------------------------------------------------------
LEMMA InitIInv == Init => IInv
<1> SUFFICES ASSUME Init PROVE IInv
  OBVIOUS
<1>1. TypeOK
  <2>1. NoRows \in [Event -> Nat]
    BY DEF NoRows
  <2>2. handled \in [Ids -> BOOLEAN] /\ limit \in [Ids -> 1 .. MaxAttempts]
    BY ConstantsAssumption DEF Init
  <2>3. status \in [Ids -> Status] /\ attempts \in [Ids -> 0 .. MaxAttempts]
    BY ConstantsAssumption DEF Init, Status
  <2>4. pc \in [Procs -> Pc] /\ at \in [Procs -> 0 .. MaxJobs]
    BY ConstantsAssumption DEF Init, Pc
  <2>5. row \in [Ids -> [Event -> Nat]]
    BY <2>1 DEF Init
  <2>6. size \in 0 .. MaxJobs /\ creating \subseteq Live /\ kicks \in Nat
    BY ConstantsAssumption DEF Init
  <2>7. alive \in BOOLEAN /\ running \in BOOLEAN
    BY DEF Init
  <2> QED
    BY <2>2, <2>3, <2>4, <2>5, <2>6, <2>7 DEF TypeOK
<1>2. Flag /\ OneAtATime /\ Fresh
  BY DEF Init, Flag, OneAtATime, Fresh
<1>3. Live = {}
  BY DEF Init, Live
<1>4. Ledger /\ AuditTrail /\ Behind /\ FirstAttemptsInOrder
  BY <1>3 DEF Init, Ledger, AuditTrail, Behind, FirstAttemptsInOrder, InRunJob, Busy
<1> QED
  BY <1>1, <1>2, <1>4 DEF IInv

LEMMA StartedOkIInv ==
  ASSUME IInv, NEW p \in Procs, StartedOk(p)
  PROVE  IInv'
<1> DEFINE i == at[p]
<1>1. pc[p] = "started" /\ pc[p] \in InRunJob /\ TypeOK /\ OneAtATime
  BY DEF StartedOk, IInv, InRunJob, Busy
<1>2. i \in Live /\ i \in Ids /\ Held(p, "started")
  BY <1>1, LiveIds DEF IInv, Ledger
<1>3. /\ row' \in [Ids -> [Event -> Nat]]
      /\ row'[i] = [row[i] EXCEPT !["started"] = @ + 1]
      /\ \A j \in Ids \ {i} : row'[j] = row[j]
  BY <1>1, <1>2, WriteRow DEF StartedOk, Event
<1>4. /\ pc' = [pc EXCEPT ![p] = "handler"] /\ pc' \in [Procs -> Pc]
      /\ UNCHANGED <<alive, queueVars, at>> /\ alive
  BY <1>1 DEF StartedOk, Goto, TypeOK, Pc, Busy
<1>5. Live' = Live /\ \A j \in Ids \ {i} : SameJob(j)
  BY <1>3, <1>4 DEF Live, SameJob, queueVars
<1>6. TypeOK'
  BY <1>1, <1>3, <1>4, <1>5 DEF StartedOk, TypeOK, queueVars
<1>7. Flag' /\ OneAtATime'
  BY <1>1, <1>4, Alone DEF StartedOk, IInv, Flag, OneAtATime, TypeOK
<1>8. Fresh'
  BY <1>2, <1>3, <1>4, <1>5 DEF IInv, Fresh, queueVars
<1>9. Ledger' /\ AuditTrail'
  <2>1. row[i] \in [Event -> Nat] /\ attempts[i] \in Nat
    BY <1>1, <1>2 DEF TypeOK
  <2>2. Held(p, "handler")'
    BY <1>2, <1>3, <1>4, <2>1 DEF Held, InHand, Event, queueVars
  <2> QED
    BY <2>2, <1>1, <1>4, <1>5, Turn DEF queueVars, Busy
<1>10. Behind' /\ FirstAttemptsInOrder'
  BY <1>1, <1>4, <1>5 DEF IInv, Behind, FirstAttemptsInOrder, Tried, queueVars, TypeOK
<1> QED
  BY <1>6, <1>7, <1>8, <1>9, <1>10 DEF IInv

LEMMA CompletedOkIInv ==
  ASSUME IInv, NEW p \in Procs, CompletedOk(p)
  PROVE  IInv'
<1> DEFINE i == at[p]
<1>1. pc[p] = "completed" /\ pc[p] \in InRunJob /\ TypeOK /\ OneAtATime
  BY DEF CompletedOk, IInv, InRunJob, Busy
<1>2. i \in Live /\ i \in Ids /\ Held(p, "completed")
  BY <1>1, LiveIds DEF IInv, Ledger
<1>3. /\ row' \in [Ids -> [Event -> Nat]]
      /\ row'[i] = [row[i] EXCEPT !["completed"] = @ + 1]
      /\ \A j \in Ids \ {i} : row'[j] = row[j]
  BY <1>1, <1>2, WriteRow DEF CompletedOk, Event
<1>4. /\ pc' = [pc EXCEPT ![p] = "scan"] /\ pc' \in [Procs -> Pc]
      /\ UNCHANGED <<alive, queueVars, at>> /\ alive
  BY <1>1 DEF CompletedOk, Goto, TypeOK, Pc, Busy
<1>5. Live' = Live /\ \A j \in Ids \ {i} : SameJob(j)
  BY <1>3, <1>4 DEF Live, SameJob, queueVars
<1>6. TypeOK'
  BY <1>1, <1>3, <1>4, <1>5 DEF CompletedOk, TypeOK, queueVars
<1>7. Flag' /\ OneAtATime'
  BY <1>1, <1>4, Alone DEF CompletedOk, IInv, Flag, OneAtATime, TypeOK
<1>8. Fresh'
  BY <1>2, <1>3, <1>4, <1>5 DEF IInv, Fresh, queueVars
<1>9. Ledger' /\ AuditTrail'
  <2>1. row[i] \in [Event -> Nat] /\ attempts[i] \in Nat
    BY <1>1, <1>2 DEF TypeOK
  <2>2. Trail(i)'
    BY <1>2, <1>3, <1>4, <2>1 DEF Held, InHand, Trail, Explained, Event, queueVars
  <2> QED
    BY <2>2, <1>1, <1>4, <1>5, Turn DEF queueVars, Busy
<1>10. Behind' /\ FirstAttemptsInOrder'
  BY <1>1, <1>4, <1>5 DEF IInv, Behind, FirstAttemptsInOrder, Tried, queueVars, TypeOK
<1> QED
  BY <1>6, <1>7, <1>8, <1>9, <1>10 DEF IInv

LEMMA RetryOkIInv ==
  ASSUME IInv, NEW p \in Procs, RetryOk(p)
  PROVE  IInv'
<1> DEFINE i == at[p]
<1>1. pc[p] = "retry" /\ pc[p] \in InRunJob /\ TypeOK /\ OneAtATime
  BY DEF RetryOk, IInv, InRunJob, Busy
<1>2. i \in Live /\ i \in Ids /\ Held(p, "retry")
  BY <1>1, LiveIds DEF IInv, Ledger
<1>3. /\ row' \in [Ids -> [Event -> Nat]]
      /\ row'[i] = [row[i] EXCEPT !["retry"] = @ + 1]
      /\ \A j \in Ids \ {i} : row'[j] = row[j]
  BY <1>1, <1>2, WriteRow DEF RetryOk, Event
<1>4. /\ pc' = [pc EXCEPT ![p] = "scan"] /\ pc' \in [Procs -> Pc]
      /\ UNCHANGED <<alive, queueVars, at>> /\ alive
  BY <1>1 DEF RetryOk, Goto, TypeOK, Pc, Busy
<1>5. Live' = Live /\ \A j \in Ids \ {i} : SameJob(j)
  BY <1>3, <1>4 DEF Live, SameJob, queueVars
<1>6. TypeOK'
  BY <1>1, <1>3, <1>4, <1>5 DEF RetryOk, TypeOK, queueVars
<1>7. Flag' /\ OneAtATime'
  BY <1>1, <1>4, Alone DEF RetryOk, IInv, Flag, OneAtATime, TypeOK
<1>8. Fresh'
  BY <1>2, <1>3, <1>4, <1>5 DEF IInv, Fresh, queueVars
<1>9. Ledger' /\ AuditTrail'
  <2>1. row[i] \in [Event -> Nat] /\ attempts[i] \in Nat
    BY <1>1, <1>2 DEF TypeOK
  <2>2. Trail(i)'
    BY <1>2, <1>3, <1>4, <2>1 DEF Held, InHand, Trail, Explained, Event, queueVars
  <2> QED
    BY <2>2, <1>1, <1>4, <1>5, Turn DEF queueVars, Busy
<1>10. Behind' /\ FirstAttemptsInOrder'
  BY <1>1, <1>4, <1>5 DEF IInv, Behind, FirstAttemptsInOrder, Tried, queueVars, TypeOK
<1> QED
  BY <1>6, <1>7, <1>8, <1>9, <1>10 DEF IInv

LEMMA FailedOkIInv ==
  ASSUME IInv, NEW p \in Procs, FailedOk(p)
  PROVE  IInv'
<1> DEFINE i == at[p]
<1>1. pc[p] = "failed" /\ pc[p] \in InRunJob /\ TypeOK /\ OneAtATime
  BY DEF FailedOk, IInv, InRunJob, Busy
<1>2. i \in Live /\ i \in Ids /\ Held(p, "failed")
  BY <1>1, LiveIds DEF IInv, Ledger
<1>3. /\ row' \in [Ids -> [Event -> Nat]]
      /\ row'[i] = [row[i] EXCEPT !["failed"] = @ + 1]
      /\ \A j \in Ids \ {i} : row'[j] = row[j]
  BY <1>1, <1>2, WriteRow DEF FailedOk, Event
<1>4. /\ pc' = [pc EXCEPT ![p] = "alert"] /\ pc' \in [Procs -> Pc]
      /\ UNCHANGED <<alive, queueVars, at>> /\ alive
  BY <1>1 DEF FailedOk, Goto, TypeOK, Pc, Busy
<1>5. Live' = Live /\ \A j \in Ids \ {i} : SameJob(j)
  BY <1>3, <1>4 DEF Live, SameJob, queueVars
<1>6. TypeOK'
  BY <1>1, <1>3, <1>4, <1>5 DEF FailedOk, TypeOK, queueVars
<1>7. Flag' /\ OneAtATime'
  BY <1>1, <1>4, Alone DEF FailedOk, IInv, Flag, OneAtATime, TypeOK
<1>8. Fresh'
  BY <1>2, <1>3, <1>4, <1>5 DEF IInv, Fresh, queueVars
<1>9. Ledger' /\ AuditTrail'
  <2>1. row[i] \in [Event -> Nat] /\ attempts[i] \in Nat
    BY <1>1, <1>2 DEF TypeOK
  <2>2. Held(p, "alert")'
    BY <1>2, <1>3, <1>4, <2>1 DEF Held, InHand, Event, queueVars
  <2> QED
    BY <2>2, <1>1, <1>4, <1>5, Turn DEF queueVars, Busy
<1>10. Behind' /\ FirstAttemptsInOrder'
  BY <1>1, <1>4, <1>5 DEF IInv, Behind, FirstAttemptsInOrder, Tried, queueVars, TypeOK
<1> QED
  BY <1>6, <1>7, <1>8, <1>9, <1>10 DEF IInv

LEMMA AlertOkIInv ==
  ASSUME IInv, NEW p \in Procs, AlertOk(p)
  PROVE  IInv'
<1> DEFINE i == at[p]
<1>1. pc[p] = "alert" /\ pc[p] \in InRunJob /\ TypeOK /\ OneAtATime
  BY DEF AlertOk, IInv, InRunJob, Busy
<1>2. i \in Live /\ i \in Ids /\ Held(p, "alert")
  BY <1>1, LiveIds DEF IInv, Ledger
<1>3. /\ row' \in [Ids -> [Event -> Nat]]
      /\ row'[i] = [row[i] EXCEPT !["alert"] = @ + 1]
      /\ \A j \in Ids \ {i} : row'[j] = row[j]
  BY <1>1, <1>2, WriteRow DEF AlertOk, Event
<1>4. /\ pc' = [pc EXCEPT ![p] = "scan"] /\ pc' \in [Procs -> Pc]
      /\ UNCHANGED <<alive, queueVars, at>> /\ alive
  BY <1>1 DEF AlertOk, Goto, TypeOK, Pc, Busy
<1>5. Live' = Live /\ \A j \in Ids \ {i} : SameJob(j)
  BY <1>3, <1>4 DEF Live, SameJob, queueVars
<1>6. TypeOK'
  BY <1>1, <1>3, <1>4, <1>5 DEF AlertOk, TypeOK, queueVars
<1>7. Flag' /\ OneAtATime'
  BY <1>1, <1>4, Alone DEF AlertOk, IInv, Flag, OneAtATime, TypeOK
<1>8. Fresh'
  BY <1>2, <1>3, <1>4, <1>5 DEF IInv, Fresh, queueVars
<1>9. Ledger' /\ AuditTrail'
  <2>1. row[i] \in [Event -> Nat] /\ attempts[i] \in Nat
    BY <1>1, <1>2 DEF TypeOK
  <2>2. Trail(i)'
    BY <1>2, <1>3, <1>4, <2>1 DEF Held, InHand, Trail, Explained, Event, queueVars
  <2> QED
    BY <2>2, <1>1, <1>4, <1>5, Turn DEF queueVars, Busy
<1>10. Behind' /\ FirstAttemptsInOrder'
  BY <1>1, <1>4, <1>5 DEF IInv, Behind, FirstAttemptsInOrder, Tried, queueVars, TypeOK
<1> QED
  BY <1>6, <1>7, <1>8, <1>9, <1>10 DEF IInv

LEMMA HandlerOkIInv ==
  ASSUME IInv, NEW p \in Procs, HandlerOk(p)
  PROVE  IInv'
<1> DEFINE i == at[p]
<1>1. pc[p] = "handler" /\ pc[p] \in InRunJob /\ TypeOK /\ OneAtATime
  BY DEF HandlerOk, IInv, InRunJob, Busy
<1>2. i \in Live /\ i \in Ids /\ Held(p, "handler")
  BY <1>1, LiveIds DEF IInv, Ledger
<1>3. /\ pc' = [pc EXCEPT ![p] = "completed"] /\ pc' \in [Procs -> Pc]
      /\ status' = [status EXCEPT ![i] = "completed"] /\ status' \in [Ids -> Status]
      /\ UNCHANGED <<alive, size, handled, limit, attempts, row, at>> /\ alive
  BY <1>1 DEF HandlerOk, Goto, TypeOK, Pc, Busy, Status
<1>4. Live' = Live /\ \A j \in Ids \ {i} : SameJob(j)
  BY <1>1, <1>3 DEF Live, SameJob, TypeOK
<1>5. TypeOK'
  BY <1>1, <1>3, <1>4 DEF HandlerOk, TypeOK
<1>6. Flag' /\ OneAtATime'
  BY <1>1, <1>3, Alone DEF HandlerOk, IInv, Flag, OneAtATime, TypeOK
<1>7. Fresh'
  BY <1>2, <1>3, <1>4 DEF IInv, Fresh, TypeOK
<1>8. Ledger' /\ AuditTrail'
  <2>1. Held(p, "completed")'
    BY <1>1, <1>2, <1>3 DEF Held, InHand, TypeOK
  <2> QED
    BY <2>1, <1>1, <1>3, <1>4, Turn DEF Busy
<1>9. attempts[i] > 0
  <2>1. row[i]["retry"] \in Nat
    BY <1>1, <1>2 DEF TypeOK, Event
  <2> QED
    BY <2>1, <1>1, <1>2 DEF Held, InHand, TypeOK
<1>10. \A j \in Live : Tried(j) <=> Tried(j)'
  BY <1>1, <1>2, <1>3, <1>4, <1>9, LiveIds DEF Tried, SameJob
<1>11. Behind' /\ FirstAttemptsInOrder'
  BY <1>1, <1>2, <1>3, <1>4, <1>9, <1>10, LiveIds DEF IInv, Behind, FirstAttemptsInOrder, Tried, SameJob, TypeOK
<1> QED
  BY <1>5, <1>6, <1>7, <1>8, <1>11 DEF IInv

LEMMA CatchIInv ==
  ASSUME IInv, NEW p \in Procs, Catch(p)
  PROVE  IInv'
<1> DEFINE i == at[p]
           l == IF attempts[i] < limit[i] THEN "retry" ELSE "failed"
<1>1. pc[p] \in {"handler", "completed"} /\ pc[p] \in InRunJob /\ TypeOK /\ OneAtATime
  BY DEF Catch, IInv, InRunJob, Busy
<1>2. i \in Live /\ i \in Ids /\ Held(p, pc[p])
  BY <1>1, LiveIds DEF IInv, Ledger
<1>3. /\ pc' = [pc EXCEPT ![p] = l] /\ pc' \in [Procs -> Pc]
      /\ status' = [status EXCEPT ![i] = IF l = "retry" THEN "pending" ELSE "failed"]
      /\ status' \in [Ids -> Status]
      /\ UNCHANGED <<alive, size, handled, limit, attempts, row, at>> /\ alive
  BY <1>1 DEF Catch, Goto, TypeOK, Pc, Busy, Status
<1>4. Live' = Live /\ \A j \in Ids \ {i} : SameJob(j)
  BY <1>1, <1>3 DEF Live, SameJob, TypeOK
<1>5. TypeOK'
  BY <1>1, <1>3, <1>4 DEF Catch, TypeOK
<1>6. Flag' /\ OneAtATime'
  BY <1>1, <1>3, Alone DEF Catch, IInv, Flag, OneAtATime, TypeOK
<1>7. Fresh'
  BY <1>2, <1>3, <1>4 DEF IInv, Fresh, TypeOK
<1>8. attempts[i] \in Nat /\ limit[i] \in Nat /\ row[i]["retry"] \in Nat
  BY <1>1, <1>2 DEF TypeOK, Event
<1>9. Ledger' /\ AuditTrail'
  <2>1. CASE attempts[i] < limit[i]
    <3>1. Held(p, "retry")' /\ pc' = [pc EXCEPT ![p] = "retry"]
      BY <2>1, <1>1, <1>2, <1>3, <1>8 DEF Held, InHand, TypeOK
    <3> QED
      BY <3>1, <1>1, <1>3, <1>4, Turn DEF Busy
  <2>2. CASE ~(attempts[i] < limit[i])
    <3>1. pc' = [pc EXCEPT ![p] = "failed"] /\ status'[i] = "failed"
      BY <2>2, <1>1, <1>2, <1>3 DEF TypeOK
    <3>2. handled[i] /\ attempts[i] = limit[i]
      BY <2>2, <1>1, <1>2, <1>8 DEF Held, InHand
    <3>3. Held(p, "failed")'
      BY <3>1, <3>2, <1>1, <1>2, <1>3, <1>8 DEF Held, InHand
    <3> QED
      BY <3>1, <3>3, <1>1, <1>3, <1>4, Turn DEF Busy
  <2> QED
    BY <2>1, <2>2
<1>10. attempts[i] > 0
  BY <1>1, <1>2, <1>8 DEF Held, InHand
<1>11. \A j \in Live : Tried(j)' <=> Tried(j)
  BY <1>1, <1>2, <1>3, <1>4, <1>10, LiveIds DEF Tried, SameJob
<1>12. Behind' /\ FirstAttemptsInOrder'
  BY <1>1, <1>2, <1>3, <1>4, <1>10, <1>11, LiveIds DEF IInv, Behind, FirstAttemptsInOrder, Tried, SameJob, TypeOK
<1> QED
  BY <1>5, <1>6, <1>7, <1>9, <1>12 DEF IInv

\* The queue reaches its next pending job.  Every job between the last place
\* of the iteration and the next pending one is no longer pending, so it was
\* tried: that keeps the first attempts in order.
LEMMA TakeIInv ==
  ASSUME IInv, NEW p \in Procs, NEW i \in Ids, Take(p, i)
  PROVE  IInv'
<1> DEFINE l == IF handled[i] THEN "started" ELSE "failed"
<1>1. pc[p] = "scan" /\ TypeOK /\ OneAtATime /\ alive
  BY DEF Take, IInv
<1>2. /\ i \in Live /\ at[p] < i /\ status[i] = "pending"
      /\ \A j \in Live : at[p] < j /\ status[j] = "pending" => i <= j
  BY DEF Take, Ahead
<1>3. \A q \in Procs \ {p} : pc[q] = "idle"
  BY <1>1, Alone
<1>4. /\ pc' = [pc EXCEPT ![p] = l] /\ pc' \in [Procs -> Pc]
      /\ at' = [at EXCEPT ![p] = i] /\ at' \in [Procs -> 0 .. MaxJobs]
      /\ UNCHANGED <<alive, size, handled, limit, row, creating, kicks, running>>
  <2>1. i \in 0 .. MaxJobs
    BY ConstantsAssumption DEF Ids
  <2> QED
    BY <1>1, <2>1 DEF Take, Goto, TypeOK, Pc, Busy
<1>5. Explained(handled[i], limit[i], "pending", attempts[i], row[i])
  BY <1>1, <1>2, <1>3 DEF IInv, AuditTrail, Holds, Trail, Busy
<1>6. /\ status' = [status EXCEPT ![i] = IF handled[i] THEN "running" ELSE "failed"]
      /\ attempts' = [attempts EXCEPT ![i] = IF handled[i] THEN @ + 1 ELSE @]
  BY <1>1 DEF Take, TypeOK
<1>7. attempts[i] \in Nat /\ limit[i] \in 1 .. MaxAttempts /\ attempts[i] < limit[i]
  BY <1>1, <1>5 DEF TypeOK, Explained
<1>8. status' \in [Ids -> Status] /\ attempts' \in [Ids -> 0 .. MaxAttempts]
  BY <1>1, <1>6, <1>7, ConstantsAssumption DEF TypeOK, Status
<1>9. Live' = Live /\ \A j \in Ids \ {i} : SameJob(j)
  BY <1>1, <1>4, <1>6 DEF Live, SameJob, TypeOK
<1>10. TypeOK'
  BY <1>1, <1>4, <1>8, <1>9 DEF TypeOK
<1>11. Flag' /\ OneAtATime'
  BY <1>1, <1>3, <1>4 DEF IInv, Flag, OneAtATime, TypeOK
<1>12. Fresh'
  BY <1>2, <1>9 DEF IInv, Fresh, SameJob
<1>13. Ledger'
  <2>1. at'[p] = i /\ pc'[p] = l
    BY <1>1, <1>4 DEF TypeOK
  <2>2. Held(p, pc[p])'
    <3>1. row[i]["retry"] \in Nat /\ row[i]["started"] \in Nat
      BY <1>1 DEF TypeOK, Event
    <3>2. CASE handled[i]
      <4>1. pc'[p] = "started" /\ status'[i] = "running" /\ attempts'[i] = attempts[i] + 1
        BY <3>2, <2>1, <1>1, <1>6 DEF TypeOK
      <4> QED
        BY <4>1, <3>1, <2>1, <1>4, <1>5, <1>7 DEF Held, InHand, Explained
    <3>3. CASE ~handled[i]
      <4>1. pc'[p] = "failed" /\ status'[i] = "failed" /\ attempts'[i] = attempts[i]
        BY <3>3, <2>1, <1>1, <1>6 DEF TypeOK
      <4> QED
        BY <4>1, <3>1, <3>3, <2>1, <1>4, <1>5, <1>7 DEF Held, InHand, Explained
    <3> QED
      BY <3>2, <3>3
  <2> QED
    BY <2>1, <2>2, <1>2, <1>3, <1>4, <1>9 DEF Ledger, InRunJob, Busy
<1>14. AuditTrail'
  <2> SUFFICES ASSUME NEW j \in Live', \A q \in Procs : ~Holds(q, j)'
               PROVE  Trail(j)'
    BY DEF AuditTrail
  <2>1. j \in Live /\ j \in Ids
    BY <1>1, <1>9, LiveIds
  <2>2. j # i
    BY <1>1, <1>4 DEF Holds, Busy, TypeOK
  <2>3. Trail(j)
    BY <1>1, <1>3, <2>1 DEF IInv, AuditTrail, Holds, Busy
  <2> QED
    BY <2>1, <2>2, <2>3, <1>9 DEF Trail, SameJob
<1>15. Tried(i)'
  BY <1>1, <1>6, <1>7 DEF Tried, TypeOK
<1>16. \A j \in Live : j < i => Tried(j)
  BY <1>1, <1>2 DEF IInv, Behind, TypeOK, Live
<1>17. \A j \in Live \ {i} : Tried(j)' <=> Tried(j)
  BY <1>1, <1>9, LiveIds DEF Tried, SameJob
<1>18. Behind'
  <2>1. \A q \in Procs : \A j \in Live : pc'[q] # "idle" /\ j <= at'[q] => Tried(j)'
    BY <1>1, <1>2, <1>3, <1>4, <1>15, <1>16, <1>17 DEF TypeOK, Live
  <2>2. \A j \in Live : status'[j] # "pending" => Tried(j)'
    BY <1>1, <1>2, <1>9, <1>15, <1>17, LiveIds DEF IInv, Behind, SameJob
  <2>3. \A q \in Procs : pc'[q] # "idle" => at'[q] <= size'
    BY <1>1, <1>2, <1>3, <1>4 DEF TypeOK, Live
  <2> QED
    BY <2>1, <2>2, <2>3, <1>9 DEF Behind
<1>19. FirstAttemptsInOrder'
  <2> SUFFICES ASSUME NEW j \in Live, NEW k \in Live, j < k, Tried(k)'
               PROVE  Tried(j)'
    BY <1>9 DEF FirstAttemptsInOrder, Tried
  <2>1. CASE k = i
    BY <2>1, <1>16, <1>17 DEF Live
  <2>2. CASE k # i
    BY <2>2, <1>15, <1>17 DEF IInv, FirstAttemptsInOrder, Tried
  <2> QED
    BY <2>1, <2>2
<1> QED
  BY <1>10, <1>11, <1>12, <1>13, <1>14, <1>18, <1>19 DEF IInv

\* Steps that leave every job, and what activations do with them, alone.
LEMMA IdleStep ==
  ASSUME IInv, UNCHANGED <<size, handled, limit, status, attempts, row, at>>,
         alive' => alive,
         \A q \in Procs : pc'[q] = pc[q] \/ pc'[q] = "idle"
  PROVE  Fresh' /\ Ledger' /\ (pc' = pc => AuditTrail') /\ Behind' /\ FirstAttemptsInOrder'
<1>1. Live' = Live
  BY DEF Live
<1>2. Fresh' /\ FirstAttemptsInOrder'
  BY <1>1 DEF IInv, Fresh, FirstAttemptsInOrder
<1>3. Ledger'
  BY <1>1 DEF IInv, Ledger, Held, InRunJob, Busy
<1>4. pc' = pc => AuditTrail'
  BY <1>1 DEF IInv, AuditTrail, Holds, Trail
<1>5. Behind'
  BY <1>1 DEF IInv, Behind, Tried
<1> QED
  BY <1>2, <1>3, <1>4, <1>5

LEMMA CreatedIInv ==
  ASSUME IInv, NEW i \in Ids, CreatedOk(i) \/ CreatedThrows(i)
  PROVE  IInv'
<1>1. TypeOK /\ alive /\ alive' /\ i \in Live /\ Live' = Live
  BY DEF CreatedOk, CreatedThrows, IInv, TypeOK, queueVars, Live
<1>2. UNCHANGED <<alive, size, handled, limit, status, attempts, running, pc, at>>
  BY DEF CreatedOk, CreatedThrows, queueVars, procVars
<1>3. /\ row' \in [Ids -> [Event -> Nat]]
      /\ \A j \in Ids \ {i} : row'[j] = row[j]
      /\ \A e \in Event \ {"created"} : row'[i][e] = row[i][e]
  <2>1. CASE CreatedOk(i)
    <3>1. /\ row' \in [Ids -> [Event -> Nat]]
          /\ row'[i] = [row[i] EXCEPT !["created"] = @ + 1]
          /\ \A j \in Ids \ {i} : row'[j] = row[j]
      BY <2>1, <1>1, WriteRow DEF CreatedOk, Event
    <3> QED
      BY <3>1, <1>1 DEF TypeOK
  <2>2. CASE CreatedThrows(i)
    BY <2>2, <1>1 DEF CreatedThrows, TypeOK
  <2> QED
    BY <2>1, <2>2
<1>4. TypeOK'
  <2>1. creating' \subseteq Live' /\ kicks' \in Nat
    BY <1>1 DEF CreatedOk, CreatedThrows, TypeOK
  <2> QED
    BY <2>1, <1>1, <1>2, <1>3 DEF TypeOK
<1>5. Flag' /\ OneAtATime'
  BY <1>2 DEF IInv, Flag, OneAtATime
<1>6. Fresh'
  BY <1>1, <1>2, <1>3 DEF IInv, Fresh
<1>7. Ledger'
  <2> SUFFICES ASSUME NEW q \in Procs, pc'[q] \in InRunJob
               PROVE  at'[q] \in Live' /\ Held(q, pc[q])'
    BY DEF Ledger
  <2>1. at[q] \in Live /\ at[q] \in Ids /\ Held(q, pc[q])
    BY <1>1, <1>2, LiveIds DEF IInv, Ledger
  <2>2. \A e \in Event \ {"created"} : row'[at[q]][e] = row[at[q]][e]
    BY <2>1, <1>3
  <2> QED
    BY <2>1, <2>2, <1>1, <1>2 DEF Held, InHand, Event
<1>8. AuditTrail'
  <2> SUFFICES ASSUME NEW j \in Live', \A q \in Procs : ~Holds(q, j)'
               PROVE  Trail(j)'
    BY DEF AuditTrail
  <2>1. j \in Live /\ j \in Ids /\ Trail(j)
    BY <1>1, <1>2, LiveIds DEF IInv, AuditTrail, Holds
  <2>2. \A e \in Event \ {"created"} : row'[j][e] = row[j][e]
    BY <2>1, <1>3
  <2> QED
    BY <2>1, <2>2, <1>2 DEF Trail, Explained, Event
<1>9. Behind' /\ FirstAttemptsInOrder'
  BY <1>1, <1>2 DEF IInv, Behind, FirstAttemptsInOrder, Tried
<1> QED
  BY <1>4, <1>5, <1>6, <1>7, <1>8, <1>9 DEF IInv

\* A new job is at the end of the order and as Init left it, but for the type
\* and the limit it was enqueued with.
LEMMA EnqueueIInv ==
  ASSUME IInv, NEW i \in Ids, NEW known \in BOOLEAN, NEW max \in 1 .. MaxAttempts,
         Enqueue(i, known, max)
  PROVE  IInv'
<1>1. TypeOK /\ i = size + 1 /\ size' = i /\ size \in Nat /\ alive
  BY DEF Enqueue, IInv, TypeOK
<1>2. Live' = Live \cup {i} /\ i \notin Live /\ Live \subseteq Ids
  BY <1>1, LiveIds DEF Live, Ids
<1>3. /\ UNCHANGED <<alive, status, attempts, kicks, running, pc, at, row>>
      /\ handled' = [handled EXCEPT ![i] = known]
      /\ limit' = [limit EXCEPT ![i] = max]
  BY DEF Enqueue, procVars
<1>4. \A j \in Ids \ {i} : SameJob(j)
  BY <1>1, <1>3 DEF SameJob, TypeOK
<1>5. TypeOK'
  <2>1. size' \in 0 .. MaxJobs
    BY <1>1, ConstantsAssumption DEF Ids
  <2>2. handled' \in [Ids -> BOOLEAN] /\ limit' \in [Ids -> 1 .. MaxAttempts]
    BY <1>1, <1>3 DEF TypeOK
  <2>3. creating' \subseteq Live'
    BY <1>1, <1>2 DEF Enqueue, TypeOK
  <2> QED
    BY <2>1, <2>2, <2>3, <1>1, <1>3 DEF TypeOK
<1>6. Flag' /\ OneAtATime'
  BY <1>3 DEF IInv, Flag, OneAtATime
<1>7. status[i] = "pending" /\ attempts[i] = 0 /\ row[i] = NoRows
  BY <1>2 DEF IInv, Fresh
<1>8. Fresh'
  BY <1>2, <1>3 DEF IInv, Fresh
<1>9. Ledger'
  <2> SUFFICES ASSUME NEW q \in Procs, pc'[q] \in InRunJob
               PROVE  at'[q] \in Live' /\ Held(q, pc[q])'
    BY DEF Ledger
  <2>1. at[q] \in Live /\ Held(q, pc[q])
    BY <1>3 DEF IInv, Ledger
  <2> QED
    BY <2>1, <1>2, <1>3, <1>4 DEF Held, SameJob
<1>10. AuditTrail'
  <2> SUFFICES ASSUME NEW j \in Live', \A q \in Procs : ~Holds(q, j)'
               PROVE  Trail(j)'
    BY DEF AuditTrail
  <2>1. CASE j = i
    <3>1. handled'[i] = known /\ limit'[i] = max
      BY <1>1, <1>3 DEF TypeOK
    <3>2. \A e \in Event : row'[i][e] = 0
      BY <1>3, <1>7 DEF NoRows
    <3> QED
      BY <2>1, <3>1, <3>2, <1>3, <1>7 DEF Trail, Explained, Event
  <2>2. CASE j # i
    <3>1. j \in Live /\ Trail(j)
      BY <2>2, <1>1, <1>2, <1>3 DEF IInv, AuditTrail, Holds
    <3> QED
      BY <2>2, <3>1, <1>2, <1>4 DEF Trail, SameJob
  <2> QED
    BY <2>1, <2>2
<1>11. Behind'
  <2>1. \A q \in Procs : pc[q] # "idle" => at[q] < i
    BY <1>1 DEF IInv, Behind, TypeOK
  <2> QED
    BY <2>1, <1>1, <1>2, <1>3, <1>7 DEF IInv, Behind, Tried, Live, TypeOK
<1>12. FirstAttemptsInOrder'
  BY <1>1, <1>2, <1>3, <1>7 DEF IInv, FirstAttemptsInOrder, Live
<1> QED
  BY <1>5, <1>6, <1>8, <1>9, <1>10, <1>11, <1>12 DEF IInv

LEMMA ProcessIInv ==
  ASSUME IInv, NEW p \in Procs, Process(p)
  PROVE  IInv'
<1>1. TypeOK /\ alive /\ pc[p] = "idle" /\ kicks > 0
  BY DEF Process, IInv
<1>2. UNCHANGED <<alive, size, handled, limit, status, attempts, creating, row>> /\ Live' = Live
  BY DEF Process, queueVars, Live
<1>3. kicks' \in Nat
  BY <1>1 DEF Process, TypeOK
<1>4. CASE running
  <2>1. UNCHANGED <<running, pc, at>>
    BY <1>4 DEF Process, procVars
  <2>2. TypeOK'
    BY <2>1, <1>1, <1>2, <1>3 DEF TypeOK
  <2>3. Flag' /\ OneAtATime'
    BY <2>1, <1>2 DEF IInv, Flag, OneAtATime
  <2> QED
    BY <2>1, <2>2, <2>3, <1>1, <1>2, IdleStep DEF IInv
<1>5. CASE ~running
  <2>1. \A q \in Procs : pc[q] = "idle"
    BY <1>5 DEF IInv, Flag
  <2>2. /\ running' = TRUE
        /\ pc' = [pc EXCEPT ![p] = "scan"] /\ pc' \in [Procs -> Pc]
        /\ at' = [at EXCEPT ![p] = 0] /\ at' \in [Procs -> 0 .. MaxJobs]
    BY <1>1, <1>5, ConstantsAssumption DEF Process, Goto, TypeOK, Pc, Busy
  <2>3. TypeOK'
    BY <2>2, <1>1, <1>2, <1>3 DEF TypeOK
  <2>4. pc'[p] = "scan" /\ at'[p] = 0 /\ \A q \in Procs \ {p} : pc'[q] = "idle"
    BY <2>1, <2>2, <1>1 DEF TypeOK
  <2>5. Flag' /\ OneAtATime'
    BY <2>2, <2>4, <1>1, <1>2 DEF Flag, OneAtATime
  <2>6. Fresh' /\ FirstAttemptsInOrder'
    BY <1>2 DEF IInv, Fresh, FirstAttemptsInOrder
  <2>7. Ledger'
    BY <2>4 DEF Ledger, InRunJob, Busy
  <2>8. AuditTrail'
    BY <2>1, <1>2 DEF IInv, AuditTrail, Holds, Trail, Busy
  <2>9. Behind'
    BY <2>4, <1>1, <1>2 DEF IInv, Behind, Tried, TypeOK, Live
  <2> QED
    BY <2>3, <2>5, <2>6, <2>7, <2>8, <2>9 DEF IInv
<1> QED
  BY <1>4, <1>5

\* The activation leaves: at the end of its scan, or with the whole program.
LEMMA LeaveIInv ==
  ASSUME IInv, NEW p \in Procs, Finish(p) \/ ProcessThrows(p)
  PROVE  IInv'
<1>1. TypeOK /\ OneAtATime /\ pc[p] # "idle" /\ alive
  BY DEF Finish, ProcessThrows, IInv
<1>2. UNCHANGED <<size, handled, limit, status, attempts, creating, kicks, row, at>>
  BY DEF Finish, ProcessThrows, queueVars
<1>3. Live' = Live /\ running' = FALSE /\ alive' \in BOOLEAN
  BY <1>1, <1>2 DEF Finish, ProcessThrows, Live, TypeOK
<1>4. pc' = [pc EXCEPT ![p] = "idle"] /\ pc' \in [Procs -> Pc]
  BY <1>1 DEF Finish, ProcessThrows, Goto, TypeOK, Pc
<1>5. \A q \in Procs : pc'[q] = "idle"
  BY <1>1, <1>4, Alone DEF TypeOK
<1>6. TypeOK'
  BY <1>1, <1>2, <1>3, <1>4 DEF TypeOK
<1>7. Flag' /\ OneAtATime'
  BY <1>3, <1>5 DEF Flag, OneAtATime
<1>8. Fresh' /\ Ledger' /\ Behind' /\ FirstAttemptsInOrder'
  <2>1. alive' => alive
    BY <1>1
  <2> QED
    BY <2>1, <1>2, <1>5, IdleStep
<1>9. AuditTrail'
  <2>1. CASE Finish(p)
    <3>1. \A q \in Procs : pc[q] \in {"idle", "scan"}
      BY <2>1, <1>1, Alone DEF Finish
    <3> QED
      BY <3>1, <1>1, <1>2, <1>3 DEF IInv, AuditTrail, Holds, Trail, Busy
  <2>2. CASE ProcessThrows(p)
    BY <2>2 DEF ProcessThrows, AuditTrail
  <2> QED
    BY <2>1, <2>2
<1> QED
  BY <1>6, <1>7, <1>8, <1>9 DEF IInv

LEMMA RestartIInv ==
  ASSUME Restart PROVE IInv'
<1>1. TypeOK'
  <2>1. NoRows \in [Event -> Nat]
    BY DEF NoRows
  <2>2. handled' \in [Ids -> BOOLEAN] /\ limit' \in [Ids -> 1 .. MaxAttempts]
    BY ConstantsAssumption DEF Restart
  <2>3. status' \in [Ids -> Status] /\ attempts' \in [Ids -> 0 .. MaxAttempts]
    BY ConstantsAssumption DEF Restart, Status
  <2>4. pc' \in [Procs -> Pc] /\ at' \in [Procs -> 0 .. MaxJobs]
    BY ConstantsAssumption DEF Restart, Pc
  <2>5. row' \in [Ids -> [Event -> Nat]]
    BY <2>1 DEF Restart
  <2>6. size' \in 0 .. MaxJobs /\ creating' \subseteq Live' /\ kicks' \in Nat
    BY ConstantsAssumption DEF Restart
  <2>7. alive' \in BOOLEAN /\ running' \in BOOLEAN
    BY DEF Restart
  <2> QED
    BY <2>2, <2>3, <2>4, <2>5, <2>6, <2>7 DEF TypeOK
<1>2. Flag' /\ OneAtATime' /\ Fresh'
  BY DEF Restart, Flag, OneAtATime, Fresh
<1>3. Live' = {}
  BY DEF Restart, Live
<1>4. Ledger' /\ AuditTrail' /\ Behind' /\ FirstAttemptsInOrder'
  BY <1>3 DEF Restart, Ledger, AuditTrail, Behind, FirstAttemptsInOrder, InRunJob, Busy
<1> QED
  BY <1>1, <1>2, <1>4 DEF IInv

-----------------------------------------------------------------------------
LEMMA NextIInv == IInv /\ [Next]_vars => IInv'
<1> SUFFICES ASSUME IInv, [Next]_vars PROVE IInv'
  OBVIOUS
<1>1. ASSUME NEW p \in Procs, Step(p) PROVE IInv'
  BY <1>1, ProcessIInv, TakeIInv, LeaveIInv, StartedOkIInv, HandlerOkIInv, CompletedOkIInv,
     CatchIInv, RetryOkIInv, FailedOkIInv, AlertOkIInv DEF Step
<1>2. ASSUME NEW i \in Ids, NEW known \in BOOLEAN, NEW max \in 1 .. MaxAttempts,
             Enqueue(i, known, max)
      PROVE  IInv'
  BY <1>2, EnqueueIInv
<1>3. ASSUME NEW i \in Ids, CreatedOk(i) \/ CreatedThrows(i) PROVE IInv'
  BY <1>3, CreatedIInv
<1>4. CASE Restart
  BY <1>4, RestartIInv
<1>5. CASE UNCHANGED vars
  <2>1. UNCHANGED <<alive, size, handled, limit, status, attempts, creating, kicks, running, pc, at, row>>
    BY <1>5 DEF vars, queueVars, procVars
  <2>2. TypeOK' /\ Flag' /\ OneAtATime'
    BY <2>1 DEF IInv, TypeOK, Flag, OneAtATime, Live
  <2> QED
    BY <2>1, <2>2, IdleStep DEF IInv
<1> QED
  BY <1>1, <1>2, <1>3, <1>4, <1>5 DEF Next

THEOREM Invariance == Spec => []IInv
<1>1. Init => IInv
  BY InitIInv
<1>2. IInv /\ [Next]_vars => IInv'
  BY NextIInv
<1> QED
  BY <1>1, <1>2, PTL DEF Spec

\* The variables keep their types, for every number of jobs and activations.
THEOREM TypeCorrect == Spec => []TypeOK
<1>1. IInv => TypeOK
  BY DEF IInv
<1> QED
  BY <1>1, Invariance, PTL

\* However many process() calls are queued, one activation at most is past the
\* `running' guard.
THEOREM MutualExclusion == Spec => []OneAtATime
<1>1. IInv => OneAtATime
  BY DEF IInv
<1> QED
  BY <1>1, Invariance, PTL

\* Jobs are first attempted in the order of their enqueue() calls.
THEOREM FirstInFirstTried == Spec => []FirstAttemptsInOrder
<1>1. IInv => FirstAttemptsInOrder
  BY DEF IInv
<1> QED
  BY <1>1, Invariance, PTL

\* The rows in the database account for every attempt, retry, completion and
\* failure of every job that no activation has in hand.
THEOREM TrailComplete == Spec => []AuditTrail
<1>1. IInv => AuditTrail
  BY DEF IInv
<1> QED
  BY <1>1, Invariance, PTL

-----------------------------------------------------------------------------
(* The refinement of JobLife.                                              *)

\* The variables of JobLife, as JobQueue maps them.
Stage == [i \in Ids |-> StageOf(i)]
Tries == [i \in Ids |-> IF Known(i) THEN attempts[i] ELSE 0]
Allowed == [i \in Ids |-> IF Known(i) THEN limit[i] ELSE 1]

LEMMA StageCases ==
  ASSUME NEW i
  PROVE  /\ ~alive \/ i \notin Live => StageOf(i) = "absent"
         /\ alive /\ i \in Live /\ status[i] = "pending" => StageOf(i) = "waiting"
         /\ alive /\ i \in Live /\ status[i] = "running" => StageOf(i) = "tried"
         /\ alive /\ i \in Live /\ status[i] = "completed" =>
              StageOf(i) = IF row[i]["completed"] > 0 THEN "completed" ELSE "tried"
         /\ alive /\ i \in Live /\ status[i] = "failed" =>
              StageOf(i) = IF row[i]["alert"] > 0 THEN "failed" ELSE "failing"
BY DEF StageOf

LEMMA StageCasesNext ==
  ASSUME NEW i
  PROVE  /\ ~alive' \/ i \notin Live' => StageOf(i)' = "absent"
         /\ alive' /\ i \in Live' /\ status'[i] = "pending" => StageOf(i)' = "waiting"
         /\ alive' /\ i \in Live' /\ status'[i] = "running" => StageOf(i)' = "tried"
         /\ alive' /\ i \in Live' /\ status'[i] = "completed" =>
              StageOf(i)' = IF row'[i]["completed"] > 0 THEN "completed" ELSE "tried"
         /\ alive' /\ i \in Live' /\ status'[i] = "failed" =>
              StageOf(i)' = IF row'[i]["alert"] > 0 THEN "failed" ELSE "failing"
BY DEF StageOf

LEMMA InitLife == Init => Life!Init
<1> SUFFICES ASSUME Init PROVE Life!Init
  OBVIOUS
<1>1. \A i \in Ids : StageOf(i) = "absent" /\ ~Known(i)
  BY StageCases DEF Init, Live, Known
<1> QED
  BY <1>1 DEF Life!Init

\* What of a job is seen from outside.
SameOutside(j) ==
  /\ (j \in Live)' <=> j \in Live
  /\ limit'[j] = limit[j]
  /\ status'[j] = status[j]
  /\ attempts'[j] = attempts[j]
  /\ row'[j]["completed"] = row[j]["completed"]
  /\ row'[j]["alert"] = row[j]["alert"]

LEMMA SameStage ==
  ASSUME TypeOK, alive, alive', NEW j \in Ids, SameOutside(j)
  PROVE  /\ StageOf(j)' = StageOf(j)
         /\ Known(j)' <=> Known(j)
<1>1. status[j] \in Status
  BY DEF TypeOK
<1>2. StageOf(j)' = StageOf(j)
  BY <1>1, StageCases, StageCasesNext DEF SameOutside, Status
<1> QED
  BY <1>2 DEF Known

LEMMA KnownWhenLive ==
  ASSUME TypeOK, alive, NEW j \in Ids PROVE Known(j) <=> j \in Live
<1>1. status[j] \in Status
  BY DEF TypeOK
<1> QED
  BY <1>1, StageCases DEF Known, Status

LEMMA KnownWhenLiveNext ==
  ASSUME TypeOK', alive', NEW j \in Ids PROVE Known(j)' <=> j \in Live'
<1>1. status'[j] \in Status
  BY DEF TypeOK
<1> QED
  BY <1>1, StageCasesNext DEF Known, Status

\* A step that touches one job moves that job only.
LEMMA OneJobMoves ==
  ASSUME TypeOK, TypeOK', alive, alive', NEW i \in Ids, i \in Live',
         \A j \in Ids \ {i} : SameOutside(j)
  PROVE  /\ Stage' = [Stage EXCEPT ![i] = StageOf(i)']
         /\ Tries' = [Tries EXCEPT ![i] = attempts'[i]]
         /\ Allowed' = [Allowed EXCEPT ![i] = limit'[i]]
<1>1. \A j \in Ids \ {i} : StageOf(j)' = StageOf(j) /\ (Known(j)' <=> Known(j))
  BY SameStage
<1>2. Known(i)'
  BY KnownWhenLiveNext
<1>3. Stage' = [Stage EXCEPT ![i] = StageOf(i)']
  BY <1>1 DEF Stage
<1>4. \A j \in Ids \ {i} : attempts'[j] = attempts[j] /\ limit'[j] = limit[j]
  BY DEF SameOutside
<1>5. Tries' = [Tries EXCEPT ![i] = attempts'[i]]
  BY <1>1, <1>2, <1>4 DEF Tries
<1>6. Allowed' = [Allowed EXCEPT ![i] = limit'[i]]
  BY <1>1, <1>2, <1>4 DEF Allowed
<1> QED
  BY <1>3, <1>5, <1>6

LEMMA NoJobMoves ==
  ASSUME TypeOK, TypeOK', alive, alive', \A j \in Ids : SameOutside(j)
  PROVE  UNCHANGED Life!lifeVars
<1>1. \A j \in Ids : StageOf(j)' = StageOf(j) /\ (Known(j)' <=> Known(j))
  BY SameStage
<1>2. \A j \in Ids : attempts'[j] = attempts[j] /\ limit'[j] = limit[j]
  BY DEF SameOutside
<1> QED
  BY <1>1, <1>2 DEF Life!lifeVars

\* A dead program has no jobs, and neither has one that has just begun.
LEMMA AllLost ==
  ASSUME ~alive' \/ Live' = {} PROVE Life!LoseAll
<1>1. \A i \in Ids : StageOf(i)' = "absent" /\ ~Known(i)'
  BY StageCasesNext DEF Known
<1> QED
  BY <1>1 DEF Life!LoseAll

LEMMA EnqueueLife ==
  ASSUME IInv, IInv', NEW i \in Ids, NEW known \in BOOLEAN, NEW max \in 1 .. MaxAttempts,
         Enqueue(i, known, max)
  PROVE  Life!Submit(i, max)
<1>1. TypeOK /\ TypeOK' /\ alive /\ alive' /\ i = size + 1 /\ size' = i /\ size \in Nat
  BY DEF Enqueue, IInv, TypeOK
<1>2. i \notin Live /\ Live' = Live \cup {i}
  BY <1>1 DEF Live, Ids
<1>3. UNCHANGED <<status, attempts, row>> /\ limit' = [limit EXCEPT ![i] = max]
  BY DEF Enqueue
<1>4. status[i] = "pending" /\ attempts[i] = 0
  BY <1>2 DEF IInv, Fresh
<1>5. \A j \in Ids \ {i} : SameOutside(j)
  BY <1>1, <1>2, <1>3 DEF SameOutside, TypeOK
<1>6. limit'[i] = max
  BY <1>1, <1>3 DEF TypeOK
<1>7. StageOf(i) = "absent" /\ StageOf(i)' = "waiting" /\ ~Known(i)
  BY <1>1, <1>2, <1>3, <1>4, StageCases, StageCasesNext DEF Known
<1>8. /\ Stage' = [Stage EXCEPT ![i] = "waiting"]
      /\ Tries' = [Tries EXCEPT ![i] = 0]
      /\ Allowed' = [Allowed EXCEPT ![i] = max]
  BY <1>1, <1>2, <1>3, <1>4, <1>5, <1>6, <1>7, OneJobMoves
<1>9. Tries' = Tries
  BY <1>7, <1>8 DEF Tries
<1> QED
  BY <1>7, <1>8, <1>9 DEF Life!Submit, Life!Move, Stage, Tries, Allowed

\* While the loop is between two jobs, none is being tried.
LEMMA NoneTried ==
  ASSUME IInv, alive, NEW p \in Procs, pc[p] = "scan"
  PROVE  /\ \A i \in Live : Trail(i)
         /\ \A i \in Ids : StageOf(i) # "tried"
<1>1. \A q \in Procs : pc[q] \in {"idle", "scan"}
  BY Alone DEF IInv
<1>2. ASSUME NEW i \in Live PROVE Trail(i)
  BY <1>1 DEF IInv, AuditTrail, Holds, Busy
<1>3. ASSUME NEW i \in Ids, i \in Live PROVE StageOf(i) # "tried"
  <2>1. status[i] \in Status /\ status[i] # "running"
    BY <1>2, <1>3 DEF IInv, TypeOK, Trail, Explained
  <2>2. status[i] = "completed" => row[i]["completed"] = 1
    BY <1>2, <1>3 DEF Trail, Explained
  <2> QED
    BY <1>3, <2>1, <2>2, StageCases DEF Status
<1>4. \A i \in Ids : i \notin Live => StageOf(i) # "tried"
  BY StageCases
<1> QED
  BY <1>2, <1>3, <1>4

LEMMA TakeLife ==
  ASSUME IInv, IInv', NEW p \in Procs, NEW i \in Ids, Take(p, i)
  PROVE  Life!Try(i) \/ Life!Refuse(i)
<1>1. /\ TypeOK /\ TypeOK' /\ alive /\ alive' /\ pc[p] = "scan"
      /\ i \in Live /\ Live' = Live /\ status[i] = "pending"
  BY DEF Take, Ahead, IInv, Live
<1>2. /\ \A j \in Ids : StageOf(j) # "tried"
      /\ Trail(i)
  BY <1>1, NoneTried
<1>3. UNCHANGED <<limit, row>>
  BY DEF Take
<1>4. StageOf(i) = "waiting" /\ Known(i)
  BY <1>1, StageCases DEF Known
<1>5. row[i]["alert"] = 0 /\ attempts[i] < limit[i] /\ (~handled[i] => attempts[i] = 0)
  BY <1>1, <1>2 DEF Trail, Explained
<1>6. CASE handled[i]
  <2>1. /\ status' = [status EXCEPT ![i] = "running"]
        /\ attempts' = [attempts EXCEPT ![i] = @ + 1]
    BY <1>6 DEF Take
  <2>2. \A j \in Ids \ {i} : SameOutside(j)
    BY <1>1, <1>3, <2>1 DEF SameOutside, TypeOK
  <2>3. StageOf(i)' = "tried" /\ attempts'[i] = attempts[i] + 1
    BY <1>1, <2>1, StageCasesNext DEF TypeOK
  <2>4. /\ Stage' = [Stage EXCEPT ![i] = "tried"]
        /\ Tries' = [Tries EXCEPT ![i] = attempts[i] + 1]
        /\ Allowed' = [Allowed EXCEPT ![i] = limit[i]]
    BY <1>1, <1>3, <2>2, <2>3, OneJobMoves
  <2>5. Allowed' = Allowed /\ Tries' = [Tries EXCEPT ![i] = @ + 1]
    BY <1>4, <2>4 DEF Allowed, Tries
  <2>6. Stage[i] = "waiting" /\ Tries[i] < Allowed[i] /\ \A j \in Ids : Stage[j] # "tried"
    BY <1>2, <1>4, <1>5 DEF Stage, Tries, Allowed
  <2> QED
    BY <2>4, <2>5, <2>6 DEF Life!Try, Life!Move, Stage, Tries, Allowed
<1>7. CASE ~handled[i]
  <2>1. status' = [status EXCEPT ![i] = "failed"] /\ attempts' = attempts
    BY <1>7 DEF Take
  <2>2. \A j \in Ids \ {i} : SameOutside(j)
    BY <1>1, <1>3, <2>1 DEF SameOutside, TypeOK
  <2>3. StageOf(i)' = "failing"
    BY <1>1, <1>3, <1>5, <2>1, StageCasesNext DEF TypeOK
  <2>4. /\ Stage' = [Stage EXCEPT ![i] = "failing"]
        /\ Tries' = [Tries EXCEPT ![i] = attempts[i]]
        /\ Allowed' = [Allowed EXCEPT ![i] = limit[i]]
    BY <1>1, <1>3, <2>1, <2>2, <2>3, OneJobMoves
  <2>5. Allowed' = Allowed /\ Tries' = Tries
    BY <1>4, <2>4 DEF Allowed, Tries
  <2>6. Stage[i] = "waiting" /\ Tries[i] = 0
    BY <1>4, <1>5, <1>7 DEF Stage, Tries
  <2> QED
    BY <2>4, <2>5, <2>6 DEF Life!Refuse, Life!Move, Stage, Tries, Allowed
<1> QED
  BY <1>6, <1>7

\* A row that neither ends a job nor tells of its failure changes nothing outside.
LEMMA InnerRow ==
  ASSUME TypeOK, TypeOK', alive, alive', NEW i \in Ids,
         NEW e \in Event \ {"completed", "alert"}, Write(i, e), UNCHANGED queueVars
  PROVE  UNCHANGED Life!lifeVars
<1>1. /\ row'[i] = [row[i] EXCEPT ![e] = @ + 1]
      /\ \A j \in Ids \ {i} : row'[j] = row[j]
  BY WriteRow
<1>2. row[i] \in [Event -> Nat]
  BY DEF TypeOK
<1>3. row'[i]["completed"] = row[i]["completed"] /\ row'[i]["alert"] = row[i]["alert"]
  BY <1>1, <1>2 DEF Event
<1>4. \A j \in Ids : SameOutside(j)
  BY <1>1, <1>3 DEF SameOutside, queueVars, Live
<1> QED
  BY <1>4, NoJobMoves

\* The stage of the job in hand.
LEMMA InHandStage ==
  ASSUME IInv, alive, NEW p \in Procs, pc[p] \in InRunJob
  PROVE  /\ at[p] \in Live /\ at[p] \in Ids /\ Known(at[p])
         /\ Held(p, pc[p])
         /\ pc[p] \in {"started", "handler", "completed"} => StageOf(at[p]) = "tried"
         /\ pc[p] \in {"failed", "alert"} => StageOf(at[p]) = "failing"
<1>1. at[p] \in Live /\ at[p] \in Ids /\ Held(p, pc[p])
  BY LiveIds DEF IInv, Ledger
<1>2. Known(at[p])
  BY <1>1, KnownWhenLive DEF IInv
<1>3. pc[p] \in {"started", "handler", "completed"} => StageOf(at[p]) = "tried"
  BY <1>1, StageCases DEF Held, InHand
<1>4. pc[p] \in {"failed", "alert"} => StageOf(at[p]) = "failing"
  BY <1>1, StageCases DEF Held, InHand
<1> QED
  BY <1>1, <1>2, <1>3, <1>4

LEMMA HandlerOkLife ==
  ASSUME IInv, IInv', NEW p \in Procs, NEW i \in Ids, i = at[p], HandlerOk(p)
  PROVE  UNCHANGED Life!lifeVars
<1>1. /\ TypeOK /\ TypeOK' /\ alive /\ alive' /\ pc[p] = "handler" /\ Live' = Live
      /\ UNCHANGED <<attempts, limit, row>> /\ status' = [status EXCEPT ![i] = "completed"]
  BY DEF HandlerOk, IInv, Live
<1>2. i \in Live /\ i \in Ids /\ Held(p, "handler") /\ StageOf(i) = "tried" /\ Known(i)
  BY <1>1, InHandStage DEF InRunJob, Busy
<1>3. row[i]["completed"] = 0 /\ status'[i] = "completed"
  BY <1>1, <1>2 DEF Held, InHand, TypeOK
<1>4. StageOf(i)' = "tried"
  BY <1>1, <1>2, <1>3, StageCasesNext
<1>5. \A j \in Ids \ {i} : SameOutside(j)
  BY <1>1 DEF SameOutside, TypeOK
<1>6. /\ Stage' = [Stage EXCEPT ![i] = "tried"]
      /\ Tries' = [Tries EXCEPT ![i] = attempts[i]]
      /\ Allowed' = [Allowed EXCEPT ![i] = limit[i]]
  BY <1>1, <1>2, <1>4, <1>5, OneJobMoves
<1>7. /\ Stage[i] = "tried" /\ Tries[i] = attempts[i] /\ Allowed[i] = limit[i]
      /\ Stage' = Stage /\ Tries' = Tries /\ Allowed' = Allowed
  BY <1>2, <1>6 DEF Stage, Tries, Allowed
<1> QED
  BY <1>7 DEF Life!lifeVars, Stage, Tries, Allowed

LEMMA CompletedOkLife ==
  ASSUME IInv, IInv', NEW p \in Procs, NEW i \in Ids, i = at[p], CompletedOk(p)
  PROVE  Life!Complete(i)
<1>1. /\ TypeOK /\ TypeOK' /\ alive /\ alive' /\ pc[p] = "completed" /\ Live' = Live
      /\ UNCHANGED <<attempts, limit, status>> /\ Write(i, "completed")
  BY DEF CompletedOk, IInv, Live, queueVars
<1>2. i \in Live /\ i \in Ids /\ Held(p, "completed") /\ StageOf(i) = "tried" /\ Known(i)
  BY <1>1, InHandStage DEF InRunJob, Busy
<1>3. /\ row'[i] = [row[i] EXCEPT !["completed"] = @ + 1]
      /\ \A j \in Ids \ {i} : row'[j] = row[j]
  BY <1>1, <1>2, WriteRow DEF Event
<1>4. row'[i]["completed"] = 1 /\ status[i] = "completed"
  BY <1>1, <1>2, <1>3 DEF Held, InHand, TypeOK, Event
<1>5. StageOf(i)' = "completed"
  BY <1>1, <1>2, <1>4, StageCasesNext
<1>6. \A j \in Ids \ {i} : SameOutside(j)
  BY <1>1, <1>3 DEF SameOutside
<1>7. /\ Stage' = [Stage EXCEPT ![i] = "completed"]
      /\ Tries' = [Tries EXCEPT ![i] = attempts[i]]
      /\ Allowed' = [Allowed EXCEPT ![i] = limit[i]]
  BY <1>1, <1>2, <1>5, <1>6, OneJobMoves
<1>8. /\ Stage[i] = "tried" /\ Tries[i] = attempts[i] /\ Allowed[i] = limit[i]
      /\ Tries' = Tries /\ Allowed' = Allowed
  BY <1>2, <1>7 DEF Stage, Tries, Allowed
<1> QED
  BY <1>2, <1>7, <1>8 DEF Life!Complete, Life!Move, Stage, Tries, Allowed

LEMMA CatchLife ==
  ASSUME IInv, IInv', NEW p \in Procs, NEW i \in Ids, i = at[p], Catch(p)
  PROVE  Life!Fail(i)
<1> DEFINE to == IF attempts[i] < limit[i] THEN "pending" ELSE "failed"
           after == IF attempts[i] < limit[i] THEN "waiting" ELSE "failing"
<1>1. /\ TypeOK /\ TypeOK' /\ alive /\ alive' /\ pc[p] \in {"handler", "completed"}
      /\ Live' = Live /\ UNCHANGED <<attempts, limit, row>>
      /\ status' = [status EXCEPT ![i] = to]
  BY DEF Catch, IInv, Live
<1>2. i \in Live /\ i \in Ids /\ Held(p, pc[p]) /\ StageOf(i) = "tried" /\ Known(i)
  BY <1>1, InHandStage DEF InRunJob, Busy
<1>3. row[i]["alert"] = 0 /\ status'[i] = to
  BY <1>1, <1>2 DEF Held, InHand, TypeOK
<1>4. StageOf(i)' = after
  BY <1>1, <1>2, <1>3, StageCasesNext
<1>5. \A j \in Ids \ {i} : SameOutside(j)
  BY <1>1 DEF SameOutside, TypeOK
<1>6. /\ Stage' = [Stage EXCEPT ![i] = after]
      /\ Tries' = [Tries EXCEPT ![i] = attempts[i]]
      /\ Allowed' = [Allowed EXCEPT ![i] = limit[i]]
  BY <1>1, <1>2, <1>4, <1>5, OneJobMoves
<1>7. /\ Stage[i] = "tried" /\ Tries[i] = attempts[i] /\ Allowed[i] = limit[i]
      /\ Tries' = Tries /\ Allowed' = Allowed
  BY <1>2, <1>6 DEF Stage, Tries, Allowed
<1> QED
  BY <1>2, <1>6, <1>7 DEF Life!Fail, Life!Move, Stage, Tries, Allowed

LEMMA AlertOkLife ==
  ASSUME IInv, IInv', NEW p \in Procs, NEW i \in Ids, i = at[p], AlertOk(p)
  PROVE  Life!Alert(i)
<1>1. /\ TypeOK /\ TypeOK' /\ alive /\ alive' /\ pc[p] = "alert" /\ Live' = Live
      /\ UNCHANGED <<attempts, limit, status>> /\ Write(i, "alert")
  BY DEF AlertOk, IInv, Live, queueVars
<1>2. i \in Live /\ i \in Ids /\ Held(p, "alert") /\ StageOf(i) = "failing" /\ Known(i)
  BY <1>1, InHandStage DEF InRunJob, Busy
<1>3. /\ row'[i] = [row[i] EXCEPT !["alert"] = @ + 1]
      /\ \A j \in Ids \ {i} : row'[j] = row[j]
  BY <1>1, <1>2, WriteRow DEF Event
<1>4. row'[i]["alert"] = 1 /\ status[i] = "failed"
  BY <1>1, <1>2, <1>3 DEF Held, InHand, TypeOK, Event
<1>5. StageOf(i)' = "failed"
  BY <1>1, <1>2, <1>4, StageCasesNext
<1>6. \A j \in Ids \ {i} : SameOutside(j)
  BY <1>1, <1>3 DEF SameOutside
<1>7. /\ Stage' = [Stage EXCEPT ![i] = "failed"]
      /\ Tries' = [Tries EXCEPT ![i] = attempts[i]]
      /\ Allowed' = [Allowed EXCEPT ![i] = limit[i]]
  BY <1>1, <1>2, <1>5, <1>6, OneJobMoves
<1>8. /\ Stage[i] = "failing" /\ Tries[i] = attempts[i] /\ Allowed[i] = limit[i]
      /\ Tries' = Tries /\ Allowed' = Allowed
  BY <1>2, <1>7 DEF Stage, Tries, Allowed
<1> QED
  BY <1>2, <1>7, <1>8 DEF Life!Alert, Life!Move, Stage, Tries, Allowed

\* The steps of the queue that nobody outside can tell from no step at all.
LEMMA InnerStep ==
  ASSUME IInv, IInv', NEW p \in Procs,
         Process(p) \/ Finish(p) \/ StartedOk(p) \/ RetryOk(p) \/ FailedOk(p)
  PROVE  UNCHANGED Life!lifeVars
<1>1. TypeOK /\ TypeOK' /\ alive /\ alive' /\ UNCHANGED queueVars
  BY DEF IInv, Process, Finish, StartedOk, RetryOk, FailedOk
<1>2. CASE Process(p) \/ Finish(p)
  <2>1. \A j \in Ids : SameOutside(j)
    BY <1>1, <1>2 DEF Process, Finish, SameOutside, queueVars, Live
  <2> QED
    BY <1>1, <2>1, NoJobMoves
<1>3. CASE StartedOk(p) \/ RetryOk(p) \/ FailedOk(p)
  <2>1. at[p] \in Ids
    BY <1>1, <1>3, InHandStage DEF StartedOk, RetryOk, FailedOk, InRunJob, Busy
  <2>2. \E e \in Event \ {"completed", "alert"} : Write(at[p], e)
    BY <1>3 DEF StartedOk, RetryOk, FailedOk, Event
  <2> QED
    BY <1>1, <2>1, <2>2, InnerRow
<1> QED
  BY <1>2, <1>3

LEMMA CreatedLife ==
  ASSUME IInv, IInv', NEW i \in Ids, CreatedOk(i) \/ CreatedThrows(i)
  PROVE  UNCHANGED Life!lifeVars
<1>1. TypeOK /\ TypeOK' /\ alive /\ alive' /\ UNCHANGED queueVars
  BY DEF IInv, CreatedOk, CreatedThrows
<1>2. CASE CreatedOk(i)
  BY <1>1, <1>2, InnerRow DEF CreatedOk, Event
<1>3. CASE CreatedThrows(i)
  <2>1. \A j \in Ids : SameOutside(j)
    BY <1>1, <1>3 DEF CreatedThrows, SameOutside, queueVars, Live
  <2> QED
    BY <1>1, <2>1, NoJobMoves
<1> QED
  BY <1>2, <1>3

LEMMA StepLife ==
  ASSUME IInv, IInv', NEW p \in Procs, Step(p)
  PROVE  [Life!Next]_Life!lifeVars
<1>1. pc[p] \in InRunJob => at[p] \in Ids
  BY LiveIds DEF IInv, Ledger
<1>2. CASE \E i \in Ids : Take(p, i)
  BY <1>2, TakeLife DEF Life!Next, Life!JobStep
<1>3. CASE HandlerOk(p)
  BY <1>1, <1>3, HandlerOkLife DEF HandlerOk, InRunJob, Busy
<1>4. CASE CompletedOk(p)
  BY <1>1, <1>4, CompletedOkLife DEF CompletedOk, InRunJob, Busy, Life!Next, Life!JobStep
<1>5. CASE Catch(p)
  BY <1>1, <1>5, CatchLife DEF Catch, InRunJob, Busy, Life!Next, Life!JobStep
<1>6. CASE AlertOk(p)
  BY <1>1, <1>6, AlertOkLife DEF AlertOk, InRunJob, Busy, Life!Next, Life!JobStep
<1>7. CASE ProcessThrows(p)
  BY <1>7, AllLost DEF ProcessThrows, Life!Next
<1>8. CASE Process(p) \/ Finish(p) \/ StartedOk(p) \/ RetryOk(p) \/ FailedOk(p)
  BY <1>8, InnerStep
<1> QED
  BY <1>2, <1>3, <1>4, <1>5, <1>6, <1>7, <1>8 DEF Step

LEMMA NextLife == IInv /\ IInv' /\ [Next]_vars => [Life!Next]_Life!lifeVars
<1> SUFFICES ASSUME IInv, IInv', [Next]_vars PROVE [Life!Next]_Life!lifeVars
  OBVIOUS
<1>1. ASSUME NEW p \in Procs, Step(p) PROVE [Life!Next]_Life!lifeVars
  BY <1>1, StepLife
<1>2. ASSUME NEW i \in Ids, NEW known \in BOOLEAN, NEW max \in 1 .. MaxAttempts,
             Enqueue(i, known, max)
      PROVE  [Life!Next]_Life!lifeVars
  BY <1>2, EnqueueLife DEF Life!Next, Life!JobStep
<1>3. ASSUME NEW i \in Ids, CreatedOk(i) \/ CreatedThrows(i)
      PROVE  [Life!Next]_Life!lifeVars
  BY <1>3, CreatedLife
<1>4. CASE Restart
  <2>1. Live' = {}
    BY <1>4 DEF Restart, Live
  <2> QED
    BY <2>1, AllLost DEF Life!Next
<1>5. CASE UNCHANGED vars
  BY <1>5 DEF vars, queueVars, procVars, Life!lifeVars, StageOf, Known, Live
<1> QED
  BY <1>1, <1>2, <1>3, <1>4, <1>5 DEF Next

\* The queue, whatever its listeners, handlers, scans and restarts do, gives
\* every job the life that JobLife promises.
THEOREM QueueImplementsLife == Spec => JobsLive
<1>1. Init => Life!Init
  BY InitLife
<1>2. IInv /\ IInv' /\ [Next]_vars => [Life!Next]_Life!lifeVars
  BY NextLife
<1> QED
  BY <1>1, <1>2, Invariance, PTL DEF Spec, JobsLive, Life!Spec

-----------------------------------------------------------------------------
(* The scheduler and the queue                                            *)

\* A tick never works with a time that has not come yet.
NowIsPast == \A k \in Ticks : now[k] <= clock

\* Every job created for a task moved its nextRunAt by an interval at least,
\* and nextRunAt is never further ahead than one interval.
Spaced ==
  \A t \in Tasks :
    /\ fired[t] * Interval[t] + Interval[t] <= next[t]
    /\ next[t] <= clock + Interval[t]

SchedulerTypeOK ==
  /\ clock \in 0 .. MaxClock
  /\ timer \in BOOLEAN
  /\ next \in [Tasks -> Nat]
  /\ tpc \in [Ticks -> {"idle", "loop", "creating", "triggered"}]
  /\ now \in [Ticks -> 0 .. MaxClock]
  /\ task \in [Ticks -> Tasks \cup {0}]
  /\ job \in [Ticks -> Ids \cup {0}]
  /\ fired \in [Tasks -> Nat]

SchedulerInv == SchedulerTypeOK /\ NowIsPast /\ Spaced

SysInv == IInv /\ SchedulerInv

-----------------------------------------------------------------------------
LEMMA Intervals == \A t \in Tasks : Interval[t] \in Nat /\ Interval[t] > 0
BY SchedulerAssumption DEF Tasks

LEMMA FreshScheduler ==
  ASSUME SchedulerInit PROVE SchedulerInv
<1>1. SchedulerTypeOK
  BY Intervals, SchedulerAssumption DEF SchedulerInit, SchedulerTypeOK
<1>2. NowIsPast
  BY DEF SchedulerInit, NowIsPast
<1>3. Spaced
  BY Intervals DEF SchedulerInit, Spaced
<1> QED
  BY <1>1, <1>2, <1>3 DEF SchedulerInv

\* The scheduler's part of the invariant speaks of no variable of the queue.
LEMMA SchedulerFrame ==
  ASSUME SchedulerInv, UNCHANGED schedulerVars PROVE SchedulerInv'
BY DEF SchedulerInv, SchedulerTypeOK, NowIsPast, Spaced, schedulerVars, tickVars

LEMMA QueueFrame ==
  ASSUME IInv, UNCHANGED vars PROVE IInv'
BY NextIInv

-----------------------------------------------------------------------------
LEMMA PassInv ==
  ASSUME SchedulerInv, Pass PROVE SchedulerInv'
<1>1. clock \in Nat /\ clock' = clock + 1 /\ clock' \in 0 .. MaxClock
  BY SchedulerAssumption DEF Pass, SchedulerInv, SchedulerTypeOK
<1>2. UNCHANGED <<timer, next, tpc, now, task, job, fired>>
  BY DEF Pass, tickVars
<1>3. SchedulerTypeOK'
  BY <1>1, <1>2 DEF SchedulerInv, SchedulerTypeOK
<1>4. NowIsPast'
  BY <1>1, <1>2 DEF SchedulerInv, SchedulerTypeOK, NowIsPast
<1>5. Spaced'
  BY <1>1, <1>2, Intervals DEF SchedulerInv, SchedulerTypeOK, Spaced
<1> QED
  BY <1>3, <1>4, <1>5 DEF SchedulerInv

LEMMA TickInv ==
  ASSUME SchedulerInv, NEW k \in Ticks, Tick(k) PROVE SchedulerInv'
<1>1. SchedulerTypeOK /\ UNCHANGED <<clock, timer, next, job, fired>>
  BY DEF Tick, SchedulerInv
<1>2. SchedulerTypeOK'
  BY <1>1 DEF Tick, SchedulerTypeOK
<1>3. NowIsPast'
  BY <1>1 DEF Tick, SchedulerInv, SchedulerTypeOK, NowIsPast
<1>4. Spaced'
  BY <1>1 DEF SchedulerInv, Spaced
<1> QED
  BY <1>2, <1>3, <1>4 DEF SchedulerInv

\* The step the property is about: the task was due at the time the tick read,
\* which has come, so its nextRunAt moves on by an interval at least.
LEMMA TriggerInv ==
  ASSUME SchedulerInv, NEW k \in Ticks, NEW t \in Tasks, Trigger(k, t)
  PROVE  SchedulerInv'
<1>1. SchedulerTypeOK /\ NowIsPast /\ Spaced
  BY DEF SchedulerInv
<1>2. t \in DueAhead(k) /\ next[t] <= now[k]
  BY DEF Trigger, DueAhead
<1>3. UNCHANGED <<clock, timer, now>>
  BY DEF Trigger
<1>4. next' = [next EXCEPT ![t] = now[k] + Interval[t]]
  BY DEF Trigger, Reschedule
<1>5. fired' = [fired EXCEPT ![t] = @ + 1]
  BY DEF Trigger
<1>6. SchedulerTypeOK'
  <2>1. next' \in [Tasks -> Nat] /\ fired' \in [Tasks -> Nat]
    BY <1>1, <1>4, <1>5, Intervals DEF SchedulerTypeOK
  <2>2. tpc' \in [Ticks -> {"idle", "loop", "creating", "triggered"}]
    BY <1>1 DEF Trigger, SchedulerTypeOK
  <2>3. task' \in [Ticks -> Tasks \cup {0}]
    BY <1>1 DEF Trigger, SchedulerTypeOK
  <2>4. job' \in [Ticks -> Ids \cup {0}]
    BY <1>1 DEF Trigger, SchedulerTypeOK
  <2> QED
    BY <2>1, <2>2, <2>3, <2>4, <1>1, <1>3 DEF SchedulerTypeOK
<1>7. NowIsPast'
  BY <1>1, <1>3 DEF NowIsPast
<1>8. Spaced'
  <2> SUFFICES ASSUME NEW u \in Tasks
               PROVE  /\ fired'[u] * Interval[u] + Interval[u] <= next'[u]
                      /\ next'[u] <= clock' + Interval[u]
    BY DEF Spaced
  <2>1. CASE u # t
    BY <2>1, <1>1, <1>3, <1>4, <1>5 DEF Spaced, SchedulerTypeOK
  <2>2. CASE u = t
    <3>1. fired[t] \in Nat /\ Interval[t] \in Nat /\ now[k] \in Nat /\ next[t] \in Nat /\ clock \in Nat
      BY <1>1, Intervals DEF SchedulerTypeOK
    <3>2. fired'[t] = fired[t] + 1 /\ next'[t] = now[k] + Interval[t]
      BY <1>1, <1>4, <1>5 DEF SchedulerTypeOK
    <3>3. fired[t] * Interval[t] + Interval[t] <= now[k] /\ now[k] <= clock
      BY <3>1, <1>1, <1>2 DEF Spaced, NowIsPast
    <3>4. (fired[t] + 1) * Interval[t] = fired[t] * Interval[t] + Interval[t]
      BY <3>1
    <3> QED
      BY <2>2, <3>1, <3>2, <3>3, <3>4, <1>3
  <2> QED
    BY <2>1, <2>2
<1> QED
  BY <1>6, <1>7, <1>8 DEF SchedulerInv

LEMMA GoOnInv ==
  ASSUME SchedulerInv, NEW k \in Ticks, TickCreated(k) \/ TickTriggered(k) \/ TickEnd(k)
  PROVE  SchedulerInv'
<1>1. UNCHANGED <<clock, timer, next, now, task, job, fired>>
  BY DEF TickCreated, TickTriggered, TickEnd
<1>2. tpc' \in [Ticks -> {"idle", "loop", "creating", "triggered"}]
  BY DEF TickCreated, TickTriggered, TickEnd, SchedulerInv, SchedulerTypeOK
<1> QED
  BY <1>1, <1>2 DEF SchedulerInv, SchedulerTypeOK, NowIsPast, Spaced

\* A rejected tick ends the program and leaves the queue as it was.
LEMMA TickThrowsIInv ==
  ASSUME IInv, NEW k \in Ticks, TickThrows(k) PROVE IInv'
<1>1. UNCHANGED <<size, handled, limit, status, attempts, creating, kicks, running, pc, at, row>>
  BY DEF TickThrows, queueVars, procVars
<1>2. alive' = FALSE /\ Live' = Live
  BY <1>1 DEF TickThrows, Live
<1>3. TypeOK' /\ Flag' /\ OneAtATime'
  BY <1>1, <1>2 DEF IInv, TypeOK, Flag, OneAtATime
<1>4. Fresh' /\ Ledger' /\ AuditTrail' /\ Behind' /\ FirstAttemptsInOrder'
  BY <1>1, <1>2, IdleStep
<1> QED
  BY <1>3, <1>4 DEF IInv

LEMMA QueueStepIInv ==
  ASSUME IInv, QueueStep PROVE IInv'
<1>1. CASE \E i \in Ids, known \in BOOLEAN, max \in 1 .. MaxAttempts : Enqueue(i, known, max)
  BY <1>1, NextIInv DEF Next
<1>2. CASE \E i \in Ids \ Scheduled : CreatedOk(i) \/ CreatedThrows(i)
  BY <1>2, NextIInv DEF Next
<1>3. CASE \E p \in Procs : Step(p)
  BY <1>3, NextIInv DEF Next
<1> QED
  BY <1>1, <1>2, <1>3 DEF QueueStep

-----------------------------------------------------------------------------
LEMMA TickStepInv ==
  ASSUME SysInv, NEW k \in Ticks, TickStep(k) PROVE SysInv'
<1>1. IInv /\ SchedulerInv
  BY DEF SysInv
<1>2. CASE Tick(k)
  BY <1>1, <1>2, TickInv, QueueFrame DEF SysInv, Tick
<1>3. ASSUME NEW t \in Tasks, Trigger(k, t) PROVE SysInv'
  <2>1. PICK i \in Ids, known \in BOOLEAN : Enqueue(i, known, 1)
    BY <1>3 DEF Trigger
  <2>2. 1 \in 1 .. MaxAttempts
    BY ConstantsAssumption
  <2>3. IInv'
    BY <1>1, <2>1, <2>2, EnqueueIInv
  <2> QED
    BY <1>1, <1>3, <2>3, TriggerInv DEF SysInv
<1>4. CASE TickCreated(k)
  <2>1. CreatedOk(job[k]) /\ job[k] \in Ids
    BY <1>1, <1>4, LiveIds DEF TickCreated, CreatedOk, IInv, TypeOK
  <2>2. IInv'
    BY <1>1, <2>1, CreatedIInv
  <2> QED
    BY <1>1, <1>4, <2>2, GoOnInv DEF SysInv
<1>5. CASE TickTriggered(k) \/ TickEnd(k)
  <2>1. IInv'
    BY <1>1, <1>5, QueueFrame DEF TickTriggered, TickEnd
  <2> QED
    BY <1>1, <1>5, <2>1, GoOnInv DEF SysInv
<1>6. CASE TickThrows(k)
  BY <1>1, <1>6, TickThrowsIInv, SchedulerFrame DEF SysInv, TickThrows
<1> QED
  BY <1>2, <1>3, <1>4, <1>5, <1>6 DEF TickStep

LEMMA SysNextInv == SysInv /\ [SysNext]_allVars => SysInv'
<1> SUFFICES ASSUME SysInv, [SysNext]_allVars PROVE SysInv'
  OBVIOUS
<1>1. IInv /\ SchedulerInv
  BY DEF SysInv
<1>2. CASE QueueStep
  BY <1>1, <1>2, QueueStepIInv, SchedulerFrame DEF SysInv, QueueStep
<1>3. ASSUME NEW k \in Ticks, TickStep(k) PROVE SysInv'
  BY <1>3, TickStepInv
<1>4. CASE Pass
  BY <1>1, <1>4, PassInv, QueueFrame DEF SysInv, Pass
<1>5. CASE Stop
  <2>1. SchedulerInv'
    BY <1>1, <1>5 DEF Stop, SchedulerInv, SchedulerTypeOK, NowIsPast, Spaced, tickVars
  <2> QED
    BY <1>1, <1>5, <2>1, QueueFrame DEF SysInv, Stop
<1>6. CASE SysRestart
  <2>1. SchedulerTypeOK'
    BY <1>6, Intervals, SchedulerAssumption DEF SysRestart, SchedulerTypeOK
  <2>2. NowIsPast'
    BY <1>6 DEF SysRestart, NowIsPast
  <2>3. Spaced'
    BY <1>6, Intervals DEF SysRestart, Spaced
  <2>4. IInv'
    BY <1>6, RestartIInv DEF SysRestart
  <2> QED
    BY <2>1, <2>2, <2>3, <2>4 DEF SysInv, SchedulerInv
<1>7. CASE UNCHANGED allVars
  BY <1>1, <1>7, QueueFrame, SchedulerFrame DEF SysInv, allVars
<1> QED
  BY <1>2, <1>3, <1>4, <1>5, <1>6, <1>7 DEF SysNext

\* Every reachable state of scheduler and queue satisfies the inductive invariant.
THEOREM SysInvariance == SysSpec => []SysInv
<1>1. SysInit => SysInv
  BY InitIInv, FreshScheduler DEF SysInv, SysInit
<1>2. SysInv /\ [SysNext]_allVars => SysInv'
  BY SysNextInv
<1> QED
  BY <1>1, <1>2, PTL DEF SysSpec

\* The variables of the scheduler and of the queue under it keep their types.
THEOREM SysTypeCorrect == SysSpec => []SysTypeOK
<1>1. SysInv => SysTypeOK
  BY DEF SysInv, IInv, SchedulerInv, SchedulerTypeOK, SysTypeOK
<1> QED
  BY <1>1, SysInvariance, PTL

\* However many ticks overlap and however long each is held at its awaits, no
\* task has had more jobs than whole intervals have passed.
THEOREM NoTaskTooOften == SysSpec => []NeverTooOften
<1>1. SysInv => NeverTooOften
  <2> SUFFICES ASSUME SysInv, NEW t \in Tasks PROVE fired[t] * Interval[t] <= clock
    BY DEF NeverTooOften
  <2>1. SchedulerTypeOK /\ Spaced
    BY DEF SysInv, SchedulerInv
  <2>2. fired[t] \in Nat /\ Interval[t] \in Nat /\ next[t] \in Nat /\ clock \in Nat
    BY <2>1, Intervals DEF SchedulerTypeOK
  <2>3. fired[t] * Interval[t] \in Nat
    BY <2>2
  <2>4. fired[t] * Interval[t] + Interval[t] <= clock + Interval[t]
    BY <2>1, <2>2, <2>3 DEF Spaced
  <2> QED
    BY <2>2, <2>3, <2>4
<1> QED
  BY <1>1, SysInvariance, PTL

\* What is proved of the queue alone holds under the scheduler too, whose ticks
\* enqueue jobs and whose rejections end the program between two steps of it.
THEOREM QueueUnderScheduler ==
  SysSpec => [](OneAtATime /\ FirstAttemptsInOrder /\ AuditTrail)
<1>1. SysInv => OneAtATime /\ FirstAttemptsInOrder /\ AuditTrail
  BY DEF SysInv, IInv
<1> QED
  BY <1>1, SysInvariance, PTL

\* Every step of the composition is a step of the queue, the end of the
\* program, or invisible to the queue.
LEMMA SysNextQueue ==
  ASSUME SysInv, [SysNext]_allVars
  PROVE  [Next]_vars \/ ~alive'
<1>1. IInv
  BY DEF SysInv
<1>2. CASE QueueStep
  <2>1. CASE \E i \in Ids, known \in BOOLEAN, max \in 1 .. MaxAttempts : Enqueue(i, known, max)
    BY <2>1 DEF Next
  <2>2. CASE \E i \in Ids \ Scheduled : CreatedOk(i) \/ CreatedThrows(i)
    BY <2>2 DEF Next
  <2>3. CASE \E p \in Procs : Step(p)
    BY <2>3 DEF Next
  <2> QED
    BY <1>2, <2>1, <2>2, <2>3 DEF QueueStep
<1>3. ASSUME NEW k \in Ticks, NEW t \in Tasks, Trigger(k, t) PROVE Next
  <2>1. PICK i \in Ids, known \in BOOLEAN : Enqueue(i, known, 1)
    BY <1>3 DEF Trigger
  <2>2. 1 \in 1 .. MaxAttempts
    BY ConstantsAssumption
  <2> QED
    BY <2>1, <2>2 DEF Next
<1>4. ASSUME NEW k \in Ticks, TickCreated(k) PROVE Next
  <2>1. CreatedOk(job[k]) /\ job[k] \in Ids
    BY <1>1, <1>4, LiveIds DEF TickCreated, CreatedOk, IInv, TypeOK
  <2> QED
    BY <2>1 DEF Next
<1>5. ASSUME NEW k \in Ticks, Tick(k) \/ TickTriggered(k) \/ TickEnd(k) PROVE UNCHANGED vars
  BY <1>5 DEF Tick, TickTriggered, TickEnd
<1>6. ASSUME NEW k \in Ticks, TickThrows(k) PROVE ~alive'
  BY <1>6 DEF TickThrows
<1>7. CASE Pass \/ Stop \/ UNCHANGED allVars
  BY <1>7 DEF Pass, Stop, allVars
<1>8. CASE SysRestart
  BY <1>8 DEF SysRestart, Next
<1> QED
  BY <1>2, <1>3, <1>4, <1>5, <1>6, <1>7, <1>8 DEF SysNext, TickStep

\* A tick whose emit rejects ends the program, which JobLife knows as LoseAll:
\* so the queue gives every job its promised life under the scheduler as well.
THEOREM LifeUnderScheduler == SysSpec => JobsLive
<1>1. SysInit => Life!Init
  BY InitLife DEF SysInit
<1>2. SysInv /\ SysInv' /\ [SysNext]_allVars => [Life!Next]_Life!lifeVars
  BY SysNextQueue, NextLife, AllLost DEF SysInv, Life!Next
<1> QED
  BY <1>1, <1>2, SysInvariance, PTL DEF SysSpec, JobsLive, Life!Spec
=============================================================================
