------------------------------ MODULE JobQueue ------------------------------
(***************************************************************************)
(* The in-memory job queue of the server (core/jobs/job-queue.ts) and the  *)
(* listeners it awaits through the core event bus (core/events/            *)
(* event-bus.ts).  Every `await' of the code is a point where another      *)
(* actor may run, so an operation is one action per stretch of code        *)
(* between two awaits.                                                     *)
(*                                                                         *)
(* A job is named by its place in the insertion order of the `jobs' Map.   *)
(* A process() activation that rejects rejects a promise nobody handles    *)
(* (`void this.process()'), which ends the Node process: the Map is lost   *)
(* and the service manager starts the program again.                       *)
(***************************************************************************)
EXTENDS Naturals, FiniteSets

CONSTANTS
  MaxJobs,      \* bound: jobs created in one life of the program
  MaxAttempts,  \* the largest maxAttempts a caller asks for (the callers: 2)
  Procs         \* process() activations that may be live together

ASSUME ConstantsAssumption ==
  /\ MaxJobs \in Nat \ {0}
  /\ MaxAttempts \in Nat \ {0}

VARIABLES
  alive,        \* the program runs
  size,         \* number of jobs in the Map
  handled,      \* job -> whether a handler is registered for its type
  limit,        \* job -> maxAttempts
  status,       \* job -> JobStatus
  attempts,     \* job -> attempts
  creating,     \* jobs whose enqueue() awaits the job.created listeners
  kicks,        \* queued microtasks that will call process()
  running,      \* the `running' flag
  pc,           \* activation -> where it is
  at,           \* activation -> the job its iteration is at
  row           \* job -> event -> rows its listeners wrote to the database

queueVars == <<size, handled, limit, status, attempts>>
procVars == <<running, pc, at>>
vars == <<alive, queueVars, creating, kicks, procVars, row>>

Ids == 1 .. MaxJobs
Live == 1 .. size
Status == {"pending", "running", "completed", "failed"}
\* "alert" is the row the alert module writes for job.failed, after the audit
\* module's row "failed".
Event == {"created", "started", "completed", "retry", "failed", "alert"}
\* "idle": not called.  "scan": at the head of the loop over the Map.
\* "handler": awaiting the job's handler.  The others: awaiting the listener
\* that writes the row of that name.
Busy == {"scan", "handler", "started", "completed", "retry", "failed", "alert"}
Pc == Busy \cup {"idle"}

NoRows == [e \in Event |-> 0]

Init ==
  /\ alive = TRUE
  /\ size = 0
  /\ handled = [i \in Ids |-> FALSE]
  /\ limit = [i \in Ids |-> 1]
  /\ status = [i \in Ids |-> "pending"]
  /\ attempts = [i \in Ids |-> 0]
  /\ creating = {}
  /\ kicks = 0
  /\ running = FALSE
  /\ pc = [p \in Procs |-> "idle"]
  /\ at = [p \in Procs |-> 0]
  /\ row = [i \in Ids |-> NoRows]

Write(i, e) == row' = [row EXCEPT ![i][e] = @ + 1]

-----------------------------------------------------------------------------
(* enqueue()                                                               *)

\* The synchronous part: the job enters the Map, then job.created is emitted.
Enqueue(i, known, max) ==
  /\ alive
  /\ i = size + 1
  /\ size' = i
  /\ handled' = [handled EXCEPT ![i] = known]
  /\ limit' = [limit EXCEPT ![i] = max]
  /\ creating' = creating \cup {i}
  /\ UNCHANGED <<alive, status, attempts, kicks, procVars, row>>

\* The audit row is written: enqueue() queues the microtask and returns.
CreatedOk(i) ==
  /\ alive
  /\ i \in creating
  /\ creating' = creating \ {i}
  /\ kicks' = kicks + 1
  /\ Write(i, "created")
  /\ UNCHANGED <<alive, queueVars, procVars>>

\* The listener rejects: so does enqueue(), and the route answers an error.
\* The job stays in the Map and no microtask is queued.
CreatedThrows(i) ==
  /\ alive
  /\ i \in creating
  /\ creating' = creating \ {i}
  /\ UNCHANGED <<alive, queueVars, kicks, procVars, row>>

-----------------------------------------------------------------------------
(* process() and runJob()                                                  *)

Goto(p, l) == pc' = [pc EXCEPT ![p] = l]

\* Mutant: process() without the `running' guard.
Process_Unguarded(p) ==
  /\ alive
  /\ kicks > 0
  /\ pc[p] = "idle"
  /\ kicks' = kicks - 1
  /\ running' = TRUE
  /\ Goto(p, "scan")
  /\ at' = [at EXCEPT ![p] = 0]
  /\ UNCHANGED <<alive, queueVars, creating, row>>

\* Mutant: a scan goes on where the last one of the activation ended.
Process_GoesOn(p) ==
  /\ alive
  /\ kicks > 0
  /\ pc[p] = "idle"
  /\ kicks' = kicks - 1
  /\ IF running THEN UNCHANGED procVars ELSE running' = TRUE /\ Goto(p, "scan") /\ UNCHANGED at
  /\ UNCHANGED <<alive, queueVars, creating, row>>

\* The microtask calls process(), which returns at once when one is running.
Process(p) ==
  /\ alive
  /\ kicks > 0
  /\ pc[p] = "idle"
  /\ kicks' = kicks - 1
  /\ IF running
     THEN UNCHANGED procVars
     ELSE /\ running' = TRUE
          /\ Goto(p, "scan")
          /\ at' = [at EXCEPT ![p] = 0]
  /\ UNCHANGED <<alive, queueVars, creating, row>>

\* Mutant: the scan does not skip the jobs that are no longer pending.
Ahead_AnyStatus(p) == {i \in Live : at[p] < i}

\* What the live iterator of the Map still has to visit; jobs enqueued during
\* the iteration are among them.
Ahead(p) == {i \in Live : at[p] < i /\ status[i] = "pending"}

\* Mutant: the scan takes the newest job first, the order list() answers in.
Take_Newest(p, i) ==
  /\ alive
  /\ pc[p] = "scan"
  /\ i \in Ahead(p)
  /\ \A j \in Ahead(p) : j <= i
  /\ handled[i]
  /\ status' = [status EXCEPT ![i] = "running"]
  /\ attempts' = [attempts EXCEPT ![i] = @ + 1]
  /\ Goto(p, "started")
  /\ at' = [at EXCEPT ![p] = i]
  /\ UNCHANGED <<alive, size, handled, limit, creating, kicks, running, row>>

\* The iteration reaches the next pending job, up to runJob's first await.
Take(p, i) ==
  /\ alive
  /\ pc[p] = "scan"
  /\ i \in Ahead(p)
  /\ \A j \in Ahead(p) : i <= j
  /\ at' = [at EXCEPT ![p] = i]
  /\ \/ /\ handled[i]
        /\ status' = [status EXCEPT ![i] = "running"]
        /\ attempts' = [attempts EXCEPT ![i] = @ + 1]
        /\ Goto(p, "started")
     \/ /\ ~handled[i]
        /\ status' = [status EXCEPT ![i] = "failed"]
        /\ Goto(p, "failed")
        /\ UNCHANGED attempts
  /\ UNCHANGED <<alive, size, handled, limit, creating, kicks, running, row>>

\* Mutant: the flag is not cleared when the scan ends.
Finish_NoFinally(p) ==
  /\ alive
  /\ pc[p] = "scan"
  /\ Ahead(p) = {}
  /\ Goto(p, "idle")
  /\ UNCHANGED <<alive, queueVars, creating, kicks, running, at, row>>

\* The iterator is exhausted: the finally block clears the flag.
Finish(p) ==
  /\ alive
  /\ pc[p] = "scan"
  /\ Ahead(p) = {}
  /\ running' = FALSE
  /\ Goto(p, "idle")
  /\ UNCHANGED <<alive, queueVars, creating, kicks, at, row>>

StartedOk(p) ==
  /\ alive
  /\ pc[p] = "started"
  /\ Write(at[p], "started")
  /\ Goto(p, "handler")
  /\ UNCHANGED <<alive, queueVars, creating, kicks, running, at>>

HandlerOk(p) ==
  /\ alive
  /\ pc[p] = "handler"
  /\ status' = [status EXCEPT ![at[p]] = "completed"]
  /\ Goto(p, "completed")
  /\ UNCHANGED <<alive, size, handled, limit, attempts, creating, kicks, running, at, row>>

CompletedOk(p) ==
  /\ alive
  /\ pc[p] = "completed"
  /\ Write(at[p], "completed")
  /\ Goto(p, "scan")
  /\ UNCHANGED <<alive, queueVars, creating, kicks, running, at>>

\* Mutant: the attempts are compared with <=.
Catch_OneMore(p) ==
  /\ alive
  /\ pc[p] \in {"handler", "completed"}
  /\ IF attempts[at[p]] <= limit[at[p]]
     THEN status' = [status EXCEPT ![at[p]] = "pending"] /\ Goto(p, "retry")
     ELSE status' = [status EXCEPT ![at[p]] = "failed"] /\ Goto(p, "failed")
  /\ UNCHANGED <<alive, size, handled, limit, attempts, creating, kicks, running, at, row>>

\* Mutant: the retry branch does not count the attempt that was made.
Catch_Forgets(p) ==
  /\ alive
  /\ pc[p] \in {"handler", "completed"}
  /\ IF attempts[at[p]] < limit[at[p]]
     THEN /\ status' = [status EXCEPT ![at[p]] = "pending"]
          /\ attempts' = [attempts EXCEPT ![at[p]] = 0]
          /\ Goto(p, "retry")
     ELSE /\ status' = [status EXCEPT ![at[p]] = "failed"]
          /\ Goto(p, "failed")
          /\ UNCHANGED attempts
  /\ UNCHANGED <<alive, size, handled, limit, creating, kicks, running, at, row>>

\* The catch block, for a rejected handler and for a rejected job.completed
\* listener alike: that emit is inside the try.
Catch(p) ==
  /\ alive
  /\ pc[p] \in {"handler", "completed"}
  /\ IF attempts[at[p]] < limit[at[p]]
     THEN /\ status' = [status EXCEPT ![at[p]] = "pending"]
          /\ Goto(p, "retry")
     ELSE /\ status' = [status EXCEPT ![at[p]] = "failed"]
          /\ Goto(p, "failed")
  /\ UNCHANGED <<alive, size, handled, limit, attempts, creating, kicks, running, at, row>>

RetryOk(p) ==
  /\ alive
  /\ pc[p] = "retry"
  /\ Write(at[p], "retry")
  /\ Goto(p, "scan")
  /\ UNCHANGED <<alive, queueVars, creating, kicks, running, at>>

\* job.failed has two listeners, awaited in the order of their registration.
FailedOk(p) ==
  /\ alive
  /\ pc[p] = "failed"
  /\ Write(at[p], "failed")
  /\ Goto(p, "alert")
  /\ UNCHANGED <<alive, queueVars, creating, kicks, running, at>>

AlertOk(p) ==
  /\ alive
  /\ pc[p] = "alert"
  /\ Write(at[p], "alert")
  /\ Goto(p, "scan")
  /\ UNCHANGED <<alive, queueVars, creating, kicks, running, at>>

\* A listener awaited outside the try rejects: process() clears the flag and
\* rejects, and the unhandled rejection ends the program.
ProcessThrows(p) ==
  /\ alive
  /\ pc[p] \in {"started", "retry", "failed", "alert"}
  /\ alive' = FALSE
  /\ running' = FALSE
  /\ Goto(p, "idle")
  /\ UNCHANGED <<queueVars, creating, kicks, at, row>>

\* The service manager starts the program again.  Nothing of the queue was
\* stored; the rows of the old jobs name identifiers that never come back.
Restart ==
  /\ ~alive
  /\ alive' = TRUE
  /\ size' = 0
  /\ handled' = [i \in Ids |-> FALSE]
  /\ limit' = [i \in Ids |-> 1]
  /\ status' = [i \in Ids |-> "pending"]
  /\ attempts' = [i \in Ids |-> 0]
  /\ creating' = {}
  /\ kicks' = 0
  /\ running' = FALSE
  /\ pc' = [p \in Procs |-> "idle"]
  /\ at' = [p \in Procs |-> 0]
  /\ row' = [i \in Ids |-> NoRows]

Step(p) ==
  \/ Process(p)
  \/ \E i \in Ids : Take(p, i)
  \/ Finish(p)
  \/ StartedOk(p)
  \/ HandlerOk(p)
  \/ CompletedOk(p)
  \/ Catch(p)
  \/ RetryOk(p)
  \/ FailedOk(p)
  \/ AlertOk(p)
  \/ ProcessThrows(p)

Next ==
  \/ \E i \in Ids, known \in BOOLEAN, max \in 1 .. MaxAttempts : Enqueue(i, known, max)
  \/ \E i \in Ids : CreatedOk(i) \/ CreatedThrows(i)
  \/ \E p \in Procs : Step(p)
  \/ Restart

Spec == Init /\ [][Next]_vars

\* The event loop runs every queued microtask and resumes every activation;
\* handlers and listeners settle, one way or the other.
FairSpec == Spec /\ \A p \in Procs : WF_vars(Step(p))

-----------------------------------------------------------------------------
TypeOK ==
  /\ alive \in BOOLEAN
  /\ size \in 0 .. MaxJobs
  /\ handled \in [Ids -> BOOLEAN]
  /\ limit \in [Ids -> 1 .. MaxAttempts]
  /\ status \in [Ids -> Status]
  /\ attempts \in [Ids -> 0 .. MaxAttempts]
  /\ creating \subseteq Live
  /\ kicks \in Nat
  /\ running \in BOOLEAN
  /\ pc \in [Procs -> Pc]
  /\ at \in [Procs -> 0 .. MaxJobs]
  /\ row \in [Ids -> [Event -> Nat]]

\* The activation that has job i in hand, inside runJob.
Holds(p, i) == pc[p] \in Busy \ {"scan"} /\ at[p] = i

\* However many microtasks were queued, one process() activation at most is
\* past the flag, so two handlers never run together (the `running' guard).
OneAtATime ==
  \A p, q \in Procs : pc[p] # "idle" /\ pc[q] # "idle" => p = q

\* First attempts follow the order of the enqueue() calls: a job that has left
\* the initial state was preceded by every job enqueued before it, whatever
\* was retried, enqueued during a scan, or refused by a listener.
FirstAttemptsInOrder ==
  \A i, j \in Live :
    i < j /\ (attempts[j] > 0 \/ status[j] = "failed")
      => attempts[i] > 0 \/ status[i] = "failed"

\* The audit trail explains every job no activation has in hand: it is not left
\* running; each attempt has its row; a pending job was retried after each attempt; a completed one
\* has exactly one completion and was retried after every earlier attempt; a
\* failed one has exactly one failure, one alert, and used all its attempts
\* unless no handler was registered for it.
Explained(known, max, st, n, r) ==
  /\ st # "running"
  /\ r["started"] = n
  /\ ~known => n = 0
  /\ st = "pending" =>
       /\ r["retry"] = n /\ n < max
       /\ r["completed"] = 0 /\ r["failed"] = 0 /\ r["alert"] = 0
  /\ st = "completed" =>
       /\ r["retry"] + 1 = n /\ n <= max
       /\ r["completed"] = 1 /\ r["failed"] = 0 /\ r["alert"] = 0
  /\ st = "failed" =>
       /\ r["completed"] = 0 /\ r["failed"] = 1 /\ r["alert"] = 1
       /\ IF known THEN n = max /\ r["retry"] + 1 = n ELSE r["retry"] = 0

Trail(i) == Explained(handled[i], limit[i], status[i], attempts[i], row[i])

AuditTrail ==
  \A i \in Live : alive /\ (\A p \in Procs : ~Holds(p, i)) => Trail(i)

\* How a job looks from outside: a completion counts when its row is written,
\* for job.completed is emitted inside the try and a listener that rejects puts
\* the job back; a failure is told when the alert is.
StageOf(i) ==
  CASE ~alive \/ i \notin Live -> "absent"
    [] alive /\ i \in Live /\ status[i] = "pending" -> "waiting"
    [] alive /\ i \in Live /\ status[i] = "running" -> "tried"
    [] alive /\ i \in Live /\ status[i] = "completed" ->
         IF row[i]["completed"] > 0 THEN "completed" ELSE "tried"
    [] alive /\ i \in Live /\ status[i] = "failed" ->
         IF row[i]["alert"] > 0 THEN "failed" ELSE "failing"

Known(i) == StageOf(i) # "absent"

Life == INSTANCE JobLife WITH
  stage <- [i \in Ids |-> StageOf(i)],
  tries <- [i \in Ids |-> IF Known(i) THEN attempts[i] ELSE 0],
  allowed <- [i \in Ids |-> IF Known(i) THEN limit[i] ELSE 1]

\* The queue implements the life promised to every job, whatever the listeners,
\* the handlers, the scans of other jobs and restarts do: no job is tried
\* again once its completion was recorded, retried beyond its attempts, failed
\* before they are used up, or tried while another one is.
JobsLive == Life!Spec

\* No job is forgotten.  Once enqueue() has returned, the job gets its first
\* attempt (or fails for want of a handler), even when its microtask found an
\* activation running; and a job put back to pending, which lies behind the
\* iteration that retried it, is tried again by a microtask that starts a scan
\* of its own.  In both cases unless the program ends.
NoJobForgotten ==
  \A i \in Ids :
    /\ (i \in Live /\ row[i]["created"] > 0)
         ~> (~alive \/ attempts[i] > 0 \/ status[i] = "failed")
    /\ \A k \in 1 .. MaxAttempts :
         (i \in Live /\ status[i] = "pending" /\ attempts[i] = k /\ ~running /\ kicks > 0)
           ~> (~alive \/ attempts[i] > k)
=============================================================================
