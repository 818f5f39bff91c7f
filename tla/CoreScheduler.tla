--------------------------- MODULE CoreScheduler ---------------------------
(***************************************************************************)
(* The interval scheduler (core/scheduler/scheduler.ts) composed with the  *)
(* job queue it feeds.  setInterval starts a tick every second whether or  *)
(* not the previous one has ended; a tick awaits, for each due task, the   *)
(* enqueue() of a job and then the schedule.triggered listeners.           *)
(*                                                                         *)
(* Tasks are named by their place in the `tasks' Map.  Time is counted in  *)
(* timer periods from the start of the program.                            *)
(***************************************************************************)
EXTENDS JobQueue, Sequences

CONSTANTS
  Interval,     \* task -> intervalMs, in timer periods
  Enabled,      \* the tasks registered with enabled = true
  Ticks,        \* ticks that may be live together
  MaxClock      \* bound: timer periods in one life of the program

Tasks == DOMAIN Interval

ASSUME SchedulerAssumption ==
  /\ Interval \in Seq(Nat \ {0})
  /\ Enabled \subseteq Tasks
  /\ MaxClock \in Nat

VARIABLES
  clock,        \* Date.now()
  timer,        \* the interval timer is set
  next,         \* task -> nextRunAt
  tpc,          \* tick -> where it is
  now,          \* tick -> the time it read when it started
  task,         \* tick -> the task its iteration is at
  job,          \* tick -> the job it created last
  fired         \* task -> jobs created for it (history)

tickVars == <<tpc, now, task, job>>
schedulerVars == <<clock, timer, next, tickVars, fired>>
allVars == <<vars, schedulerVars>>

\* scheduler.module.ts registers the tasks and starts the timer at load.
SchedulerInit ==
  /\ clock = 0
  /\ timer = TRUE
  /\ next = [t \in Tasks |-> Interval[t]]
  /\ tpc = [k \in Ticks |-> "idle"]
  /\ now = [k \in Ticks |-> 0]
  /\ task = [k \in Ticks |-> 0]
  /\ job = [k \in Ticks |-> 0]
  /\ fired = [t \in Tasks |-> 0]

SysInit == Init /\ SchedulerInit

-----------------------------------------------------------------------------
Pass ==
  /\ alive
  /\ clock < MaxClock
  /\ clock' = clock + 1
  /\ UNCHANGED <<vars, timer, next, tickVars, fired>>

\* shutdown(): clears the timer; ticks under way go on.
Stop ==
  /\ alive
  /\ timer
  /\ timer' = FALSE
  /\ UNCHANGED <<vars, clock, next, tickVars, fired>>

Tick(k) ==
  /\ alive
  /\ timer
  /\ tpc[k] = "idle"
  /\ tpc' = [tpc EXCEPT ![k] = "loop"]
  /\ now' = [now EXCEPT ![k] = clock]
  /\ task' = [task EXCEPT ![k] = 0]
  /\ UNCHANGED <<vars, clock, timer, next, job, fired>>

\* Mutant: the iteration skips the first task.
DueAhead_SkipsFirst(k) == {t \in Enabled : task[k] + 1 < t /\ next[t] <= now[k]}

\* The tasks the iteration will not skip, by the time the tick started with.
DueAhead(k) == {t \in Enabled : task[k] < t /\ next[t] <= now[k]}

\* Mutant: the interval is not added.
Reschedule_Now(k, t) == next' = [next EXCEPT ![t] = now[k]]

Reschedule(k, t) == next' = [next EXCEPT ![t] = now[k] + Interval[t]]

\* nextRunAt is moved before the first await, then the job is created.
Trigger(k, t) ==
  /\ alive
  /\ tpc[k] = "loop"
  /\ t \in DueAhead(k)
  /\ \A u \in DueAhead(k) : t <= u
  /\ task' = [task EXCEPT ![k] = t]
  /\ Reschedule(k, t)
  /\ \E i \in Ids, known \in BOOLEAN :
       /\ Enqueue(i, known, 1)
       /\ job' = [job EXCEPT ![k] = i]
  /\ tpc' = [tpc EXCEPT ![k] = "creating"]
  /\ fired' = [fired EXCEPT ![t] = @ + 1]
  /\ UNCHANGED <<clock, timer, now>>

TickCreated(k) ==
  /\ tpc[k] = "creating"
  /\ CreatedOk(job[k])
  /\ tpc' = [tpc EXCEPT ![k] = "triggered"]
  /\ UNCHANGED <<clock, timer, next, now, task, job, fired>>

TickTriggered(k) ==
  /\ alive
  /\ tpc[k] = "triggered"
  /\ tpc' = [tpc EXCEPT ![k] = "loop"]
  /\ UNCHANGED <<vars, clock, timer, next, now, task, job, fired>>

TickEnd(k) ==
  /\ alive
  /\ tpc[k] = "loop"
  /\ DueAhead(k) = {}
  /\ tpc' = [tpc EXCEPT ![k] = "idle"]
  /\ UNCHANGED <<vars, clock, timer, next, now, task, job, fired>>

\* A listener of job.created or schedule.triggered rejects: so does tick(),
\* whose promise nobody handles, and the program ends.
TickThrows(k) ==
  /\ alive
  /\ tpc[k] \in {"creating", "triggered"}
  /\ alive' = FALSE
  /\ UNCHANGED <<queueVars, creating, kicks, procVars, row, schedulerVars>>

TickStep(k) ==
  \/ Tick(k)
  \/ \E t \in Tasks : Trigger(k, t)
  \/ TickCreated(k)
  \/ TickTriggered(k)
  \/ TickEnd(k)
  \/ TickThrows(k)

\* Jobs of ticks; the others are created by routes.
Scheduled == {job[k] : k \in {j \in Ticks : tpc[j] = "creating"}}

QueueStep ==
  /\ \/ \E i \in Ids, known \in BOOLEAN, max \in 1 .. MaxAttempts : Enqueue(i, known, max)
     \/ \E i \in Ids \ Scheduled : CreatedOk(i) \/ CreatedThrows(i)
     \/ \E p \in Procs : Step(p)
  /\ UNCHANGED schedulerVars

SysRestart ==
  /\ Restart
  /\ clock' = 0
  /\ timer' = TRUE
  /\ next' = [t \in Tasks |-> Interval[t]]
  /\ tpc' = [k \in Ticks |-> "idle"]
  /\ now' = [k \in Ticks |-> 0]
  /\ task' = [k \in Ticks |-> 0]
  /\ job' = [k \in Ticks |-> 0]
  /\ fired' = [t \in Tasks |-> 0]

SysNext ==
  \/ QueueStep
  \/ \E k \in Ticks : TickStep(k)
  \/ Pass
  \/ Stop
  \/ SysRestart

SysSpec == SysInit /\ [][SysNext]_allVars

\* The timer fires, ticks are resumed, the queue's event loop runs.
FairSysSpec ==
  /\ SysSpec
  /\ \A k \in Ticks : WF_allVars(TickStep(k))
  /\ \A p \in Procs : WF_allVars(Step(p) /\ UNCHANGED schedulerVars)

-----------------------------------------------------------------------------
SysTypeOK ==
  /\ TypeOK
  /\ clock \in 0 .. MaxClock
  /\ timer \in BOOLEAN
  /\ next \in [Tasks -> Nat]
  /\ tpc \in [Ticks -> {"idle", "loop", "creating", "triggered"}]
  /\ now \in [Ticks -> 0 .. MaxClock]
  /\ task \in [Ticks -> Tasks \cup {0}]
  /\ job \in [Ticks -> Ids \cup {0}]
  /\ fired \in [Tasks -> Nat]

\* Ticks overlap, and one may be held at an await for many periods, yet no due
\* period of a task creates two jobs: n jobs need n intervals of time, because
\* nextRunAt moves before the first await of the tick that saw it due.
NeverTooOften ==
  \A t \in Tasks : fired[t] * Interval[t] <= clock

\* A due task is triggered, however the ticks overlap, unless the scheduler is
\* stopped, the program ends or the bound on jobs is reached.
DueTaskIsTriggered ==
  \A t \in Enabled : \A n \in 0 .. MaxJobs :
    (fired[t] = n /\ next[t] <= clock)
      ~> (fired[t] > n \/ ~timer \/ ~alive \/ size = MaxJobs)
=============================================================================
