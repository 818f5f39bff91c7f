-------------------------- MODULE ReportScheduler ---------------------------
(***************************************************************************)
(* Periodic Telegram reports (modules/report/report-scheduler.service.ts,  *)
(* report.service.ts, report.store.ts): a timer that delivers the due      *)
(* schedules, beside edits, deletions, manual sends and the end of the     *)
(* program.                                                                *)
(*                                                                         *)
(* Time is counted in units of 30 seconds, the period of the timer.  A     *)
(* delivery is cut in two: the message reaches Telegram, then the program  *)
(* goes on.  What a message says, and the devices of a schedule after the  *)
(* first, are left out.                                                    *)
(***************************************************************************)
EXTENDS Naturals, FiniteSets

CONSTANTS
  Schedules,  \* identifiers of schedules
  Periods,    \* the values of intervalMinutes asked for, in units
  MaxTime,    \* bound: units that pass
  MaxSaves,   \* bound: schedules saved
  MaxMishaps  \* bound: failed writes and reads, ends of the program

VARIABLES
  schedules,  \* ReportStore.schedules
  file,       \* reports.json
  clock,      \* Date.now()
  inFlight,   \* the round of the timer is under way
  active,     \* activeScheduleIds
  sending,    \* schedule -> kind -> its delivery: where it is, and dueAt
  saves,      \* schedules saved so far, for the bound
  mishaps,    \* mishaps so far, for the bound
  first,      \* history: nextRunAt when the schedule was last saved
  served,     \* history: messages the timer sent since
  slip,       \* history: how late they were sent, summed up
  disturbed   \* history: the accounts since are open to doubt

rsVars == <<schedules, file, clock, inFlight, active, sending, saves, mishaps,
            first, served, slip, disturbed>>
accounts == <<first, served, slip, disturbed>>

Kinds == {"timer", "manual"}
NoSchedule == [there |-> FALSE, on |-> FALSE, every |-> 1, next |-> 0]
NotSending == [pc |-> "idle", at |-> 0]

Init ==
  /\ schedules = [s \in Schedules |-> NoSchedule]
  /\ file = [s \in Schedules |-> NoSchedule]
  /\ clock = 1
  /\ inFlight = FALSE
  /\ active = {}
  /\ sending = [s \in Schedules |-> [k \in Kinds |-> NotSending]]
  /\ saves = 0 /\ mishaps = 0
  /\ first = [s \in Schedules |-> 0]
  /\ served = [s \in Schedules |-> 0]
  /\ slip = [s \in Schedules |-> 0]
  /\ disturbed = [s \in Schedules |-> FALSE]

Mishap == mishaps < MaxMishaps /\ mishaps' = mishaps + 1

Elapse ==
  /\ clock < MaxTime
  /\ clock' = clock + 1
  /\ UNCHANGED <<schedules, file, inFlight, active, sending, saves, mishaps, accounts>>

-----------------------------------------------------------------------------
(* ReportStore                                                             *)

\* persist() writes everything, or throws with the new state in memory.
Persisted == file' = schedules' /\ UNCHANGED mishaps

\* A start in the future is kept, and one at most a unit old; an older one is
\* moved on by whole periods.
NextReportRun(start, every, now) ==
  IF start + 1 >= now THEN start
  ELSE start + ((now - start + every - 1) \div every) * every

Begins(s, n) ==
  /\ first' = [first EXCEPT ![s] = n]
  /\ served' = [served EXCEPT ![s] = 0]
  /\ slip' = [slip EXCEPT ![s] = 0]

\* saveSchedule().  An edit while the timer's delivery is under way is undone
\* in part by the markRun() that follows.
Save(s, on, start, every) ==
  LET n == IF on THEN NextReportRun(start, every, clock) ELSE 0 IN
  /\ saves < MaxSaves
  /\ saves' = saves + 1
  /\ schedules' = [schedules EXCEPT ![s] = [there |-> TRUE, on |-> on, every |-> every, next |-> n]]
  /\ Persisted \/ (Mishap /\ UNCHANGED file)
  /\ Begins(s, n)
  /\ disturbed' = [disturbed EXCEPT ![s] = sending[s]["timer"].pc # "idle" \/ file' # schedules']
  /\ UNCHANGED <<clock, inFlight, active, sending>>

Delete(s) ==
  /\ schedules[s].there
  /\ schedules' = [schedules EXCEPT ![s] = NoSchedule]
  /\ Persisted \/ (Mishap /\ UNCHANGED file)
  /\ disturbed' = [t \in Schedules |-> disturbed[t] \/ file' # schedules']
  /\ UNCHANGED <<clock, inFlight, active, sending, saves, first, served, slip>>

Due(s) == schedules[s].on /\ schedules[s].next <= clock

\* Mutant: the next run is counted from the end of the delivery.
MarkRun_AtEnd(s, at) ==
  IF ~schedules[s].there THEN UNCHANGED schedules
  ELSE schedules' = [schedules EXCEPT ![s].next =
         IF schedules[s].on THEN clock + schedules[s].every ELSE 0]

MarkRun(s, at) ==
  IF ~schedules[s].there THEN UNCHANGED schedules
  ELSE schedules' = [schedules EXCEPT ![s].next =
         IF schedules[s].on THEN at + schedules[s].every ELSE 0]

-----------------------------------------------------------------------------
(* ReportService                                                           *)

Send(s, k, r) == sending' = [sending EXCEPT ![s][k] = r]

\* runDue(), called by the timer while no round is in flight.  A schedule that
\* is being sent answers 409 and stays due; allSettled() waits for the others.
Tick ==
  LET D == {s \in Schedules : Due(s) /\ s \notin active} IN
  /\ ~inFlight
  /\ D # {}
  /\ inFlight' = TRUE
  /\ active' = active \cup D
  /\ sending' = [s \in Schedules |->
       IF s \in D THEN [sending[s] EXCEPT !["timer"] = [pc |-> "deliver", at |-> clock]] ELSE sending[s]]
  /\ UNCHANGED <<schedules, file, clock, saves, mishaps, accounts>>

\* Mutant: a manual send does not look at the deliveries under way.
SendNow_Unguarded(s) ==
  /\ schedules[s].there /\ sending[s]["manual"].pc = "idle"
  /\ active' = active \cup {s}
  /\ Send(s, "manual", [pc |-> "deliver", at |-> clock])
  /\ UNCHANGED <<schedules, file, clock, inFlight, saves, mishaps, accounts>>

\* sendScheduleNow(): refused while the schedule is being sent.
SendNow(s) ==
  /\ schedules[s].there
  /\ s \notin active
  /\ active' = active \cup {s}
  /\ Send(s, "manual", [pc |-> "deliver", at |-> clock])
  /\ UNCHANGED <<schedules, file, clock, inFlight, saves, mishaps, accounts>>

\* The message reaches Telegram, or is refused there; both are a delivery.
Deliver(s, k) ==
  /\ sending[s][k].pc = "deliver"
  /\ Send(s, k, [sending[s][k] EXCEPT !.pc = "sent"])
  /\ IF k = "timer"
     THEN /\ served' = [served EXCEPT ![s] = @ + 1]
          /\ slip' = IF Due(s) THEN [slip EXCEPT ![s] = @ + sending[s][k].at - schedules[s].next] ELSE slip
     ELSE UNCHANGED <<served, slip>>
  /\ UNCHANGED <<schedules, file, clock, inFlight, active, saves, mishaps, first, disturbed>>

\* The delivery of s is over: the identifier is given back, and the round ends
\* with its last delivery.
Settled(s, k) ==
  /\ active' = active \ {s}
  /\ Send(s, k, NotSending)
  /\ inFlight' = (inFlight /\ \E t \in Schedules : sending'[t]["timer"].pc # "idle")

\* Mutant: a manual send counts as the run of the period.
End_MarksManual(s, k) ==
  /\ sending[s][k].pc = "sent"
  /\ Settled(s, k)
  /\ MarkRun(s, sending[s][k].at)
  /\ Persisted
  /\ UNCHANGED <<clock, saves, accounts>>

\* The history is written; the timer's delivery is marked, the manual one not.
\* When markRun() cannot write, memory alone is ahead.
End(s, k) ==
  /\ sending[s][k].pc = "sent"
  /\ Settled(s, k)
  /\ IF k = "timer" THEN MarkRun(s, sending[s][k].at) ELSE UNCHANGED schedules
  /\ \/ Persisted /\ UNCHANGED disturbed
     \/ /\ Mishap /\ UNCHANGED file
        /\ disturbed' = [t \in Schedules |-> disturbed[t] \/ file # schedules']
  /\ UNCHANGED <<clock, saves, first, served, slip>>

\* The list of devices cannot be read, or the history cannot be written (twice:
\* addHistory() of the catch block throws again): no run is marked, and what
\* was sent is sent again.
Throws(s, k) ==
  /\ Mishap
  /\ sending[s][k].pc # "idle"
  /\ Settled(s, k)
  /\ disturbed' = [disturbed EXCEPT ![s] = @ \/ (k = "timer" /\ sending[s][k].pc = "sent")]
  /\ UNCHANGED <<schedules, file, clock, saves, first, served, slip>>

\* The program ends, wherever it is, and reads reports.json again.
Restart ==
  /\ Mishap
  /\ schedules' = file
  /\ inFlight' = FALSE
  /\ active' = {}
  /\ sending' = [s \in Schedules |-> [k \in Kinds |-> NotSending]]
  /\ disturbed' = [s \in Schedules |-> disturbed[s] \/ sending[s]["timer"].pc = "sent"]
  /\ UNCHANGED <<file, clock, saves, first, served, slip>>

Next ==
  \/ Elapse
  \/ \E s \in Schedules, on \in BOOLEAN, start \in 1 .. MaxTime, every \in Periods : Save(s, on, start, every)
  \/ \E s \in Schedules : Delete(s) \/ SendNow(s)
  \/ Tick
  \/ \E s \in Schedules, k \in Kinds : Deliver(s, k) \/ End(s, k) \/ Throws(s, k)
  \/ Restart

Spec == Init /\ [][Next]_rsVars

-----------------------------------------------------------------------------
TypeOK ==
  /\ \A s \in Schedules :
       /\ schedules[s].every \in Periods \cup {1} /\ schedules[s].next \in Nat
       /\ ~schedules[s].there => ~schedules[s].on
       /\ \A k \in Kinds : sending[s][k].pc \in {"idle", "deliver", "sent"}
  /\ clock \in 1 .. MaxTime
  /\ inFlight = (\E s \in Schedules : sending[s]["timer"].pc # "idle")
  /\ active \subseteq Schedules
  /\ saves \in 0 .. MaxSaves /\ mishaps \in 0 .. MaxMishaps

\* The timer serves each period of a schedule once: what it sent since the
\* schedule was saved and the run it waits for differ by whole periods, and by
\* nothing but the lateness of the rounds that sent it; and a schedule is never
\* sent twice at the same time.  Manual sends, deliveries longer than a period
\* and a 409 met by the round change none of this ("Send now" does not shift
\* the configured cycle, report.service.ts:344).  Left out: a schedule saved
\* while the timer sends it, and a program or a disk that fails between the
\* message and markRun().
EachPeriodOnce ==
  \A s \in Schedules :
    /\ \E k \in Kinds : sending[s][k].pc = "idle"
    /\ schedules[s].on /\ ~disturbed[s] /\ sending[s]["timer"].pc = "idle" =>
         schedules[s].next = first[s] + served[s] * schedules[s].every + slip[s]
=============================================================================
