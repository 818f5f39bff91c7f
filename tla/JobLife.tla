------------------------------ MODULE JobLife ------------------------------
(***************************************************************************)
(* What the job queue promises to those who enqueue jobs: JobStatus of     *)
(* core/jobs/job.types.ts, with the loop, the listeners and the audit rows *)
(* of job-queue.ts left aside.                                             *)
(*                                                                         *)
(* A job is settled once, by a recorded completion or by a failure an      *)
(* alert tells of.  A failure comes after exactly as many attempts as were *)
(* asked for, or after none when nobody can run the job.  One job is tried *)
(* at a time.  The end of the program loses all jobs, settled or not.      *)
(***************************************************************************)
EXTENDS Naturals

CONSTANTS Ids, MaxAttempts

VARIABLES
  stage,   \* job -> what is known of it
  tries,   \* job -> attempts made
  allowed  \* job -> attempts asked for

lifeVars == <<stage, tries, allowed>>

Init ==
  /\ stage = [i \in Ids |-> "absent"]
  /\ tries = [i \in Ids |-> 0]
  /\ allowed = [i \in Ids |-> 1]

Move(i, from, to) == stage[i] = from /\ stage' = [stage EXCEPT ![i] = to]

Submit(i, n) ==
  /\ Move(i, "absent", "waiting")
  /\ allowed' = [allowed EXCEPT ![i] = n]
  /\ UNCHANGED tries

Try(i) ==
  /\ \A j \in Ids : stage[j] # "tried"
  /\ Move(i, "waiting", "tried")
  /\ tries[i] < allowed[i]
  /\ tries' = [tries EXCEPT ![i] = @ + 1]
  /\ UNCHANGED allowed

\* No handler is registered for its type.
Refuse(i) ==
  /\ Move(i, "waiting", "failing")
  /\ tries[i] = 0
  /\ UNCHANGED <<tries, allowed>>

\* The handler and the record of the completion succeeded.
Complete(i) ==
  /\ Move(i, "tried", "completed")
  /\ UNCHANGED <<tries, allowed>>

\* One of the two did not.
Fail(i) ==
  /\ Move(i, "tried", IF tries[i] < allowed[i] THEN "waiting" ELSE "failing")
  /\ UNCHANGED <<tries, allowed>>

Alert(i) ==
  /\ Move(i, "failing", "failed")
  /\ UNCHANGED <<tries, allowed>>

LoseAll ==
  /\ stage' = [i \in Ids |-> "absent"]
  /\ tries' = [i \in Ids |-> 0]
  /\ allowed' = [i \in Ids |-> 1]

JobStep(i) ==
  \/ \E n \in 1 .. MaxAttempts : Submit(i, n)
  \/ Try(i) \/ Refuse(i) \/ Complete(i) \/ Fail(i) \/ Alert(i)

Next == LoseAll \/ \E i \in Ids : JobStep(i)

Spec == Init /\ [][Next]_lifeVars
=============================================================================
