--------------------------- MODULE SyslogReceiver ---------------------------
(***************************************************************************)
(* The syslog receiver (modules/syslog/syslog.receiver.ts): a bounded      *)
(* queue between the UDP and TCP listeners and the database, emptied in    *)
(* batches by one flush at a time, and the start and stop of the           *)
(* listeners.                                                              *)
(*                                                                         *)
(* A flush awaits writeBatch(), SyslogService.store(), which may reject    *)
(* and store nothing, and which leaves out messages of unknown senders     *)
(* when acceptUnmatched is off.  Messages are numbered in the order        *)
(* receive() gets them.                                                    *)
(***************************************************************************)
EXTENDS Integers, Sequences, FiniteSets, Functions

CONSTANTS
  MaxQueue,     \* MAX_QUEUE_SIZE
  BatchSize,    \* BATCH_SIZE
  MaxMessages,  \* bound: messages received
  MaxRejected   \* bound: TCP connections and frames refused

ASSUME ReceiverAssumption ==
  /\ MaxQueue \in Nat \ {0}
  /\ BatchSize \in 1 .. MaxQueue
  /\ MaxMessages \in Nat
  /\ MaxRejected \in Nat

VARIABLES
  queue,        \* the messages waiting
  flushing,     \* the `flushing' flag
  batch,        \* the messages writeBatch() is awaited for
  received, stored, dropped, parseErrors,   \* the counters of status()
  timer,        \* the flush timer is set
  listening,    \* some listener is open
  op,           \* where the start() or stop() under way is
  restart,      \* it is a start()
  written,      \* messages in the database (history)
  unmatched,    \* messages store() left out (history)
  rejected      \* connections and frames refused before receive() (history)

counters == <<received, stored, dropped, parseErrors>>
flushVars == <<queue, flushing, batch>>
opVars == <<timer, listening, op, restart>>
histVars == <<written, unmatched, rejected>>
vars == <<flushVars, counters, opVars, histVars>>

Ids == 1 .. MaxMessages

Init ==
  /\ queue = <<>>
  /\ flushing = FALSE
  /\ batch = <<>>
  /\ received = 0
  /\ stored = 0
  /\ dropped = 0
  /\ parseErrors = 0
  /\ timer = FALSE
  /\ listening = FALSE
  /\ op = "none"
  /\ restart = FALSE
  /\ written = {}
  /\ unmatched = 0
  /\ rejected = 0

-----------------------------------------------------------------------------
Lesser(a, b) == IF a < b THEN a ELSE b

\* flush() up to its await, on a queue q: `splice(0, BATCH_SIZE)'.
TakeFrom(q) ==
  LET n == Lesser(BatchSize, Len(q)) IN
  /\ flushing' = TRUE
  /\ batch' = SubSeq(q, 1, n)
  /\ queue' = SubSeq(q, n + 1, Len(q))

\* The message enters the queue; a full batch is flushed at once.
Push(m) ==
  /\ Len(queue) < MaxQueue
  /\ IF Len(queue) + 1 >= BatchSize /\ ~flushing
     THEN TakeFrom(Append(queue, m))
     ELSE queue' = Append(queue, m) /\ UNCHANGED <<flushing, batch>>

\* receive(): an empty, oversized or blank message is dropped, one that cannot
\* be parsed is counted as such, one that finds the queue full is dropped.
Receive ==
  /\ listening
  /\ received < MaxMessages
  /\ received' = received + 1
  /\ \/ dropped' = dropped + 1 /\ UNCHANGED <<flushVars, parseErrors>>
     \/ parseErrors' = parseErrors + 1 /\ UNCHANGED <<flushVars, dropped>>
     \/ Push(received + 1) /\ UNCHANGED <<dropped, parseErrors>>
  /\ UNCHANGED <<stored, opVars, histVars>>

\* One client too many, or a frame that outgrows the buffer: counted as a drop
\* though no message was counted as received.
Reject ==
  /\ listening
  /\ rejected < MaxRejected
  /\ rejected' = rejected + 1
  /\ dropped' = dropped + 1
  /\ UNCHANGED <<flushVars, received, stored, parseErrors, opVars, written, unmatched>>

\* flush(), called by the timer and by the self test, whose polling may outlive
\* the listeners.
Flush ==
  /\ ~flushing
  /\ queue # <<>>
  /\ TakeFrom(queue)
  /\ UNCHANGED <<counters, opVars, histVars>>

\* The batch is stored but for the messages of unknown senders.
WriteOk(S) ==
  /\ flushing
  /\ stored' = stored + Cardinality(S)
  /\ written' = written \cup S
  /\ unmatched' = unmatched + (Len(batch) - Cardinality(S))
  /\ flushing' = FALSE
  /\ batch' = <<>>
  /\ UNCHANGED <<queue, received, dropped, parseErrors, opVars, rejected>>

\* Mutant: the batch goes to the back of the queue.
Requeued_AtBack(n) == queue \o SubSeq(batch, 1, n)

\* `unshift' of the first n messages of the batch.
Requeued(n) == SubSeq(batch, 1, n) \o queue

\* Mutant: what does not fit is not counted.
WriteFails_Uncounted ==
  /\ flushing
  /\ queue' = Requeued(Lesser(MaxQueue - Len(queue), Len(batch)))
  /\ flushing' = FALSE
  /\ batch' = <<>>
  /\ UNCHANGED <<counters, opVars, histVars>>

\* Mutant: the wrong sign.
WriteFails_Swapped ==
  /\ flushing
  /\ LET n == Lesser(MaxQueue - Len(queue), Len(batch)) IN
       /\ queue' = Requeued(n)
       /\ dropped' = dropped + (n - Len(batch))
  /\ flushing' = FALSE
  /\ batch' = <<>>
  /\ UNCHANGED <<received, stored, parseErrors, opVars, histVars>>

\* Mutant: no finally block.
WriteFails_StaysUp ==
  /\ flushing
  /\ queue' = Requeued(Lesser(MaxQueue - Len(queue), Len(batch)))
  /\ dropped' = dropped + (Len(batch) - Lesser(MaxQueue - Len(queue), Len(batch)))
  /\ batch' = <<>>
  /\ UNCHANGED <<flushing, received, stored, parseErrors, opVars, histVars>>

\* Mutant: the batch is put back although the queue has filled up.
WriteFails_Unbounded ==
  /\ flushing
  /\ queue' = Requeued(Len(batch))
  /\ flushing' = FALSE
  /\ batch' = <<>>
  /\ UNCHANGED <<counters, opVars, histVars>>

\* writeBatch() rejects: the batch returns to the front as far as the queue, which
\* filled up meanwhile, has room; the rest of it is dropped.
WriteFails ==
  /\ flushing
  /\ LET n == Lesser(MaxQueue - Len(queue), Len(batch)) IN
       /\ queue' = Requeued(n)
       /\ dropped' = dropped + (Len(batch) - n)
  /\ flushing' = FALSE
  /\ batch' = <<>>
  /\ UNCHANGED <<received, stored, parseErrors, opVars, histVars>>

-----------------------------------------------------------------------------
(* start() and stop(); calls that change settings follow one another.      *)

\* stop() up to its first await: the timer and the listeners go.
Stop(r) ==
  /\ op = "none"
  /\ op' = "close"
  /\ restart' = r
  /\ timer' = FALSE
  /\ listening' = FALSE
  /\ UNCHANGED <<flushVars, counters, histVars>>

\* The sockets have closed: stop() awaits one flush of its own, which returns at
\* once when another is under way.
Closed ==
  /\ op = "close"
  /\ IF flushing \/ queue = <<>>
     THEN op' = "bind" /\ UNCHANGED flushVars
     ELSE op' = "flush" /\ TakeFrom(queue)
  /\ UNCHANGED <<counters, timer, listening, restart, histVars>>

\* Its flush has ended; the flag may be up again for a later one.
Flushed ==
  /\ op = "flush"
  /\ ~flushing
  /\ op' = "bind"
  /\ UNCHANGED <<flushVars, counters, timer, listening, restart, histVars>>

\* The UDP or the TCP listener of a start() is open; the other one is still to come.
Listen ==
  /\ op = "bind"
  /\ restart
  /\ listening' = TRUE
  /\ UNCHANGED <<flushVars, counters, timer, op, restart, histVars>>

\* stop() ends here, and a start() with the receiver disabled; any other start()
\* sets the timer, whether or not a listener could be opened.
Bound ==
  /\ op = "bind"
  /\ op' = "none"
  /\ \/ ~listening /\ UNCHANGED timer
     \/ restart /\ timer' = TRUE
  /\ UNCHANGED <<flushVars, counters, listening, restart, histVars>>

Next ==
  \/ Receive
  \/ Reject
  \/ Flush
  \/ \E S \in SUBSET Range(batch) : WriteOk(S)
  \/ WriteFails
  \/ \E r \in BOOLEAN : Stop(r)
  \/ Closed
  \/ Flushed
  \/ Listen
  \/ Bound

Spec == Init /\ [][Next]_vars

\* The timer calls flush(), a write ends, and a write repeated for ever does not
\* fail for ever.
FairSpec ==
  /\ Spec
  /\ WF_vars(timer /\ Flush)
  /\ WF_vars(WriteFails)
  /\ SF_vars(\E S \in SUBSET Range(batch) : WriteOk(S))

-----------------------------------------------------------------------------
TypeOK ==
  /\ queue \in Seq(Ids)
  /\ batch \in Seq(Ids)
  /\ flushing \in BOOLEAN
  /\ received \in 0 .. MaxMessages
  /\ stored \in Nat /\ dropped \in Nat /\ parseErrors \in Nat /\ unmatched \in Nat
  /\ timer \in BOOLEAN
  /\ listening \in BOOLEAN
  /\ op \in {"none", "close", "flush", "bind"}
  /\ restart \in BOOLEAN
  /\ written \subseteq Ids
  /\ rejected \in 0 .. MaxRejected

\* The queue never outgrows MAX_QUEUE_SIZE, even when a failed batch returns to a
\* queue that filled up meanwhile.
Bounded == Len(queue) <= MaxQueue

\* The counters account for every message.
Counted ==
  received + rejected = stored + dropped + parseErrors + unmatched + Len(queue) + Len(batch)

\* Every message received is stored, dropped, unparsable, left out by store(),
\* waiting or in the batch under way, whatever failed or was stopped, and all
\* that waits is within the limit.  status() shows all of them but the ones left
\* out.
Conservation == Bounded /\ Counted

\* Messages reach the database in the order they came: what is written is older
\* than what the batch holds, and that older than what waits, each in order, even
\* after a failed batch returned to the queue.
InOrder ==
  /\ \A m \in written : m \notin Range(batch \o queue)
  /\ \A m \in written, i \in DOMAIN (batch \o queue) : m < (batch \o queue)[i]
  /\ \A i, j \in DOMAIN (batch \o queue) : i < j => (batch \o queue)[i] < (batch \o queue)[j]

\* A message in the queue leaves it for good, stored, left out or dropped, unless
\* the receiver is stopped or restarted.
QueueDrains ==
  \A m \in Ids : m \in Range(queue) ~> (m \notin Range(batch \o queue) \/ ~timer)
=============================================================================
