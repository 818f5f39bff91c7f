------------------------ MODULE NotificationDelivery ------------------------
(***************************************************************************)
(* The delivery queue of notifications (modules/notifications): the store  *)
(* that keeps deliveries in a Map and rewrites its file after every        *)
(* change, the bridge and the routes that enqueue and retry, and the       *)
(* worker that sends.                                                      *)
(*                                                                         *)
(* A worker activation takes the list of pending deliveries once and then  *)
(* awaits each of them, while a delivery stays `pending' until its answer; *)
(* so activations that overlap may hold the same delivery.  Deliveries are *)
(* named by their place in the insertion order of the Map.                 *)
(***************************************************************************)
EXTENDS Naturals, FiniteSets, Sequences, SequencesExt

CONSTANTS
  InApp,          \* channels of type in_app
  External,       \* channels that send over the network
  MaxWorkers,     \* worker activations that may be live together
  MaxDeliveries,  \* bound: deliveries created
  MaxCalls,       \* bound: requests of users, and crashes
  KeepStored      \* deliveries persist() writes (the code: 2000)

Channels == InApp \cup External
Ids == 1 .. MaxDeliveries
Workers == 1 .. MaxWorkers

ASSUME NotificationAssumption ==
  /\ InApp \cap External = {}
  /\ InApp # {} /\ IsFiniteSet(Channels)  \* seedDefaults() makes one of type in_app
  /\ {MaxWorkers, MaxDeliveries, MaxCalls} \subseteq Nat
  /\ KeepStored \in Nat \ {0}

VARIABLES
  channel,      \* channel -> "enabled", "disabled" or "deleted"
  size,         \* deliveries created
  to,           \* delivery -> channelId
  time,         \* delivery -> createdAt, in milliseconds
  status,       \* delivery -> its status; "none" before it is created, "dropped"
                \*   when a restart did not find it in the file
  attempts,     \* delivery -> attempts
  todo,         \* worker -> the deliveries it still has to process
  sending,      \* worker -> where it is with the first of them
  allow,        \* worker -> allowDisabled
  calls,        \* requests and crashes so far (history)
  received,     \* delivery -> messages its service received (history)
  uncounted,    \* delivery -> those whose answer a crash cut off (history)
  asked,        \* delivery -> times a user asked for it again (history)
  alone,        \* no two activations were live together (history)
  batch         \* delivery -> the first one of its event, until it is attempted
                \*   or skipped (history)

deliveryVars == <<size, to, time, status, attempts>>
workerVars == <<todo, sending, allow>>
histVars == <<received, uncounted, asked, alone>>
vars == <<channel, deliveryVars, workerVars, calls, histVars, batch>>

Init ==
  /\ channel = [c \in Channels |-> "enabled"]
  /\ size = 0
  /\ to = [d \in Ids |-> CHOOSE c \in Channels : TRUE]
  /\ time = [d \in Ids |-> 0]
  /\ status = [d \in Ids |-> "none"]
  /\ attempts = [d \in Ids |-> 0]
  /\ todo = [w \in Workers |-> <<>>]
  /\ sending = [w \in Workers |-> "no"]
  /\ allow = [w \in Workers |-> FALSE]
  /\ calls = 0
  /\ received = [d \in Ids |-> 0]
  /\ uncounted = [d \in Ids |-> 0]
  /\ asked = [d \in Ids |-> 0]
  /\ alone = TRUE
  /\ batch = [d \in Ids |-> 0]

-----------------------------------------------------------------------------
(* The store                                                               *)

Free(w) == todo[w] = <<>>
\* Activations are alike: a new one takes the first free place.
FirstFree(w) == Free(w) /\ \A v \in 1 .. w - 1 : ~Free(v)
Stored == {d \in 1 .. size : status[d] # "dropped"}

\* listDeliveries...(): newest first; the sort is stable, so deliveries of one
\* millisecond keep their insertion order.
Before(tm, d, e) == tm[d] > tm[e] \/ (tm[d] = tm[e] /\ d < e)

Place(S, tm, d) == Cardinality({e \in S : Before(tm, e, d)}) + 1

\* The first `limit' deliveries of S as tm orders them.
Listed(S, tm, limit) ==
  [i \in 1 .. (IF limit < Cardinality(S) THEN limit ELSE Cardinality(S)) |->
     CHOOSE d \in S : Place(S, tm, d) = i]

\* Mutant: failed deliveries are listed with the pending ones.
Waiting_AndFailed(st) == {d \in Ids : st[d] \in {"pending", "failed"}}

Waiting(st) == {d \in Ids : st[d] = "pending"}

AtLeastOne(n) == IF n = 0 THEN 1 ELSE n

\* Mutant: a delivery that is tried again starts counting from zero.
MarkPending_Resets(D) ==
  /\ status' = [d \in Ids |-> IF d \in D THEN "pending" ELSE status[d]]
  /\ attempts' = [d \in Ids |-> IF d \in D THEN 0 ELSE attempts[d]]

MarkPending(D) ==
  /\ status' = [d \in Ids |-> IF d \in D THEN "pending" ELSE status[d]]
  /\ UNCHANGED attempts

Settled(d) == batch' = [batch EXCEPT ![d] = 0]

MarkEnded(d, s) ==
  /\ Settled(d)
  /\ status' = [status EXCEPT ![d] = s]
  /\ attempts' = [attempts EXCEPT ![d] = @ + 1]

\* Mutant: a delivery whose channel is gone is removed.
MarkSkipped_Removes(d) ==
  /\ Settled(d)
  /\ status' = [status EXCEPT ![d] = "none"]
  /\ UNCHANGED attempts

MarkSkipped(d) ==
  /\ Settled(d)
  /\ status' = [status EXCEPT ![d] = "skipped"]
  /\ UNCHANGED attempts

Call == calls < MaxCalls /\ calls' = calls + 1

\* Worker w starts on the list l.
Begin(w, l, allowDisabled) ==
  /\ todo' = [todo EXCEPT ![w] = l]
  /\ allow' = [allow EXCEPT ![w] = allowDisabled]
  /\ sending' = [sending EXCEPT ![w] = "no"]
  /\ alone' = (alone /\ (l = <<>> \/ \A v \in Workers : Free(v)))

-----------------------------------------------------------------------------
(* The bridge and the routes                                               *)

\* Mutant: the worker is asked for one delivery whatever was enqueued.
Limit_One(C) == 1

Limit(C) == Cardinality(C)

\* handleEvent(): one delivery for each channel of C, all in one stretch with
\* the list processPending(deliveries.length) takes.  The clock may or may not
\* have moved since the last delivery.
Enqueue(w, C) ==
  /\ FirstFree(w)
  /\ C # {}
  /\ \A c \in C : channel[c] = "enabled"
  /\ size + Cardinality(C) <= MaxDeliveries
  /\ size' = size + Cardinality(C)
  /\ \E l \in SetToSeqs(C), later \in {0, 1} :
       LET new == size + 1 .. size' IN
       /\ to' = [d \in Ids |-> IF d \in new THEN l[d - size] ELSE to[d]]
       /\ time' = [d \in Ids |->
            IF d \in new THEN later + (IF size = 0 THEN 0 ELSE time[size]) ELSE time[d]]
       /\ status' = [d \in Ids |-> IF d \in new THEN "pending" ELSE status[d]]
       /\ batch' = [d \in Ids |-> IF d \in new THEN size + 1 ELSE batch[d]]
  /\ Begin(w, Listed(Waiting(status'), time', Limit(C)), FALSE)
  /\ UNCHANGED <<channel, attempts, calls, received, uncounted, asked>>

\* POST process-pending.
ProcessPending(w, limit) ==
  /\ FirstFree(w)
  /\ Call
  /\ Begin(w, Listed(Waiting(status), time, limit), FALSE)
  /\ UNCHANGED <<channel, deliveryVars, received, uncounted, asked, batch>>

Ask(D) == asked' = [d \in Ids |-> IF d \in D THEN asked[d] + 1 ELSE asked[d]]

\* retryFailed(): failed before skipped deliveries are reset, then the worker is
\* asked for as many pending ones, the newest first and one at least: they need
\* not be the ones reset.
RetryFailed(w, limit) ==
  /\ FirstFree(w)
  /\ Call
  /\ LET failed == Listed({d \in Ids : status[d] = "failed"}, time, limit)
         skipped == Listed({d \in Ids : status[d] = "skipped"}, time, limit)
         both == failed \o skipped
         retryable == {both[i] : i \in {j \in DOMAIN both : j <= limit}}
     IN  /\ MarkPending(retryable)
         /\ Ask(retryable)
         /\ Begin(w, Listed(Waiting(status'), time,
                            AtLeastOne(Cardinality(retryable))), FALSE)
  /\ UNCHANGED <<channel, size, to, time, received, uncounted, batch>>

\* retryDelivery(): whatever its status, even while another worker sends it.
Retry(w, d) ==
  /\ FirstFree(w)
  /\ Call
  /\ MarkPending({d})
  /\ Ask({d})
  /\ Begin(w, <<d>>, FALSE)
  /\ UNCHANGED <<channel, size, to, time, received, uncounted, batch>>

\* testChannel(): a delivery of its own, sent even if the channel is disabled;
\* it fails at once when the channel's configuration is incomplete.
TestChannel(w, c) ==
  /\ FirstFree(w)
  /\ Call
  /\ channel[c] # "deleted"
  /\ size < MaxDeliveries
  /\ LET d == size + 1 IN
       /\ size' = d
       /\ to' = [to EXCEPT ![d] = c]
       /\ time' = [time EXCEPT ![d] = IF d = 1 THEN 0 ELSE time[d - 1]]
       /\ \/ /\ status' = [status EXCEPT ![d] = "pending"]
             /\ Begin(w, <<d>>, TRUE)
             /\ UNCHANGED <<attempts, batch>>
          \/ MarkEnded(d, "failed") /\ UNCHANGED <<workerVars, alone>>
  /\ UNCHANGED <<channel, received, uncounted, asked>>

\* updateChannel() and deleteChannel().
ChangeChannel(c, s) ==
  /\ Call
  /\ channel[c] \notin {"deleted", s}
  /\ channel' = [channel EXCEPT ![c] = s]
  /\ UNCHANGED <<deliveryVars, workerVars, histVars, batch>>

-----------------------------------------------------------------------------
(* The worker                                                              *)

Advance(w) ==
  /\ todo' = [todo EXCEPT ![w] = Tail(@)]
  /\ sending' = [sending EXCEPT ![w] = "no"]
  /\ allow' = [allow EXCEPT ![w] = IF Len(todo[w]) = 1 THEN FALSE ELSE @]

\* processDelivery() up to the request.  It tests the status of the copy the
\* list holds, which is pending whatever has become of the delivery since.
Dispatch(w) ==
  /\ todo[w] # <<>>
  /\ sending[w] = "no"
  /\ LET d == Head(todo[w]) IN
       IF channel[to[d]] = "deleted" \/ (channel[to[d]] = "disabled" /\ ~allow[w])
       THEN MarkSkipped(d) /\ Advance(w)
       ELSE IF to[d] \in InApp
       THEN MarkEnded(d, "sent") /\ Advance(w)
       ELSE /\ sending' = [sending EXCEPT ![w] = "request"]
            /\ UNCHANGED <<status, attempts, todo, allow, batch>>
  /\ UNCHANGED <<channel, size, to, time, calls, histVars>>

\* The service receives the message.
Reach(w) ==
  /\ sending[w] = "request"
  /\ sending' = [sending EXCEPT ![w] = "answer"]
  /\ received' = [received EXCEPT ![Head(todo[w])] = @ + 1]
  /\ UNCHANGED <<channel, deliveryVars, todo, allow, calls, uncounted, asked, alone, batch>>

\* Mutant: the time limit of a request is taken for an answer.
Answer_TimeoutIsSent(w) ==
  /\ sending[w] \in {"request", "answer"}
  /\ MarkEnded(Head(todo[w]), "sent")
  /\ Advance(w)
  /\ UNCHANGED <<channel, size, to, time, calls, histVars>>

Answer(w) ==
  /\ sending[w] = "answer"
  /\ MarkEnded(Head(todo[w]), "sent")
  /\ Advance(w)
  /\ UNCHANGED <<channel, size, to, time, calls, histVars>>

\* Mutant: processPending() without the catch around each delivery.
Fail_EndsList(w) ==
  /\ sending[w] \in {"request", "answer"}
  /\ MarkEnded(Head(todo[w]), "failed")
  /\ todo' = [todo EXCEPT ![w] = <<>>]
  /\ sending' = [sending EXCEPT ![w] = "no"]
  /\ allow' = [allow EXCEPT ![w] = FALSE]
  /\ UNCHANGED <<channel, size, to, time, calls, histVars>>

\* The request failed, timed out (before or after the service received it) or
\* was answered with an error.
Fail(w) ==
  /\ sending[w] \in {"request", "answer"}
  /\ MarkEnded(Head(todo[w]), "failed")
  /\ Advance(w)
  /\ UNCHANGED <<channel, size, to, time, calls, histVars>>

\* The program ends and is started again: hydrate() reads what persist() wrote,
\* the newest deliveries; nobody takes up the ones that were under way.
Crash ==
  /\ Call
  /\ \E w \in Workers : ~Free(w)
  /\ LET kept == ToSet(Listed(Stored, time, KeepStored)) IN
       status' = [d \in Ids |-> IF d \in Stored \ kept THEN "dropped" ELSE status[d]]
  /\ uncounted' = [d \in Ids |-> uncounted[d] +
       Cardinality({w \in Workers : sending[w] = "answer" /\ Head(todo[w]) = d})]
  /\ todo' = [w \in Workers |-> <<>>]
  /\ sending' = [w \in Workers |-> "no"]
  /\ allow' = [w \in Workers |-> FALSE]
  /\ batch' = [d \in Ids |-> 0]
  /\ UNCHANGED <<channel, size, to, time, attempts, received, asked, alone>>

Work(w) == Dispatch(w) \/ Reach(w) \/ Answer(w) \/ Fail(w)

Next ==
  \/ \E w \in Workers, C \in SUBSET Channels : Enqueue(w, C)
  \/ \E w \in Workers, limit \in {1, MaxDeliveries} :
       ProcessPending(w, limit) \/ RetryFailed(w, limit)
  \/ \E w \in Workers, d \in Stored : Retry(w, d)
  \/ \E w \in Workers, c \in Channels : TestChannel(w, c)
  \/ \E c \in Channels, s \in {"enabled", "disabled", "deleted"} : ChangeChannel(c, s)
  \/ \E w \in Workers : Work(w)
  \/ Crash

Spec == Init /\ [][Next]_vars

\* Requests carry a timeout, so every one of them ends.
FairSpec == Spec /\ \A w \in Workers : WF_vars(Work(w))

-----------------------------------------------------------------------------
TypeOK ==
  /\ channel \in [Channels -> {"enabled", "disabled", "deleted"}]
  /\ size \in 0 .. MaxDeliveries
  /\ to \in [Ids -> Channels]
  /\ time \in [Ids -> Nat]
  /\ status \in [Ids -> {"none", "pending", "sent", "failed", "skipped", "dropped"}]
  /\ \A d \in Ids : status[d] = "none" <=> d > size
  /\ {attempts, received, uncounted, asked} \subseteq [Ids -> Nat]
  /\ \A w \in Workers : todo[w] \in Seq(Stored) /\ IsInjective(todo[w])
  /\ sending \in [Workers -> {"no", "request", "answer"}]
  /\ allow \in [Workers -> BOOLEAN]
  /\ alone \in BOOLEAN
  /\ batch \in [Ids -> 0 .. size]

Awaited(d) == {w \in Workers : sending[w] = "answer" /\ Head(todo[w]) = d}

\* No message is sent off the books: whatever overlapped, each message a service
\* received is an attempt of its delivery, or awaits its answer, or had its answer
\* cut off by a crash.  And a delivery recorded as sent over the network was
\* received, even when it failed, was retried, and an answer came in after the
\* retry.
EveryMessageCounted ==
  \A d \in Ids :
    /\ received[d] <= attempts[d] + Cardinality(Awaited(d)) + uncounted[d]
    /\ status[d] = "sent" /\ to[d] \in External => received[d] > 0

\* As long as activations do not overlap, a message is received once for the event
\* and once more for each time a user asked for it again or a crash cut its
\* answer off.
OncePerRequest ==
  alone => \A d \in Ids : received[d] <= 1 + asked[d] + uncounted[d]

\* A delivery that came alone in its millisecond is attempted or skipped by the
\* activation that enqueued it, although that activation asks only for "the
\* newest" pending ones; unless the program ends.
FreshIsAttempted ==
  \A d \in Ids :
    (batch[d] # 0 /\ \A e \in 1 .. size : time[e] = time[d] => batch[e] = batch[d])
      ~> (batch[d] = 0)
=============================================================================
