----------------------------- MODULE SdkSession -----------------------------
(***************************************************************************)
(* One RouterOsClient of packages/routeros-sdk on its socket transport,    *)
(* and what is done over it: the script of routeros-sdk.adapter.ts, which  *)
(* tolerates the failure of some commands, a plan of BatchRunner in either *)
(* mode, and the rollback of the plan's result by EnterpriseApi.           *)
(*                                                                         *)
(* Replies bear no tags: readReplySet() takes what is pending up to the    *)
(* first reply that ends a set, whoever it was meant for.  The router and  *)
(* the network are external.  TlsTransport differs from TcpTransport only  *)
(* in the socket it opens.                                                 *)
(***************************************************************************)
EXTENDS Naturals, Sequences, FiniteSets, SequencesExt

CONSTANTS
  Scripts,  \* [length, tolerated: commands whose failure does not stop it,
            \*  undoable: commands with a rollback]
  RowLimit  \* bound: rows of an answer

VARIABLES
  script,   \* what is run
  dry,      \* dryRun
  sock,     \* `socket': "none", "open", or "dead" (set, but closed)
  at,       \* where the caller is
  cur,      \* the exchange under way
  todo,     \* commands left
  results,  \* results so far: command, success, rows read
  undo,     \* rollbackCommands
  round,    \* "batch" or "rollback"
  read,     \* `replies' of readReplySet() so far
  arrived,  \* pendingReplies
  sent,     \* replies under way to the client
  inbox,    \* external, the router: exchanges it has not finished
  told,     \* external: exchange -> rows said
  refused,  \* external: it has said !trap to the first of inbox
  carried   \* external: exchanges carried out, in order

ssVars == <<script, dry, sock, at, cur, todo, results, undo, round, read, arrived, sent,
            inbox, told, refused, carried>>
routerSide == <<inbox, told, refused, carried>>
caller == <<at, cur, todo, results, undo, round, read>>

\* Exchanges: the login, the commands, their rollbacks, the second login.
Commands == 1 .. script.length
Undo(c) == script.length + c
Login == 0
Legacy == 2 * script.length + 1

Init ==
  /\ script \in Scripts
  /\ dry \in BOOLEAN
  /\ sock = "none"
  /\ at = "new" /\ cur = Login
  /\ todo = [i \in Commands |-> i]
  /\ results = <<>> /\ undo = <<>> /\ round = "batch"
  /\ read = <<>> /\ arrived = <<>> /\ sent = <<>>
  /\ inbox = <<>> /\ refused = FALSE /\ carried = <<>>
  /\ told = [n \in 0 .. Legacy |-> 0]

-----------------------------------------------------------------------------
(* TcpTransport and RouterOsClient                                         *)

\* connect(): the transport; the login follows.
Connect ==
  /\ at = "new"
  /\ \/ sock' = "open" /\ at' = "send"
     \/ sock' = "none" /\ at' = "ended"
  /\ UNCHANGED <<script, dry, cur, todo, results, undo, round, read, arrived, sent, routerSide>>

\* send() has written the sentence.
Send ==
  /\ at = "send" /\ sock = "open"
  /\ inbox' = Append(inbox, cur)
  /\ read' = <<>>
  /\ at' = "reading"
  /\ UNCHANGED <<script, dry, sock, cur, todo, results, undo, round, arrived, sent, told, refused, carried>>

Report(ok, rows) == Append(results, [cmd |-> cur, ok |-> ok, rows |-> rows])

\* rollbackCommands.unshift()
Unshift(c) == IF c \in script.undoable THEN <<Undo(c)>> \o undo ELSE undo

\* Mutant: the batch runs on after a failure, whatever its mode.
StopsAt_Never(c) == FALSE

\* Whether the commands after c are skipped when c fails.
StopsAt(c) == c \notin script.tolerated

\* An exchange has succeeded.  The login's success begins the script; the
\* challenge of the second login, which !done bears, is not looked for there.
Succeed(rows) ==
  CASE cur = Legacy -> at' = "ended" /\ UNCHANGED <<todo, results, undo>>
    [] cur = Login  -> at' = "next" /\ UNCHANGED <<todo, results, undo>>
    [] OTHER        -> /\ at' = "next"
                       /\ todo' = Tail(todo)
                       /\ results' = Report(TRUE, rows)
                       /\ undo' = IF round = "batch" THEN Unshift(cur) ELSE undo

\* A command has failed; only a trap makes login() try the older exchange.
Failed(how) ==
  CASE cur = Login /\ how = "trap" -> at' = "send" /\ cur' = Legacy /\ UNCHANGED <<todo, results, undo>>
    [] cur \in {Login, Legacy} /\ ~(cur = Login /\ how = "trap") ->
                       at' = "ended" /\ UNCHANGED <<cur, todo, results, undo>>
    [] OTHER        -> /\ at' = "next"
                       /\ todo' = IF StopsAt(cur) THEN <<>> ELSE Tail(todo)
                       /\ results' = Report(FALSE, read)
                       /\ UNCHANGED <<cur, undo>>

\* The transport is not connected, or the write is rejected.
SendFails ==
  /\ at = "send" /\ sock # "open"
  /\ Failed("error")
  /\ UNCHANGED <<script, dry, sock, round, read, arrived, sent, routerSide>>

Ends(r) == r.type \in {"done", "trap", "fatal"}

\* readReplySet() takes pending replies up to one that ends a set, and waits
\* when there is none.  What comes before it are rows.
Read ==
  /\ at = "reading" \/ (at = "waiting" /\ arrived # <<>>)
  /\ LET ends == {i \in DOMAIN arrived : Ends(arrived[i])}
         n == IF ends = {} THEN Len(arrived) ELSE CHOOSE i \in ends : \A j \in ends : i <= j
         rows == read \o SubSeq(arrived, 1, IF ends = {} THEN n ELSE n - 1)
     IN  /\ arrived' = SubSeq(arrived, n + 1, Len(arrived))
         /\ read' = rows
         /\ IF ends = {} THEN at' = "waiting" /\ UNCHANGED <<cur, todo, results, undo>>
            ELSE IF arrived[n].type = "done" THEN Succeed(rows) /\ UNCHANGED cur
            ELSE Failed(arrived[n].type)
  /\ UNCHANGED <<script, dry, sock, round, sent, routerSide>>

TimeOut ==
  /\ at = "waiting"
  /\ Failed("timeout")
  /\ UNCHANGED <<script, dry, sock, round, read, arrived, sent, routerSide>>

\* close() by whoever holds the client: the reader goes on to wait.
Close ==
  /\ sock # "none"
  /\ sock' = "none"
  /\ arrived' = <<>> /\ sent' = <<>>
  /\ at' = IF at = "finished" THEN "ended" ELSE at
  /\ UNCHANGED <<script, dry, cur, todo, results, undo, round, read, routerSide>>

-----------------------------------------------------------------------------
(* BatchRunner, EnterpriseApi                                              *)

\* The loop of execute() comes to its next command; a dry run reports success.
NextCommand ==
  /\ at = "next" /\ todo # <<>>
  /\ IF dry /\ round = "batch"
     THEN /\ results' = Append(results, [cmd |-> Head(todo), ok |-> TRUE, rows |-> <<>>])
          /\ undo' = Unshift(Head(todo))
          /\ todo' = Tail(todo)
          /\ UNCHANGED <<at, cur>>
     ELSE cur' = Head(todo) /\ at' = "send" /\ UNCHANGED <<todo, results, undo>>
  /\ UNCHANGED <<script, dry, sock, round, read, arrived, sent, routerSide>>

Finish ==
  /\ at = "next" /\ todo = <<>>
  /\ at' = "finished"
  /\ UNCHANGED <<script, dry, sock, cur, todo, results, undo, round, read, arrived, sent, routerSide>>

\* rollback() of the result: a plan of its own that stops at a failure and is
\* never dry.
Rollback ==
  /\ at = "finished" /\ round = "batch" /\ undo # <<>>
  /\ round' = "rollback"
  /\ todo' = undo
  /\ at' = "next"
  /\ UNCHANGED <<script, dry, sock, cur, results, undo, read, arrived, sent, routerSide>>

-----------------------------------------------------------------------------
(* External: the router and the network                                    *)

Say(type) ==
  sent' = IF sock = "open"
          THEN Append(sent, [for |-> Head(inbox), type |-> type, row |-> told[Head(inbox)]]) ELSE sent

SayRow ==
  /\ inbox # <<>> /\ ~refused /\ told[Head(inbox)] < RowLimit
  /\ told' = [told EXCEPT ![Head(inbox)] = @ + 1]
  /\ Say("re")
  /\ UNCHANGED <<script, dry, sock, caller, arrived, inbox, refused, carried>>

SayDone ==
  /\ inbox # <<>>
  /\ Say("done")
  /\ carried' = IF refused THEN carried ELSE Append(carried, Head(inbox))
  /\ inbox' = Tail(inbox) /\ refused' = FALSE
  /\ UNCHANGED <<script, dry, sock, caller, arrived, told>>

\* !done follows.
SayTrap ==
  /\ inbox # <<>> /\ ~refused
  /\ Say("trap")
  /\ refused' = TRUE
  /\ UNCHANGED <<script, dry, sock, caller, arrived, inbox, told, carried>>

Deliver(k) ==
  /\ k \in 1 .. Len(sent)
  /\ arrived' = arrived \o SubSeq(sent, 1, k)
  /\ sent' = SubSeq(sent, k + 1, Len(sent))
  /\ UNCHANGED <<script, dry, sock, caller, routerSide>>

\* The connection is lost, after !fatal or without.
Lost ==
  /\ sock = "open"
  /\ sock' = "dead"
  /\ \/ sent' = <<>> /\ UNCHANGED arrived
     \/ inbox # <<>> /\ sent' = <<>>
        /\ arrived' = arrived \o Append(sent, [for |-> Head(inbox), type |-> "fatal", row |-> 0])
  /\ UNCHANGED <<script, dry, caller, routerSide>>

Next ==
  \/ Connect \/ Send \/ SendFails \/ Read \/ TimeOut \/ Close
  \/ NextCommand \/ Finish \/ Rollback
  \/ SayRow \/ SayDone \/ SayTrap \/ Lost
  \/ \E k \in 1 .. Len(sent) : Deliver(k)

Spec == Init /\ [][Next]_ssVars

-----------------------------------------------------------------------------
TypeOK ==
  /\ script \in Scripts /\ dry \in BOOLEAN
  /\ sock \in {"none", "open", "dead"}
  /\ at \in {"new", "send", "reading", "waiting", "next", "finished", "ended"}
  /\ cur \in 0 .. Legacy /\ round \in {"batch", "rollback"}
  /\ \A i \in DOMAIN results : results[i].ok \in BOOLEAN /\ results[i].cmd \in 1 .. 2 * script.length
  /\ \A i \in DOMAIN inbox : inbox[i] \in 0 .. Legacy
  /\ refused => inbox # <<>>

Carried == ToSet(carried)
FailedBefore(i) == \E j \in 1 .. i - 1 : ~results[j].ok

\* What a result says happened on the router.  A command reported as carried
\* out was, and the rows read are its own, as long as nothing on the connection
\* failed before it.  A plan that stops at failures sends nothing after one, so
\* its rollback undoes only what was done, even though it runs on a connection
\* out of step, and undoes it last first; a dry run does nothing.
ReportIsTrue ==
  /\ \A i \in DOMAIN results :
       LET c == results[i].cmd IN
       results[i].ok /\ ~FailedBefore(i) /\ ~(dry /\ c \in Commands) =>
         /\ c \in Carried
         /\ results[i].rows = [k \in 1 .. told[c] |-> [for |-> c, type |-> "re", row |-> k - 1]]
  /\ script.tolerated = {} /\ ~dry =>
       /\ \A c \in Commands : Undo(c) \in Carried => c \in Carried
       /\ \A i, j \in DOMAIN carried : i < j /\ carried[i] > script.length => carried[j] < carried[i]
       /\ \A i, j \in DOMAIN results : i < j /\ ~results[i].ok => results[j].cmd \notin Commands
  /\ dry => Commands \cap Carried = {}
=============================================================================
