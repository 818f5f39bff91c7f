-------------------------- MODULE RouterConnection --------------------------
(***************************************************************************)
(* One RouterClient of packages/routeros-core: the state machine of        *)
(* ConnectionManager, the socket transport with its queue of chunks and    *)
(* its single waiting reader, the login, and the commands CommandExecutor  *)
(* runs.  A caller of the server issues its commands one after the other;  *)
(* after one that failed it may go on (safePrint(), the inventory          *)
(* collectors) or close the client.  Somebody else may close it, and the   *)
(* socket may break, at any time.                                          *)
(*                                                                         *)
(* The router and the network are external: a router answers some rows and *)
(* then !done, or !trap with or without a !done after it, or !fatal, or    *)
(* nothing; the network delivers what was sent in chunks of any size, cut  *)
(* between sentences.  Command 0 is the login, whose sentences bear no     *)
(* tag; the two exchanges of a challenge login are one.                    *)
(***************************************************************************)
EXTENDS Naturals, Sequences, FiniteSets

CONSTANTS
  MaxCommands,  \* bound: commands on one connection
  MaxRows       \* bound: rows of an answer

ASSUME ConnectionAssumption == {MaxCommands, MaxRows} \subseteq Nat

VARIABLES
  state,        \* ConnectionState
  up,           \* `connected' of the transport
  chunks,       \* the transport's queue of chunks
  pc,           \* caller: where it is
  cmd,          \* the command it issued last; 0 for the login
  late,         \* the time limit of that command has passed
  outcome,      \* command -> "none", "pending", "ok" or "error"
  got,          \* command -> the rows it has read
  turn,         \* router: the command it answers
  said,         \* router: command -> how its answer stands
  rows,         \* router: command -> rows sent
  wire          \* replies under way to the client

clientVars == <<state, pc, cmd, late, outcome, got>>
routerVars == <<turn, said, rows>>
vars == <<clientVars, up, chunks, routerVars, wire>>

Commands == 1 .. MaxCommands
Exchanges == {0} \cup Commands
States == {"idle", "connecting", "authenticating", "authenticated", "closing", "closed", "error"}
Final == {"done", "trap", "fatal"}

Init ==
  /\ state = "idle"
  /\ up = FALSE
  /\ chunks = <<>>
  /\ pc = "idle"
  /\ cmd = 0
  /\ late = FALSE
  /\ outcome = [n \in Exchanges |-> "none"]
  /\ got = [n \in Exchanges |-> <<>>]
  /\ turn = 0
  /\ said = [n \in Exchanges |-> "nothing"]
  /\ rows = [n \in Exchanges |-> 0]
  /\ wire = <<>>

\* The sentences of every command bear the same tag, for command() makes a new
\* CommandExecutor, and with it a new tag generator, each time.
Tag(n) == IF n = 0 THEN "none" ELSE "req-1"

\* readResponse() ignores the sentences of other tags, not those without a tag.
Accepted(n, r) == Tag(r.for) \in {"none", Tag(n)}

-----------------------------------------------------------------------------
(* connect() and login                                                     *)

Connect ==
  /\ state = "idle"
  /\ state' = "connecting"
  /\ pc' = "connect"
  /\ UNCHANGED <<up, chunks, cmd, late, outcome, got, routerVars, wire>>

\* The socket is open: login() writes its sentence and reads.
Connected ==
  /\ pc = "connect"
  /\ up' = TRUE
  /\ state' = "authenticating"
  /\ pc' = "read"
  /\ outcome' = [outcome EXCEPT ![0] = "pending"]
  /\ UNCHANGED <<chunks, cmd, late, got, routerVars, wire>>

\* The error event of a client nobody listens to throws, before the state
\* would become `closed'.
ConnectFails ==
  /\ pc = "connect"
  /\ state' = "error"
  /\ pc' = "idle"
  /\ outcome' = [outcome EXCEPT ![0] = "error"]
  /\ UNCHANGED <<up, chunks, cmd, late, got, routerVars, wire>>

-----------------------------------------------------------------------------
(* command()                                                               *)

\* Any state but `authenticated' rejects the command and changes nothing.
Command ==
  /\ pc = "idle"
  /\ state = "authenticated"
  /\ cmd < MaxCommands
  /\ cmd' = cmd + 1
  /\ late' = FALSE
  /\ outcome' = [outcome EXCEPT ![cmd + 1] = "pending"]
  /\ pc' = "write"
  /\ UNCHANGED <<state, up, chunks, got, routerVars, wire>>

\* Mutant: the promise of a command that failed is never settled.
End_Forgets(o) ==
  /\ pc' = "idle"
  /\ outcome' = IF o = "error" THEN outcome ELSE [outcome EXCEPT ![cmd] = o]
  /\ late' = FALSE

End(o) ==
  /\ pc' = "idle"
  /\ outcome' = [outcome EXCEPT ![cmd] = o]
  /\ late' = FALSE

Written ==
  /\ pc = "write"
  /\ up
  /\ pc' = "read"
  /\ UNCHANGED <<state, up, chunks, cmd, late, outcome, got, routerVars, wire>>

WriteFails ==
  /\ pc = "write"
  /\ ~up
  /\ End("error")
  /\ UNCHANGED <<state, up, chunks, cmd, got, routerVars, wire>>

\* Mutant: the first reply of a chunk is taken for the whole of it.
Heard_FirstOnly(c) == {1}

\* The places in a chunk of the replies a command takes up: those of its tag or
\* of none, up to the first that ends the command.
Heard(c) ==
  LET mine == {i \in DOMAIN c : Accepted(cmd, c[i])}
  IN  {i \in mine : \A j \in mine : j < i => c[j].type \notin Final}

\* The rows at some places of a chunk, in the order of the chunk.
RowsOf(c, S) ==
  LET R == {i \in S : c[i].type = "re"}
      place(i) == Cardinality({j \in R : j <= i})
  IN  [k \in 1 .. Cardinality(R) |-> c[CHOOSE i \in R : place(i) = k]]

\* A chunk is taken up.  What follows the reply that ends the command is lost
\* with the command's assembler; the time limit is looked at only here.
ReadChunk ==
  /\ pc = "read"
  /\ chunks # <<>>
  /\ chunks' = Tail(chunks)
  /\ LET c == Head(chunks)
         heard == Heard(c)
         Says(types) == \E i \in heard : c[i].type \in types
     IN  /\ got' = [got EXCEPT ![cmd] = @ \o RowsOf(c, heard)]
         /\ \/ /\ Says({"done"})
               /\ End("ok")
               /\ state' = IF cmd = 0 THEN "authenticated" ELSE state
            \/ /\ Says({"trap", "fatal"})
               /\ End("error")
               /\ UNCHANGED state
            \/ /\ ~Says(Final)
               /\ IF late THEN End("error") ELSE UNCHANGED <<pc, outcome, late>>
               /\ UNCHANGED state
  /\ UNCHANGED <<up, cmd, routerVars, wire>>

\* Mutant: the loop of read() does not look whether the socket is open.
Block_Always ==
  /\ pc = "read"
  /\ chunks = <<>>
  /\ pc' = "wait"
  /\ UNCHANGED <<state, up, chunks, cmd, late, outcome, got, routerVars, wire>>

\* read() finds no chunk: it leaves its resolver and waits.
Block ==
  /\ pc = "read"
  /\ chunks = <<>>
  /\ up
  /\ pc' = "wait"
  /\ UNCHANGED <<state, up, chunks, cmd, late, outcome, got, routerVars, wire>>

\* The stream has ended: the command fails as timed out.
ReadEnds ==
  /\ pc = "read"
  /\ chunks = <<>>
  /\ ~up
  /\ End("error")
  /\ UNCHANGED <<state, up, chunks, cmd, got, routerVars, wire>>

\* The time limit passes.  No timer acts on it.
Expire ==
  /\ pc \in {"read", "wait"}
  /\ late' = TRUE
  /\ UNCHANGED <<state, up, chunks, pc, cmd, outcome, got, routerVars, wire>>

-----------------------------------------------------------------------------
(* The socket                                                              *)

\* Mutant: the resolver is not called.
Wake_Lost == UNCHANGED pc

Wake == pc' = IF pc = "wait" THEN "read" ELSE pc

\* A data event: the first k replies under way arrive as one chunk.
Deliver(k) ==
  /\ up
  /\ k \in DOMAIN wire
  /\ chunks' = Append(chunks, SubSeq(wire, 1, k))
  /\ wire' = SubSeq(wire, k + 1, Len(wire))
  /\ Wake
  /\ UNCHANGED <<state, up, cmd, late, outcome, got, routerVars>>

\* A close event: the peer or the network ended the connection, or disconnect()
\* did.  The connection's state does not follow.
SocketCloses ==
  /\ up
  /\ up' = FALSE
  /\ wire' = <<>>
  /\ Wake
  /\ UNCHANGED <<state, chunks, cmd, late, outcome, got, routerVars>>

-----------------------------------------------------------------------------
(* close()                                                                 *)

\* By the caller between two commands, or by somebody else once the client is
\* authenticated and shared.
Close ==
  /\ (pc = "idle" /\ state # "idle") \/ state = "authenticated"
  /\ state' = IF state = "closed" THEN "closed" ELSE "closing"
  /\ UNCHANGED <<up, chunks, pc, cmd, late, outcome, got, routerVars, wire>>

CloseEnds ==
  /\ state = "closing"
  /\ ~up
  /\ state' = "closed"
  /\ UNCHANGED <<up, chunks, pc, cmd, late, outcome, got, routerVars, wire>>

-----------------------------------------------------------------------------
(* The router, external                                                    *)

\* It has read the command it answers next.
Asked == up /\ turn <= cmd /\ outcome[turn] # "none"

Say(t) == wire' = Append(wire, [for |-> turn, type |-> t, no |-> rows[turn] + 1])

Row ==
  /\ Asked
  /\ turn > 0
  /\ said[turn] = "nothing"
  /\ rows[turn] < MaxRows
  /\ Say("re")
  /\ rows' = [rows EXCEPT ![turn] = @ + 1]
  /\ UNCHANGED <<clientVars, up, chunks, turn, said>>

\* The answer ends; after a trap the router may still send !done.
Finish(t) ==
  /\ Asked
  /\ said[turn] = "nothing"
  /\ Say(t)
  /\ said' = [said EXCEPT ![turn] = t]
  /\ turn' = IF t = "done" /\ turn < MaxCommands THEN turn + 1 ELSE turn
  /\ UNCHANGED <<clientVars, up, chunks, rows>>

AfterTrap ==
  /\ up
  /\ said[turn] = "trap"
  /\ turn < MaxCommands
  /\ turn' = turn + 1
  /\ Say("done") \/ UNCHANGED wire
  /\ UNCHANGED <<clientVars, up, chunks, said, rows>>

-----------------------------------------------------------------------------
Read == ReadChunk \/ Block \/ ReadEnds \/ Written \/ WriteFails

Next ==
  \/ Connect
  \/ Connected
  \/ ConnectFails
  \/ Command
  \/ Read
  \/ Expire
  \/ \E k \in DOMAIN wire : Deliver(k)
  \/ SocketCloses
  \/ Close
  \/ CloseEnds
  \/ Row
  \/ \E t \in Final : Finish(t)
  \/ AfterTrap

Spec == Init /\ [][Next]_vars

\* The event loop resumes the reader, the socket delivers what was sent unless it
\* closes, disconnect() destroys it in the end, and time passes.  Neither the
\* router nor a caller owes anything.
FairSpec ==
  /\ Spec
  /\ WF_vars(Read)
  /\ WF_vars(\E k \in DOMAIN wire : Deliver(k))
  /\ WF_vars(state = "closing" /\ SocketCloses)
  /\ WF_vars(Expire)

-----------------------------------------------------------------------------
Reply == [for : Exchanges, type : Final \cup {"re"}, no : 1 .. MaxRows + 1]

TypeOK ==
  /\ state \in States
  /\ up \in BOOLEAN
  /\ chunks \in Seq(Seq(Reply) \ {<<>>})
  /\ pc \in {"idle", "connect", "write", "read", "wait"}
  /\ cmd \in Exchanges
  /\ late \in BOOLEAN
  /\ outcome \in [Exchanges -> {"none", "pending", "ok", "error"}]
  /\ \A n \in Exchanges : outcome[n] = "pending" => n = cmd /\ pc # "idle"
  /\ got \in [Exchanges -> Seq(Reply)]
  /\ turn \in Exchanges
  /\ said \in [Exchanges -> Final \cup {"nothing"}]
  /\ rows \in [Exchanges -> 0 .. MaxRows]
  /\ wire \in Seq(Reply)

Answer(n, k) == [i \in 1 .. k |-> [for |-> n, type |-> "re", no |-> i]]

\* As long as every earlier command of the connection succeeded, a command reads
\* the rows the router sent for it, in order, and one that succeeds has read them
\* all, however the network cut the stream, even when the connection was closed
\* under it.
AnswersMatch ==
  \A n \in Commands :
    (\A m \in 0 .. n - 1 : outcome[m] = "ok") =>
      /\ got[n] = Answer(n, Len(got[n]))
      /\ outcome[n] = "ok" => said[n] = "done" /\ Len(got[n]) = rows[n]

\* No lost wakeup: a command whose answer the router has ended comes to its end,
\* and when the socket closes, so does the command or the login under way.
AnsweredCommandEnds ==
  \A n \in Exchanges :
    (outcome[n] = "pending" /\ (~up \/ (n \in Commands /\ said[n] # "nothing"))) ~> (outcome[n] # "pending")

\* The rows a command reads are rows of its own answer: what the tags are for.
OwnRows ==
  \A n \in Commands : \A i \in DOMAIN got[n] : got[n][i].for = n

\* A command ends, by its answer or by its time limit.
CommandEnds ==
  \A n \in Commands : (outcome[n] = "pending") ~> (outcome[n] # "pending")
=============================================================================
