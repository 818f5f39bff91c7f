--------------------------- MODULE SyslogSettings ---------------------------
(***************************************************************************)
(* A new syslog configuration on its way to the four places that hold it:  *)
(* the listeners, the Windows firewall, the database and the memory of     *)
(* SyslogService (modules/syslog/syslog.service.ts start(),                *)
(* updateSettings(), applySettings(); syslog.receiver.ts start(), stop();  *)
(* syslog-firewall.service.ts sync()).                                     *)
(*                                                                         *)
(* A configuration says which transports it wants and on which port; one   *)
(* that is switched off wants none.  The server answers requests before    *)
(* SyslogService.start() is called, so an update may meet it half-way.     *)
(***************************************************************************)
EXTENDS Naturals, Sequences, FiniteSets

CONSTANTS
  Configs,     \* configurations asked for: [wants : SUBSET Transports, port : Nat]
  Default,     \* config.syslog
  MaxUpdates,  \* bound: updates asked for
  MaxFaults    \* bound: ports taken by others, failed writes and scripts, ends of the program

VARIABLES
  memory,      \* SyslogService.settings
  persisted,   \* the row of the database
  rule,        \* external: the port the firewall lets in (0: none)
  bound,       \* SyslogReceiver.settings
  held,        \* udpSocket and tcpServer: the port, or 0
  open,        \* sockets of this program that are listening
  taken,       \* listeners of other programs
  call,        \* actor -> the receiver.start() it is in
  boot,        \* where SyslogService.start() is
  update,      \* the update under way
  waiting,     \* settingsUpdateQueue
  asked,       \* updates asked for, for the bound
  faults,      \* faults so far, for the bound
  raced,       \* history: an update met start() half-way in this life of the program
  degraded,    \* history: the listeners started last for a boot or a rollback were refused
  unsynced     \* history: the firewall was not set since the program began, or a rollback of it failed

ssVars == <<memory, persisted, rule, bound, held, open, taken, call, boot, update, waiting,
            asked, faults, raced, degraded, unsynced>>
places == <<memory, persisted, rule>>
sockets == <<bound, held, open>>
ssHistory == <<raced, degraded, unsynced>>

Transports == {"udp", "tcp"}
Actors == {"boot", "update"}
Listeners(c) == {<<t, c.port>> : t \in c.wants}
\* sync(): the rule for the port, or its removal.
RuleOf(c) == IF c.wants = {} THEN 0 ELSE c.port
Closed == [t \in Transports |-> 0]
NoCall == [pc |-> "none", cfg |-> Default, port |-> 0]
NoUpdate == [pc |-> "idle", next |-> Default, prev |-> Default]

Init ==
  /\ memory = Default /\ persisted = Default
  /\ rule = 0
  /\ bound = Default /\ held = Closed /\ open = {} /\ taken = {}
  /\ call = [a \in Actors |-> NoCall]
  /\ boot = "read"
  /\ update = NoUpdate
  /\ waiting = <<>>
  /\ asked = 0 /\ faults = 0
  /\ raced = FALSE /\ degraded = FALSE /\ unsynced = TRUE

Fault == faults < MaxFaults /\ faults' = faults + 1

\* Another program takes a port nobody holds, or gives it back.
Others ==
  /\ \/ \E t \in Transports, c \in Configs :
          /\ <<t, c.port>> \notin open \cup taken
          /\ Fault
          /\ taken' = taken \cup {<<t, c.port>>}
     \/ taken # {} /\ taken' = {} /\ UNCHANGED faults
  /\ UNCHANGED <<places, sockets, call, boot, update, waiting, asked, ssHistory>>

-----------------------------------------------------------------------------
(* SyslogReceiver.start()                                                  *)

\* stop() up to its first await: what is held is closed and let go.
CallStart(a, c) ==
  /\ open' = open \ {<<t, held[t]>> : t \in Transports}
  /\ held' = Closed
  /\ call' = [call EXCEPT ![a] = [pc |-> "stopped", cfg |-> c, port |-> 0]]
  /\ UNCHANGED bound

\* bind() or listen() on the port of the settings the receiver holds now; the
\* socket is open before startUdp() or startTcp() resumes and keeps it.
Bind(a, t, here, bound1, next) ==
  LET s == <<t, bound1.port>> IN
  IF t \notin call[a].cfg.wants \/ s \in open \cup taken
  THEN call' = [call EXCEPT ![a].pc = next] /\ UNCHANGED open
  ELSE call' = [call EXCEPT ![a].pc = here, ![a].port = bound1.port] /\ open' = open \cup {s}

\* The queue is flushed: the settings are taken over, UDP first.
Stopped(a) ==
  /\ call[a].pc = "stopped"
  /\ bound' = call[a].cfg
  /\ Bind(a, "udp", "udp", bound', "udpDone")
  /\ UNCHANGED <<places, held, taken, boot, update, waiting, asked, faults, ssHistory>>

KeepUdp(a) ==
  /\ call[a].pc = "udp"
  /\ held' = [held EXCEPT !["udp"] = call[a].port]
  /\ call' = [call EXCEPT ![a].pc = "udpDone"]
  /\ UNCHANGED <<places, bound, open, taken, boot, update, waiting, asked, faults, ssHistory>>

StartTcp(a) ==
  /\ call[a].pc = "udpDone"
  /\ Bind(a, "tcp", "tcp", bound, "done")
  /\ UNCHANGED <<places, bound, held, taken, boot, update, waiting, asked, faults, ssHistory>>

KeepTcp(a) ==
  /\ call[a].pc = "tcp"
  /\ held' = [held EXCEPT !["tcp"] = call[a].port]
  /\ call' = [call EXCEPT ![a].pc = "done"]
  /\ UNCHANGED <<places, bound, open, taken, boot, update, waiting, asked, faults, ssHistory>>

\* receiverConfigurationError() of the status start() answers.
Refused(c) ==
  IF c.wants = {} THEN \E t \in Transports : held[t] # 0 ELSE \E t \in c.wants : held[t] = 0

Returned(a) == call[a].pc = "done"
Back(a) == call' = [call EXCEPT ![a] = NoCall]

-----------------------------------------------------------------------------
(* SyslogService.start()                                                   *)

\* ensureSettings() answers the row; then the identities are awaited.
BootRead ==
  /\ boot = "read"
  /\ boot' = "identities"
  /\ memory' = persisted
  /\ UNCHANGED <<persisted, rule, sockets, taken, call, update, waiting, asked, faults, ssHistory>>

BootStart ==
  /\ boot = "identities"
  /\ boot' = "starting"
  /\ CallStart("boot", memory)
  /\ UNCHANGED <<places, taken, update, waiting, asked, faults, ssHistory>>

\* A refused listener is only shown in the status: the program goes on.
BootEnd ==
  /\ boot = "starting" /\ Returned("boot")
  /\ boot' = "done"
  /\ Back("boot")
  /\ degraded' = Refused(call["boot"].cfg)
  /\ UNCHANGED <<places, sockets, taken, update, waiting, asked, faults, raced, unsynced>>

-----------------------------------------------------------------------------
(* updateSettings() and applySettings()                                    *)

Ask(c) ==
  /\ asked < MaxUpdates
  /\ asked' = asked + 1
  /\ waiting' = Append(waiting, c)
  /\ UNCHANGED <<places, sockets, taken, call, boot, update, faults, ssHistory>>

UpdateGo(l) == update' = [update EXCEPT !.pc = l]

\* Mutant: an update does not wait for the one before it to settle.
Apply_Unqueued ==
  /\ waiting # <<>>
  /\ waiting' = Tail(waiting)
  /\ update' = [pc |-> "start", next |-> Head(waiting), prev |-> memory]
  /\ raced' = (raced \/ boot # "done")
  /\ CallStart("update", Head(waiting))
  /\ UNCHANGED <<places, taken, boot, asked, faults, degraded, unsynced>>

\* The updates run one after the other.
Apply ==
  /\ update.pc = "idle" /\ waiting # <<>>
  /\ waiting' = Tail(waiting)
  /\ update' = [pc |-> "start", next |-> Head(waiting), prev |-> memory]
  /\ raced' = (raced \/ boot # "done")
  /\ CallStart("update", Head(waiting))
  /\ UNCHANGED <<places, taken, boot, asked, faults, degraded, unsynced>>

\* The listeners of the new configuration are open, or the previous ones are
\* started again and the request answers 409.
Started ==
  /\ update.pc = "start" /\ Returned("update")
  /\ IF Refused(update.next)
     THEN UpdateGo("refused") /\ CallStart("update", update.prev)
     ELSE UpdateGo("firewall") /\ Back("update") /\ UNCHANGED sockets
  /\ UNCHANGED <<places, taken, boot, waiting, asked, faults, ssHistory>>

\* A script that fails, or that is killed after 30 seconds, may have set the
\* rule before.
FirewallOk ==
  /\ update.pc = "firewall"
  /\ rule' = RuleOf(update.next)
  /\ UpdateGo("save")
  /\ UNCHANGED <<memory, persisted, sockets, taken, call, boot, waiting, asked, faults, ssHistory>>

FirewallFails ==
  /\ update.pc = "firewall" /\ Fault
  /\ rule' \in {rule, RuleOf(update.next)}
  /\ UpdateGo("undo")
  /\ CallStart("update", update.prev)
  /\ UNCHANGED <<memory, persisted, taken, boot, waiting, asked, ssHistory>>

SaveOk ==
  /\ update.pc = "save"
  /\ persisted' = update.next /\ memory' = update.next
  /\ update' = NoUpdate
  /\ degraded' = FALSE /\ unsynced' = FALSE
  /\ UNCHANGED <<rule, sockets, taken, call, boot, waiting, asked, faults, raced>>

\* Mutant: a failed save puts nothing back.
SaveFails_NoRollback ==
  /\ update.pc = "save" /\ Fault
  /\ update' = NoUpdate
  /\ UNCHANGED <<places, sockets, taken, call, boot, waiting, asked, ssHistory>>

SaveFails ==
  /\ update.pc = "save" /\ Fault
  /\ UpdateGo("undo")
  /\ CallStart("update", update.prev)
  /\ UNCHANGED <<places, taken, boot, waiting, asked, ssHistory>>

\* The previous listeners are back, or could not be.  memory is set to the
\* previous settings (after a firewall error it still holds them).
RolledBack ==
  /\ update.pc \in {"refused", "undo"} /\ Returned("update")
  /\ Back("update")
  /\ degraded' = Refused(update.prev)
  /\ IF update.pc = "undo" THEN UpdateGo("undoFirewall") /\ memory' = update.prev
                           ELSE update' = NoUpdate /\ UNCHANGED memory
  /\ UNCHANGED <<persisted, rule, sockets, taken, boot, waiting, asked, faults, raced, unsynced>>

\* sync(previous): what it fails with only enters the answer.
UndoFirewall ==
  /\ update.pc = "undoFirewall"
  /\ update' = NoUpdate
  /\ \/ rule' = RuleOf(update.prev) /\ UNCHANGED <<faults, unsynced>>
     \/ Fault /\ rule' \in {rule, RuleOf(update.prev)} /\ unsynced' = TRUE
  /\ UNCHANGED <<memory, persisted, sockets, taken, call, boot, waiting, asked, raced, degraded>>

-----------------------------------------------------------------------------
\* The program ends, wherever it is, and is started again; the firewall keeps
\* its rule and start() does not look at it.
Reboot ==
  /\ Fault
  /\ memory' = Default /\ bound' = Default /\ held' = Closed /\ open' = {}
  /\ call' = [a \in Actors |-> NoCall]
  /\ boot' = "read" /\ update' = NoUpdate /\ waiting' = <<>>
  /\ raced' = FALSE /\ degraded' = FALSE /\ unsynced' = TRUE
  /\ UNCHANGED <<persisted, rule, taken, asked>>

StartStep(a) == Stopped(a) \/ KeepUdp(a) \/ StartTcp(a) \/ KeepTcp(a)

Next ==
  \/ Others
  \/ \E a \in Actors : StartStep(a)
  \/ BootRead \/ BootStart \/ BootEnd
  \/ \E c \in Configs : Ask(c)
  \/ Apply \/ Started \/ FirewallOk \/ FirewallFails \/ SaveOk \/ SaveFails
  \/ RolledBack \/ UndoFirewall
  \/ Reboot

Spec == Init /\ [][Next]_ssVars

-----------------------------------------------------------------------------
TypeOK ==
  LET C == Configs \cup {Default} IN
  /\ memory \in C /\ persisted \in C /\ bound \in C
  /\ rule \in {0} \cup {c.port : c \in C}
  /\ held \in [Transports -> {0} \cup {c.port : c \in C}]
  /\ open \subseteq Transports \X {c.port : c \in C} /\ open \cap taken = {}
  /\ boot \in {"read", "identities", "starting", "done"}
  /\ update.next \in C /\ update.prev \in C
  /\ update.pc = "idle" => call["update"].pc = "none"
  /\ raced \in BOOLEAN /\ degraded \in BOOLEAN /\ unsynced \in BOOLEAN

AtRest == boot = "done" /\ update.pc = "idle"

\* Between two updates the memory, the database, the listeners and the
\* firewall hold one and the same configuration, whichever of them refused an
\* update, unless restoring the previous listeners or rule failed as well, the
\* program began and no update set the firewall yet, or an update met start()
\* half-way (the rollbacks of applySettings, settingsUpdateQueue).
SettingsAgree ==
  AtRest /\ ~raced =>
    /\ persisted = memory
    /\ open \subseteq Listeners(memory)
    /\ degraded \/ open = Listeners(memory)
    /\ unsynced \/ rule = RuleOf(memory)
=============================================================================
