--------------------------- MODULE SyslogRouterOs ---------------------------
(***************************************************************************)
(* Pointing a router's log at this server                                  *)
(* (modules/syslog/syslog-routeros.service.ts configure()): a logging      *)
(* action MMESyslog, or one of its former name mme-syslog, and one rule    *)
(* that uses it, set by a sequence of commands any of which may be         *)
(* refused, silently ignored or left unanswered.                           *)
(*                                                                         *)
(* An action is known by the profile that wrote its parameters last.  What *)
(* is asked for (address, port, topics) is one value; everything else is   *)
(* "other".                                                                *)
(***************************************************************************)
EXTENDS Naturals, Sequences, FiniteSets

CONSTANTS
  Callers,   \* requests that may configure the router at once
  MaxRuns,   \* bound: configurations begun
  MaxBreaks  \* bound: commands left unanswered

VARIABLES
  actions,  \* external, the router: /system/logging/action: id, name, profile
  rules,    \* external, the router: /system/logging: id, action, topics; printed as added,
            \* by identifier
  fresh,    \* external: the next identifier
  runs,     \* configurations begun, for the bound
  breaks,   \* unanswered commands, for the bound
  step,     \* caller -> where configure() is
  offers,   \* caller -> profiles still to try
  actionId, \* caller -> actionId (0: undefined)
  removals, \* caller -> identifiers still to remove
  overlap   \* history: caller -> another request ran meanwhile

srVars == <<actions, rules, fresh, runs, breaks, step, offers, actionId, removals, overlap>>
router == <<actions, rules, fresh>>

Managed == "MMESyslog"
Former == "mme-syslog"

\* buildRouterOsSyslogActionProfiles() of what /system/resource/print says.
Profiles(version) ==
  CASE version = "7.18+"   -> <<"modern", "endpoint", "minimal">>
    [] version = "older"   -> <<"legacy", "minimal">>
    [] version = "unknown" -> <<"modern", "endpoint", "legacy", "minimal">>

\* The parameters remote and remote-port of a profile: the other profiles only
\* differ in the format of the log.
Destination(p) ==
  CASE p = "endpoint" -> "address:port in remote-port"
    [] p = "other"    -> "other"
    [] OTHER          -> "address in remote, port in remote-port"

Action(id, name) == [id |-> id, name |-> name, profile |-> "other"]
Rule(id, a) == [id |-> id, action |-> a, topics |-> "other"]

\* Routers as this program may find them: never configured, configured by this
\* or a former release, by both, left with duplicate rules.
Init ==
  /\ actions \in {{}, {Action(1, Managed)}, {Action(1, Former)}, {Action(1, Managed), Action(2, Former)}}
  /\ rules \in {{}} \cup {{Rule(3, a.id)} : a \in actions}
                \cup {{Rule(3, a.id), Rule(4, b.id)} : a, b \in actions}
  /\ fresh = 5
  /\ runs = 0 /\ breaks = 0
  /\ step = [c \in Callers |-> "idle"]
  /\ offers = [c \in Callers |-> <<>>]
  /\ actionId = [c \in Callers |-> 0]
  /\ removals = [c \in Callers |-> {}]
  /\ overlap = [c \in Callers |-> FALSE]

Goto(c, l) == step' = [step EXCEPT ![c] = l]
Running(c) == step[c] \notin {"idle", "succeeded"}

Named(name) == {a \in actions : a.name = name}
\* find(): the first of that name (the router keeps names apart).
IdOf(S) == IF S = {} THEN 0 ELSE (CHOOSE a \in S : TRUE).id
ManagedIds == {a.id : a \in {b \in actions : b.name \in {Managed, Former}}}

\* Connected; the version and the actions are printed.
Begin(c, version) ==
  /\ ~Running(c) /\ runs < MaxRuns
  /\ runs' = runs + 1
  /\ offers' = [offers EXCEPT ![c] = Profiles(version)]
  /\ actionId' = [actionId EXCEPT ![c] = IF Named(Managed) # {} THEN IdOf(Named(Managed)) ELSE IdOf(Named(Former))]
  /\ removals' = [removals EXCEPT ![c] = {}]
  /\ overlap' = [d \in Callers |-> IF d = c THEN \E e \in Callers : e # c /\ Running(e) ELSE TRUE]
  /\ Goto(c, "action")
  /\ UNCHANGED <<router, breaks>>

\* What a command may do to the router: everything, or, ignored, nothing.  An
\* action that is not there any more cannot be set, nor a name given twice.
Writable(id) == id = 0 \/ \E a \in actions : a.id = id
NameFree(id) == \A a \in Named(Managed) : a.id = id

WriteAction(c) ==
  LET id == actionId[c] IN
  /\ Writable(id) /\ NameFree(id)
  /\ actions' = {a \in actions : a.id # id} \cup
       {[id |-> IF id = 0 THEN fresh ELSE id, name |-> Managed, profile |-> Head(offers[c])]}
  /\ fresh' = IF id = 0 THEN fresh + 1 ELSE fresh

\* The router takes the profile, or answers !done and keeps the parameters it
\* had (the name is taken).
SetAction(c) ==
  /\ step[c] = "action" /\ offers[c] # <<>>
  /\ \/ WriteAction(c)
     \/ /\ actionId[c] # 0 /\ Writable(actionId[c]) /\ NameFree(actionId[c])
        /\ actions' = {IF a.id = actionId[c] THEN [a EXCEPT !.name = Managed] ELSE a : a \in actions}
        /\ UNCHANGED fresh
  /\ Goto(c, "verifyAction")
  /\ UNCHANGED <<rules, runs, breaks, offers, actionId, removals, overlap>>

\* isParameterCompatibilityError(): the next profile is tried.
RefuseProfile(c) ==
  /\ step[c] = "action" /\ offers[c] # <<>>
  /\ offers' = [offers EXCEPT ![c] = Tail(@)]
  /\ UNCHANGED <<router, runs, breaks, step, actionId, removals, overlap>>

\* Mutant: an action of the right name will do, wherever it sends.
Matches_Name(p) == Named(Managed) # {}

\* actionMatchesProfile(): the destination is compared, the format is not.
Matches(p) == \E a \in Named(Managed) : Destination(a.profile) = Destination(p)

VerifyAction(c) ==
  /\ step[c] = "verifyAction"
  /\ actionId' = [actionId EXCEPT ![c] = IdOf(Named(Managed))]
  /\ IF Matches(Head(offers[c]))
     THEN Goto(c, "listRules") /\ UNCHANGED offers
     ELSE Goto(c, "action") /\ offers' = [offers EXCEPT ![c] = Tail(@)]
  /\ UNCHANGED <<router, runs, breaks, removals, overlap>>

\* No profile is left, or the name is taken by another action.
GiveUp(c) ==
  /\ step[c] = "action"
  /\ offers[c] = <<>> \/ ~Writable(actionId[c]) \/ ~NameFree(actionId[c])
  /\ Goto(c, "idle")
  /\ UNCHANGED <<router, runs, breaks, offers, actionId, removals, overlap>>

\* The managed rules: the first is kept in hand, the others are duplicates.
ListRules(c) ==
  /\ step[c] = "listRules"
  /\ removals' = [removals EXCEPT ![c] = {r.id : r \in {q \in rules : q.action \in ManagedIds}}]
  /\ Goto(c, "rule")
  /\ UNCHANGED <<router, runs, breaks, offers, actionId, overlap>>

Present(id) == \E r \in rules : r.id = id
Asked(id) == [id |-> id, action |-> IdOf(Named(Managed)), topics |-> "asked"]

\* What the loop over removals comes to: they are in the order of the print.
Foremost(S) == CHOOSE id \in S : \A other \in S : id <= other
Rest(S) == S \ {Foremost(S)}

\* set of the first managed rule, or add when there is none.
WriteRule(c) ==
  /\ Named(Managed) # {}
  /\ IF removals[c] = {}
     THEN rules' = rules \cup {Asked(fresh)} /\ fresh' = fresh + 1
     ELSE LET id == Foremost(removals[c]) IN
          /\ Present(id)
          /\ rules' = {r \in rules : r.id # id} \cup {Asked(id)}
          /\ UNCHANGED fresh
  /\ UNCHANGED actions

SetRule(c) ==
  /\ step[c] = "rule"
  /\ WriteRule(c)
  /\ removals' = [removals EXCEPT ![c] = IF @ = {} THEN {} ELSE Rest(@)]
  /\ Goto(c, "duplicates")
  /\ UNCHANGED <<runs, breaks, offers, actionId, overlap>>

DropRule(c) ==
  /\ Present(Foremost(removals[c]))
  /\ rules' = {r \in rules : r.id # Foremost(removals[c])}
  /\ UNCHANGED <<actions, fresh>>

\* Mutant: the duplicates are left.
RemoveDuplicate_Skipped(c) ==
  /\ step[c] = "duplicates" /\ removals[c] # {}
  /\ removals' = [removals EXCEPT ![c] = Rest(@)]
  /\ UNCHANGED <<router, runs, breaks, step, offers, actionId, overlap>>

RemoveDuplicate(c) ==
  /\ step[c] = "duplicates" /\ removals[c] # {}
  /\ DropRule(c)
  /\ removals' = [removals EXCEPT ![c] = Rest(@)]
  /\ UNCHANGED <<runs, breaks, step, offers, actionId, overlap>>

\* The rules are printed again; then the actions of the former name are listed.
VerifyRule(c) ==
  /\ step[c] = "duplicates" /\ removals[c] = {}
  /\ IF \E r \in rules : r.action \in {a.id : a \in Named(Managed)} /\ r.topics = "asked"
     THEN Goto(c, "former") /\ removals' = [removals EXCEPT ![c] = {a.id : a \in Named(Former)}]
     ELSE Goto(c, "idle") /\ UNCHANGED removals
  /\ UNCHANGED <<router, runs, breaks, offers, actionId, overlap>>

DropAction(c) ==
  /\ \E a \in actions : a.id = Foremost(removals[c])
  /\ actions' = {a \in actions : a.id # Foremost(removals[c])}
  /\ UNCHANGED <<rules, fresh>>

RemoveFormer(c) ==
  /\ step[c] = "former" /\ removals[c] # {}
  /\ DropAction(c)
  /\ removals' = [removals EXCEPT ![c] = Rest(@)]
  /\ UNCHANGED <<runs, breaks, step, offers, actionId, overlap>>

\* The test message only adds a warning to the answer.
Succeed(c) ==
  /\ step[c] = "former" /\ removals[c] = {}
  /\ Goto(c, "succeeded")
  /\ UNCHANGED <<router, runs, breaks, offers, actionId, removals, overlap>>

\* What a command names is gone: another request removed it.
Gone(c) ==
  /\ \/ step[c] = "rule" /\ (Named(Managed) = {} \/ (removals[c] # {} /\ ~Present(Foremost(removals[c]))))
     \/ step[c] = "duplicates" /\ removals[c] # {} /\ ~Present(Foremost(removals[c]))
     \/ step[c] = "former" /\ removals[c] # {} /\ \A a \in actions : a.id # Foremost(removals[c])
  /\ Goto(c, "idle")
  /\ UNCHANGED <<router, runs, breaks, offers, actionId, removals, overlap>>

\* A command is left unanswered: it may have been carried out.
Break(c) ==
  /\ breaks < MaxBreaks
  /\ breaks' = breaks + 1
  /\ Running(c)
  /\ \/ UNCHANGED router
     \/ step[c] = "action" /\ offers[c] # <<>> /\ WriteAction(c) /\ UNCHANGED rules
     \/ step[c] = "rule" /\ WriteRule(c)
     \/ step[c] = "duplicates" /\ removals[c] # {} /\ DropRule(c)
     \/ step[c] = "former" /\ removals[c] # {} /\ DropAction(c)
  /\ Goto(c, "idle")
  /\ UNCHANGED <<runs, offers, actionId, removals, overlap>>

Step(c) ==
  \/ \E version \in {"7.18+", "older", "unknown"} : Begin(c, version)
  \/ SetAction(c) \/ RefuseProfile(c) \/ VerifyAction(c) \/ GiveUp(c)
  \/ ListRules(c) \/ SetRule(c) \/ RemoveDuplicate(c) \/ VerifyRule(c)
  \/ RemoveFormer(c) \/ Succeed(c) \/ Gone(c) \/ Break(c)

Next == \E c \in Callers : Step(c)

Spec == Init /\ [][Next]_srVars

-----------------------------------------------------------------------------
TypeOK ==
  /\ \A a \in actions : a.name \in {Managed, Former} /\ a.id < fresh
  /\ \A r \in rules : r.id < fresh /\ r.topics \in {"asked", "other"}
  /\ runs \in 0 .. MaxRuns /\ breaks \in 0 .. MaxBreaks
  /\ \A c \in Callers : step[c] \in {"idle", "action", "verifyAction", "listRules", "rule",
                                      "duplicates", "former", "succeeded"}

ManagedRules == {r \in rules : r.action \in ManagedIds}

\* A configuration that reports success, no other having run meanwhile, left
\* one rule on one action of the new name, which sends to the address and port
\* asked for in the form of the profile reported (its format of the log may be
\* that of an earlier profile, which is not verified), with the topics asked
\* for, and nothing of the former name, whatever earlier runs left half-done.
\* And whatever breaks, requests that overlap included, no rule is left on an
\* action that does not exist.
OneRuleOneAction ==
  /\ \A c \in Callers : step[c] = "succeeded" /\ ~overlap[c] =>
       /\ Cardinality(ManagedRules) = 1
       /\ \A r \in ManagedRules : r = Asked(r.id)
       /\ \E a \in actions : actions = {a} /\ a.name = Managed /\ Destination(a.profile) = Destination(Head(offers[c]))
  /\ \A r \in rules : r.action \in ManagedIds
=============================================================================
