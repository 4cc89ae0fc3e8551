-------------------------------- MODULE Gate --------------------------------
(***************************************************************************)
(* The authorization gate every command passes (gateCommandContext of      *)
(* security/interceptor.go), for the commands of a managed agent's session *)
(* and composed with the flight that gives and takes that session.         *)
(*                                                                         *)
(* The gate asks one component after another: the audit log, the agent's   *)
(* lease and allowlist, policy, entitlements, change management, four      *)
(* eyes, the admin plane with its budget, restricted mode.  No lock spans  *)
(* two of them and the four-eyes wait takes minutes, so what was checked   *)
(* early may have changed when the command is let through.  The answers of *)
(* Rego, of the entitlements file, of change tickets and of approvers are  *)
(* free; a four-eyes wait is one request of module FourEyes.               *)
(***************************************************************************)
EXTENDS Flight

CONSTANTS
    Calls,           \* commands in the gate at once
    Commands,        \* command names
    AgentAllow,      \* the fixed allowlist of agents, and of their budgets
    RawNames,        \* raw admin names, refused whatever the policy says
    QuarantineAllow, \* what a quarantined host still runs
    NeedsApproval,   \* what a four-eyes rule matches
    RestrictedDeny,  \* what restricted mode refuses, {} without it
    AuditFails,      \* TRUE: LogCommand and LogEvent may fail
    MaxCommands      \* bound: commands that enter the gate

ASSUME GateAssumption ==
    /\ AgentAllow \cup RawNames \cup QuarantineAllow \cup NeedsApproval
          \cup RestrictedDeny \subseteq Commands
    /\ AuditFails \in BOOLEAN /\ MaxCommands \in Nat

VARIABLES
    sponsor,    \* the sponsor's session is registered and not terminated
    quarantine, \* quarantineActive
    gpc,        \* each call's control state
    call,       \* its command and agent, the flight it came from (history)
    logged,     \* the records the call put in the audit chain
    entered,    \* commands that entered so far
    spent,      \* history: commands let through for each flight while it flew
    ran         \* history: commands let through

gateVars == <<sponsor, quarantine, gpc, call, logged, entered, spent, ran>>
vars == <<flightVars, gateVars>>

NoCall == [cmd |-> None, agent |-> None, flight |-> None]

Init ==
    /\ FlightInit
    /\ sponsor = TRUE /\ quarantine = FALSE
    /\ gpc = [c \in Calls |-> "idle"]
    /\ call = [c \in Calls |-> NoCall]
    /\ logged = [c \in Calls |-> {}]
    /\ entered = 0
    /\ spent = [f \in Flights |-> 0]
    /\ ran = {}

\* The sponsor logs out, or an operator quarantines the host.
SponsorEnds ==
    /\ sponsor /\ sponsor' = FALSE
    /\ UNCHANGED <<flightVars, quarantine, gpc, call, logged, entered, spent, ran>>

Quarantine ==
    /\ quarantine' = ~quarantine
    /\ UNCHANGED <<flightVars, sponsor, gpc, call, logged, entered, spent, ran>>

-----------------------------------------------------------------------------
CallGoes(c, from, to) ==
    /\ gpc[c] = from
    /\ gpc' = [gpc EXCEPT ![c] = to]
    /\ UNCHANGED <<call, logged, ran>>

\* The gate refuses (and remembers the command, which only ?? reads).
Denies(c) ==
    /\ gpc' = [gpc EXCEPT ![c] = "idle"]
    /\ call' = [call EXCEPT ![c] = NoCall]
    /\ logged' = [logged EXCEPT ![c] = {}]
    /\ UNCHANGED ran

\* A record that may fail to be written; without it the gate refuses.
Records(c, what, from, to) ==
    \/ /\ gpc[c] = from
       /\ gpc' = [gpc EXCEPT ![c] = to]
       /\ logged' = [logged EXCEPT ![c] = @ \cup {what}]
       /\ UNCHANGED <<call, ran>>
    \/ AuditFails /\ gpc[c] = from /\ Denies(c)

\* A command of the agent's session enters the gate, once the placeFlight that
\* registered the session answered the one who runs the agent.
Enter(c, a, cmd) ==
    /\ entered < MaxCommands
    /\ session[a] # None
    /\ \A t \in Threads : ~(tpc[t] = "bind" /\ job[t].flight = session[a])
    /\ gpc[c] = "idle"
    /\ gpc' = [gpc EXCEPT ![c] = "log"]
    /\ call' = [call EXCEPT ![c] = [cmd |-> cmd, agent |-> a, flight |-> session[a]]]
    /\ entered' = entered + 1
    /\ UNCHANGED <<flightVars, sponsor, quarantine, logged, spent, ran>>

LogCommand(c) ==
    /\ Records(c, "command", "log", "agent")
    /\ UNCHANGED <<flightVars, sponsor, quarantine, entered, spent>>

AgentMay(k) == session[k.agent] \notin expired /\ k.cmd \in AgentAllow

\* The lease and the allowlist, if the session carries an agent binding now.
AgentCheck(c) ==
    LET k == call[c]
        isAgent == session[k.agent] # None /\ bound[k.agent]
    IN
    /\ gpc[c] = "agent"
    /\ IF isAgent => AgentMay(k)
       THEN /\ gpc' = [gpc EXCEPT ![c] = "policy"]
            /\ UNCHANGED <<call, logged, ran>>
       ELSE Denies(c)
    /\ UNCHANGED <<flightVars, sponsor, quarantine, entered, spent>>

\* buildPolicyContext: a session that is no longer registered has no identity (an
\* agent session has none bound on the engine).
IdentityKnown(k) == session[k.agent] # None

\* EvaluatePolicyDecision: policy may allow, deny or fail.
EvaluatePolicy(c) ==
    /\ gpc[c] = "policy"
    /\ \/ IdentityKnown(call[c]) /\ CallGoes(c, "policy", "decision")
       \/ Denies(c)
    /\ UNCHANGED <<flightVars, sponsor, quarantine, entered, spent>>

\* Mutant: a decision that cannot be recorded lets the command through.
LogDecision_Ignored(c) ==
    /\ CallGoes(c, "decision", "approval")
    /\ UNCHANGED <<flightVars, sponsor, quarantine, entered, spent>>

LogDecision(c) ==
    /\ Records(c, "allow", "decision", "approval")
    /\ UNCHANGED <<flightVars, sponsor, quarantine, entered, spent>>

\* Entitlements, the change ticket and the match of the four-eyes rules; each
\* may refuse, an unreadable rules file included.
ApprovalGate(c) ==
    /\ gpc[c] = "approval"
    /\ \/ CallGoes(c, "approval", IF call[c].cmd \in NeedsApproval THEN "wait" ELSE "admin")
       \/ Denies(c)
    /\ UNCHANGED <<flightVars, sponsor, quarantine, entered, spent>>

\* Mutant: a wait ends with a grant only while the flight's lease lasts.
ApprovalReturns_NoTimeout(c) ==
    /\ gpc[c] = "wait" /\ call[c].flight \notin expired
    /\ CallGoes(c, "wait", "admin")
    /\ UNCHANGED <<flightVars, sponsor, quarantine, entered, spent>>

\* RequestApprovalForSessionContext returns: granted, or denied, timed out or
\* canceled.
ApprovalReturns(c) ==
    /\ gpc[c] = "wait"
    /\ CallGoes(c, "wait", "admin") \/ Denies(c)
    /\ UNCHANGED <<flightVars, sponsor, quarantine, entered, spent>>

\* Mutant: the budget's deadline is left to the lease check.
Chargeable_NoDeadline(k) ==
    LET b == budget[k.agent] IN
    /\ sponsor /\ b.flight \notin remote
    /\ k.cmd \in AgentAllow
    /\ b.left > 0

\* chargeAgentCommand's conditions on a budget; a peer's flight has no sponsor.
Chargeable(k) ==
    LET b == budget[k.agent] IN
    /\ sponsor /\ b.flight \notin remote
    /\ k.cmd \in AgentAllow
    /\ b.flight \notin expired
    /\ b.left > 0

Charge(k) == budget' = [budget EXCEPT ![k.agent].left = @ - 1]

\* What restricted mode lets through returns nil from the gate.
Returns(c) ==
    LET k == call[c]
        flies == Live(k.flight)
    IN
    IF k.cmd \in RestrictedDeny
    THEN Denies(c) /\ UNCHANGED spent
    ELSE /\ gpc' = [gpc EXCEPT ![c] = "idle"]
         /\ ran' = ran \cup {[cmd |-> k.cmd, flies |-> flies,
                              late |-> k.flight \in expired, logged |-> logged[c]]}
         /\ spent' = [spent EXCEPT ![k.flight] = IF flies THEN @ + 1 ELSE @]
         /\ call' = [call EXCEPT ![c] = NoCall]
         /\ logged' = [logged EXCEPT ![c] = {}]

\* adminPlaneCheck: raw names, quarantine, and the budget if there is one; then
\* restricted mode, which looks at the command's name only.
AdminPlane(c) ==
    LET k == call[c]
        barred == k.cmd \in RawNames \/ (quarantine /\ k.cmd \notin QuarantineAllow)
        budgeted == budget[k.agent] # NoBudget
    IN
    /\ gpc[c] = "admin"
    /\ \/ ~barred /\ ~budgeted /\ Returns(c) /\ UNCHANGED budget
       \/ ~barred /\ budgeted /\ Chargeable(k) /\ Returns(c) /\ Charge(k)
       \/ /\ barred \/ (budgeted /\ ~Chargeable(k))
          /\ Denies(c) /\ UNCHANGED <<budget, spent>>
    /\ UNCHANGED <<tables, session, bound, tpc, job, todo, current, sponsor, quarantine, entered>>

GateStep(c) ==
    \/ LogCommand(c) \/ AgentCheck(c) \/ EvaluatePolicy(c) \/ LogDecision(c)
    \/ ApprovalGate(c) \/ ApprovalReturns(c) \/ AdminPlane(c)

Next ==
    \/ FlightNext /\ UNCHANGED gateVars
    \/ \E c \in Calls : \/ GateStep(c)
                        \/ \E a \in Agents, cmd \in Commands : Enter(c, a, cmd)
    \/ SponsorEnds
    \/ Quarantine

\* A call keeps running; its four-eyes wait ends with the rule's TTL at last.
Spec == Init /\ [][Next]_vars /\ \A c \in Calls : WF_vars(GateStep(c))

-----------------------------------------------------------------------------
\* Every variable stays in its type.
TypeOK ==
    /\ FlightTypeOK
    /\ sponsor \in BOOLEAN /\ quarantine \in BOOLEAN
    /\ gpc \in [Calls -> {"idle", "log", "agent", "policy", "decision", "approval", "wait",
                          "admin"}]
    /\ call \in [Calls -> [cmd : Commands \cup {None}, agent : Agents \cup {None},
                           flight : Flights \cup {None}]]
    /\ logged \in [Calls -> SUBSET {"command", "allow"}]
    /\ entered \in 0 .. MaxCommands
    /\ spent \in [Flights -> Nat]

\* Whatever fails, a command the gate lets through has its own line and the
\* policy's allow decision in the audit chain.
RanOnRecord == \A x \in ran : x.logged = {"command", "allow"}

\* However many commands of one agent are in the gate at once, no more are let
\* through for a flight, while it flies, than its budget was bound with.
WithinBudget == \A f \in Flights : spent[f] <= Budget

\* While its flight is in the tables, an agent runs nothing after the lease ran
\* out, however long the command waited for approval, and nothing outside the
\* allowlist, whatever else is released meanwhile.
HeldInFlight == \A x \in ran : x.flies => ~x.late /\ x.cmd \in AgentAllow

\* Every command that enters the gate is answered.
GateReturns == \A c \in Calls : gpc[c] = "log" ~> gpc[c] = "idle"

\* While its flight is in the tables an agent is held to its flight's budget, lease
\* and allowlist, by the commands that are in the gate at once together.
AgentHeld == TypeOK /\ WithinBudget /\ HeldInFlight
=============================================================================
