------------------------------- MODULE Flight -------------------------------
(***************************************************************************)
(* Flights of the grid (internal/grid/grid_ee.go): a flight leases an agent *)
(* a registered session, a binding that confines it and a budget.          *)
(*                                                                         *)
(* The flight, agent and session tables are read and written under the     *)
(* grid's mutex; the session registry, the agent binding and the budget    *)
(* belong to other packages and are changed after that mutex was released. *)
(* Placing, canceling and reaping run on threads that interleave there.    *)
(*                                                                         *)
(* An agent's session identifier is "agent-" and its agent identifier, so  *)
(* the two are one here, and it comes back when the agent flies again.     *)
(* Worktrees are left out: they only give registerFlight one more reason   *)
(* to refuse.                                                              *)
(***************************************************************************)
EXTENDS Integers, FiniteSets

CONSTANTS
    Flights,    \* flight identifiers
    Agents,     \* agent identifiers
    Threads,    \* calls of placeFlight, cancelFlight and the reaper
    Surfaces,   \* who places flights: "local", "peer"
    Cancelers,  \* who cancels them
    Recancel,   \* TRUE: a cancel may be repeated, as a client's retry is
    AgentOf,    \* the agent each flight is placed for
    MaxFlights, \* gridMaxFlights
    Budget,     \* the commands a budget starts with
    Forget      \* TRUE: canceled flights may outlive their retention

None == "none"

ASSUME FlightAssumption ==
    /\ None \notin Flights \cup Agents
    /\ Surfaces \cup Cancelers \subseteq {"local", "peer"}
    /\ AgentOf \in [Flights -> Agents]
    /\ MaxFlights \in Nat \ {0} /\ Budget \in Nat \ {0}
    /\ Forget \in BOOLEAN /\ Recancel \in BOOLEAN

VARIABLES
    status,   \* flights: "none", "placed", "rehearsed", "denied", "canceled"
    remote,   \* flights a peer placed
    expired,  \* flights whose lease has run out
    agents,   \* agents: the flight of each
    sessions, \* sessions: the flight of each
    drained,  \* the grid takes no more flights
    session,  \* sys: the flight whose session object is registered
    bound,    \* sys: the registered session carries its agent binding
    budget,   \* security: the flight a budget was bound for, and what is left
    tpc,      \* each thread's control state
    job,      \* the flight and surface it works on
    todo,     \* the sessions it has still to release
    current   \* the one it is releasing

tables == <<status, remote, expired, agents, sessions, drained>>
others == <<session, bound, budget>>
flightVars == <<tables, others, tpc, job, todo, current>>

NoJob == [flight |-> None, surface |-> None]
NoBudget == [flight |-> None, left |-> 0]

Known(f) == status[f] # "none"
Live(f) == status[f] \notin {"none", "canceled"}

FlightInit ==
    /\ status = [f \in Flights |-> "none"]
    /\ remote = {} /\ expired = {}
    /\ agents = [a \in Agents |-> None] /\ sessions = [a \in Agents |-> None]
    /\ drained = FALSE
    /\ session = [a \in Agents |-> None] /\ bound = [a \in Agents |-> FALSE]
    /\ budget = [a \in Agents |-> NoBudget]
    /\ tpc = [t \in Threads |-> "idle"]
    /\ job = [t \in Threads |-> NoJob]
    /\ todo = [t \in Threads |-> {}]
    /\ current = [t \in Threads |-> None]

ThreadGoes(t, from, to) == tpc[t] = from /\ tpc' = [tpc EXCEPT ![t] = to]

ThreadReturns(t) ==
    /\ tpc' = [tpc EXCEPT ![t] = "idle"]
    /\ job' = [job EXCEPT ![t] = NoJob]
    /\ UNCHANGED <<todo, current>>

\* The lease of a flight, at least a second long, runs out; placeFlight is past
\* binding its budget by then.
Expire(f) ==
    /\ Live(f) /\ f \notin expired
    /\ \A t \in Threads : ~(tpc[t] = "bind" /\ job[t].flight = f)
    /\ expired' = expired \cup {f}
    /\ UNCHANGED <<status, remote, agents, sessions, drained, others, tpc, job, todo, current>>

\* drainGrid.
Drain ==
    /\ ~drained
    /\ drained' = TRUE
    /\ UNCHANGED <<status, remote, expired, agents, sessions, others, tpc, job, todo, current>>

\* placeFlight up to its first unlock; a drained grid refuses.
Place(t, f, s) ==
    /\ ~drained
    /\ ThreadGoes(t, "idle", "reap")
    /\ job' = [job EXCEPT ![t] = [flight |-> f, surface |-> s]]
    /\ UNCHANGED <<tables, others, todo, current>>

\* The reaper's tick, and gridStatus, which reaps as well.
StartReap(t) ==
    /\ ThreadGoes(t, "idle", "reap")
    /\ UNCHANGED <<tables, others, job, todo, current>>

\* cancelFlightLocked of the flights F: the agent is freed if it still flies
\* for that flight, its session whatever flight it belongs to.
CancelLocked(F) ==
    /\ status' = [f \in Flights |-> IF f \in F THEN "canceled" ELSE status[f]]
    /\ agents' = [a \in Agents |-> IF agents[a] \in F THEN None ELSE agents[a]]
    /\ sessions' = [a \in Agents |-> IF \E f \in F : AgentOf[f] = a THEN None ELSE sessions[a]]

\* reapExpiredFlights under the mutex: live flights past their lease are
\* canceled, canceled ones past their retention are forgotten.
Reap(t) ==
    LET over == {f \in expired : Live(f)} IN
    /\ ThreadGoes(t, "reap", "release")
    /\ \E old \in SUBSET {f \in Flights : Forget /\ status[f] = "canceled"} :
          /\ status' = [f \in Flights |-> IF f \in over THEN "canceled"
                                          ELSE IF f \in old THEN "none" ELSE status[f]]
          /\ agents' = [a \in Agents |-> IF agents[a] \in over THEN None ELSE agents[a]]
          /\ sessions' = [a \in Agents |-> IF \E f \in over : AgentOf[f] = a THEN None
                                           ELSE sessions[a]]
          /\ expired' = expired \ old
          /\ remote' = remote \ old
    /\ todo' = [todo EXCEPT ![t] = {AgentOf[f] : f \in over}]
    /\ UNCHANGED <<drained, others, job, current>>

\* cancelFlight under the mutex.  A peer finds only the flights of peers; that
\* the flight may be canceled already is not looked at.
Cancel(t, f, s) ==
    /\ Known(f)
    /\ status[f] = "canceled" => Recancel
    /\ s = "peer" => f \in remote
    /\ ThreadGoes(t, "idle", "release")
    /\ CancelLocked({f})
    /\ todo' = [todo EXCEPT ![t] = {AgentOf[f]}]
    /\ UNCHANGED <<remote, expired, drained, others, job, current>>

\* releaseAgentSessions, one session after the other: the budget first,
ClearAgentBudget(t, a) ==
    /\ a \in todo[t]
    /\ ThreadGoes(t, "release", "unbind")
    /\ budget' = [budget EXCEPT ![a] = NoBudget]
    /\ todo' = [todo EXCEPT ![t] = @ \ {a}]
    /\ current' = [current EXCEPT ![t] = a]
    /\ UNCHANGED <<tables, session, bound, job>>

\* then the binding of whatever session is registered now,
ClearManagedAgent(t) ==
    /\ ThreadGoes(t, "unbind", "unregister")
    /\ bound' = [bound EXCEPT ![current[t]] = FALSE]
    /\ UNCHANGED <<tables, session, budget, job, todo, current>>

\* then the session.
UnregisterAgent(t) ==
    /\ ThreadGoes(t, "unregister", "release")
    /\ session' = [session EXCEPT ![current[t]] = None]
    /\ bound' = [bound EXCEPT ![current[t]] = FALSE]
    /\ current' = [current EXCEPT ![t] = None]
    /\ UNCHANGED <<tables, budget, job, todo>>

\* Nothing is left to release: a placement goes on, the others return.
Released(t) ==
    /\ tpc[t] = "release" /\ todo[t] = {}
    /\ \/ job[t] # NoJob /\ ThreadGoes(t, "release", "register") /\ UNCHANGED <<job, todo, current>>
       \/ job[t] = NoJob /\ ThreadReturns(t)
    /\ UNCHANGED <<tables, others>>

\* Mutant: a session that is still registered does not matter.
MayRegister_SessionLeft(f) ==
    LET a == AgentOf[f] IN
    /\ ~drained
    /\ ~Known(f) /\ agents[a] = None /\ sessions[a] = None
    /\ Cardinality({g \in Flights : Live(g) /\ g \notin expired}) < MaxFlights

MayRegister(f) ==
    LET a == AgentOf[f] IN
    /\ ~drained
    /\ ~Known(f) /\ agents[a] = None /\ sessions[a] = None /\ session[a] = None
    /\ Cardinality({g \in Flights : Live(g) /\ g \notin expired}) < MaxFlights

\* registerFlight, with RegisterSession inside the mutex; the session carries
\* its binding already.
RegisterFlight(t) ==
    LET f == job[t].flight
        a == AgentOf[f]
    IN
    /\ tpc[t] = "register"
    /\ IF MayRegister(f)
       THEN /\ ThreadGoes(t, "register", "bind")
            /\ status' = [status EXCEPT ![f] = "placed"]
            /\ remote' = IF job[t].surface = "peer" THEN remote \cup {f} ELSE remote
            /\ agents' = [agents EXCEPT ![a] = f] /\ sessions' = [sessions EXCEPT ![a] = f]
            /\ session' = [session EXCEPT ![a] = f] /\ bound' = [bound EXCEPT ![a] = TRUE]
            /\ UNCHANGED <<expired, drained, budget, job, todo, current>>
       ELSE ThreadReturns(t) /\ UNCHANGED <<tables, others>>

\* BindAgentBudget, under the session's identifier, after the mutex.
BindAgentBudget(t) ==
    LET f == job[t].flight IN
    /\ tpc[t] = "bind"
    /\ budget' = [budget EXCEPT ![AgentOf[f]] = [flight |-> f, left |-> Budget]]
    /\ ThreadReturns(t)
    /\ UNCHANGED <<tables, session, bound>>

\* rehearseFlight: the flight is looked up.  A name outside the allowlist is
\* refused as it is; else the session must still be an agent's with time left.
Rehearse(t, f) ==
    LET a == AgentOf[f]
        leased == session[a] # None /\ bound[a] /\ session[a] \notin expired
    IN
    /\ Live(f)
    /\ ThreadGoes(t, "idle", "refused") \/ (leased /\ ThreadGoes(t, "idle", "rehearsed"))
    /\ job' = [job EXCEPT ![t] = [flight |-> f, surface |-> None]]
    /\ UNCHANGED <<tables, others, todo, current>>

\* The policy's answer is stored, unless the flight was canceled or forgotten
\* since (rememberFlightDenial, rehearseFlight).
StoreRehearsal(t, st) ==
    /\ tpc[t] = "rehearsed" \/ (tpc[t] = "refused" /\ st = "denied")
    /\ status' = [status EXCEPT ![job[t].flight] = IF Live(job[t].flight) THEN st ELSE @]
    /\ ThreadReturns(t)
    /\ UNCHANGED <<remote, expired, agents, sessions, drained, others>>

ThreadStep(t) ==
    \/ Reap(t) \/ ClearManagedAgent(t) \/ UnregisterAgent(t) \/ Released(t)
    \/ RegisterFlight(t) \/ BindAgentBudget(t)
    \/ \E a \in Agents : ClearAgentBudget(t, a)
    \/ \E st \in {"rehearsed", "denied"} : StoreRehearsal(t, st)

FlightNext ==
    \/ \E t \in Threads : \/ ThreadStep(t) \/ StartReap(t)
                          \/ \E f \in Flights, s \in Surfaces : Place(t, f, s)
                          \/ \E f \in Flights, s \in Cancelers : Cancel(t, f, s)
                          \/ \E f \in Flights : Rehearse(t, f)
    \/ \E f \in Flights : Expire(f)
    \/ Drain

\* A thread that began keeps running, and the reaper's ticker keeps ticking.
FlightFairness ==
    \A t \in Threads : WF_flightVars(ThreadStep(t))

FlightSpec == FlightInit /\ [][FlightNext]_flightVars /\ FlightFairness

-----------------------------------------------------------------------------
\* Every variable stays in its type.
FlightTypeOK ==
    /\ status \in [Flights -> {"none", "placed", "rehearsed", "denied", "canceled"}]
    /\ remote \subseteq Flights /\ expired \subseteq Flights
    /\ agents \in [Agents -> Flights \cup {None}]
    /\ sessions \in [Agents -> Flights \cup {None}]
    /\ drained \in BOOLEAN
    /\ session \in [Agents -> Flights \cup {None}]
    /\ bound \in [Agents -> BOOLEAN]
    /\ budget \in [Agents -> [flight : Flights \cup {None}, left : 0 .. Budget]]
    /\ tpc \in [Threads -> {"idle", "reap", "release", "unbind", "unregister", "register",
                            "bind", "rehearsed", "refused"}]
    /\ job \in [Threads -> [flight : Flights \cup {None}, surface : {"local", "peer", None}]]
    /\ todo \in [Threads -> SUBSET Agents] /\ current \in [Threads -> Agents \cup {None}]

\* The flight and agent tables agree however cancels, reaps, placements and late
\* answers of rehearsals interleave: an agent flies exactly the one live flight
\* placed for it, and a canceled flight does not come back to life.
OneFlightPerAgent ==
    \A a \in Agents :
        /\ agents[a] # None => Live(agents[a]) /\ AgentOf[agents[a]] = a
        /\ \A f \in Flights : Live(f) /\ AgentOf[f] = a => agents[a] = f

\* When no cancel is repeated, the release of an ended flight, which runs outside
\* the mutex, never takes the session or the binding of the flight that has its
\* agent now: registerFlight waits for the old session to go.
LiveHasSession ==
    \A f \in Flights : Live(f) /\ f \notin expired =>
        session[AgentOf[f]] = f /\ bound[AgentOf[f]]

\* A peer "may cancel only flights a peer placed; a local flight reads as not
\* found" (cancelFlight): when only peers cancel, a local flight within its
\* lease keeps its session.
LocalSurvivesPeers ==
    \A f \in Flights : Live(f) /\ f \notin expired \cup remote => session[AgentOf[f]] = f

\* No session outlives its flight: the session of a canceled flight is
\* eventually unregistered.
SessionReleased ==
    \A f \in Flights : (status[f] = "canceled" /\ session[AgentOf[f]] = f)
                          ~> session[AgentOf[f]] # f

\* What small instances are checked with: every flight is of one agent.
OneAgent == [f \in Flights |-> CHOOSE a \in Agents : TRUE]

\* The flight table, the agent table and the session registry agree between any
\* two critical sections of placing, canceling, reaping and draining.
FlightSafety == FlightTypeOK /\ OneFlightPerAgent /\ LiveHasSession
=============================================================================
