----------------------------- MODULE GateProofs -----------------------------
(***************************************************************************)
(* Machine-checked proofs about the grid's flights (Flight) and the gate   *)
(* that the commands of their agents pass (Gate), for every number of      *)
(* flights, agents, threads, calls and commands.                           *)
(***************************************************************************)
EXTENDS Gate, TLAPS

Releasing == {"release", "unbind", "unregister"}

\* releaseAgentSessions on thread t has still to unregister the session of a.
Pending(t, a) ==
    \/ tpc[t] \in Releasing /\ a \in todo[t]
    \/ tpc[t] \in {"unbind", "unregister"} /\ current[t] = a

\* A thread's locals are set where the code reads them.
LocalsSet ==
    \A t \in Threads :
        /\ job[t] # NoJob => job[t].flight \in Flights
        /\ tpc[t] \in {"register", "bind", "rehearsed", "refused"} => job[t] # NoJob
        /\ tpc[t] \in {"unbind", "unregister"} => current[t] \in Agents \ todo[t]

\* A live flight, its lease run out or not, has the registered session of its
\* agent, with the binding, and no thread is about to take it.
LiveHolds ==
    \A f \in Flights : Live(f) =>
        /\ session[AgentOf[f]] = f /\ bound[AgentOf[f]]
        /\ \A t \in Threads : ~Pending(t, AgentOf[f])

\* A session that is about to be unregistered is still registered, and one
\* thread alone does it: this is what keeps registerFlight away.
PendingHeld ==
    \A t \in Threads, a \in Agents : Pending(t, a) =>
        /\ session[a] # None
        /\ \A u \in Threads : Pending(u, a) => u = t

Held == OneFlightPerAgent /\ LiveHolds /\ PendingHeld

\* Types and locals.
FlightTyped == FlightTypeOK /\ LocalsSet

FlightInv == FlightTyped /\ Held

\* Every step of a thread, a lease or a drain keeps types and locals.
LEMMA FlightTypedStep == FlightTyped /\ [FlightNext]_flightVars => FlightTyped'
<1> SUFFICES ASSUME FlightTyped, [FlightNext]_flightVars PROVE FlightTyped'
  OBVIOUS
<1> USE FlightAssumption
        DEF FlightTyped, FlightTypeOK, LocalsSet, NoJob, NoBudget, tables, others
<1>1. ASSUME NEW t \in Threads, ThreadStep(t) PROVE FlightTyped'
  <2> USE DEF ThreadGoes, ThreadReturns
  <2>1. CASE Reap(t)               BY <2>1 DEF Reap, Live
  <2>2. CASE ClearManagedAgent(t)  BY <2>2 DEF ClearManagedAgent
  <2>3. CASE UnregisterAgent(t)    BY <2>3 DEF UnregisterAgent
  <2>4. CASE Released(t)           BY <2>4 DEF Released
  <2>5. CASE RegisterFlight(t)
    <3> DEFINE f == job[t].flight
    <3>1. f \in Flights /\ AgentOf[f] \in Agents  BY <2>5 DEF RegisterFlight
    <3>2. CASE MayRegister(f)
      <4>1. tpc' = [tpc EXCEPT ![t] = "bind"] /\ tpc[t] = "register"
            /\ UNCHANGED <<expired, drained, budget, job, todo, current>>
        BY <2>5, <3>2 DEF RegisterFlight
      <4>2. /\ status' = [status EXCEPT ![f] = "placed"] 
            /\ remote' \subseteq remote \cup {f}
            /\ agents' = [agents EXCEPT ![AgentOf[f]] = f]
            /\ sessions' = [sessions EXCEPT ![AgentOf[f]] = f]
            /\ session' = [session EXCEPT ![AgentOf[f]] = f]
            /\ bound' = [bound EXCEPT ![AgentOf[f]] = TRUE]
        BY <2>5, <3>2 DEF RegisterFlight
      <4> HIDE DEF f
      <4> QED  BY <3>1, <4>1, <4>2
    <3>3. CASE ~MayRegister(f)
      <4>1. tpc' = [tpc EXCEPT ![t] = "idle"] /\ job' = [job EXCEPT ![t] = NoJob] 
            /\ UNCHANGED <<tables, others, todo, current>>
        BY <2>5, <3>3 DEF RegisterFlight
      <4> QED  BY <4>1
    <3> QED  BY <3>2, <3>3
  <2>6. CASE BindAgentBudget(t)    BY <2>6 DEF BindAgentBudget
  <2>7. ASSUME NEW a \in Agents, ClearAgentBudget(t, a) PROVE FlightTyped'
    BY <2>7 DEF ClearAgentBudget
  <2>8. ASSUME NEW st \in {"rehearsed", "denied"}, StoreRehearsal(t, st)
        PROVE  FlightTyped'
    BY <2>8 DEF StoreRehearsal
  <2> QED  BY <1>1, <2>1, <2>2, <2>3, <2>4, <2>5, <2>6, <2>7, <2>8 DEF ThreadStep
<1>2. ASSUME NEW t \in Threads, StartReap(t) PROVE FlightTyped'
  BY <1>2 DEF StartReap, ThreadGoes
<1>3. ASSUME NEW t \in Threads, NEW f \in Flights, NEW s \in Surfaces, Place(t, f, s)
      PROVE  FlightTyped'
  BY <1>3 DEF Place, ThreadGoes
<1>4. ASSUME NEW t \in Threads, NEW f \in Flights, NEW s \in Cancelers, Cancel(t, f, s)
      PROVE  FlightTyped'
  BY <1>4 DEF Cancel, CancelLocked, ThreadGoes
<1>5. ASSUME NEW t \in Threads, NEW f \in Flights, Rehearse(t, f) PROVE FlightTyped'
  <2>1. PICK p \in {"refused", "rehearsed"} : tpc' = [tpc EXCEPT ![t] = p]
    BY <1>5 DEF Rehearse, ThreadGoes
  <2> QED  BY <1>5, <2>1 DEF Rehearse
<1>6. ASSUME NEW f \in Flights, Expire(f) PROVE FlightTyped'
  BY <1>6 DEF Expire
<1>7. CASE Drain                   BY <1>7 DEF Drain
<1>8. CASE UNCHANGED flightVars    BY <1>8 DEF flightVars
<1> QED  BY <1>1, <1>2, <1>3, <1>4, <1>5, <1>6, <1>7, <1>8 DEF FlightNext

\* Steps that change neither which flights live nor the sessions, and start no
\* release, keep the flights' hold on their sessions.
LEMMA QuietStep ==
    ASSUME FlightTyped, Held, UNCHANGED <<agents, session, bound>>,
           \A f \in Flights : Live(f)' <=> Live(f),
           \A t \in Threads, a \in Agents : Pending(t, a)' => Pending(t, a)
    PROVE  Held'
<1>1. OneFlightPerAgent'
  <2> SUFFICES ASSUME NEW a \in Agents
               PROVE  /\ agents[a] # None => Live(agents[a])' /\ AgentOf[agents[a]] = a
                      /\ \A f \in Flights : Live(f)' /\ AgentOf[f] = a => agents[a] = f
    BY DEF OneFlightPerAgent
  <2>1. agents[a] # None => agents[a] \in Flights  BY DEF FlightTyped, FlightTypeOK
  <2> QED  BY <2>1 DEF Held, OneFlightPerAgent
<1>2. LiveHolds'   BY FlightAssumption DEF Held, LiveHolds
<1>3. PendingHeld' BY DEF Held, PendingHeld
<1> QED  BY <1>1, <1>2, <1>3 DEF Held

\* Canceling the live flights F, and handing their agents to thread t to release,
\* as cancelFlight and the reaper do, keeps the others' hold on their sessions.
LEMMA CancelStep ==
    ASSUME FlightInv, NEW t \in Threads, tpc[t] \notin Releasing,
           NEW F \in SUBSET Flights, \A f \in F : Live(f),
           tpc' = [tpc EXCEPT ![t] = "release"],
           todo' = [todo EXCEPT ![t] = {AgentOf[f] : f \in F}],
           agents' = [a \in Agents |-> IF agents[a] \in F THEN None ELSE agents[a]],
           \A f \in Flights : Live(f)' <=> Live(f) /\ f \notin F,
           UNCHANGED <<session, bound, current>>
    PROVE  Held'
<1> USE FlightAssumption DEF FlightInv, FlightTyped, FlightTypeOK, Held, Releasing
<1>1. \A u \in Threads \ {t}, a \in Agents : Pending(u, a)' => Pending(u, a)
  BY DEF Pending
<1>2. \A a \in Agents : Pending(t, a)' => \E f \in F : AgentOf[f] = a
  BY DEF Pending
<1>3. \A f, g \in Flights : Live(f) /\ Live(g) /\ AgentOf[f] = AgentOf[g] => f = g
  BY DEF OneFlightPerAgent
<1>4. OneFlightPerAgent'
  <2> SUFFICES ASSUME NEW a \in Agents
               PROVE  /\ agents'[a] # None => Live(agents[a])' /\ agents'[a] = agents[a]
                                              /\ AgentOf[agents[a]] = a
                      /\ \A f \in Flights : Live(f)' /\ AgentOf[f] = a => agents'[a] = f
    BY DEF OneFlightPerAgent
  <2>1. agents'[a] = IF agents[a] \in F THEN None ELSE agents[a]  OBVIOUS
  <2> QED  BY <2>1 DEF OneFlightPerAgent
<1>5. LiveHolds'
  <2> SUFFICES ASSUME NEW f \in Flights, Live(f)'
               PROVE  /\ session[AgentOf[f]] = f /\ bound[AgentOf[f]]
                      /\ \A u \in Threads : ~Pending(u, AgentOf[f])'
    BY DEF LiveHolds
  <2> QED  BY <1>1, <1>2, <1>3 DEF LiveHolds
<1>6. PendingHeld'
  <2> SUFFICES ASSUME NEW u \in Threads, NEW a \in Agents, Pending(u, a)'
               PROVE  /\ session[a] # None
                      /\ \A v \in Threads : Pending(v, a)' => v = u
    BY DEF PendingHeld
  <2>1. CASE u = t
    <3>1. PICK f \in F : AgentOf[f] = a  BY <1>2, <2>1
    <3>2. session[a] = f /\ \A v \in Threads : ~Pending(v, a)  BY <3>1 DEF LiveHolds
    <3> QED  BY <1>1, <2>1, <3>2
  <2>2. CASE u # t
    <3>1. Pending(u, a)  BY <1>1, <2>2
    <3>2. ~Pending(t, a)'  BY <1>2, <3>1 DEF LiveHolds
    <3> QED  BY <1>1, <3>1, <3>2 DEF PendingHeld
  <2> QED  BY <2>1, <2>2
<1> QED  BY <1>4, <1>5, <1>6

\* When no cancel is repeated, every step of placing, canceling, reaping,
\* releasing and rehearsing keeps the flights' hold on their sessions.
LEMMA HeldStep ==
    ASSUME ~Recancel, FlightInv, [FlightNext]_flightVars
    PROVE  Held'
<1> USE FlightAssumption DEF FlightInv, FlightTyped, FlightTypeOK, tables, others, Live
<1>1. ASSUME NEW t \in Threads, ThreadStep(t) PROVE Held'
  <2> USE DEF ThreadGoes, ThreadReturns
  <2>1. CASE Reap(t)
    <3> DEFINE over == {f \in expired : Live(f)}
    <3>1. over \in SUBSET Flights /\ tpc[t] \notin Releasing
      BY <2>1 DEF Reap, Releasing
    <3>2. PICK old \in SUBSET {f \in Flights : Forget /\ status[f] = "canceled"} :
             status' = [f \in Flights |-> IF f \in over THEN "canceled"
                                          ELSE IF f \in old THEN "none" ELSE status[f]]
      BY <2>1 DEF Reap
    <3>3. \A f \in Flights : Live(f)' <=> Live(f) /\ f \notin over
      BY <3>1, <3>2
    <3>4. /\ tpc' = [tpc EXCEPT ![t] = "release"]
          /\ todo' = [todo EXCEPT ![t] = {AgentOf[f] : f \in over}]
          /\ agents' = [a \in Agents |-> IF agents[a] \in over THEN None ELSE agents[a]]
          /\ UNCHANGED <<session, bound, current>>
      BY <2>1 DEF Reap
    <3>5. \A f \in over : Live(f)  OBVIOUS
    <3> HIDE DEF over, Live
    <3> QED  BY <3>1, <3>3, <3>4, <3>5, CancelStep
  <2>2. CASE ClearManagedAgent(t)
    <3> DEFINE a == current[t]
    <3>1. a \in Agents /\ Pending(t, a)  BY <2>2 DEF ClearManagedAgent, LocalsSet, Pending
    <3>2. \A f \in Flights : Live(f) => AgentOf[f] # a  BY <3>1 DEF Held, LiveHolds
    <3>3. \A u \in Threads, b \in Agents : Pending(u, b)' <=> Pending(u, b)
      BY <2>2 DEF ClearManagedAgent, Pending, Releasing
    <3>4. bound' = [bound EXCEPT ![a] = FALSE] /\ UNCHANGED <<tables, session>>
      BY <2>2 DEF ClearManagedAgent
    <3>5. OneFlightPerAgent'  BY <3>4 DEF Held, OneFlightPerAgent
    <3>6. LiveHolds'          BY <3>2, <3>3, <3>4 DEF Held, LiveHolds
    <3>7. PendingHeld'        BY <3>3, <3>4 DEF Held, PendingHeld
    <3> QED  BY <3>5, <3>6, <3>7 DEF Held
  <2>3. CASE UnregisterAgent(t)
    <3>1. PICK a \in Agents : a = current[t] /\ Pending(t, a) /\ a \notin todo[t]
      BY <2>3 DEF UnregisterAgent, LocalsSet, Pending
    <3>2. \A f \in Flights : Live(f) => AgentOf[f] # a  BY <3>1 DEF Held, LiveHolds
    <3>3. \A u \in Threads, b \in Agents : Pending(u, b)' => Pending(u, b) /\ (u = t => b # a)
      BY <2>3, <3>1 DEF UnregisterAgent, Pending, Releasing
    <3>4. \A u \in Threads : ~Pending(u, a)'
      BY <3>1, <3>3 DEF Held, PendingHeld
    <3>5. /\ bound' = [bound EXCEPT ![a] = FALSE] /\ session' = [session EXCEPT ![a] = None]
          /\ UNCHANGED tables
      BY <2>3, <3>1 DEF UnregisterAgent
    <3>6. OneFlightPerAgent'  BY <3>5 DEF Held, OneFlightPerAgent
    <3>7. LiveHolds'          BY <3>2, <3>3, <3>5 DEF Held, LiveHolds
    <3>8. PendingHeld'        BY <3>3, <3>4, <3>5 DEF Held, PendingHeld
    <3> QED  BY <3>6, <3>7, <3>8 DEF Held
  <2>4. CASE Released(t)
    <3>1. \A u \in Threads, a \in Agents : Pending(u, a)' => Pending(u, a)
      BY <2>4 DEF Released, Pending, Releasing
    <3> QED  BY <2>4, <3>1, QuietStep DEF Released
  <2>5. CASE RegisterFlight(t)
    <3> DEFINE f == job[t].flight
               a == AgentOf[f]
    <3>1. f \in Flights /\ a \in Agents /\ tpc[t] = "register"
      BY <2>5 DEF RegisterFlight, LocalsSet
    <3>2. \A u \in Threads, b \in Agents : Pending(u, b)' => Pending(u, b)
      BY <2>5 DEF RegisterFlight, Pending, Releasing
    <3>3. CASE MayRegister(f)
      <4>1. agents[a] = None /\ session[a] = None /\ ~Live(f)
        BY <3>3 DEF MayRegister, Known
      <4>2. /\ status' = [status EXCEPT ![f] = "placed"] 
            /\ agents' = [agents EXCEPT ![a] = f]
            /\ session' = [session EXCEPT ![a] = f]
            /\ bound' = [bound EXCEPT ![a] = TRUE]
        BY <2>5, <3>3 DEF RegisterFlight
      <4>3. \A u \in Threads : ~Pending(u, a)  BY <3>1, <4>1 DEF Held, PendingHeld
      <4>4. \A g \in Flights : Live(g) => AgentOf[g] # a
        BY <4>1 DEF Held, OneFlightPerAgent
      <4> HIDE DEF f
      <4>5. OneFlightPerAgent'
        BY <3>1, <4>2, <4>4 DEF Held, OneFlightPerAgent
      <4>6. LiveHolds'    BY <3>1, <3>2, <4>2, <4>3, <4>4 DEF Held, LiveHolds
      <4>7. PendingHeld'  BY <3>1, <3>2, <4>2, <4>3 DEF Held, PendingHeld
      <4> QED  BY <4>5, <4>6, <4>7 DEF Held
    <3>4. CASE ~MayRegister(f)
      <4>1. UNCHANGED <<tables, others>>  BY <2>5, <3>4 DEF RegisterFlight
      <4> QED  BY <3>2, <4>1, QuietStep
    <3> QED  BY <3>3, <3>4
  <2>6. CASE BindAgentBudget(t)
    <3>1. \A u \in Threads, a \in Agents : Pending(u, a)' => Pending(u, a)
      BY <2>6 DEF BindAgentBudget, Pending, Releasing
    <3> QED  BY <2>6, <3>1, QuietStep DEF BindAgentBudget
  <2>7. ASSUME NEW b \in Agents, ClearAgentBudget(t, b) PROVE Held'
    <3>1. \A u \in Threads, a \in Agents : Pending(u, a)' => Pending(u, a)
      BY <2>7 DEF ClearAgentBudget, Pending, Releasing
    <3> QED  BY <2>7, <3>1, QuietStep DEF ClearAgentBudget
  <2>8. ASSUME NEW st \in {"rehearsed", "denied"}, StoreRehearsal(t, st) PROVE Held'
    <3>1. \A u \in Threads, a \in Agents : Pending(u, a)' => Pending(u, a)
      BY <2>8 DEF StoreRehearsal, Pending, Releasing
    <3>2. \A f \in Flights : Live(f)' <=> Live(f)
      BY <2>8 DEF StoreRehearsal
    <3> QED  BY <2>8, <3>1, <3>2, QuietStep DEF StoreRehearsal
  <2> QED  BY <1>1, <2>1, <2>2, <2>3, <2>4, <2>5, <2>6, <2>7, <2>8 DEF ThreadStep
<1>2. ASSUME NEW t \in Threads, NEW f \in Flights, NEW s \in Cancelers, Cancel(t, f, s)
      PROVE  Held'
  <2>1. Live(f)  BY <1>2 DEF Cancel, Known
  <2>2. \A g \in Flights : Live(g)' <=> Live(g) /\ g \notin {f}
    BY <1>2, <2>1 DEF Cancel, CancelLocked
  <2>3. /\ tpc[t] \notin Releasing /\ tpc' = [tpc EXCEPT ![t] = "release"]
        /\ todo' = [todo EXCEPT ![t] = {AgentOf[g] : g \in {f}}]
        /\ agents' = [a \in Agents |-> IF agents[a] \in {f} THEN None ELSE agents[a]]
        /\ UNCHANGED <<session, bound, current>>
    <3>1. {AgentOf[g] : g \in {f}} = {AgentOf[f]}  OBVIOUS
    <3> QED  BY <1>2, <3>1 DEF Cancel, CancelLocked, ThreadGoes, Releasing
  <2>4. {f} \in SUBSET Flights /\ \A g \in {f} : Live(g)  BY <2>1
  <2> HIDE DEF Live
  <2> QED  BY <2>2, <2>3, <2>4, CancelStep
<1>3. ASSUME NEW t \in Threads,
             \/ StartReap(t)
             \/ \E f \in Flights : Rehearse(t, f)
             \/ \E f \in Flights, s \in Surfaces : Place(t, f, s)
      PROVE  Held'
  <2>1. /\ UNCHANGED <<tables, others>>
        /\ \E p \in {"reap", "refused", "rehearsed"} :
              tpc' = [tpc EXCEPT ![t] = p] /\ UNCHANGED <<todo, current>>
    BY <1>3 DEF StartReap, Rehearse, Place, ThreadGoes
  <2>2. \A u \in Threads, a \in Agents : Pending(u, a)' => Pending(u, a)
    BY <2>1 DEF Pending, Releasing
  <2> QED  BY <2>1, <2>2, QuietStep
<1>4. CASE Drain \/ UNCHANGED flightVars \/ \E f \in Flights : Expire(f)
  <2>1. UNCHANGED <<status, agents, session, bound, tpc, todo, current>>
    BY <1>4 DEF Drain, Expire, flightVars
  <2>2. \A u \in Threads, a \in Agents : Pending(u, a)' => Pending(u, a)
    BY <2>1 DEF Pending
  <2> QED  BY <2>1, <2>2, QuietStep
<1> QED  BY <1>1, <1>2, <1>3, <1>4 DEF FlightNext

\* The grid starts without flights, sessions or threads at work.
LEMMA FlightInitInv == FlightInit => FlightInv
<1> SUFFICES ASSUME FlightInit PROVE FlightInv
  OBVIOUS
<1> USE FlightAssumption DEF FlightInit
<1>1. FlightTyped
  <2>1. NoBudget \in [flight : Flights \cup {None}, left : 0 .. Budget]
    BY DEF NoBudget
  <2>2. NoJob \in [flight : Flights \cup {None}, surface : {"local", "peer", None}]
    BY DEF NoJob
  <2>3. FlightTypeOK  BY <2>1, <2>2 DEF FlightTypeOK
  <2>4. LocalsSet     BY DEF LocalsSet
  <2> QED  BY <2>3, <2>4 DEF FlightTyped
<1>2. \A f \in Flights : ~Live(f)  BY DEF Live
<1>3. \A t \in Threads, a \in Agents : ~Pending(t, a)  BY DEF Pending, Releasing
<1>4. Held
  BY <1>2, <1>3 DEF Held, OneFlightPerAgent, LiveHolds, PendingHeld
<1> QED  BY <1>1, <1>4 DEF FlightInv

\* The tables, the sessions and their bindings agree between any two critical
\* sections of placeFlight, cancelFlight, the reaper and releaseAgentSessions, on
\* any number of threads, when no cancel is repeated.
THEOREM FlightsAgree ==
    ASSUME ~Recancel
    PROVE  FlightSpec => []FlightSafety
<1>1. FlightInit => FlightInv  BY FlightInitInv
<1>2. FlightInv /\ [FlightNext]_flightVars => FlightInv'
  BY FlightTypedStep, HeldStep DEF FlightInv
<1>3. FlightInv => FlightSafety
  BY FlightAssumption
     DEF FlightInv, FlightTyped, Held, LiveHolds, FlightSafety, LiveHasSession
<1> QED  BY <1>1, <1>2, <1>3, PTL DEF FlightSpec

-----------------------------------------------------------------------------
\* What is on record of a call at each place of the gate.
RecordsAt(p) == CASE p \in {"idle", "log"} -> {}
                  [] p \in {"agent", "policy", "decision"} -> {"command"}
                  [] p \in {"approval", "wait", "admin"} -> {"command", "allow"}

\* A call past Enter has its command, agent and flight, and the records that the
\* gate writes before it gets as far as it is.
CallsSet ==
    \A c \in Calls :
        /\ gpc[c] # "idle" => call[c] \in [cmd : Commands, agent : Agents, flight : Flights]
        /\ logged[c] = RecordsAt(gpc[c])

GateTyped == FlightTyped /\ TypeOK /\ CallsSet /\ RanOnRecord

\* What of the types a gate's step leaves alone.
LEMMA FlightTypedKept == FlightTyped /\ UNCHANGED flightVars => FlightTyped'
  BY DEF FlightTyped, FlightTypeOK, LocalsSet, flightVars, tables, others

\* The places of a call in the gate.
Places == {"log", "agent", "policy", "decision", "approval", "wait", "admin"}

\* A call that moves on with the records of the place it gets to, or that leaves
\* the gate with none, keeps the calls' records.
LEMMA CallMoves ==
    ASSUME GateTyped, NEW c \in Calls, gpc[c] # "idle",
           \/ \E to \in Places : /\ gpc' = [gpc EXCEPT ![c] = to]
                                 /\ call' = call
                                 /\ logged' = [logged EXCEPT ![c] = RecordsAt(to)]
           \/ Denies(c),
           FlightTyped', UNCHANGED <<sponsor, quarantine, entered, spent, ran>>
    PROVE  GateTyped'
<1> USE DEF GateTyped, TypeOK, CallsSet
<1>1. FlightTyped' /\ FlightTypeOK' /\ RanOnRecord'
  BY DEF FlightTyped, RanOnRecord
<1>2. CASE Denies(c)
  <2>1. NoCall \in [cmd : Commands \cup {None}, agent : Agents \cup {None},
                    flight : Flights \cup {None}]
    BY DEF NoCall
  <2>2. TypeOK'    BY <1>1, <1>2, <2>1 DEF Denies
  <2>3. CallsSet'  BY <1>2 DEF Denies, RecordsAt
  <2> QED  BY <1>1, <2>2, <2>3
<1>3. ASSUME NEW to \in Places,
             /\ gpc' = [gpc EXCEPT ![c] = to]
             /\ call' = call
             /\ logged' = [logged EXCEPT ![c] = RecordsAt(to)]
      PROVE  GateTyped'
  <2>1. RecordsAt(to) \in SUBSET {"command", "allow"}  BY DEF RecordsAt, Places
  <2>2. TypeOK'  BY <1>1, <1>3, <2>1 DEF Places
  <2>3. CallsSet'
    BY <1>3 DEF RecordsAt, Places
  <2> QED  BY <1>1, <2>2, <2>3
<1> QED  BY <1>2, <1>3

\* A command that enters has the identity of the session it comes from.
LEMMA EnterTyped ==
    ASSUME GateTyped, NEW c \in Calls, NEW a \in Agents, NEW cmd \in Commands,
           Enter(c, a, cmd)
    PROVE  GateTyped'
<1> USE DEF GateTyped
<1>1. FlightTyped' /\ FlightTypeOK'
  BY FlightTypedKept DEF Enter, FlightTyped
<1>2. session[a] \in Flights
  BY DEF Enter, FlightTyped, FlightTypeOK
<1>3. TypeOK'
  BY <1>1, <1>2, GateAssumption DEF TypeOK, Enter
<1>4. CallsSet'
  BY <1>2 DEF TypeOK, CallsSet, Enter, RecordsAt
<1>5. RanOnRecord'
  BY DEF Enter, RanOnRecord
<1> QED  BY <1>1, <1>3, <1>4, <1>5

\* What adminPlaneCheck does to a budget and to a command it lets through.
LEMMA AdminPlaneTyped ==
    ASSUME GateTyped, NEW c \in Calls, AdminPlane(c)
    PROVE  GateTyped'
<1> USE DEF GateTyped
<1> DEFINE k == call[c]
<1>1. /\ gpc[c] = "admin" /\ k \in [cmd : Commands, agent : Agents, flight : Flights]
      /\ logged[c] = {"command", "allow"}
  BY DEF AdminPlane, CallsSet, RecordsAt
<1>2. UNCHANGED <<tables, session, bound, tpc, job, todo, current, sponsor, quarantine, entered>>
  BY DEF AdminPlane
<1>3. budget' = budget \/ (Chargeable(k) /\ Charge(k))
  BY DEF AdminPlane
<1>4. FlightTyped'
  <2>1. budget' \in [Agents -> [flight : Flights \cup {None}, left : 0 .. Budget]]
    <3> DEFINE b == budget[k.agent]
    <3>1. b \in [flight : Flights \cup {None}, left : 0 .. Budget] /\ Budget \in Nat
      BY <1>1, FlightAssumption DEF FlightTyped, FlightTypeOK
    <3>2. CASE budget' = budget  BY <3>2 DEF FlightTyped, FlightTypeOK
    <3>3. CASE Chargeable(k) /\ Charge(k)
      <4>1. b.left - 1 \in 0 .. Budget  BY <3>1, <3>3 DEF Chargeable
      <4>2. budget' = [budget EXCEPT ![k.agent] = [b EXCEPT !.left = b.left - 1]]
        BY <3>3 DEF Charge
      <4>3. [b EXCEPT !.left = b.left - 1] \in [flight : Flights \cup {None}, left : 0 .. Budget]
        BY <3>1, <4>1
      <4> QED  BY <4>2, <4>3 DEF FlightTyped, FlightTypeOK
    <3> QED  BY <1>3, <3>2, <3>3
  <2> QED  BY <1>2, <2>1 DEF FlightTyped, FlightTypeOK, LocalsSet, tables
<1>5. CASE Denies(c) /\ UNCHANGED spent
  <2>1. UNCHANGED ran  BY <1>5 DEF Denies
  <2> QED  BY <1>1, <1>2, <1>4, <1>5, <2>1, CallMoves
<1>6. CASE ~(Denies(c) /\ UNCHANGED spent)
  <2>1. /\ gpc' = [gpc EXCEPT ![c] = "idle"]
        /\ ran' = ran \cup {[cmd |-> k.cmd, flies |-> Live(k.flight),
                              late |-> k.flight \in expired, logged |-> logged[c]]}
        /\ spent' = [spent EXCEPT ![k.flight] = IF Live(k.flight) THEN @ + 1 ELSE @]
        /\ call' = [call EXCEPT ![c] = NoCall]
        /\ logged' = [logged EXCEPT ![c] = {}]
    BY <1>6 DEF AdminPlane, Returns
  <2>2. NoCall \in [cmd : Commands \cup {None}, agent : Agents \cup {None},
                    flight : Flights \cup {None}]
    BY DEF NoCall
  <2>3. FlightTypeOK'  BY <1>4 DEF FlightTyped
  <2> HIDE DEF k
  <2>4. spent' \in [Flights -> Nat]  BY <1>1, <2>1 DEF TypeOK
  <2>5. TypeOK'        BY <1>2, <2>1, <2>2, <2>3, <2>4 DEF TypeOK
  <2>6. CallsSet'      BY <2>1 DEF TypeOK, CallsSet, RecordsAt
  <2>7. RanOnRecord'   BY <1>1, <2>1 DEF RanOnRecord
  <2> QED  BY <1>4, <2>5, <2>6, <2>7
<1> QED  BY <1>5, <1>6

\* Every step of the gate, of the flights and of the operators keeps the types and
\* the records of the calls.
LEMMA GateTypedStep == GateTyped /\ [Next]_vars => GateTyped'
<1> SUFFICES ASSUME GateTyped, [Next]_vars PROVE GateTyped'
  OBVIOUS
<1>1. ASSUME FlightTyped', UNCHANGED gateVars PROVE GateTyped'
  BY <1>1 DEF GateTyped, FlightTyped, TypeOK, CallsSet, RanOnRecord, gateVars
<1>2. CASE FlightNext /\ UNCHANGED gateVars
  BY <1>1, <1>2, FlightTypedStep DEF GateTyped
<1>3. ASSUME NEW c \in Calls, GateStep(c) PROVE GateTyped'
  <2>1. CASE AdminPlane(c)  BY <2>1, AdminPlaneTyped
  <2>2. CASE ~AdminPlane(c)
    <3>1. gpc[c] # "idle" /\ UNCHANGED <<flightVars, sponsor, quarantine, entered, spent, ran>>
      BY <1>3, <2>2 DEF GateStep, LogCommand, AgentCheck, EvaluatePolicy, LogDecision,
                        ApprovalGate, ApprovalReturns, Records, CallGoes, Denies
    <3>2. FlightTyped'  BY <3>1, FlightTypedKept DEF GateTyped
    <3>3. logged[c] = RecordsAt(gpc[c]) /\ logged \in [Calls -> SUBSET {"command", "allow"}]
      BY DEF GateTyped, TypeOK, CallsSet
    <3>4. \/ Denies(c)
          \/ \E to \in Places : /\ gpc' = [gpc EXCEPT ![c] = to]
                                /\ call' = call
                                /\ logged' = [logged EXCEPT ![c] = RecordsAt(to)]
      <4>1. CASE LogCommand(c)
        BY <3>3, <4>1 DEF LogCommand, Records, RecordsAt, Places
      <4>2. CASE AgentCheck(c)
        BY <3>3, <4>2 DEF AgentCheck, RecordsAt, Places
      <4>3. CASE EvaluatePolicy(c)
        BY <3>3, <4>3 DEF EvaluatePolicy, CallGoes, RecordsAt, Places
      <4>4. CASE LogDecision(c)
        BY <3>3, <4>4 DEF LogDecision, Records, RecordsAt, Places
      <4>5. CASE ApprovalGate(c)
        BY <3>3, <4>5 DEF ApprovalGate, CallGoes, RecordsAt, Places
      <4>6. CASE ApprovalReturns(c)
        BY <3>3, <4>6 DEF ApprovalReturns, CallGoes, RecordsAt, Places
      <4> QED  BY <1>3, <2>2, <4>1, <4>2, <4>3, <4>4, <4>5, <4>6 DEF GateStep
    <3> QED  BY <3>1, <3>2, <3>4, CallMoves
  <2> QED  BY <2>1, <2>2
<1>4. ASSUME NEW c \in Calls, NEW a \in Agents, NEW cmd \in Commands, Enter(c, a, cmd)
      PROVE  GateTyped'
  BY <1>4, EnterTyped
<1>5. CASE SponsorEnds \/ Quarantine
  BY <1>5, FlightTypedKept
     DEF SponsorEnds, Quarantine, GateTyped, FlightTyped, TypeOK, CallsSet, RanOnRecord
<1>6. CASE UNCHANGED vars
  BY <1>1, <1>6, FlightTypedKept DEF vars, GateTyped
<1> QED  BY <1>2, <1>3, <1>4, <1>5, <1>6 DEF Next

-----------------------------------------------------------------------------
\* placeFlight registered f and has not bound its budget yet.
Binding(f) == \E t \in Threads : tpc[t] = "bind" /\ job[t].flight = f

\* No flight is canceled or reaped between its registration and its budget:
\* placeFlight binds the budget after it gave the mutex back, without looking
\* at the flight again.
NoneOvertaken == \A f \in Flights : Binding(f) => Live(f)

\* A session belongs to a flight in the table, and a call in the gate to one
\* whose budget was bound.
Placed ==
    /\ \A a \in Agents : session[a] # None =>
          Known(session[a]) /\ AgentOf[session[a]] = a
    /\ \A c \in Calls : gpc[c] # "idle" =>
          LET f == call[c].flight IN
          Known(f) /\ AgentOf[f] = call[c].agent /\ ~Binding(f)

\* A live flight's agent is charged on the flight's own budget: what was let
\* through and what is left are no more than what was bound.
Charged ==
    \A f \in Flights :
        /\ spent[f] <= Budget
        /\ ~Known(f) \/ Binding(f) => spent[f] = 0
        /\ Live(f) /\ ~Binding(f) =>
              /\ budget[AgentOf[f]].flight = f
              /\ spent[f] + budget[AgentOf[f]].left <= Budget

GateInv == GateTyped /\ Held /\ Placed /\ Charged /\ HeldInFlight

\* What a step of the flights may change of what the gate relies on.
FlightEffect ==
    /\ \A f \in Flights :
          /\ Known(f) => Known(f)'
          /\ Binding(f)' => Binding(f) \/ ~Known(f)
          /\ Live(f)' => Live(f) \/ Binding(f)'
          /\ Live(f) /\ ~Binding(f)' =>
                budget'[AgentOf[f]] = IF Binding(f) THEN [flight |-> f, left |-> Budget]
                                                    ELSE budget[AgentOf[f]]
    /\ \A a \in Agents :
          \/ session'[a] = session[a] \/ session'[a] = None
          \/ status'[session'[a]] # "none" /\ AgentOf[session'[a]] = a

\* A step that leaves statuses, budgets, sessions and placements as they are.
LEMMA NoEffect ==
    ASSUME \A f \in Flights : Live(f)' = Live(f) /\ Known(f)' = Known(f),
           UNCHANGED <<budget, session>>,
           \A f \in Flights : Binding(f)' <=> Binding(f),
           \A f \in Flights : ~(Live(f) /\ Binding(f) /\ ~Binding(f)')
    PROVE  FlightEffect
  BY DEF FlightEffect

\* As long as no placement is overtaken, the budget of a live flight is the one it
\* was bound with, and the steps that clear or bind another one do not touch it.
LEMMA FlightEffectStep ==
    ASSUME ~Forget, FlightInv, NoneOvertaken, [FlightNext]_flightVars
    PROVE  FlightEffect
<1> USE FlightAssumption DEF FlightInv, FlightTyped, FlightTypeOK, tables, others
<1>1. ASSUME NEW t \in Threads, ThreadStep(t) PROVE FlightEffect
  <2> USE DEF ThreadGoes, ThreadReturns
  <2>1. CASE Reap(t)
    <3>1. \A f \in Flights : Binding(f)' <=> Binding(f)  BY <2>1 DEF Reap, Binding
    <3>2. \A f \in Flights : status'[f] = status[f] \/ (status'[f] = "canceled" /\ Live(f))
      <4>1. PICK old \in SUBSET {f \in Flights : Forget /\ status[f] = "canceled"} :
               status' = [f \in Flights |-> IF f \in {g \in expired : Live(g)} THEN "canceled"
                                            ELSE IF f \in old THEN "none" ELSE status[f]]
        BY <2>1 DEF Reap
      <4>2. old = {}  OBVIOUS
      <4> QED  BY <4>1, <4>2
    <3>3. \A f \in Flights : ~(Live(f) /\ Binding(f) /\ ~Binding(f)')  BY <3>1
    <3>4. UNCHANGED <<budget, session>>  BY <2>1 DEF Reap
    <3> QED  BY <3>1, <3>2, <3>3, <3>4 DEF FlightEffect, Known, Live
  <2>2. CASE ClearManagedAgent(t)
    <3>1. \A f \in Flights : Binding(f)' <=> Binding(f)
      BY <2>2 DEF ClearManagedAgent, Binding
    <3> QED  BY <2>2, <3>1, NoEffect DEF ClearManagedAgent, Live, Known
  <2>3. CASE UnregisterAgent(t)
    <3>1. \A f \in Flights : Binding(f)' <=> Binding(f)
      BY <2>3 DEF UnregisterAgent, Binding
    <3>2. \A a \in Agents : session'[a] = session[a] \/ session'[a] = None
      BY <2>3 DEF UnregisterAgent
    <3>3. UNCHANGED <<tables, budget>>  BY <2>3 DEF UnregisterAgent
    <3> QED  BY <3>1, <3>2, <3>3 DEF FlightEffect, Live, Known
  <2>4. CASE Released(t)
    <3>1. \A f \in Flights : Binding(f)' <=> Binding(f)
      BY <2>4 DEF Released, Binding
    <3> QED  BY <2>4, <3>1, NoEffect DEF Released, Live, Known
  <2>5. CASE RegisterFlight(t)
    <3>1. PICK f \in Flights : f = job[t].flight
      BY <2>5 DEF RegisterFlight, LocalsSet
    <3>2. CASE MayRegister(f)
      <4>1. /\ status' = [status EXCEPT ![f] = "placed"]
            /\ session' = [session EXCEPT ![AgentOf[f]] = f]
            /\ tpc' = [tpc EXCEPT ![t] = "bind"] /\ tpc[t] = "register"
            /\ UNCHANGED <<budget, job>>
        BY <2>5, <3>1, <3>2 DEF RegisterFlight
      <4>2. ~Known(f)  BY <3>2 DEF MayRegister
      <4>3. \A g \in Flights : Binding(g)' <=> Binding(g) \/ g = f
        BY <3>1, <4>1 DEF Binding
      <4>4. \A g \in Flights : g # f => Live(g)' = Live(g) /\ Known(g)' = Known(g)
        BY <4>1 DEF Live, Known
      <4>5. ~Live(f) /\ Known(f)'  BY <4>1, <4>2 DEF Live, Known
      <4>6. \A a \in Agents : session'[a] = session[a] \/ (session'[a] = f /\ AgentOf[f] = a)
        BY <4>1
      <4>7. \A a \in Agents : \/ session'[a] = session[a] \/ session'[a] = None
                              \/ status'[session'[a]] # "none" /\ AgentOf[session'[a]] = a
        <5> SUFFICES ASSUME NEW a \in Agents, session'[a] = f, AgentOf[f] = a
                     PROVE  status'[session'[a]] # "none" /\ AgentOf[session'[a]] = a
          BY <4>6
        <5> QED  BY <4>5 DEF Known
      <4> QED  BY <4>1, <4>2, <4>3, <4>4, <4>5, <4>7 DEF FlightEffect
    <3>3. CASE ~MayRegister(f)
      <4>1. /\ UNCHANGED <<tables, others>> /\ tpc[t] = "register"
            /\ tpc' = [tpc EXCEPT ![t] = "idle"] /\ job' = [job EXCEPT ![t] = NoJob]
        BY <2>5, <3>1, <3>3 DEF RegisterFlight
      <4>2. \A g \in Flights : Binding(g)' <=> Binding(g)  BY <4>1 DEF Binding
      <4> QED  BY <4>1, <4>2, NoEffect DEF Live, Known
    <3> QED  BY <3>2, <3>3
  <2>6. CASE BindAgentBudget(t)
    <3>1. PICK f \in Flights : f = job[t].flight /\ Binding(f)
      BY <2>6 DEF BindAgentBudget, LocalsSet, Binding
    <3>2. /\ budget' = [budget EXCEPT ![AgentOf[f]] = [flight |-> f, left |-> Budget]]
          /\ UNCHANGED <<tables, session>>
      BY <2>6, <3>1 DEF BindAgentBudget
    <3>3. \A g \in Flights : /\ Binding(g)' => Binding(g)
                             /\ g # f /\ Binding(g) => Binding(g)'
      BY <2>6, <3>1 DEF BindAgentBudget, Binding
    <3>4. \A g \in Flights : Live(g) /\ AgentOf[g] = AgentOf[f] => g = f
      BY <3>1 DEF NoneOvertaken, Held, OneFlightPerAgent
    <3> QED  BY <3>1, <3>2, <3>3, <3>4 DEF FlightEffect, Live, Known
  <2>7. ASSUME NEW b \in Agents, ClearAgentBudget(t, b) PROVE FlightEffect
    <3>1. \A f \in Flights : Binding(f)' <=> Binding(f)
      BY <2>7 DEF ClearAgentBudget, Binding
    <3>2. \A f \in Flights : Live(f) => AgentOf[f] # b
      BY <2>7 DEF ClearAgentBudget, Pending, Releasing, Held, LiveHolds
    <3>3. /\ budget' = [budget EXCEPT ![b] = NoBudget] /\ UNCHANGED <<tables, session>>
      BY <2>7 DEF ClearAgentBudget
    <3> QED  BY <3>1, <3>2, <3>3 DEF FlightEffect, Live, Known
  <2>8. ASSUME NEW st \in {"rehearsed", "denied"}, StoreRehearsal(t, st)
        PROVE  FlightEffect
    <3>1. \A f \in Flights : Binding(f)' <=> Binding(f)
      BY <2>8 DEF StoreRehearsal, Binding
    <3>2. \A f \in Flights : Live(f)' = Live(f) /\ Known(f)' = Known(f)
      BY <2>8 DEF StoreRehearsal, Live, Known
    <3> QED  BY <2>8, <3>1, <3>2, NoEffect DEF StoreRehearsal
  <2> QED  BY <1>1, <2>1, <2>2, <2>3, <2>4, <2>5, <2>6, <2>7, <2>8 DEF ThreadStep
<1>2. ASSUME NEW t \in Threads, NEW f \in Flights, NEW s \in Cancelers, Cancel(t, f, s)
      PROVE  FlightEffect
  <2>1. \A g \in Flights : Binding(g)' <=> Binding(g)
    BY <1>2 DEF Cancel, ThreadGoes, Binding
  <2>2. /\ \A g \in Flights : status'[g] = status[g] \/ (status'[g] = "canceled" /\ Known(g))
        /\ UNCHANGED <<budget, session>>
    BY <1>2 DEF Cancel, CancelLocked
  <2> QED  BY <2>1, <2>2 DEF FlightEffect, Live, Known
<1>3. ASSUME NEW t \in Threads,
             \/ StartReap(t)
             \/ \E f \in Flights : Rehearse(t, f)
             \/ \E f \in Flights, s \in Surfaces : Place(t, f, s)
      PROVE  FlightEffect
  <2>1. /\ UNCHANGED <<tables, others>> /\ tpc[t] = "idle"
        /\ \E p \in {"reap", "refused", "rehearsed"} : tpc' = [tpc EXCEPT ![t] = p]
        /\ \A u \in Threads : u # t => job'[u] = job[u]
    BY <1>3 DEF StartReap, Rehearse, Place, ThreadGoes
  <2>2. \A f \in Flights : Binding(f)' <=> Binding(f)
    BY <2>1 DEF Binding
  <2> QED  BY <2>1, <2>2, NoEffect DEF Live, Known
<1>4. CASE Drain \/ UNCHANGED flightVars \/ \E f \in Flights : Expire(f)
  <2>1. UNCHANGED <<status, budget, session, tpc, job>>
    BY <1>4 DEF Drain, Expire, flightVars
  <2>2. \A f \in Flights : Binding(f)' <=> Binding(f)
    BY <2>1 DEF Binding
  <2> QED  BY <2>1, <2>2, NoEffect DEF Live, Known
<1> QED  BY <1>1, <1>2, <1>3, <1>4 DEF FlightNext

\* A step of the flights keeps the budget of the live flights and the calls.
LEMMA FlightKeepsGate ==
    ASSUME GateInv, FlightEffect, UNCHANGED gateVars
    PROVE  (Placed /\ Charged /\ HeldInFlight)'
<1> USE DEF GateInv, gateVars
<1>1. Placed'
  <2>1. ASSUME NEW a \in Agents, session'[a] # None
        PROVE  (Known(session[a]) /\ AgentOf[session[a]] = a)'
    <3>1. CASE session'[a] = session[a]
      <4>1. session[a] \in Flights
        BY <2>1, <3>1 DEF GateTyped, FlightTyped, FlightTypeOK
      <4> QED  BY <2>1, <3>1, <4>1 DEF FlightEffect, Placed, Known
    <3>2. CASE session'[a] # session[a]
      BY <2>1, <3>2 DEF FlightEffect, Known
    <3> QED  BY <3>1, <3>2
  <2>2. ASSUME NEW c \in Calls, gpc'[c] # "idle"
        PROVE  (LET f == call[c].flight IN
                Known(f) /\ AgentOf[f] = call[c].agent /\ ~Binding(f))'
    <3>1. PICK f \in Flights : f = call[c].flight
      BY <2>2 DEF GateTyped, CallsSet
    <3>2. Known(f) /\ AgentOf[f] = call[c].agent /\ ~Binding(f)
      BY <2>2, <3>1 DEF Placed
    <3>3. Known(f)' /\ ~Binding(f)'  BY <3>2 DEF FlightEffect
    <3> QED  BY <3>1, <3>2, <3>3 DEF Known, Binding
  <2> QED  BY <2>1, <2>2 DEF Placed
<1>2. Charged'
  <2> SUFFICES ASSUME NEW f \in Flights
               PROVE  /\ spent[f] <= Budget
                      /\ ~Known(f)' \/ Binding(f)' => spent[f] = 0
                      /\ Live(f)' /\ ~Binding(f)' =>
                            /\ budget'[AgentOf[f]].flight = f
                            /\ spent[f] + budget'[AgentOf[f]].left <= Budget
    BY DEF Charged
  <2>1. ~Known(f)' \/ Binding(f)' => spent[f] = 0
    BY DEF FlightEffect, Charged
  <2>2. CASE Live(f)' /\ ~Binding(f)'
    <3>1. Live(f)  BY <2>2 DEF FlightEffect
    <3>2. CASE Binding(f)
      <4>1. spent[f] = 0 /\ budget'[AgentOf[f]] = [flight |-> f, left |-> Budget]
        BY <2>2, <3>1, <3>2 DEF FlightEffect, Charged
      <4> QED  BY <2>1, <4>1, FlightAssumption DEF Charged
    <3>3. CASE ~Binding(f)
      <4>1. budget'[AgentOf[f]] = budget[AgentOf[f]]
        BY <2>2, <3>1, <3>3 DEF FlightEffect
      <4> QED  BY <2>1, <3>1, <3>3, <4>1 DEF Charged
    <3> QED  BY <3>2, <3>3
  <2> QED  BY <2>1, <2>2 DEF Charged
<1>3. HeldInFlight'  BY DEF HeldInFlight
<1> QED  BY <1>1, <1>2, <1>3

\* What adminPlaneCheck lets through for a live flight is charged on its budget,
\* within its lease and its allowlist.
LEMMA AdminPlaneHeld ==
    ASSUME GateInv, NEW c \in Calls, AdminPlane(c)
    PROVE  (Placed /\ Charged /\ HeldInFlight)'
<1> USE FlightAssumption DEF GateInv, GateTyped
<1>1. PICK k \in [cmd : Commands, agent : Agents, flight : Flights] : k = call[c]
  BY DEF AdminPlane, CallsSet
<1>2. gpc[c] = "admin" /\ Known(k.flight) /\ AgentOf[k.flight] = k.agent /\ ~Binding(k.flight)
  BY <1>1 DEF AdminPlane, Placed
<1>3. /\ UNCHANGED <<tables, session, bound, tpc, job, todo, current>>
      /\ \A f \in Flights : /\ Live(f)' = Live(f) /\ Known(f)' = Known(f)
                            /\ Binding(f)' = Binding(f)
  BY DEF AdminPlane, Live, Known, Binding, tables
<1>4. \/ budget' = budget
      \/ Chargeable(k) /\ budget' = [budget EXCEPT ![k.agent].left = @ - 1]
  BY <1>1 DEF AdminPlane, Charge
<1>5. \/ Denies(c) /\ UNCHANGED spent
      \/ /\ gpc' = [gpc EXCEPT ![c] = "idle"] /\ call' = [call EXCEPT ![c] = NoCall]
         /\ spent' = [spent EXCEPT ![k.flight] = IF Live(k.flight) THEN @ + 1 ELSE @]
         /\ ran' = ran \cup {[cmd |-> k.cmd, flies |-> Live(k.flight),
                               late |-> k.flight \in expired, logged |-> logged[c]]}
         /\ (budget[k.agent] # NoBudget =>
                Chargeable(k) /\ budget' = [budget EXCEPT ![k.agent].left = @ - 1])
  BY <1>1 DEF AdminPlane, Returns, Charge
<1>6. Placed'
  <2>1. \A d \in Calls : gpc'[d] # "idle" => gpc[d] # "idle" /\ call'[d] = call[d]
    BY <1>5 DEF Denies, TypeOK
  <2> QED  BY <1>3, <2>1 DEF Placed, CallsSet, FlightTyped, FlightTypeOK, tables, Known, Binding
<1>7. Live(k.flight) => /\ budget[k.agent].flight = k.flight /\ budget[k.agent] # NoBudget
                        /\ spent[k.flight] + budget[k.agent].left <= Budget
  BY <1>1, <1>2 DEF Charged, NoBudget
<1>8. Charged'
  <2> SUFFICES ASSUME NEW f \in Flights
               PROVE  /\ spent'[f] <= Budget
                      /\ ~Known(f) \/ Binding(f) => spent'[f] = 0
                      /\ Live(f) /\ ~Binding(f) =>
                            /\ budget'[AgentOf[f]].flight = f
                            /\ spent'[f] + budget'[AgentOf[f]].left <= Budget
    BY <1>3 DEF Charged
  <2>1. AgentOf[f] \in Agents /\ spent[f] \in Nat /\ Budget \in Nat
        /\ budget[AgentOf[f]] \in [flight : Flights \cup {None}, left : 0 .. Budget]
    BY DEF TypeOK, FlightTyped, FlightTypeOK
  <2>2. budget'[AgentOf[f]].flight = budget[AgentOf[f]].flight
        /\ budget'[AgentOf[f]].left \in Int
        /\ budget'[AgentOf[f]].left <= budget[AgentOf[f]].left
    <3>1. CASE budget' = budget  BY <2>1, <3>1
    <3>2. CASE budget' = [budget EXCEPT ![k.agent].left = @ - 1]
      <4>1. budget \in [Agents -> [flight : Flights \cup {None}, left : 0 .. Budget]]
        BY DEF FlightTyped, FlightTypeOK
      <4> QED  BY <2>1, <3>2, <4>1
    <3> QED  BY <1>4, <3>1, <3>2
  <2>3. CASE spent'[f] = spent[f]
    BY <2>1, <2>2, <2>3 DEF Charged
  <2>4. CASE spent'[f] # spent[f]
    <3>1. f = k.flight /\ Live(f) /\ spent'[f] = spent[f] + 1
      BY <1>5, <2>4 DEF TypeOK
    <3>2. Chargeable(k) /\ budget'[k.agent].left = budget[k.agent].left - 1
      BY <1>1, <1>5, <1>7, <2>4, <3>1 DEF FlightTyped, FlightTypeOK
    <3> QED  BY <1>2, <1>7, <2>1, <2>2, <3>1, <3>2 DEF Chargeable
  <2> QED  BY <2>3, <2>4
<1>9. HeldInFlight'
  <2>1. CASE ran' = ran  BY <2>1 DEF HeldInFlight
  <2>2. CASE ran' # ran
    <3>1. /\ ran' = ran \cup {[cmd |-> k.cmd, flies |-> Live(k.flight),
                                late |-> k.flight \in expired, logged |-> logged[c]]}
          /\ Live(k.flight) => Chargeable(k)
      BY <1>5, <1>7, <2>2 DEF Denies
    <3>2. Live(k.flight) => k.flight \notin expired /\ k.cmd \in AgentAllow
      BY <1>7, <3>1 DEF Chargeable
    <3>3. ASSUME NEW x \in ran', x.flies PROVE ~x.late /\ x.cmd \in AgentAllow
      <4>1. CASE x \in ran  BY <3>3, <4>1 DEF HeldInFlight
      <4>2. CASE x = [cmd |-> k.cmd, flies |-> Live(k.flight),
                       late |-> k.flight \in expired, logged |-> logged[c]]
        <5>1. x.flies = Live(k.flight) /\ x.late = (k.flight \in expired) /\ x.cmd = k.cmd
          BY <4>2, Zenon
        <5> QED  BY <3>2, <3>3, <5>1, Zenon
      <4> QED  BY <3>1, <4>1, <4>2
    <3> QED  BY <3>3 DEF HeldInFlight
  <2> QED  BY <2>1, <2>2
<1> QED  BY <1>6, <1>8, <1>9

\* The gate's own steps keep the budgets, the calls and what ran.
LEMMA GateKeepsHeld ==
    ASSUME GateInv, NoneOvertaken, ~Recancel, ~Forget, [Next]_vars
    PROVE  (Held /\ Placed /\ Charged /\ HeldInFlight)'
<1> USE DEF GateInv
<1>1. ASSUME UNCHANGED <<tables, session, bound, tpc, job, todo, current>>
      PROVE  /\ Held'
             /\ \A f \in Flights : /\ Live(f)' = Live(f) /\ Known(f)' = Known(f)
                                   /\ Binding(f)' = Binding(f)
  <2>1. \A f \in Flights : /\ Live(f)' = Live(f) /\ Known(f)' = Known(f)
                           /\ Binding(f)' = Binding(f)
    BY <1>1 DEF tables, Live, Known, Binding
  <2>2. \A t \in Threads, a \in Agents : Pending(t, a)' => Pending(t, a)
    BY <1>1 DEF Pending
  <2>3. FlightTyped  BY DEF GateTyped
  <2>4. UNCHANGED <<agents, session, bound>>  BY <1>1 DEF tables
  <2> QED  BY <2>1, <2>2, <2>3, <2>4, QuietStep
<1>2. ASSUME UNCHANGED <<flightVars, spent, ran>>,
             \A c \in Calls : gpc'[c] # "idle" => gpc[c] # "idle" /\ call'[c] = call[c]
      PROVE  (Held /\ Placed /\ Charged /\ HeldInFlight)'
  <2>1. UNCHANGED <<tables, session, bound, tpc, job, todo, current>> /\ UNCHANGED budget
    BY <1>2 DEF flightVars, others
  <2>2. Placed'  BY <1>2, <2>1 DEF Placed, Known, Binding, tables
  <2>3. Charged'  BY <1>1, <1>2, <2>1 DEF Charged
  <2>4. HeldInFlight'  BY <1>2 DEF HeldInFlight
  <2> QED  BY <1>1, <2>1, <2>2, <2>3, <2>4
<1>3. CASE [FlightNext]_flightVars /\ UNCHANGED gateVars
  <2>1. FlightInv  BY DEF FlightInv, GateTyped
  <2>2. Held'  BY <1>3, <2>1, HeldStep
  <2>3. FlightEffect  BY <1>3, <2>1, FlightEffectStep
  <2> QED  BY <1>3, <2>2, <2>3, FlightKeepsGate
<1>4. ASSUME NEW c \in Calls, GateStep(c)
      PROVE  (Held /\ Placed /\ Charged /\ HeldInFlight)'
  <2>1. CASE AdminPlane(c)
    BY <1>1, <2>1, AdminPlaneHeld DEF AdminPlane
  <2>2. CASE ~AdminPlane(c)
    <3>1. UNCHANGED <<flightVars, spent, ran>> /\ gpc[c] # "idle"
      BY <1>4, <2>2 DEF GateStep, LogCommand, AgentCheck, EvaluatePolicy, LogDecision,
                        ApprovalGate, ApprovalReturns, Records, CallGoes, Denies
    <3>2. Denies(c) \/ \E to \in Places : gpc' = [gpc EXCEPT ![c] = to] /\ call' = call
      BY <1>4, <2>2 DEF GateStep, LogCommand, AgentCheck, EvaluatePolicy, LogDecision,
                        ApprovalGate, ApprovalReturns, Records, CallGoes, Places
    <3>3. \A d \in Calls : gpc'[d] # "idle" => gpc[d] # "idle" /\ call'[d] = call[d]
      BY <3>1, <3>2 DEF GateTyped, TypeOK, Denies
    <3> QED  BY <1>2, <3>1, <3>3
  <2> QED  BY <2>1, <2>2
<1>5. ASSUME NEW c \in Calls, NEW a \in Agents, NEW cmd \in Commands, Enter(c, a, cmd)
      PROVE  (Held /\ Placed /\ Charged /\ HeldInFlight)'
  <2>1. PICK f \in Flights : f = session[a]
    BY <1>5 DEF Enter, GateTyped, FlightTyped, FlightTypeOK
  <2>2. /\ UNCHANGED <<tables, session, bound, tpc, job, todo, current>>
        /\ UNCHANGED <<budget, spent, ran>>
    BY <1>5 DEF Enter, flightVars, others
  <2>3. Known(f) /\ AgentOf[f] = a /\ ~Binding(f)
    BY <1>5, <2>1 DEF Enter, Placed, Binding
  <2>4. /\ gpc' = [gpc EXCEPT ![c] = "log"]
        /\ call' = [call EXCEPT ![c] = [cmd |-> cmd, agent |-> a, flight |-> f]]
    BY <1>5, <2>1 DEF Enter
  <2>5. Placed'
    <3>1. \A b \in Agents : session'[b] # None => (Known(session[b]) /\ AgentOf[session[b]] = b)'
      BY <2>2 DEF Placed, Known, tables
    <3>2. ASSUME NEW d \in Calls, gpc'[d] # "idle"
          PROVE  (LET g == call[d].flight IN
                  Known(g) /\ AgentOf[g] = call[d].agent /\ ~Binding(g))'
      <4>1. CASE d = c
        <5>1. call'[d].flight = f /\ call'[d].agent = a
          BY <2>4, <4>1 DEF GateTyped, TypeOK
        <5> QED  BY <2>2, <2>3, <5>1 DEF Known, Binding, tables
      <4>2. CASE d # c
        <5>1. call'[d] = call[d] /\ gpc[d] # "idle"  BY <2>4, <3>2, <4>2 DEF GateTyped, TypeOK
        <5> QED  BY <2>2, <5>1 DEF Placed, Known, Binding, tables
      <4> QED  BY <4>1, <4>2
    <3> QED  BY <3>1, <3>2 DEF Placed
  <2>6. Charged'       BY <1>1, <2>2 DEF Charged
  <2>7. HeldInFlight'  BY <2>2 DEF HeldInFlight
  <2> QED  BY <1>1, <2>2, <2>5, <2>6, <2>7
<1>6. CASE SponsorEnds \/ Quarantine
  BY <1>2, <1>6 DEF SponsorEnds, Quarantine
<1>7. CASE UNCHANGED vars
  BY <1>3, <1>7 DEF vars
<1> QED  BY <1>3, <1>4, <1>5, <1>6, <1>7 DEF Next

\* Init, and the step, of all that holds an agent to its flight.
LEMMA GateInitInv == Init => GateInv
<1> SUFFICES ASSUME Init PROVE GateInv
  OBVIOUS
<1>1. FlightTyped /\ FlightTypeOK /\ Held
  BY FlightInitInv DEF Init, FlightInv, FlightTyped
<1>2. NoCall \in [cmd : Commands \cup {None}, agent : Agents \cup {None},
                  flight : Flights \cup {None}]
  BY DEF NoCall
<1>3. TypeOK
  <2>1. entered \in 0 .. MaxCommands  BY GateAssumption DEF Init
  <2>2. gpc \in [Calls -> {"idle"}] /\ spent \in [Flights -> Nat]  BY DEF Init
  <2>3. call \in [Calls -> [cmd : Commands \cup {None}, agent : Agents \cup {None},
                            flight : Flights \cup {None}]]
    BY <1>2 DEF Init
  <2> QED  BY <1>1, <2>1, <2>2, <2>3 DEF Init, TypeOK
<1>4. CallsSet /\ RanOnRecord  BY DEF Init, CallsSet, RecordsAt, RanOnRecord
<1>5. Placed /\ HeldInFlight
  BY DEF Init, FlightInit, Placed, HeldInFlight
<1>6. Charged
  BY FlightAssumption DEF Init, FlightInit, Charged, Live, Known
<1> QED  BY <1>1, <1>3, <1>4, <1>5, <1>6 DEF GateInv, GateTyped

\* Whatever fails, and however many commands are in the gate at once, one that
\* gateCommandContext lets through has its own line and the policy's allow
\* decision in the audit chain.
THEOREM RunsAreOnRecord == Spec => []RanOnRecord
<1>1. Init => GateTyped  BY GateInitInv DEF GateInv
<1>2. GateTyped => RanOnRecord  BY DEF GateTyped
<1> QED  BY <1>1, <1>2, GateTypedStep, PTL DEF Spec

\* However many commands of an agent are in the gate at once, and whatever is
\* canceled, reaped and placed beside them, while its flight lives the agent is
\* let through no more commands than its budget, none after its lease and none
\* outside its allowlist.  That no placement is overtaken between registerFlight
\* and BindAgentBudget is assumed of the behaviour: placeFlight does not look.
THEOREM AgentsAreHeld ==
    ASSUME ~Recancel, ~Forget
    PROVE  Spec /\ []NoneOvertaken => []AgentHeld
<1>1. GateInv /\ NoneOvertaken /\ [Next]_vars => GateInv'
  BY GateTypedStep, GateKeepsHeld DEF GateInv
<1>2. GateInv => AgentHeld
  BY DEF GateInv, GateTyped, AgentHeld, Charged, WithinBudget
<1> QED  BY GateInitInv, <1>1, <1>2, PTL DEF Spec

\* When the calls of the grid come one after another, no placement is overtaken.
LEMMA InTurn ==
    ASSUME ~Recancel, \A t, u \in Threads : t = u,
           GateTyped, NoneOvertaken, [Next]_vars
    PROVE  NoneOvertaken'
<1> USE DEF GateTyped
<1>1. ASSUME UNCHANGED <<status, tpc, job>> PROVE NoneOvertaken'
  BY <1>1 DEF NoneOvertaken, Binding, Live
<1>2. ASSUME NEW t \in Threads, ThreadStep(t) PROVE NoneOvertaken'
  <2>1. CASE RegisterFlight(t)
    <3>1. PICK f \in Flights : f = job[t].flight
      BY <2>1 DEF RegisterFlight, FlightTyped, LocalsSet
    <3>2. CASE MayRegister(f)
      <4>1. status'[f] = "placed" /\ job' = job
        BY <2>1, <3>1, <3>2 DEF RegisterFlight, FlightTyped, FlightTypeOK
      <4>2. \A g \in Flights : Binding(g)' => g = f  BY <3>1, <4>1 DEF Binding
      <4> QED  BY <4>1, <4>2 DEF NoneOvertaken, Live
    <3>3. CASE ~MayRegister(f)
      <4>1. tpc'[t] = "idle"
        BY <2>1, <3>1, <3>3 DEF RegisterFlight, ThreadReturns, FlightTyped, FlightTypeOK
      <4> QED  BY <4>1 DEF NoneOvertaken, Binding
    <3> QED  BY <3>2, <3>3
  <2>2. CASE ~RegisterFlight(t)
    <3>1. tpc'[t] # "bind"
      BY <1>2, <2>2 DEF ThreadStep, Reap, ClearManagedAgent, UnregisterAgent, Released,
                        BindAgentBudget, ClearAgentBudget, StoreRehearsal, ThreadGoes,
                        ThreadReturns, FlightTyped, FlightTypeOK
    <3> QED  BY <3>1 DEF NoneOvertaken, Binding
  <2> QED  BY <2>1, <2>2
<1>3. ASSUME NEW t \in Threads,
             \/ StartReap(t)
             \/ \E f \in Flights : Rehearse(t, f)
             \/ \E f \in Flights, s \in Surfaces : Place(t, f, s)
             \/ \E f \in Flights, s \in Cancelers : Cancel(t, f, s)
      PROVE  NoneOvertaken'
  <2>1. tpc'[t] # "bind"
    BY <1>3 DEF StartReap, Rehearse, Place, Cancel, ThreadGoes, FlightTyped, FlightTypeOK
  <2> QED  BY <2>1 DEF NoneOvertaken, Binding
<1>4. CASE Drain \/ \E f \in Flights : Expire(f)
  BY <1>1, <1>4 DEF Drain, Expire
<1>5. CASE FlightNext
  BY <1>2, <1>3, <1>4, <1>5 DEF FlightNext
<1>6. CASE UNCHANGED flightVars
  BY <1>1, <1>6 DEF flightVars, tables
<1>7. ASSUME NEW c \in Calls, GateStep(c) PROVE UNCHANGED <<status, tpc, job>>
  BY <1>7 DEF GateStep, LogCommand, AgentCheck, EvaluatePolicy, LogDecision, ApprovalGate,
              ApprovalReturns, AdminPlane, flightVars, tables
<1>8. ASSUME NEW c \in Calls, NEW a \in Agents, NEW cmd \in Commands, Enter(c, a, cmd)
      PROVE  UNCHANGED flightVars
  BY <1>8 DEF Enter
<1>9. CASE SponsorEnds \/ Quarantine \/ UNCHANGED vars
  BY <1>6, <1>9 DEF SponsorEnds, Quarantine, vars
<1> QED  BY <1>1, <1>5, <1>6, <1>7, <1>8, <1>9 DEF Next

\* When the calls of placeFlight, cancelFlight and the reaper come one after
\* another, an agent is held to its budget, lease and allowlist without further
\* assumptions, however many of its commands are in the gate.
THEOREM AgentsAreHeldInTurn ==
    ASSUME ~Recancel, ~Forget, \A t, u \in Threads : t = u
    PROVE  Spec => []AgentHeld
<1>1. Init => NoneOvertaken
  BY DEF Init, FlightInit, NoneOvertaken, Binding
<1>2. GateTyped /\ NoneOvertaken /\ [Next]_vars => NoneOvertaken'
  BY InTurn
<1>3. Init => GateTyped  BY GateInitInv DEF GateInv
<1>4. Spec => []NoneOvertaken
  BY <1>1, <1>2, <1>3, GateTypedStep, PTL DEF Spec
<1> QED  BY <1>4, AgentsAreHeld, PTL
=============================================================================
