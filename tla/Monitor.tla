------------------------------ MODULE Monitor ------------------------------
(***************************************************************************)
(* The monitor socket of one SSH session: MonitorClient in the session     *)
(* process (internal/sys/monitor_frame.go) and ServeSSHMonitorRun in the    *)
(* listener (security/ssh_monitor.go), joined by a socket pair.            *)
(*                                                                         *)
(* The client makes one round trip at a time (its mutex mu); Ctrl-C calls  *)
(* Cancel on the signal goroutine, which shares three atomics with it. The *)
(* listener reads frames in a loop and answers each request on a goroutine *)
(* of its own. Any other holder of the socket may write frames too.        *)
(*                                                                         *)
(* A request's body stands for its kind, arguments and input, and for the  *)
(* digest over them. Request identifiers start at 1, not at random. A unit *)
(* of output is one full chunk, and so is the truncation marker.           *)
(***************************************************************************)
EXTENDS Integers, Sequences, FiniteSets

CONSTANTS
    AuthBodies, RunBodies,   \* what is authorized, what is run
    Oversized,  \* those whose frame is over MaxMonitorFrame
    MaxCalls,   \* bound: round trips of the client
    MaxCancels, \* bound: calls of Cancel
    MaxStrays,  \* bound: foreign frames
    MaxOutput,  \* MaxMonitorRunOutput, in chunks
    MaxWritten  \* bound: chunks a run writes

ASSUME MonitorAssumption ==
    /\ AuthBodies \cap RunBodies = {} /\ "none" \notin AuthBodies \cup RunBodies
    /\ Oversized \subseteq AuthBodies \cup RunBodies
    /\ {MaxCalls, MaxOutput} \subseteq Nat \ {0}
    /\ {MaxCancels, MaxStrays, MaxWritten} \subseteq Nat

VARIABLES
    cl,       \* the client: pc, its call, Out frames taken, nextID, broken
    atom,     \* active, writing, early (cancelEarly)
    sg,       \* the signal goroutine in Cancel: pc, w (writing as read), id to send, calls
    toL, toC, \* frames under way to the listener and to the client
    ls,       \* the listener: lastID, inflight, earlyID, fresh (its window), up, served
    rt,       \* each request's goroutine: pc, body, answer, output
    finished, \* requests whose context a Cancel ended
    upset,    \* what disturbed this connection, an own oversized request included
    hist      \* history: allowed, accepted, busied, meant, early

monitorVars == <<cl, atom, sg, toL, toC, ls, rt, finished, upset, hist>>

Ids == 1..(MaxCalls + MaxStrays)
Bodies == AuthBodies \cup RunBodies
NoCall == [id |-> 0, body |-> "none"]
Frame(t, i, b, n) == [type |-> t, id |-> i, body |-> b, n |-> n]
NoRoutine(p) == [pc |-> p, body |-> "none", ok |-> FALSE, total |-> 0, seq |-> 0, cut |-> FALSE]

MonitorInit ==
    /\ cl = [pc |-> "new", call |-> NoCall, got |-> 0, next |-> 1, broken |-> FALSE]
    /\ atom = [active |-> 0, writing |-> 0, early |-> 0]
    /\ sg = [pc |-> "none", w |-> 0, id |-> 0, calls |-> 0]
    /\ toL = <<>> /\ toC = <<>>
    /\ ls = [last |-> 0, inflight |-> 0, early |-> 0, fresh |-> FALSE, up |-> TRUE, served |-> FALSE]
    /\ rt = [i \in Ids |-> NoRoutine("none")]
    /\ finished = {} /\ upset = "none"
    /\ hist = [allowed |-> {}, accepted |-> {}, busied |-> FALSE, meant |-> {}, early |-> {}]

-----------------------------------------------------------------------------
\* The client: Ping, Authorize and Run under mu.

\* MonitorClient.write: the frame goes out, or the client is broken.
ClientWrites(f) == toL' = IF ls.up THEN Append(toL, f) ELSE toL
StillWhole == ~cl.broken /\ ls.up

\* Ping, before the command loop starts; any answer but its own breaks.
SendPing ==
    /\ cl.pc = "new"
    /\ ClientWrites(Frame("ping", 0, "none", 0))
    /\ cl' = [cl EXCEPT !.pc = IF ls.up THEN "ping" ELSE "idle", !.broken = ~ls.up]
    /\ UNCHANGED <<atom, sg, toC, ls, rt, finished, upset, hist>>

ReceivePing ==
    /\ cl.pc = "ping" /\ (toC # <<>> \/ ~ls.up)
    /\ cl' = [cl EXCEPT !.pc = "idle", !.broken = toC = <<>> \/ Head(toC).type # "ping"]
    /\ toC' = IF toC = <<>> THEN toC ELSE Tail(toC)
    /\ UNCHANGED <<atom, sg, toL, ls, rt, finished, upset, hist>>

\* The request is marked in flight before its frame is written.
StartCall_Active(b) ==
    /\ cl.pc = "idle" /\ ~cl.broken /\ cl.next <= MaxCalls
    /\ cl' = [cl EXCEPT !.pc = "write", !.call = [id |-> cl.next, body |-> b], !.got = 0,
                        !.next = @ + 1]
    /\ atom' = [atom EXCEPT !.writing = cl.next, !.active = cl.next]
    /\ UNCHANGED <<sg, toL, toC, ls, rt, finished, upset, hist>>

\* Authorize and Run up to writeRequest, which marks the request as being written.
StartCall(b) ==
    /\ cl.pc = "idle" /\ ~cl.broken /\ cl.next <= MaxCalls
    /\ cl' = [cl EXCEPT !.pc = "write", !.call = [id |-> cl.next, body |-> b], !.got = 0,
                        !.next = @ + 1]
    /\ atom' = [atom EXCEPT !.writing = cl.next]
    /\ UNCHANGED <<sg, toL, toC, ls, rt, finished, upset, hist>>

\* writeRequest writes the frame; on failure it forgets the request.  The checks of
\* the arguments let a body pass whose frame WriteMonitorFrame refuses as too large:
\* nothing is sent then, and the client is broken as by any failed write.
WriteRequest ==
    /\ cl.pc = "write"
    /\ \/ /\ cl.call.body \notin Oversized
          /\ ClientWrites(Frame("request", cl.call.id, cl.call.body, 0))
          /\ cl' = [cl EXCEPT !.pc = IF ls.up THEN "written" ELSE "over", !.broken = ~StillWhole]
          /\ atom' = [atom EXCEPT !.writing = IF ls.up THEN @ ELSE 0]
          /\ UNCHANGED upset
       \/ /\ cl.call.body \in Oversized
          /\ cl' = [cl EXCEPT !.pc = "over", !.broken = TRUE]
          /\ atom' = [atom EXCEPT !.writing = 0]
          /\ upset' = IF upset \in {"none", "session"} THEN "large" ELSE upset
          /\ UNCHANGED toL
    /\ UNCHANGED <<sg, toC, ls, rt, finished, hist>>

\* The request is in flight only now, and only then no longer being written.
MarkActive ==
    /\ \/ /\ cl.pc = "written" /\ cl' = [cl EXCEPT !.pc = "active"]
          /\ atom' = [atom EXCEPT !.active = cl.call.id]
       \/ /\ cl.pc = "active" /\ cl' = [cl EXCEPT !.pc = "early"]
          /\ atom' = [atom EXCEPT !.writing = 0]
    /\ UNCHANGED <<sg, toL, toC, ls, rt, finished, upset, hist>>

\* A Cancel that came during the write is sent now.
TakeEarlyCancel ==
    /\ cl.pc = "early"
    /\ \/ /\ atom.early = cl.call.id
          /\ atom' = [atom EXCEPT !.early = 0]
          /\ ClientWrites(Frame("cancel", cl.call.id, "none", 0))
          /\ cl' = [cl EXCEPT !.pc = "wait", !.broken = ~StillWhole]
       \/ /\ atom.early # cl.call.id
          /\ cl' = [cl EXCEPT !.pc = "wait"]
          /\ UNCHANGED <<atom, toL>>
    /\ UNCHANGED <<sg, toC, ls, rt, finished, upset, hist>>

\* An Authorize answer or an Exit whose digest is not compared.
Matches_IdOnly(f) == f.type = "answer" /\ f.id = cl.call.id

\* The answer to an Authorize, or the Exit of a Run, with the call's id and digest.
Matches(f) == f.type = "answer" /\ f.id = cl.call.id /\ f.body = cl.call.body

\* An Out frame of this Run, the next in order, within the client's own limit.
MatchesOut(f) ==
    /\ f.type = "out" /\ cl.call.body \in RunBodies /\ f.id = cl.call.id
    /\ f.n = cl.got + 1 /\ f.n <= MaxOutput + 1

\* One frame is read: an Out frame is taken, a matching answer ends the call,
\* anything else, or the end of the stream, breaks the client.
Receive ==
    /\ cl.pc = "wait" /\ (toC # <<>> \/ ~ls.up)
    /\ toC' = IF toC = <<>> THEN toC ELSE Tail(toC)
    /\ \/ /\ toC # <<>> /\ MatchesOut(Head(toC))
          /\ cl' = [cl EXCEPT !.got = @ + 1]
          /\ UNCHANGED hist
       \/ /\ toC # <<>> /\ Matches(Head(toC))
          /\ cl' = [cl EXCEPT !.pc = "over"]
          /\ hist' = IF Head(toC).n = 0 THEN hist
                     ELSE [hist EXCEPT !.accepted = @ \cup {cl.call}]
       \/ /\ toC # <<>> => ~(MatchesOut(Head(toC)) \/ Matches(Head(toC)))
          /\ cl' = [cl EXCEPT !.pc = "over", !.broken = TRUE]
          /\ UNCHANGED hist
    /\ UNCHANGED <<atom, sg, toL, ls, rt, finished, upset>>

\* idle: active is cleared first, cancelEarly last.
Idle ==
    /\ \/ /\ cl.pc = "over" /\ cl' = [cl EXCEPT !.pc = "idling"]
          /\ atom' = [atom EXCEPT !.active = 0]
       \/ /\ cl.pc = "idling" /\ cl' = [cl EXCEPT !.pc = "idle", !.call = NoCall, !.got = 0]
          /\ atom' = [atom EXCEPT !.writing = 0, !.early = 0]
    /\ UNCHANGED <<sg, toL, toC, ls, rt, finished, upset, hist>>

-----------------------------------------------------------------------------
\* Cancel, on the signal goroutine: one call at a time, without mu.

CancelReadsWriting ==
    /\ sg.pc = "none" /\ ~cl.broken
    /\ sg.calls < MaxCancels /\ upset # "stray"
    /\ sg' = [sg EXCEPT !.pc = "read", !.w = atom.writing, !.calls = @ + 1]
    /\ hist' = [hist EXCEPT !.meant = @ \cup {cl.call.id}]
    /\ UNCHANGED <<cl, atom, toL, toC, ls, rt, finished, upset>>

CancelReadsActive ==
    /\ sg.pc = "read"
    /\ sg' = [sg EXCEPT !.id = atom.active,
                        !.pc = IF atom.active # 0 THEN "send" ELSE IF sg.w = 0 THEN "none" ELSE "store"]
    /\ hist' = [hist EXCEPT !.meant = @ \cup {cl.call.id}]
    /\ UNCHANGED <<cl, atom, toL, toC, ls, rt, finished, upset>>

CancelStoresEarly ==
    /\ sg.pc = "store"
    /\ atom' = [atom EXCEPT !.early = sg.w]
    /\ sg' = [sg EXCEPT !.pc = "recheck"]
    /\ UNCHANGED <<cl, toL, toC, ls, rt, finished, upset, hist>>

\* Cancel leaves the sending to the writer.
CancelRechecks_Trusts ==
    /\ sg.pc = "recheck"
    /\ sg' = [sg EXCEPT !.pc = "none"]
    /\ UNCHANGED <<cl, atom, toL, toC, ls, rt, finished, upset, hist>>

\* The writer may have passed its own look: whoever swaps cancelEarly out sends.
CancelRechecks ==
    /\ \/ /\ sg.pc = "recheck"
          /\ sg' = [sg EXCEPT !.pc = IF atom.active = sg.w THEN "swap" ELSE "none"]
          /\ UNCHANGED atom
       \/ /\ sg.pc = "swap" /\ atom.early = sg.w
          /\ atom' = [atom EXCEPT !.early = 0]
          /\ sg' = [sg EXCEPT !.pc = "send", !.id = sg.w]
       \/ /\ sg.pc = "swap" /\ atom.early # sg.w
          /\ sg' = [sg EXCEPT !.pc = "none"]
          /\ UNCHANGED atom
    /\ UNCHANGED <<cl, toL, toC, ls, rt, finished, upset, hist>>

CancelSends ==
    /\ sg.pc = "send"
    /\ ClientWrites(Frame("cancel", sg.id, "none", 0))
    /\ cl' = [cl EXCEPT !.broken = ~StillWhole]
    /\ sg' = [sg EXCEPT !.pc = "none"]
    /\ UNCHANGED <<atom, toC, ls, rt, finished, upset, hist>>

-----------------------------------------------------------------------------
\* The listener's read loop.

\* sshMonitor.write: after a failure nothing more is written.
ListenerWrites(f) == toC' = IF ls.up THEN Append(toC, f) ELSE toC
Reading(t) == ls.up /\ toL # <<>> /\ Head(toL).type = t /\ toL' = Tail(toL)

ServePing ==
    /\ Reading("ping")
    /\ ListenerWrites(Frame("ping", 0, "none", 0))
    /\ UNCHANGED <<cl, atom, sg, ls, rt, finished, upset, hist>>

\* inSequence: the first identifier is free, every later one adds one.
InSequence(i) == ls.last = 0 \/ i = ls.last + 1

\* The slot begin claims.
SlotFree == ls.inflight = 0

\* begin: the slot is claimed, and a remembered Cancel of this request takes effect.
BeginSlot(i) ==
    /\ ls' = [ls EXCEPT !.last = i, !.inflight = i, !.early = IF @ = i THEN 0 ELSE @]
    /\ \/ /\ ls.early = i /\ ls.fresh
          /\ finished' = finished \cup {i}
          /\ hist' = [hist EXCEPT !.early = @ \cup {i}]
       \/ ~(ls.early = i /\ ls.fresh) /\ UNCHANGED <<finished, hist>>

\* An Authorize or a Run is read: out of sequence closes the connection, a held
\* slot is answered as busy, otherwise a goroutine serves it.
ServeRequest ==
    /\ Reading("request")
    /\ LET i == Head(toL).id  b == Head(toL).body IN
       \/ /\ ~InSequence(i)
          /\ ls' = [ls EXCEPT !.up = FALSE]
          /\ UNCHANGED <<toC, rt, finished, hist>>
       \/ /\ InSequence(i) /\ ~SlotFree
          /\ ls' = [ls EXCEPT !.last = i]
          /\ ListenerWrites(Frame("answer", i, b, 0))
          /\ hist' = [hist EXCEPT !.busied = TRUE]
          /\ UNCHANGED <<rt, finished>>
       \/ /\ InSequence(i) /\ SlotFree
          /\ BeginSlot(i)
          /\ rt' = [rt EXCEPT ![i] = [NoRoutine("start") EXCEPT !.body = b]]
          /\ UNCHANGED toC
    /\ UNCHANGED <<cl, atom, sg, upset>>

\* cancelID: the request in flight, or the next one for a while.
CancelID(i) ==
    \/ /\ ls.inflight = i
       /\ finished' = finished \cup {i} /\ UNCHANGED ls
    \/ /\ ls.inflight # i /\ ls.last # 0 /\ i = ls.last + 1
       /\ ls' = [ls EXCEPT !.early = i, !.fresh = TRUE] /\ UNCHANGED finished
    \/ /\ ls.inflight # i /\ ~(ls.last # 0 /\ i = ls.last + 1)
       /\ UNCHANGED <<ls, finished>>

ServeCancel ==
    /\ Reading("cancel")
    /\ CancelID(Head(toL).id)
    /\ UNCHANGED <<cl, atom, sg, toC, rt, upset, hist>>

\* sshMonitorEarlyCancelWindow passes.
EarlyExpires ==
    /\ ls.early # 0 /\ ls.fresh
    /\ ls' = [ls EXCEPT !.fresh = FALSE]
    /\ UNCHANGED <<cl, atom, sg, toL, toC, rt, finished, upset, hist>>

\* The loop reads the end of the stream: contexts are canceled, the connection closed.
LoopEOF ==
    /\ ls.up /\ cl.pc = "gone" /\ toL = <<>>
    /\ ls' = [ls EXCEPT !.up = FALSE]
    /\ UNCHANGED <<cl, atom, sg, toL, toC, rt, finished, upset, hist>>

\* wg.Wait: the server returns once no goroutine is left.
ServeReturns ==
    /\ ~ls.up /\ ~ls.served
    /\ \A i \in Ids : rt[i].pc \in {"none", "done"}
    /\ ls' = [ls EXCEPT !.served = TRUE]
    /\ UNCHANGED <<cl, atom, sg, toL, toC, rt, finished, upset, hist>>

-----------------------------------------------------------------------------
\* A request's goroutine: authorize or runVBin, then end, then the answer.

CtxDone(i) == i \in finished \/ ~ls.up
Answers(i, ok) == rt' = [rt EXCEPT ![i].pc = "end", ![i].ok = ok]

\* The checks before the gate: a canceled request, a session that is gone and a
\* command that is refused by name are answered without it.
Check(i) ==
    /\ rt[i].pc = "start"
    /\ \/ Answers(i, FALSE)
       \/ ~CtxDone(i) /\ upset # "session" /\ rt' = [rt EXCEPT ![i].pc = "gate"]
    /\ UNCHANGED <<cl, atom, sg, toL, toC, ls, finished, upset, hist>>

\* The gate allows: an Authorize is answered, a Run starts.
GateAllows(i) ==
    /\ rt[i].pc = "gate"
    /\ \/ rt[i].body \in AuthBodies /\ Answers(i, TRUE)
       \/ rt[i].body \in RunBodies /\ rt' = [rt EXCEPT ![i].pc = "run"]
    /\ hist' = [hist EXCEPT !.allowed = @ \cup {[id |-> i, body |-> rt[i].body]}]
    /\ UNCHANGED <<cl, atom, sg, toL, toC, ls, finished, upset>>

\* It denies: by policy at any time, and once the context is done, which ends a
\* pending wait for a second person.
GateDenies(i) ==
    /\ rt[i].pc = "gate"
    /\ Answers(i, FALSE)
    /\ UNCHANGED <<cl, atom, sg, toL, toC, ls, finished, upset, hist>>

\* What is left of a run's output.
Room(i) == rt[i].seq < MaxOutput

\* emit: one chunk of output is sent, or dropped once MaxOutput is reached.
Emit(i) ==
    /\ rt[i].pc = "run" /\ rt[i].total < MaxWritten
    /\ \/ /\ Room(i)
          /\ rt' = [rt EXCEPT ![i].total = rt[i].total + 1, ![i].seq = rt[i].seq + 1]
          /\ ListenerWrites(Frame("out", i, "none", rt[i].seq + 1))
       \/ /\ ~Room(i)
          /\ rt' = [rt EXCEPT ![i].total = rt[i].total + 1, ![i].cut = TRUE]
          /\ UNCHANGED toC
    /\ UNCHANGED <<cl, atom, sg, toL, ls, finished, upset, hist>>

\* The run returns, with success or not; finish writes the truncation marker.
RunReturns(i) ==
    /\ rt[i].pc = "run"
    /\ \E ok \in BOOLEAN : Answers(i, ok)
    /\ IF rt[i].cut THEN ListenerWrites(Frame("out", i, "none", rt[i].seq + 1)) ELSE UNCHANGED toC
    /\ UNCHANGED <<cl, atom, sg, toL, ls, finished, upset, hist>>

\* end gives the slot back; only then the answer is written.
EndSlot(i) ==
    /\ \/ /\ rt[i].pc = "end"
          /\ ls' = [ls EXCEPT !.inflight = IF @ = i THEN 0 ELSE @]
          /\ rt' = [rt EXCEPT ![i].pc = "respond"]
          /\ UNCHANGED toC
       \/ /\ rt[i].pc = "respond"
          /\ rt' = [rt EXCEPT ![i] = NoRoutine("done")]
          /\ ListenerWrites(Frame("answer", i, rt[i].body, IF rt[i].ok THEN 1 ELSE 0))
          /\ UNCHANGED ls
    /\ UNCHANGED <<cl, atom, sg, toL, finished, upset, hist>>

\* breakConn: a frame write fails or times out, and the connection is closed.
WriteFails ==
    /\ upset = "none" /\ ls.up
    /\ \E i \in Ids : rt[i].pc \in {"run", "respond"}
    /\ ls' = [ls EXCEPT !.up = FALSE] /\ upset' = "write"
    /\ UNCHANGED <<cl, atom, sg, toL, toC, rt, finished, hist>>

-----------------------------------------------------------------------------
\* The rest of the world, one disturbance per connection.

\* The session is unregistered in the listener.
SessionGoes ==
    /\ upset = "none" /\ upset' = "session"
    /\ UNCHANGED <<cl, atom, sg, toL, toC, ls, rt, finished, hist>>

\* The session process ends between two calls or while one waits.
ClientGoes ==
    /\ upset = "none" /\ cl.pc \in {"idle", "wait"} /\ sg.pc = "none"
    /\ cl' = [cl EXCEPT !.pc = "gone", !.broken = TRUE] /\ upset' = "client"
    /\ UNCHANGED <<atom, sg, toL, toC, ls, rt, finished, hist>>

\* Another holder of the socket writes a request or a Cancel.  Bound: not in a
\* connection that also sees Ctrl-C.
Stray ==
    /\ MaxStrays > 0 /\ sg.calls = 0 /\ ls.up
    /\ upset = "none" /\ upset' = "stray"
    /\ \E i \in 1..(cl.next + 1) \cap Ids :
          \/ \E b \in Bodies \ Oversized : toL' = Append(toL, Frame("request", i, b, 0))
          \/ toL' = Append(toL, Frame("cancel", i, "none", 0))
    /\ UNCHANGED <<cl, atom, sg, toC, ls, rt, finished, hist>>

ClientStep ==
    \/ SendPing \/ ReceivePing \/ WriteRequest \/ MarkActive \/ TakeEarlyCancel \/ Receive \/ Idle
CancelStep == CancelReadsActive \/ CancelStoresEarly \/ CancelRechecks \/ CancelSends
LoopStep == ServePing \/ ServeRequest \/ ServeCancel \/ LoopEOF \/ ServeReturns
RoutineStep(i) == Check(i) \/ RunReturns(i) \/ EndSlot(i)
CanceledGate(i) == CtxDone(i) /\ GateDenies(i)

MonitorNext ==
    \/ ClientStep \/ CancelReadsWriting \/ CancelStep \/ LoopStep \/ EarlyExpires
    \/ \E b \in Bodies : StartCall(b)
    \/ \E i \in Ids : RoutineStep(i) \/ GateAllows(i) \/ GateDenies(i) \/ Emit(i)
    \/ WriteFails \/ SessionGoes \/ ClientGoes \/ Stray

MonitorSpec == MonitorInit /\ [][MonitorNext]_monitorVars

-----------------------------------------------------------------------------
MonitorTypeOK ==
    /\ cl.pc \in {"new", "ping", "idle", "write", "written", "active", "early", "wait", "over",
                  "idling", "gone"}
    /\ cl.got <= MaxOutput + 1
    /\ {atom.active, atom.writing, atom.early, sg.w, sg.id, ls.last, ls.inflight, ls.early}
         \subseteq Ids \cup {0}
    /\ finished \subseteq Ids
    /\ \A i \in Ids : rt[i].total <= MaxWritten /\ rt[i].seq <= MaxOutput

\* What the client takes as allowed, the listener allowed under the same
\* identifier and digest, whoever else writes to the socket and whatever answers
\* are still queued (monitor_frame.go, Authorize and Run).
AcceptedWasAllowed == hist.accepted \subseteq hist.allowed

\* At most one request is between begin and end (ssh_monitor.go, begin and end).
OneInFlight == Cardinality({i \in Ids : rt[i].pc \in {"start", "gate", "run", "end"}}) <= 1

\* The client's own requests never find the slot held: end comes before the
\* answer that the next one waits for (ssh_monitor.go, end).
NeverBusy == upset # "stray" => ~hist.busied

\* A Cancel ends only a request that was under way when Cancel looked, never the
\* one sent while the Cancel was (ssh_monitor.go, cancelID).
CancelsOnlyMeant == upset # "stray" => finished \subseteq hist.meant

\* A Cancel never precedes its request on the wire (monitor_frame.go, active).
CancelFollowsRequest ==
    upset # "stray" =>
        \A n \in 1..Len(toL) :
            toL[n].type = "cancel" =>
                \/ toL[n].id <= ls.last
                \/ \E k \in 1..(n - 1) : toL[k].type = "request" /\ toL[k].id = toL[n].id

\* A request whose Cancel was remembered is never put to the gate.
EarlyCancelDenies ==
    \A i \in hist.early : rt[i].pc \notin {"gate", "run"} /\ \A r \in hist.allowed : r.id # i

\* Both ends stay in step: a client that is undisturbed, and has itself made no request
\* over the frame size, never breaks, whatever a run writes and however it is canceled.
InStep == upset \in {"none", "session"} => ~cl.broken

\* Ctrl-C during a round trip ends it even while the gate waits for a second
\* person: one of the two threads sends the Cancel (monitor_frame.go, Cancel).
CancelEndsCall ==
    \A i \in 1..MaxCalls :
        (sg.pc = "read" /\ cl.call.id = i /\ (sg.w = i \/ atom.active = i)) ~> (cl.call.id # i \/ cl.pc = "gone")

\* The listener's goroutines end once the session process has gone.
ServeEnds == (cl.pc = "gone") ~> ls.served

\* Client and listener agree on every request (Authorize, Run, begin, end): one at a
\* time, answered as the gate decided, and never out of step.
AnswersInStep ==
    /\ MonitorTypeOK /\ AcceptedWasAllowed /\ OneInFlight /\ NeverBusy
    /\ InStep

\* Ctrl-C ends the request it was meant for and no other (Cancel, cancelID).
CancelsMeant == CancelsOnlyMeant /\ CancelFollowsRequest /\ EarlyCancelDenies
=============================================================================
