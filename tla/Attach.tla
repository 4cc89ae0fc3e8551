------------------------------- MODULE Attach -------------------------------
(***************************************************************************)
(* Admin attach to a live session (security/admin_attach_ee.go).           *)
(*                                                                         *)
(* An admin key asks over HTTP to view or to control (rw) the terminal of  *)
(* another user's session.  Every HTTP call is a thread that runs          *)
(* serveAttach: it looks the session up, passes the policy gate, checks    *)
(* the capacity, checks or opens a four-eyes request, reserves its place,  *)
(* consumes the approval, writes the audit chain and streams.  attachMu is *)
(* held only inside single steps of that sequence, so other calls, the end *)
(* of the session, a rename of its user and decisions fall between them.   *)
(*                                                                         *)
(* A decision is the claim and the marker of module FourEyes.  Refusals    *)
(* that change no state are steps back to "idle".                          *)
(***************************************************************************)
EXTENDS Integers, FiniteSets, TLC

CONSTANTS
    Handlers,     \* HTTP calls that may be in progress at once
    Keys,         \* named admin keys
    Entitled,     \* those with admin.snoop.rw
    Sessions,     \* session identifiers, never reused
    Users,        \* names a session's user may have
    RuleApprover, \* the approver a configured rule names, or NoName
    MaxViewers,   \* attachMaxViewers
    MaxRequests,  \* bound: four-eyes requests opened
    Faults        \* "audit": LogEvent may fail; "conn": the connection may

NoName == "noname"

ASSUME ConstantsAssumption ==
    /\ Entitled \subseteq Keys
    /\ NoName \notin Keys \cup Users
    /\ RuleApprover \in Keys \cup Users \cup {NoName}
    /\ MaxViewers \in Nat \ {0} /\ MaxRequests \in Nat
    /\ Faults \subseteq {"audit", "conn"}

Purposes == {"support", "investigation"}
Requests == 1 .. MaxRequests
NoRequest == 0

\* What an HTTP call asks for.  The purpose of a view only reaches the policy
\* gate and the log, so one will do.
Args == {a \in [key : Keys, session : Sessions, rw : BOOLEAN, purpose : Purposes] :
            ~a.rw => a.purpose = "support"}
NoArgs == [key |-> NoName, session |-> NoName, rw |-> FALSE, purpose |-> NoName]

Slots == [key : Keys, session : Sessions, purpose : Purposes]
SlotOf(a) == [key |-> a.key, session |-> a.session, purpose |-> a.purpose]

VARIABLES
    life,       \* "live", "closing" (out of the table, hooks to run), "gone"
    user,       \* the session's current user
    source,     \* how it was established: "login", "asserted", "verified"
    controller, \* the key that holds the session
    entries,    \* attachSessions: the calls that hold a place
    open,       \* snoopApprovals: the request of a key, session and purpose
    request,    \* the pending file: who asks, and who may decide
    file,       \* where it is: "none", "pending", "claimed"
    verdict,    \* its marker and who made it
    late,       \* requests whose deadline has passed
    opened,     \* requests opened so far
    pc, args,    \* each call's control state and arguments
    owner,      \* the user it read at the start
    grant,      \* the approved request it found
    ended,      \* its context is canceled
    record,     \* its MIRROR_ATTACH: "none", "attached", "unrecorded" detach
    uses        \* history: rw places reserved on each request's approval

sessionVars == <<life, user, source>>
placeVars   == <<controller, entries>>
requestVars == <<open, request, file, verdict, late, opened>>
callVars    == <<args, owner, grant, ended>>
vars == <<sessionVars, placeVars, requestVars, pc, callVars, record, uses>>

NoDecision == [marker |-> "none", who |-> NoName, surface |-> NoName]

Init ==
    /\ life = [s \in Sessions |-> "live"]
    /\ user \in [Sessions -> Users]
    /\ source = [s \in Sessions |-> "login"]
    /\ controller = [s \in Sessions |-> NoName]
    /\ entries = [s \in Sessions |-> {}]
    /\ open = [k \in Slots |-> NoRequest]
    /\ request = [r \in Requests |-> [key |-> NoName, owner |-> NoName,
                     approver |-> NoName, notApprover |-> NoName, surface |-> NoName]]
    /\ file = [r \in Requests |-> "none"]
    /\ verdict = [r \in Requests |-> NoDecision]
    /\ late = {} /\ opened = 0
    /\ pc = [h \in Handlers |-> "idle"]
    /\ args = [h \in Handlers |-> NoArgs]
    /\ owner = [h \in Handlers |-> NoName]
    /\ grant = [h \in Handlers |-> NoRequest]
    /\ ended = [h \in Handlers |-> FALSE]
    /\ record = [h \in Handlers |-> "none"]
    /\ uses = [r \in Requests |-> 0]

-----------------------------------------------------------------------------
(* The session. *)

\* UnregisterSession takes the session out of the table first.
Unregister(s) ==
    /\ life[s] = "live"
    /\ life' = [life EXCEPT ![s] = "closing"]
    /\ UNCHANGED <<user, source, placeVars, requestVars, pc, callVars, record, uses>>

OpenOn(s) == {k \in Slots : k.session = s /\ open[k] # NoRequest}

\* Mutant: the hook drops the requests and forgets to end the attaches.
EndSessionAttaches_Forget(s) ==
    /\ life[s] = "closing"
    /\ life' = [life EXCEPT ![s] = "gone"]
    /\ open' = [k \in Slots |-> IF k.session = s THEN NoRequest ELSE open[k]]
    /\ file' = [r \in Requests |-> IF file[r] = "pending" /\ \E k \in OpenOn(s) : open[k] = r
                                   THEN "none" ELSE file[r]]
    /\ UNCHANGED <<user, source, placeVars, request, verdict, late, opened, pc, callVars,
                   record, uses>>

\* endSessionAttaches, the unregister hook: the session's requests are dropped
\* with their pending files, its attaches are canceled.
EndSessionAttaches(s) ==
    /\ life[s] = "closing"
    /\ life' = [life EXCEPT ![s] = "gone"]
    /\ open' = [k \in Slots |-> IF k.session = s THEN NoRequest ELSE open[k]]
    /\ file' = [r \in Requests |-> IF file[r] = "pending" /\ \E k \in OpenOn(s) : open[k] = r
                                   THEN "none" ELSE file[r]]
    /\ ended' = [h \in Handlers |-> ended[h] \/ h \in entries[s]]
    /\ UNCHANGED <<user, source, placeVars, request, verdict, late, opened, pc, args, owner,
                   grant, record, uses>>

\* SetIdentity: a device login or an OIDC import renames the session.
SetIdentity(s, u) ==
    /\ life[s] = "live"
    /\ user' = [user EXCEPT ![s] = u]
    /\ source' = [source EXCEPT ![s] = "asserted"]
    /\ UNCHANGED <<life, placeVars, requestVars, pc, callVars, record, uses>>

\* SetIdentitySource(oidc-verified): the import's token was checked.
SetIdentitySource(s) ==
    /\ source[s] = "asserted"
    /\ source' = [source EXCEPT ![s] = "verified"]
    /\ UNCHANGED <<life, user, placeVars, requestVars, pc, callVars, record, uses>>

Trusted(s) == source[s] \in {"login", "verified"}

-----------------------------------------------------------------------------
(* The four-eyes request. *)

\* The request's deadline passes.
Deadline(r) ==
    /\ r <= opened /\ r \notin late
    /\ late' = late \cup {r}
    /\ UNCHANGED <<sessionVars, placeVars, open, request, file, verdict, opened, pc,
                   callVars, record, uses>>

\* The identity a decision is made under: a named key over HTTP, or the user
\* of a registered session that was not renamed without verification.
Decider(who, surface) ==
    \/ surface = "http" /\ who \in Keys
    \/ surface = "shell" /\ \E s \in Sessions : life[s] = "live" /\ Trusted(s) /\ who = user[s]

\* DecideRequest up to its claim.
ClaimRequest(r, who, surface) ==
    LET p == request[r] IN
    /\ file[r] = "pending"
    /\ Decider(who, surface)
    /\ who # p.key
    /\ p.approver # NoName => who = p.approver
    /\ p.notApprover # NoName => who # p.notApprover
    /\ p.surface # NoName => surface = p.surface
    /\ file' = [file EXCEPT ![r] = "claimed"]
    /\ verdict' = [verdict EXCEPT ![r] = [marker |-> "none", who |-> who, surface |-> surface]]
    /\ UNCHANGED <<sessionVars, placeVars, open, request, late, opened, pc, callVars,
                   record, uses>>

\* DecideRequest's marker, however late.
MarkRequest(r, m) ==
    /\ file[r] = "claimed"
    /\ file' = [file EXCEPT ![r] = "none"]
    /\ verdict' = [verdict EXCEPT ![r].marker = m]
    /\ UNCHANGED <<sessionVars, placeVars, open, request, late, opened, pc, callVars,
                   record, uses>>

-----------------------------------------------------------------------------
(* serveAttach. *)

Goes(h, from, to) == pc[h] = from /\ pc' = [pc EXCEPT ![h] = to]

\* serveAttach returns.
Returns(h) ==
    /\ pc' = [pc EXCEPT ![h] = "idle"]
    /\ args' = [args EXCEPT ![h] = NoArgs]
    /\ owner' = [owner EXCEPT ![h] = NoName]
    /\ grant' = [grant EXCEPT ![h] = NoRequest]
    /\ ended' = [ended EXCEPT ![h] = FALSE]

\* A named key asks; the session is registered and the call names its user.
Lookup(h, a) ==
    /\ pc[h] = "idle"
    /\ life[a.session] = "live"
    /\ pc' = [pc EXCEPT ![h] = "gate"]
    /\ args' = [args EXCEPT ![h] = a]
    /\ owner' = [owner EXCEPT ![h] = user[a.session]]
    /\ record' = [record EXCEPT ![h] = "none"]
    /\ UNCHANGED <<sessionVars, placeVars, requestVars, grant, ended, uses>>

\* The identity source and the entitlement of an rw attach, the terminal and
\* the policy gate, which may refuse anything.
SnoopGate(h) ==
    LET a == args[h] IN
    /\ pc[h] = "gate"
    /\ \/ /\ a.rw => Trusted(a.session) /\ a.key \in Entitled
          /\ Goes(h, "gate", "capacity") /\ UNCHANGED callVars
       \/ Returns(h)
    /\ UNCHANGED <<sessionVars, placeVars, requestVars, record, uses>>

Views(s) == {h \in entries[s] : ~args[h].rw}

HasRoom(a) == IF a.rw THEN controller[a.session] = NoName
              ELSE Cardinality(Views(a.session)) < MaxViewers

AttachCapacity(h) ==
    /\ pc[h] = "capacity"
    /\ IF HasRoom(args[h])
       THEN /\ Goes(h, "capacity", IF args[h].rw THEN "approval" ELSE "reserve")
            /\ UNCHANGED callVars
       ELSE Returns(h)
    /\ UNCHANGED <<sessionVars, placeVars, requestVars, record, uses>>

\* Mutant: an investigation may be decided by anyone, as a plain request is.
Ask_Anyone(a, u) ==
    [key |-> a.key, owner |-> u, notApprover |-> NoName, surface |-> NoName,
     approver |-> IF a.purpose = "support" /\ RuleApprover = NoName THEN u ELSE RuleApprover]

\* Who may decide the request that a opens on a session of u.
Ask(a, u) ==
    IF a.purpose = "support"
    THEN [key |-> a.key, owner |-> u, notApprover |-> NoName, surface |-> NoName,
          approver |-> IF RuleApprover = NoName THEN u ELSE RuleApprover]
    ELSE [key |-> a.key, owner |-> u, notApprover |-> u, surface |-> "http",
          approver |-> RuleApprover]

\* The live request of the call's slot was approved in time.
FindApproved(h) ==
    LET r == open[SlotOf(args[h])] IN
    /\ r # NoRequest /\ verdict[r].marker = "approved" /\ r \notin late
    /\ Goes(h, "approval", "reserve")
    /\ grant' = [grant EXCEPT ![h] = r]
    /\ UNCHANGED <<args, owner, ended, requestVars>>

FindDenied(h) ==
    LET r == open[SlotOf(args[h])] IN
    /\ r # NoRequest /\ verdict[r].marker = "denied"
    /\ open' = [open EXCEPT ![SlotOf(args[h])] = NoRequest]
    /\ Returns(h)
    /\ UNCHANGED <<request, file, verdict, late, opened>>

FindPending(h) ==
    LET r == open[SlotOf(args[h])] IN
    /\ r # NoRequest /\ verdict[r].marker = "none" /\ r \notin late
    /\ Returns(h)
    /\ UNCHANGED requestVars

\* No request is live: an expired one is dropped with its files and a new one
\* is opened, unless it cannot be audited.
OpenRequest(h) ==
    LET k == SlotOf(args[h])
        old == open[k]
        r == opened + 1
        Dropped(q) == q = old /\ file[q] = "pending"
    IN
    /\ old # NoRequest => old \in late /\ verdict[old].marker # "denied"
    /\ opened < MaxRequests
    /\ opened' = r
    /\ request' = [request EXCEPT ![r] = Ask(args[h], owner[h])]
    /\ verdict' = [q \in Requests |-> IF q = old THEN [verdict[q] EXCEPT !.marker = "none"]
                                      ELSE verdict[q]]
    /\ \/ /\ open' = [open EXCEPT ![k] = r]
          /\ file' = [q \in Requests |-> IF q = r THEN "pending"
                                         ELSE IF Dropped(q) THEN "none" ELSE file[q]]
       \/ /\ "audit" \in Faults
          /\ open' = [open EXCEPT ![k] = NoRequest]
          /\ file' = [q \in Requests |-> IF Dropped(q) THEN "none" ELSE file[q]]
    /\ Returns(h)
    /\ UNCHANGED late

\* snoopApprovalState, under attachMu.
SnoopApprovalState(h) ==
    /\ pc[h] = "approval"
    /\ FindApproved(h) \/ FindDenied(h) \/ FindPending(h) \/ OpenRequest(h)
    /\ UNCHANGED <<sessionVars, placeVars, record, uses>>

\* The place is taken.
Reserved(h) ==
    LET a == args[h] IN
    /\ controller' = IF a.rw THEN [controller EXCEPT ![a.session] = a.key] ELSE controller
    /\ entries' = [entries EXCEPT ![a.session] = @ \cup {h}]
    /\ uses' = IF a.rw THEN [uses EXCEPT ![grant[h]] = @ + 1] ELSE uses
    /\ Goes(h, "reserve", IF a.rw THEN "consume" ELSE "log")
    /\ UNCHANGED callVars

\* Mutant: the session is not looked up again.
ReserveAttach_NoLookup(h) ==
    /\ pc[h] = "reserve"
    /\ \/ HasRoom(args[h]) /\ Reserved(h)
       \/ ~HasRoom(args[h]) /\ Returns(h) /\ UNCHANGED <<placeVars, uses>>
    /\ UNCHANGED <<sessionVars, requestVars, record>>

\* reserveAttach: the checks again, now together with the claim.
ReserveAttach(h) ==
    LET a == args[h]
        admitted == life[a.session] = "live" /\ HasRoom(a)
    IN
    /\ pc[h] = "reserve"
    /\ \/ admitted /\ Reserved(h)
       \/ ~admitted /\ Returns(h) /\ UNCHANGED <<placeVars, uses>>
    /\ UNCHANGED <<sessionVars, requestVars, record>>

\* consumeSnoopApproval: whatever request the slot now holds is dropped, and
\* its approval marker removed.
ConsumeSnoopApproval(h) ==
    LET k == SlotOf(args[h]) IN
    /\ Goes(h, "consume", "log")
    /\ open' = [open EXCEPT ![k] = NoRequest]
    /\ verdict' = [r \in Requests |-> IF r = open[k] /\ verdict[r].marker = "approved"
                                      THEN [verdict[r] EXCEPT !.marker = "none"]
                                      ELSE verdict[r]]
    /\ UNCHANGED <<sessionVars, placeVars, request, file, late, opened, callVars,
                   record, uses>>

\* releaseAttach.
ReleaseAttach(h) ==
    LET a == args[h] IN
    /\ controller' = IF a.rw /\ controller[a.session] = a.key
                     THEN [controller EXCEPT ![a.session] = NoName] ELSE controller
    /\ entries' = [entries EXCEPT ![a.session] = @ \ {h}]

\* MIRROR_ATTACH; without it the place is given back.
LogAttach(h) ==
    /\ pc[h] = "log"
    /\ \/ /\ Goes(h, "log", "switch")
          /\ record' = [record EXCEPT ![h] = "attached"]
          /\ UNCHANGED <<placeVars, callVars>>
       \/ /\ "audit" \in Faults
          /\ ReleaseAttach(h)
          /\ Returns(h)
          /\ UNCHANGED record
    /\ UNCHANGED <<sessionVars, requestVars, uses>>

\* Mutant: a connection that cannot be switched is released without a detach.
SwitchProtocols_NoDetach(h) ==
    /\ pc[h] = "switch"
    /\ \/ /\ Goes(h, "switch", "stream")
          /\ UNCHANGED <<placeVars, callVars>>
       \/ /\ Faults # {}
          /\ ReleaseAttach(h)
          /\ Returns(h)
    /\ UNCHANGED <<sessionVars, requestVars, record, uses>>

\* The ADMIN_HTTP record, the hijack and the 101 reply.
SwitchProtocols(h) ==
    /\ \/ Goes(h, "switch", "stream") /\ UNCHANGED ended
       \/ /\ Faults # {}
          /\ Goes(h, "switch", "release")
          /\ ended' = [ended EXCEPT ![h] = TRUE]
    /\ UNCHANGED <<sessionVars, placeVars, requestVars, args, owner, grant, record, uses>>

\* runAttach's own ways to end: detach, EOF, a bad frame, idle, a slow client.
EndStream(h) ==
    /\ pc[h] = "stream" /\ ~ended[h]
    /\ ended' = [ended EXCEPT ![h] = TRUE]
    /\ UNCHANGED <<sessionVars, placeVars, requestVars, pc, args, owner, grant, record, uses>>

\* runAttach returns once the context is canceled.
StreamOver(h) ==
    /\ ended[h]
    /\ Goes(h, "stream", "release")
    /\ UNCHANGED <<sessionVars, placeVars, requestVars, callVars, record, uses>>

\* detach: the place is given back first.
DetachRelease(h) ==
    /\ Goes(h, "release", "logDetach")
    /\ ReleaseAttach(h)
    /\ UNCHANGED <<sessionVars, requestVars, callVars, record, uses>>

\* MIRROR_DETACH; a failed write is reported on stderr.
LogDetach(h) ==
    /\ pc[h] = "logDetach"
    /\ \/ record' = [record EXCEPT ![h] = "none"]
       \/ "audit" \in Faults /\ record' = [record EXCEPT ![h] = "unrecorded"]
    /\ Returns(h)
    /\ UNCHANGED <<sessionVars, placeVars, requestVars, uses>>

HandlerStep(h) ==
    \/ SnoopGate(h) \/ AttachCapacity(h) \/ SnoopApprovalState(h) \/ ReserveAttach(h)
    \/ ConsumeSnoopApproval(h) \/ LogAttach(h) \/ SwitchProtocols(h) \/ StreamOver(h)
    \/ DetachRelease(h) \/ LogDetach(h)

Next ==
    \/ \E s \in Sessions : \/ Unregister(s) \/ EndSessionAttaches(s)
                           \/ SetIdentitySource(s)
                           \/ \E u \in Users : SetIdentity(s, u)
    \/ \E r \in Requests : \/ Deadline(r)
                           \/ \E m \in {"approved", "denied"} : MarkRequest(r, m)
                           \/ \E who \in Keys \cup Users, sf \in {"http", "shell"} :
                                 ClaimRequest(r, who, sf)
    \/ \E h \in Handlers : \/ HandlerStep(h) \/ EndStream(h)
                           \/ \E a \in Args : Lookup(h, a)

\* A call that was admitted keeps running, and so does an unregistration.
Fairness ==
    /\ \A h \in Handlers : WF_vars(HandlerStep(h))
    /\ \A s \in Sessions : WF_vars(EndSessionAttaches(s))

Spec == Init /\ [][Next]_vars /\ Fairness

-----------------------------------------------------------------------------
Holding == {"consume", "log", "switch", "stream", "release"}
Names == Keys \cup Users \cup {NoName}

\* Every variable stays in its type.
TypeOK ==
    /\ life \in [Sessions -> {"live", "closing", "gone"}]
    /\ user \in [Sessions -> Users]
    /\ source \in [Sessions -> {"login", "asserted", "verified"}]
    /\ controller \in [Sessions -> Keys \cup {NoName}]
    /\ entries \in [Sessions -> SUBSET Handlers]
    /\ open \in [Slots -> Requests \cup {NoRequest}]
    /\ request \in [Requests -> [key : Keys \cup {NoName}, owner : Users \cup {NoName},
                                 approver : Names, notApprover : Names,
                                 surface : {"http", NoName}]]
    /\ file \in [Requests -> {"none", "pending", "claimed"}]
    /\ verdict \in [Requests -> [marker : {"none", "approved", "denied"}, who : Names,
                                 surface : {"http", "shell", NoName}]]
    /\ late \subseteq Requests /\ opened \in 0 .. MaxRequests
    /\ pc \in [Handlers -> {"idle", "gate", "capacity", "approval", "reserve", "logDetach"}
                              \cup Holding]
    /\ args \in [Handlers -> Args \cup {NoArgs}]
    /\ owner \in [Handlers -> Users \cup {NoName}]
    /\ grant \in [Handlers -> Requests \cup {NoRequest}]
    /\ ended \in [Handlers -> BOOLEAN]
    /\ record \in [Handlers -> {"none", "attached", "unrecorded"}]
    /\ uses \in [Requests -> Nat]

\* "Only one rw controller may hold a session": whatever calls of whatever keys
\* come and go, the session's controller is exactly the key of the one rw call
\* that holds a place on it, and is empty when there is none.
OneController ==
    \A s \in Sessions :
        LET rws == {h \in entries[s] : args[h].rw} IN
        /\ Cardinality(rws) <= 1
        /\ controller[s] = IF rws = {} THEN NoName ELSE args[CHOOSE h \in rws : TRUE].key

\* No interleaving of viewers between the capacity check and the reservation
\* puts more than attachMaxViewers of them on a session.
ViewerLimit == \A s \in Sessions : Cardinality(Views(s)) <= MaxViewers

\* "The unregister hook cannot miss" an attach (reserveAttach): once a session's
\* hooks have run, every call that still holds a place on it is canceled.
AttachEndsWithSession ==
    \A s \in Sessions : life[s] = "gone" => \A h \in entries[s] : ended[h]

\* A call that controls a session was let in by an approval that someone else
\* made: for an investigation another named key, over HTTP and not the owner;
\* for support the owner of the session, or the approver a rule names.
RwApproved ==
    \A h \in Handlers : pc[h] \in Holding /\ args[h].rw =>
        LET p == request[grant[h]]
            v == verdict[grant[h]]
        IN /\ v.who # args[h].key
           /\ args[h].purpose = "investigation"
                 => v.surface = "http" /\ v.who \in Keys /\ v.who # p.owner
           /\ args[h].purpose = "support"
                 => v.who = IF RuleApprover = NoName THEN p.owner ELSE RuleApprover

\* A stream runs only with its MIRROR_ATTACH in the chain, and a call that put
\* one there does not return before its MIRROR_DETACH was written or reported.
AttachOnRecord ==
    \A h \in Handlers : /\ pc[h] = "stream" => record[h] = "attached"
                        /\ pc[h] = "idle" => record[h] # "attached"

\* "consumeSnoopApproval makes an approval single use": no approval lets a key
\* take control twice.
SingleUse == \A r \in Requests : uses[r] <= 1

\* The end of a session ends its attaches: every place held on it is given back.
PlacesReturned ==
    \A s \in Sessions : life[s] = "closing" ~> (life[s] = "gone" /\ entries[s] = {})

\* Places on a session are taken by one controller and a bounded number of viewers,
\* and none is taken or kept once the session's hook has run (reserveAttach,
\* endSessionAttaches).
AttachSafety == TypeOK /\ OneController /\ ViewerLimit /\ AttachEndsWithSession

\* The calls of an instance are alike.
HandlerSymmetry == Permutations(Handlers)
=============================================================================
