------------------------------ MODULE FourEyes ------------------------------
(***************************************************************************)
(* Four-eyes approvals (security/foureyes_ee.go, foureyes_pending_ee.go).  *)
(*                                                                         *)
(* A shell that wants to run a command matched by a four-eyes rule posts a *)
(* pending file and polls a marker directory; another process decides the  *)
(* request by renaming the pending file to a claim, writing the audit      *)
(* chain, and creating the marker.  Nothing but the file system is shared, *)
(* so every system call is a step of its own, any process may die between  *)
(* two of them, and the calls in Faults may fail.                          *)
(*                                                                         *)
(* A request identifier is drawn at random once (randomHex), so a request  *)
(* has one pending inode for ever: file[r] says under which name it lives. *)
(***************************************************************************)
EXTENDS Integers, Sequences, FiniteSets

CONSTANTS
    Requests,   \* request identifiers
    Deciders,   \* threads that call DecideRequest or ListPending
    Forbidden,  \* those in a process that called ForbidFourEyesDecisions
    Users,      \* authenticated identities
    Surfaces,   \* "http", "shell", "api"
    Rules,      \* the rules a command may match
    DefaultTTL, \* the 300 seconds a rule without a TTL gets
    MaxTime,    \* bound: no request is posted later than this
    MaxCalls,   \* bound: calls of DecideRequest and ListPending
    Faults      \* which system calls may fail, see FaultKinds

NoOne == "noone"          \* an empty Approver, NotApprover or Surface

FaultKinds == {"crash",         \* a process dies between two calls
               "postWrite",     \* writing or closing the pending file
               "auditLost",     \* LogEvent fails and records nothing
               "auditSync",     \* LogEvent fails after its entry is written
               "createMarker",  \* the O_EXCL open of a marker
               "writeMarker",   \* writing or closing a marker
               "unlinkMarker",  \* removing a half-written marker
               "unlinkClaim"}   \* removing the claim of a made decision

Verbs == {"approve", "deny"}

RuleType == [approver : Users \cup {NoOne}, notApprover : Users \cup {NoOne},
             surface : Surfaces \cup {NoOne}, ttl : Nat]

ASSUME ConstantsAssumption ==
    /\ NoOne \notin Users /\ NoOne \notin Surfaces
    /\ Rules \subseteq RuleType /\ Rules # {}
    /\ Forbidden \subseteq Deciders
    /\ DefaultTTL \in Nat \ {0} /\ MaxTime \in Nat /\ MaxCalls \in Nat
    /\ Faults \subseteq FaultKinds

VARIABLES
    now,      \* the clock
    request,  \* the JSON of the pending file: requester and matched rule
    file,     \* where the pending inode is
    mtime,    \* its modification time
    marker,   \* the markers present: a subset of Verbs
    chain,    \* the events LogEvent put in the audit chain, oldest first
    rpc,      \* the requester's control state
    deadline, \* when the requester gives up
    dpc,      \* a decider's control state
    call,     \* its arguments: request, approver, surface, verb
    todo,     \* the claims its sweep has still to look at
    target,   \* the claim its sweep is expiring
    sweepNow, \* the time its sweep read
    calls     \* calls started so far

fs      == <<file, mtime, marker>>
reqVars == <<request, rpc, deadline>>
decVars == <<dpc, call, todo, target, sweepNow, calls>>
vars    == <<now, fs, chain, reqVars, decVars>>

FileStates == {"none", "partial", "pending", "claimed"}

Posting  == {"write", "arm"}
Polling  == {"poll", "statApproved", "statDenied", "sleep"}
Leaving  == {"cancel", "expire"}
Settled  == {"granted", "refused", "canceled", "timedout", "failed", "dead"}

Sweeping == {"sweep", "expireLog", "expireUnlink"}
\* Between the rename that claims a request and the return.
Claiming == {"stamp", "log", "create", "write", "unmark", "revert", "release",
             "finish"}

Calls == [req : Requests, approver : Users, surface : Surfaces, verb : Verbs]
ListCall == [req |-> NoOne, approver |-> NoOne, surface |-> NoOne,
             verb |-> NoOne]

Decision(c)  == [kind |-> "DECISION", req |-> c.req, approver |-> c.approver,
                 verb |-> c.verb, surface |-> c.surface]
Reverted(c)  == [kind |-> "REVERTED", req |-> c.req, approver |-> c.approver,
                 verb |-> NoOne, surface |-> NoOne]
Expired(r)   == [kind |-> "CLAIM_EXPIRED", req |-> r, approver |-> NoOne,
                 verb |-> NoOne, surface |-> NoOne]
Events == [kind : {"DECISION", "REVERTED", "CLAIM_EXPIRED"}, req : Requests,
           approver : Users \cup {NoOne}, verb : Verbs \cup {NoOne},
           surface : Surfaces \cup {NoOne}]

EffectiveTTL(rule) == IF rule.ttl <= 0 THEN DefaultTTL ELSE rule.ttl

Recorded(e) == \E i \in 1 .. Len(chain) : chain[i] = e

-----------------------------------------------------------------------------
Init ==
    /\ now = 0
    /\ request \in [Requests -> [requester : Users, rule : Rules]]
    /\ file = [r \in Requests |-> "none"]
    /\ mtime = [r \in Requests |-> 0]
    /\ marker = [r \in Requests |-> {}]
    /\ chain = <<>>
    /\ rpc = [r \in Requests |-> "new"]
    /\ deadline = [r \in Requests |-> 0]
    /\ dpc = [d \in Deciders |-> "idle"]
    /\ call = [d \in Deciders |-> ListCall]
    /\ todo = [d \in Deciders |-> {}]
    /\ target = [d \in Deciders |-> NoOne]
    /\ sweepNow = [d \in Deciders |-> 0]
    /\ calls = 0

-----------------------------------------------------------------------------
(* The requester: RequestApprovalForSessionContext. *)

RequesterGoes(r, from, to) == rpc[r] = from /\ rpc' = [rpc EXCEPT ![r] = to]

\* Mutant: the modification time is taken before the clock is.
OpenPending_EarlyMtime(r) ==
    /\ now <= MaxTime
    /\ RequesterGoes(r, "new", "write")
    /\ file' = [file EXCEPT ![r] = "partial"]
    /\ mtime' = [mtime EXCEPT ![r] = now - 1]
    /\ UNCHANGED <<now, marker, chain, request, deadline, decVars>>

\* createFourEyesPendingAs: the O_EXCL open of the pending file.
OpenPending(r) ==
    /\ now <= MaxTime
    /\ RequesterGoes(r, "new", "write")
    /\ file' = [file EXCEPT ![r] = "partial"]
    /\ mtime' = [mtime EXCEPT ![r] = now]
    /\ UNCHANGED <<now, marker, chain, request, deadline, decVars>>

\* The write of the JSON; a failed write, chmod or close leaves the file.
WritePending(r) ==
    /\ \/ /\ RequesterGoes(r, "write", "arm")
          /\ file' = [file EXCEPT ![r] = "pending"]
       \/ /\ "postWrite" \in Faults
          /\ RequesterGoes(r, "write", "failed")
          /\ \E f \in {"partial", "pending"} : file' = [file EXCEPT ![r] = f]
    /\ mtime' = [mtime EXCEPT ![r] = now]
    /\ UNCHANGED <<now, marker, chain, request, deadline, decVars>>

\* The deadline is read from the clock only after the prompt was written to
\* the session's terminal, so the request is already open for decisions.
ArmDeadline(r) ==
    /\ RequesterGoes(r, "arm", "poll")
    /\ deadline' = [deadline EXCEPT ![r] = now + EffectiveTTL(request[r].rule)]
    /\ UNCHANGED <<now, fs, chain, request, decVars>>

\* Mutant: the poll loop forgets its deadline.
PollClock_NoDeadline(r) ==
    /\ RequesterGoes(r, "poll", "statApproved")
    /\ UNCHANGED <<now, fs, chain, request, deadline, decVars>>

PollClock(r) ==
    /\ RequesterGoes(r, "poll",
                     IF now < deadline[r] THEN "statApproved" ELSE "expire")
    /\ UNCHANGED <<now, fs, chain, request, deadline, decVars>>

StatApproved(r) ==
    /\ RequesterGoes(r, "statApproved",
                     IF "approve" \in marker[r] THEN "granted" ELSE "statDenied")
    /\ UNCHANGED <<now, fs, chain, request, deadline, decVars>>

StatDenied(r) ==
    /\ RequesterGoes(r, "statDenied",
                     IF "deny" \in marker[r] THEN "refused" ELSE "sleep")
    /\ UNCHANGED <<now, fs, chain, request, deadline, decVars>>

Wake(r) ==
    /\ RequesterGoes(r, "sleep", "poll")
    /\ UNCHANGED <<now, fs, chain, request, deadline, decVars>>

\* ctx.Done: the session or the command was canceled during the wait.
ContextDone(r) ==
    /\ RequesterGoes(r, "sleep", "cancel")
    /\ UNCHANGED <<now, fs, chain, request, deadline, decVars>>

\* os.Remove(pendingFile), after a timeout or a cancel; a claimed request is
\* no longer under that name and is left alone.
Withdraw(r) ==
    /\ \/ RequesterGoes(r, "expire", "timedout")
       \/ RequesterGoes(r, "cancel", "canceled")
    /\ file' = [file EXCEPT ![r] = IF @ = "pending" THEN "none" ELSE @]
    /\ UNCHANGED <<now, mtime, marker, chain, request, deadline, decVars>>

CrashRequester(r) ==
    /\ "crash" \in Faults
    /\ rpc[r] \in Posting \cup Polling \cup Leaving
    /\ rpc' = [rpc EXCEPT ![r] = "dead"]
    /\ UNCHANGED <<now, fs, chain, request, deadline, decVars>>

RequesterStep(r) ==
    \/ OpenPending(r) \/ WritePending(r) \/ ArmDeadline(r) \/ PollClock(r)
    \/ StatApproved(r) \/ StatDenied(r) \/ Wake(r) \/ Withdraw(r)

-----------------------------------------------------------------------------
(* The decider: DecideRequest and ListPending. *)

Frame == <<call, todo, target, sweepNow>>

\* The call goes on, its locals unchanged.
DeciderGoes(d, from, to) ==
    /\ dpc[d] = from
    /\ dpc' = [dpc EXCEPT ![d] = to]
    /\ UNCHANGED <<Frame, calls>>

\* The call is over, and with it its locals.
DeciderIdle(d) ==
    /\ dpc' = [dpc EXCEPT ![d] = "idle"]
    /\ call' = [call EXCEPT ![d] = ListCall]
    /\ todo' = [todo EXCEPT ![d] = {}]
    /\ target' = [target EXCEPT ![d] = NoOne]
    /\ sweepNow' = [sweepNow EXCEPT ![d] = 0]
    /\ UNCHANGED calls

DeciderReturns(d, from) == dpc[d] = from /\ DeciderIdle(d)

\* LogEvent(e), which returned an error iff failed.
LogEvent(e, failed) ==
    \/ ~failed /\ chain' = Append(chain, e)
    \/ failed /\ "auditLost" \in Faults /\ chain' = chain
    \/ failed /\ "auditSync" \in Faults /\ chain' = Append(chain, e)

\* The call begins and the sweep reads the directory and then the clock.
Begin(d, c) ==
    /\ calls < MaxCalls
    /\ d \in Forbidden => c = ListCall
    /\ dpc[d] = "idle"
    /\ dpc' = [dpc EXCEPT ![d] = "sweep"]
    /\ call' = [call EXCEPT ![d] = c]
    /\ todo' = [todo EXCEPT ![d] = {r \in Requests : file[r] = "claimed"}]
    /\ sweepNow' = [sweepNow EXCEPT ![d] = now]
    /\ calls' = calls + 1
    /\ UNCHANGED <<now, fs, chain, reqVars, target>>

\* A claim is stale once its mtime is more than the rule's TTL ago.
Stale(d, r) ==
    /\ file[r] = "claimed"
    /\ sweepNow[d] - mtime[r] > EffectiveTTL(request[r].rule)

\* Mutant: the stale claim is removed before its expiry is logged.
SweepStat_UnlinkFirst(d, r) ==
    /\ dpc[d] = "sweep"
    /\ r \in todo[d]
    /\ dpc' = [dpc EXCEPT ![d] = IF Stale(d, r) THEN "expireUnlink" ELSE "sweep"]
    /\ todo' = [todo EXCEPT ![d] = @ \ {r}]
    /\ target' = [target EXCEPT ![d] = IF Stale(d, r) THEN r ELSE @]
    /\ UNCHANGED <<now, fs, chain, reqVars, call, sweepNow, calls>>

\* ent.Info and the TTL of one claim.
SweepStat(d, r) ==
    /\ dpc[d] = "sweep"
    /\ r \in todo[d]
    /\ dpc' = [dpc EXCEPT ![d] = IF Stale(d, r) THEN "expireLog" ELSE "sweep"]
    /\ todo' = [todo EXCEPT ![d] = @ \ {r}]
    /\ target' = [target EXCEPT ![d] = IF Stale(d, r) THEN r ELSE @]
    /\ UNCHANGED <<now, fs, chain, reqVars, call, sweepNow, calls>>

\* The event is logged before the claim goes; a claim whose event cannot be
\* logged is kept.
SweepLog(d) ==
    /\ \E failed \in BOOLEAN :
          /\ DeciderGoes(d, "expireLog", IF failed THEN "sweep" ELSE "expireUnlink")
          /\ LogEvent(Expired(target[d]), failed)
    /\ UNCHANGED <<now, fs, reqVars>>

SweepUnlink(d) ==
    /\ DeciderGoes(d, "expireUnlink", "sweep")
    /\ file' = [file EXCEPT ![target[d]] = IF @ = "claimed" THEN "none" ELSE @]
    /\ UNCHANGED <<now, mtime, marker, chain, reqVars>>

\* The sweep is over, and ListPending with it.
SweepDone(d) ==
    /\ dpc[d] = "sweep"
    /\ todo[d] = {}
    /\ \/ call[d] = ListCall /\ DeciderReturns(d, "sweep")
       \/ call[d] # ListCall /\ DeciderGoes(d, "sweep", "locate")
    /\ UNCHANGED <<now, fs, chain, reqVars>>

\* The identity checks on the pending request that locatePending read.
MayDecide(c) ==
    LET p == request[c.req] IN
    /\ c.approver # p.requester
    /\ p.rule.approver # NoOne => c.approver = p.rule.approver
    /\ p.rule.notApprover # NoOne => c.approver # p.rule.notApprover
    /\ p.rule.surface # NoOne => c.surface = p.rule.surface

\* Mutant: the approver is not compared with the request.
Locate_AnyApprover(d) ==
    /\ dpc[d] = "locate"
    /\ IF file[call[d].req] = "pending"
       THEN DeciderGoes(d, "locate", "claim")
       ELSE DeciderReturns(d, "locate")
    /\ UNCHANGED <<now, fs, chain, reqVars>>

\* locatePending and the checks; a missing or half-written file is an error.
Locate(d) ==
    /\ dpc[d] = "locate"
    /\ IF file[call[d].req] = "pending" /\ MayDecide(call[d])
       THEN DeciderGoes(d, "locate", "claim")
       ELSE DeciderReturns(d, "locate")
    /\ UNCHANGED <<now, fs, chain, reqVars>>

\* Mutant: the claim is a copy, so the pending name stays.
Claim_Copy(d) ==
    /\ dpc[d] = "claim"
    /\ IF file[call[d].req] = "pending"
       THEN DeciderGoes(d, "claim", "stamp") /\ UNCHANGED file
       ELSE DeciderReturns(d, "claim") /\ UNCHANGED file
    /\ UNCHANGED <<now, mtime, marker, chain, reqVars>>

\* os.Rename(pendingFile, claimed): the loser is told "already decided".
Claim(d) ==
    /\ dpc[d] = "claim"
    /\ IF file[call[d].req] = "pending"
       THEN /\ DeciderGoes(d, "claim", "stamp")
            /\ file' = [file EXCEPT ![call[d].req] = "claimed"]
       ELSE DeciderReturns(d, "claim") /\ UNCHANGED file
    /\ UNCHANGED <<now, mtime, marker, chain, reqVars>>

\* os.Chtimes(claimed), its error ignored.
StampClaim(d) ==
    LET r == call[d].req IN
    /\ DeciderGoes(d, "stamp", "log")
    /\ mtime' = [mtime EXCEPT ![r] = IF file[r] = "claimed" THEN now ELSE @]
    /\ UNCHANGED <<now, file, marker, chain, reqVars>>

LogDecision(d) ==
    /\ \E failed \in BOOLEAN :
          /\ DeciderGoes(d, "log", IF failed THEN "release" ELSE "create")
          /\ LogEvent(Decision(call[d]), failed)
    /\ UNCHANGED <<now, fs, reqVars>>

\* Mutant: a marker that cannot be created releases without a revert.
CreateMarker_NoRevert(d) ==
    LET c == call[d] IN
    /\ \/ /\ DeciderGoes(d, "create", "write")
          /\ c.verb \notin marker[c.req]
          /\ marker' = [marker EXCEPT ![c.req] = @ \cup {c.verb}]
       \/ /\ DeciderGoes(d, "create", "release")
          /\ c.verb \in marker[c.req] \/ "createMarker" \in Faults
          /\ UNCHANGED marker
    /\ UNCHANGED <<now, file, mtime, chain, reqVars>>

\* writeExclusive0600: the O_EXCL open.
CreateMarker(d) ==
    LET c == call[d] IN
    /\ \/ /\ DeciderGoes(d, "create", "write")
          /\ c.verb \notin marker[c.req]
          /\ marker' = [marker EXCEPT ![c.req] = @ \cup {c.verb}]
       \/ /\ DeciderGoes(d, "create", "revert")
          /\ c.verb \in marker[c.req] \/ "createMarker" \in Faults
          /\ UNCHANGED marker
    /\ UNCHANGED <<now, file, mtime, chain, reqVars>>

\* The write and the close of the marker.
WriteMarker(d) ==
    /\ \/ DeciderGoes(d, "write", "finish")
       \/ "writeMarker" \in Faults /\ DeciderGoes(d, "write", "unmark")
    /\ UNCHANGED <<now, fs, chain, reqVars>>

\* os.Remove of the half-written marker, its error ignored.
UnlinkMarker(d) ==
    LET c == call[d] IN
    /\ DeciderGoes(d, "unmark", "revert")
    /\ \/ marker' = [marker EXCEPT ![c.req] = @ \ {c.verb}]
       \/ "unlinkMarker" \in Faults /\ UNCHANGED marker
    /\ UNCHANGED <<now, file, mtime, chain, reqVars>>

\* revert: the claim is put back whether or not the event was logged.
LogReverted(d) ==
    /\ DeciderGoes(d, "revert", "release")
    /\ \E failed \in BOOLEAN : LogEvent(Reverted(call[d]), failed)
    /\ UNCHANGED <<now, fs, reqVars>>

\* os.Rename(claimed, pendingFile), which keeps the mtime.
ReleaseClaim(d) ==
    /\ DeciderReturns(d, "release")
    /\ file' = [file EXCEPT ![call[d].req] = IF @ = "claimed" THEN "pending" ELSE @]
    /\ UNCHANGED <<now, mtime, marker, chain, reqVars>>

\* os.Remove(claimed) once the decision is made.
RemoveClaim(d) ==
    /\ DeciderReturns(d, "finish")
    /\ \/ file' = [file EXCEPT ![call[d].req] = IF @ = "claimed" THEN "none" ELSE @]
       \/ "unlinkClaim" \in Faults /\ UNCHANGED file
    /\ UNCHANGED <<now, mtime, marker, chain, reqVars>>

\* The deciding process dies; whatever it had on disk stays.
CrashDecider(d) ==
    /\ "crash" \in Faults
    /\ dpc[d] # "idle"
    /\ DeciderIdle(d)
    /\ UNCHANGED <<now, fs, chain, reqVars>>

DeciderStep(d) ==
    \/ \E r \in Requests : SweepStat(d, r)
    \/ SweepLog(d) \/ SweepUnlink(d) \/ SweepDone(d) \/ Locate(d) \/ Claim(d)
    \/ StampClaim(d) \/ LogDecision(d) \/ CreateMarker(d) \/ WriteMarker(d)
    \/ UnlinkMarker(d) \/ LogReverted(d) \/ ReleaseClaim(d) \/ RemoveClaim(d)

-----------------------------------------------------------------------------
\* Time passes up to MaxTime, and beyond it only while someone still waits.
Tick ==
    /\ now < MaxTime \/ \E r \in Requests :
                           rpc[r] \in Polling /\ now < deadline[r]
    /\ now' = now + 1
    /\ UNCHANGED <<fs, chain, reqVars, decVars>>

Next ==
    \/ \E r \in Requests : RequesterStep(r) \/ ContextDone(r) \/ CrashRequester(r)
    \/ \E d \in Deciders : \/ DeciderStep(d)
                           \/ CrashDecider(d)
                           \/ \E c \in Calls \cup {ListCall} : Begin(d, c)
    \/ Tick

\* A shell that has begun to wait keeps running, and so does the clock.
Fairness ==
    /\ \A r \in Requests : WF_vars(rpc[r] # "new" /\ RequesterStep(r))
    /\ WF_vars(Tick)

Spec == Init /\ [][Next]_vars /\ Fairness

-----------------------------------------------------------------------------
(* What the component promises. *)

\* Every variable stays in its type.
TypeOK ==
    /\ now \in Nat
    /\ request \in [Requests -> [requester : Users, rule : Rules]]
    /\ file \in [Requests -> FileStates]
    /\ mtime \in [Requests -> Nat]
    /\ marker \in [Requests -> SUBSET Verbs]
    /\ chain \in Seq(Events)
    /\ rpc \in [Requests -> {"new"} \cup Posting \cup Polling \cup Leaving
                              \cup Settled]
    /\ deadline \in [Requests -> Nat]
    /\ dpc \in [Deciders -> {"idle", "locate", "claim"} \cup Sweeping
                               \cup Claiming]
    /\ call \in [Deciders -> Calls \cup {ListCall}]
    /\ todo \in [Deciders -> SUBSET Requests]
    /\ target \in [Deciders -> Requests \cup {NoOne}]
    /\ sweepNow \in [Deciders -> Nat]
    /\ calls \in Nat

\* A permitted decision of r with this verb stands in the chain.
DecidedOnRecord(r, v) ==
    \E i \in 1 .. Len(chain) : /\ chain[i].kind = "DECISION"
                               /\ chain[i].req = r
                               /\ chain[i].verb = v
                               /\ MayDecide(chain[i])

\* A waiting shell runs its command, or reports a denial, only after the audit
\* chain holds a decision with that verdict by someone who is not the requester
\* and whom the rule lets decide (the order of DecideRequest: checks, claim,
\* chain, marker).
VerdictOnRecord ==
    \A r \in Requests : /\ rpc[r] = "granted" => DecidedOnRecord(r, "approve")
                        /\ rpc[r] = "refused" => DecidedOnRecord(r, "deny")

\* However sweeps, crashes and releases interleave, no two decisions of one
\* request are past the claiming rename at the same time.
OneDecider ==
    \A d, e \in Deciders :
        dpc[d] \in Claiming /\ dpc[e] \in Claiming /\ call[d].req = call[e].req
            => d = e

\* approve and deny never both win: one request never has both markers, as
\* long as a half-written marker can be removed.
OneVerdict == \A r \in Requests : marker[r] # Verbs

\* A request whose file is gone while its shell still waits was decided, or its
\* loss is on record as FOUREYES_CLAIM_EXPIRED: no decision, however it fails
\* or dies, takes a request away silently.
NoSilentLoss ==
    \A r \in Requests :
        file[r] = "none" /\ rpc[r] \in {"arm"} \cup Polling
            => marker[r] # {} \/ Recorded(Expired(r))

\* The decision logged as e is being carried out by a call that still runs.
InProgress(e) ==
    \E d \in Deciders : dpc[d] \in Claiming /\ Decision(call[d]) = e

\* "The chain never holds a decision that did not take effect without its
\* revert" (DecideRequest): an entry for a decision that no call is still
\* carrying out has its marker, or its revert, or its claim is still there for
\* the sweep, or the sweep has logged the claim's expiry.
EffectOrRevert ==
    \A i \in 1 .. Len(chain) :
        LET e == chain[i] IN
        e.kind = "DECISION" =>
            \/ InProgress(e)
            \/ e.verb \in marker[e.req]
            \/ \E j \in i + 1 .. Len(chain) : chain[j] = Reverted(e)
            \/ file[e.req] = "claimed"
            \/ Recorded(Expired(e.req))

\* Every request that was posted is eventually settled: granted, refused,
\* canceled, timed out, or its process died.  No claim, sweep or failed
\* decision keeps a shell waiting for ever.
EventuallySettled ==
    \A r \in Requests : rpc[r] = "arm" ~> rpc[r] \in Settled

-----------------------------------------------------------------------------
(* The abstract specification this component implements. *)

OutcomeOf(pc) ==
    CASE pc = "new" -> "none"
      [] pc \in Posting \cup Polling \cup Leaving -> "waiting"
      [] pc \in {"granted", "refused"} -> pc
      [] OTHER -> "closed"

LedgerEntry(e) == [req |-> e.req, approver |-> e.approver,
                   surface |-> e.surface, verb |-> e.verb]

Approval == INSTANCE Approval WITH
    outcome <- [r \in Requests |-> OutcomeOf(rpc[r])],
    ledger  <- {LedgerEntry(chain[i]) :
                   i \in {j \in 1 .. Len(chain) : chain[j].kind = "DECISION"}}

\* The files, the sweeps, the failures and the crashes together implement the
\* abstract approval service.
ImplementsApproval == Approval!Spec
=============================================================================
