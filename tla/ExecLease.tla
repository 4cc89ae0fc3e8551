----------------------------- MODULE ExecLease ------------------------------
(***************************************************************************)
(* Execution leases: a handoff process (main_sah_ee.go, internal/sah)       *)
(* takes one request, verifies its signed lease and uses up the lease's     *)
(* identifier in a directory that all processes share                       *)
(* (security/execlease_ee.go). The lock of CommitLeaseJTI is local to a     *)
(* process; between processes only O_EXCL decides.                          *)
(*                                                                         *)
(* There is one lease, presented by every process. The record of its        *)
(* identifier is absent, empty (created, not yet written) or holds the time *)
(* up to which it is used.                                                  *)
(***************************************************************************)
EXTENDS Integers, FiniteSets

CONSTANTS
    Handoffs, \* processes that present the lease
    Exp,      \* its expiry
    Reissued, \* an expired record of the same identifier may be left over
    EndOfTime \* bound: clock

ASSUME ExecLeaseAssumption ==
    Exp \in Nat /\ EndOfTime \in Nat /\ Exp > 1 /\ Reissued \in BOOLEAN

Absent == -1
Empty == -2

VARIABLES
    clock,
    jti,    \* the record in the state directory
    handoff \* each process: control state, its clock at the commit, attempt, what it read

leaseVars == <<clock, jti, handoff>>

ExecLeaseInit ==
    /\ clock = 1
    /\ jti \in IF Reissued THEN {Absent, 1} ELSE {Absent}
    /\ handoff = [p \in Handoffs |-> [pc |-> "request", now |-> 0, attempt |-> 0, intime |-> FALSE]]

LeaseAt(p, pc) == handoff[p].pc = pc
To(p, pc) == handoff' = [handoff EXCEPT ![p].pc = pc]

\* Handle and handleExecute: a sound frame and command; sahExecute refuses
\* adssh's own commands.
Present(p) ==
    /\ LeaseAt(p, "request")
    /\ \/ To(p, "verify") \/ To(p, "refused")
    /\ UNCHANGED <<clock, jti>>

\* VerifyExecLease on the time: not at or after exp.
InTime == clock < Exp

\* VerifyExecLease: the signature, claims and command are those asked for.
Verify(p) ==
    /\ LeaseAt(p, "verify")
    /\ IF InTime THEN To(p, "log") ELSE To(p, "refused")
    /\ UNCHANGED <<clock, jti>>

\* LEASE_OK is written, or nothing goes on.
LogLease(p) ==
    /\ LeaseAt(p, "log")
    /\ \/ To(p, "commit") \/ To(p, "refused")
    /\ UNCHANGED <<clock, jti>>

\* CommitLeaseJTI reads the clock.
BeginCommit(p) ==
    /\ LeaseAt(p, "commit")
    /\ handoff' = [handoff EXCEPT ![p].pc = "create", ![p].now = clock]
    /\ UNCHANGED <<clock, jti>>

\* consumeLeaseJTI: O_CREAT|O_EXCL.
Create(p) ==
    /\ LeaseAt(p, "create")
    /\ IF jti = Absent THEN jti' = Empty /\ To(p, "write")
       ELSE UNCHANGED jti /\ To(p, "exists")
    /\ UNCHANGED clock

\* The expiry is written; a failed write takes the name away again.
WriteRecord(p) ==
    /\ LeaseAt(p, "write")
    /\ \/ jti' = Exp /\ handoff' = [handoff EXCEPT ![p].pc = "authorize", ![p].intime = clock < Exp]
       \/ jti' = Absent /\ To(p, "refused")
    /\ UNCHANGED clock

\* A record that cannot be read counts as expired.
ReadRecord_EmptyFree(p) ==
    /\ LeaseAt(p, "exists")
    /\ IF jti > handoff[p].now \/ handoff[p].attempt > 0 THEN To(p, "refused") ELSE To(p, "unlink")
    /\ UNCHANGED <<clock, jti>>

\* existingLeaseJTI: a record that is gone, empty or still in force, or a second
\* attempt, is lease_replayed; an expired one is about to be removed.
ReadRecord(p) ==
    /\ LeaseAt(p, "exists")
    /\ IF jti \in {Absent, Empty} \/ jti > handoff[p].now \/ handoff[p].attempt > 0
       THEN To(p, "refused") ELSE To(p, "unlink")
    /\ UNCHANGED <<clock, jti>>

\* The name is removed, whatever it holds by now, and created anew.
Unlink(p) ==
    /\ LeaseAt(p, "unlink")
    /\ IF jti = Absent THEN To(p, "refused") /\ UNCHANGED jti
       ELSE /\ jti' = Absent
            /\ handoff' = [handoff EXCEPT ![p].pc = "create", ![p].attempt = 1]
    /\ UNCHANGED clock

\* AuthorizeCommandWithExtra, then sahRun. A lease that is denied is used up.
Execute(p) ==
    /\ LeaseAt(p, "authorize")
    /\ \/ To(p, "ran") \/ To(p, "refused")
    /\ UNCHANGED <<clock, jti>>

\* The process is killed before it has run the command.
Killed(p) ==
    /\ handoff[p].pc \notin {"ran", "refused"} /\ To(p, "refused")
    /\ UNCHANGED <<clock, jti>>

ClockAdvances == clock < EndOfTime /\ clock' = clock + 1 /\ UNCHANGED <<jti, handoff>>

ExecLeaseNext ==
    \/ ClockAdvances
    \/ \E p \in Handoffs :
          \/ Present(p) \/ Verify(p) \/ LogLease(p) \/ BeginCommit(p) \/ Create(p)
          \/ WriteRecord(p) \/ ReadRecord(p) \/ Unlink(p) \/ Execute(p) \/ Killed(p)

ExecLeaseSpec == ExecLeaseInit /\ [][ExecLeaseNext]_leaseVars

-----------------------------------------------------------------------------
Used == {p \in Handoffs : handoff[p].pc \in {"authorize", "ran"}}

\* While the lease is in force, at most one process gets past its commit, in
\* every order of the processes and with a kill or a failed write anywhere.
OneUseInTime == Cardinality({p \in Used : handoff[p].intime}) <= 1
=============================================================================
