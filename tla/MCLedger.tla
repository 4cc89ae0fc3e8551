------------------------------ MODULE MCLedger ------------------------------
(* The audit ledger of several processes, dispatch, commands that run      *)
(* commands, logins and execution leases, as one instance for TLC. They    *)
(* share no state here, so a behaviour is one of part and leaves the       *)
(* others where they begin.                                                *)
EXTENDS AuditChain, Dispatch, Runtime, Login, ExecLease, TLC

VARIABLE part

ledgerVars == <<part, chainVars, dispatchVars, runtimeVars, loginVars, leaseVars>>

Symmetry == Permutations(Procs)

\* Two steps with and without placeholders, and one of a placeholder alone.
TheBooks == {<< << <<"a">> >>, << <<"b", "p">>, <<"q">> >> >>, << << <<"p">> >> >>}

\* A part that does not run is in one of its first states.
LedgerInit ==
    /\ part \in {"chain", "dispatch", "runtime", "login", "lease"}
    /\ ChainInit /\ DispatchInit /\ RuntimeInit /\ LoginInit /\ ExecLeaseInit
    /\ part # "dispatch" => place = "local" /\ ~restricted /\ ~remoteRun
    /\ part # "runtime" => Len(shelf.steps) = 1

\* One part runs, and the others stay as they are.
LedgerNext ==
    \/ /\ part = "chain" /\ ChainNext
       /\ UNCHANGED <<part, dispatchVars, runtimeVars, loginVars, leaseVars>>
    \/ /\ part = "dispatch" /\ DispatchNext
       /\ UNCHANGED <<part, chainVars, runtimeVars, loginVars, leaseVars>>
    \/ /\ part = "runtime" /\ RuntimeNext
       /\ UNCHANGED <<part, chainVars, dispatchVars, loginVars, leaseVars>>
    \/ /\ part = "login" /\ LoginNext
       /\ UNCHANGED <<part, chainVars, dispatchVars, runtimeVars, leaseVars>>
    \/ /\ part = "lease" /\ ExecLeaseNext
       /\ UNCHANGED <<part, chainVars, dispatchVars, runtimeVars, loginVars>>

LedgerSpec == LedgerInit /\ [][LedgerNext]_ledgerVars

\* A command that is dispatched, and every command that one of them runs in turn, is
\* the one that was authorized, with its secret, its order and its input its own.
CommandsKept == DispatchSafety /\ RuntimeSafety
=============================================================================
