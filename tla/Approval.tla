------------------------------ MODULE Approval ------------------------------
(***************************************************************************)
(* What the four-eyes component promises, without files: a shell waits on  *)
(* a request; permitted decisions are entered in a ledger that only grows; *)
(* the shell is granted or refused on the strength of a ledger entry with  *)
(* that verdict, or gives up.  FourEyes implements it.                     *)
(***************************************************************************)
CONSTANTS Requests, Users, Surfaces, Rules

VARIABLES
    request, \* who asked, under which rule
    outcome, \* "none", "waiting", "granted", "refused" or "closed"
    ledger   \* the decisions on record

vars == <<request, outcome, ledger>>

NoOne == "noone"

\* The approver is someone else, and the rule lets them decide this way.
Permitted(e) ==
    LET p == request[e.req] IN
    /\ e.approver # p.requester
    /\ p.rule.approver # NoOne => e.approver = p.rule.approver
    /\ p.rule.notApprover # NoOne => e.approver # p.rule.notApprover
    /\ p.rule.surface # NoOne => e.surface = p.rule.surface

Init ==
    /\ request \in [Requests -> [requester : Users, rule : Rules]]
    /\ outcome = [r \in Requests |-> "none"]
    /\ ledger = {}

Moves(r, from, to) ==
    /\ outcome[r] = from
    /\ outcome' = [outcome EXCEPT ![r] = to]
    /\ UNCHANGED <<request, ledger>>

Post(r) == Moves(r, "none", "waiting")

Decide(e) ==
    /\ Permitted(e)
    /\ ledger' = ledger \cup {e}
    /\ UNCHANGED <<request, outcome>>

Grant(r) ==
    /\ \E e \in ledger : e.req = r /\ e.verb = "approve" /\ Permitted(e)
    /\ Moves(r, "waiting", "granted")

Refuse(r) ==
    /\ \E e \in ledger : e.req = r /\ e.verb = "deny" /\ Permitted(e)
    /\ Moves(r, "waiting", "refused")

GiveUp(r) == Moves(r, "waiting", "closed")

Next ==
    \/ \E r \in Requests : Post(r) \/ Grant(r) \/ Refuse(r) \/ GiveUp(r)
    \/ \E e \in [req : Requests, approver : Users, surface : Surfaces,
                 verb : {"approve", "deny"}] : Decide(e)

Spec == Init /\ [][Next]_vars
=============================================================================
