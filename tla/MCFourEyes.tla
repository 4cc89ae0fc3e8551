----------------------------- MODULE MCFourEyes -----------------------------
(* Small instances of FourEyes for TLC. *)
EXTENDS FourEyes, TLC

Rule(a, n, s, t) == [approver |-> a, notApprover |-> n, surface |-> s, ttl |-> t]

\* Anyone but the requester may decide.
AnyRule == Rule(NoOne, NoOne, NoOne, 1)
\* An investigation attach: never the session owner, and over HTTP only.
InvestigationRule == Rule(NoOne, "bob", "http", 1)
\* A configured approver and the default TTL.
NamedRule == Rule("bob", NoOne, NoOne, 0)

OneRule  == {AnyRule}
TwoRules == {InvestigationRule, NamedRule}

Symmetry == Permutations(Deciders)
=============================================================================
