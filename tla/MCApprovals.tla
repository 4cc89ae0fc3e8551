---------------------------- MODULE MCApprovals -----------------------------
(* The approval protocol and the rules of the gate, as one instance for    *)
(* TLC. They share no state here, so a behaviour is one of part and leaves *)
(* the other where it begins.                                              *)
EXTENDS MCFourEyes, Governance

VARIABLE part

(***************************************************************************)
(* The principals and configurations of the gate: one for each way it      *)
(* decides.                                                                *)
(***************************************************************************)
Ann == [user |-> "ann", groups |-> {"ops"}]
Bea == [user |-> "bea", groups |-> {}]
ThePrincipals == {Ann, Bea}

Doc(result, allow, rule, ent) ==
    [result |-> result, allow |-> allow, rule |-> rule, entitlement |-> ent]
Yes == Doc("object", "true", "text", "absent")
Docs(rm, cd) == [c \in {"rm", "cd"} |-> IF c = "rm" THEN rm ELSE cd]

Open == [build |-> "ee", policy |-> "none", require |-> FALSE, document |-> Docs(Yes, Yes),
         ents |-> "none", users |-> [ann |-> {"rm"}, bea |-> {}], groups |-> [ops |-> {"*"}],
         strict |-> FALSE, patterns |-> {}, restricted |-> FALSE, modes |-> {FALSE},
         provider |-> "servicenow", from |-> 0, until |-> 0, quarantined |-> FALSE,
         remote |-> FALSE, opens |-> 2, calls |-> 2, edits |-> 0, fetches |-> 0, requires |-> 0,
         days |-> 0, ids |-> {"i1"}]
Ruled == [Open EXCEPT !.edits = 2, !.opens = 1]
Strict == [Open EXCEPT !.strict = TRUE, !.fetches = 2, !.requires = 1, !.days = 2, !.calls = 1]

TheConfigs ==
    { [Open EXCEPT !.policy = "missing", !.require = TRUE],
      [Open EXCEPT !.policy = "loaded", !.ents = "loaded", !.require = TRUE, !.opens = 3],
      [Open EXCEPT !.policy = "loaded", !.document = Docs(Doc("object", "other", "absent", "absent"), Yes)],
      [Open EXCEPT !.policy = "loaded", !.document = Docs(Doc("object", "true", "absent", "other"),
                                                          Doc("error", "true", "absent", "absent"))],
      [Strict EXCEPT !.patterns = {"cd"}, !.from = 1, !.until = 1, !.fetches = 1, !.requires = 0],
      [Strict EXCEPT !.provider = "generic", !.ids = {"i1"}, !.days = 0, !.fetches = 1],
      [Strict EXCEPT !.provider = "jira", !.patterns = {"cd"}, !.days = 0, !.ids = {"i1", "i2"},
                     !.fetches = 1, !.requires = 0],
      [Strict EXCEPT !.build = "core", !.patterns = {"cd"}],
      Ruled, [Ruled EXCEPT !.build = "core", !.restricted = TRUE],
      [Open EXCEPT !.modes = {TRUE}],
      [Open EXCEPT !.remote = TRUE],
      [Open EXCEPT !.quarantined = TRUE] }

\* Rules and their editors only.
Plain == {Ruled}

-----------------------------------------------------------------------------
approvalsVars == <<part, vars, govVars>>

\* A part that does not run is in one of its first states.
ApprovalsInit ==
    /\ part \in {"foureyes", "governance"}
    /\ Init /\ GovInit
    /\ part # "foureyes" => \A r \in Requests : request[r].requester = CHOOSE u \in Users : TRUE
    /\ part # "governance" => cfg = CHOOSE c \in Configs : TRUE

\* One part runs, and the others stay as they are.
ApprovalsNext ==
    \/ /\ part = "foureyes" /\ Next
       /\ UNCHANGED <<part, govVars>>
    \/ /\ part = "governance" /\ GovNext
       /\ UNCHANGED <<part, vars>>

ApprovalsSpec == ApprovalsInit /\ [][ApprovalsNext]_approvalsVars
=============================================================================
