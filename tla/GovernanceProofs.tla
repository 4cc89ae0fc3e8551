-------------------------- MODULE GovernanceProofs --------------------------
(***************************************************************************)
(* Machine-checked proofs about Governance: for every number of sessions,  *)
(* commands, editors and principals, and every configuration of the host,  *)
(* what the gate lets through was authorized, and why and ?? tell the same *)
(* as the gate.                                                            *)
(***************************************************************************)
EXTENDS Governance, FiniteSetTheorems, TLAPS

Someone == Principals \cup {Nobody}

\* The words of the providers and the states of tickets; the reasons to refuse.
Words == {"", "none", "new", "open", "approved", "implement", "closed", "In Progress", "Done"}
Whys  == {"", "identity", "policy", "entitlements", "cm", "rules", "file", "admin", "mode"}

Stages == {"idle", "policy", "entitlements", "cm", "rules", "wait", "admin", "mode", "done",
           "refused"}
Edit   == [at : {"idle", "save", "write", "dead"}, rules : SUBSET Cmds]
Binding == [who : Someone, refs : Nat]
Refused == [cmd : Cmds \cup {""}, why : Whys]

TicketType  == [state : Words, from : Nat, until : Nat, by : Someone, word : Words]
SessionType == [at : {"closed", "building", "open", "ended"}, id : Ids \cup {""},
                who : Someone, bound : BOOLEAN, restricted : BOOLEAN]
GateType    == [at : Stages, id : Ids \cup {""}, cmd : Cmds \cup {""}, opener : Someone,
                who : Someone, restricted : BOOLEAN, ticket : TicketType, covered : BOOLEAN,
                day : Nat, approved : BOOLEAN, why : Whys]

\* Every variable stays in its type.
GovTyped ==
    /\ cfg \in Configs
    /\ sess \in [Handles -> SessionType]
    /\ idents \in [Ids -> Binding]
    /\ owners \in [Ids -> SUBSET Principals]
    /\ rules \in [file : {"missing", "whole", "partial"}, rules : SUBSET Cmds]
    /\ editor \in [Editors -> Edit]
    /\ day \in Nat /\ raw \in Words
    /\ \A f \in fetching : f.id \in Ids /\ f.ticket \in TicketType
    /\ tickets \in [Ids -> TicketType]
    /\ gcall \in [GateCalls -> GateType]
    /\ shown \in [Ids -> Cmds \cup {""}]
    /\ refusal \in [Ids -> Refused]

\* Sessions and commands exist only on an engine that could be built.
Up == engine = "up" /\ Buildable

InUse ==
    /\ engine = "up" => Buildable
    /\ \A h \in Handles :
          IF sess[h].at = "closed" THEN sess[h] = Closed
          ELSE /\ sess[h].bound = (sess[h].at # "ended")
               /\ sess[h].id \in Ids /\ sess[h].who \in owners[sess[h].id] /\ Up
    /\ \A c \in GateCalls : gcall[c].at # "idle" =>
          gcall[c].id \in Ids /\ gcall[c].cmd \in Cmds /\ Up

\* A save never loses a rule that was there from the start, and a file that is
\* missing never had one.
RulesOK ==
    /\ rules.file = "whole" => BaseRules \subseteq rules.rules
    /\ rules.file = "missing" => BaseRules = {}
    /\ \A e \in Editors : editor[e].at \in {"save", "write"} => BaseRules \subseteq editor[e].rules

\* Bindings are counted, and an ID without one names nobody.
Bound ==
    /\ BindingsCounted
    /\ \A id \in Ids : idents[id].refs = 0 => idents[id].who = Nobody

\* A call knows its principal from the policy on.
Known == {"entitlements", "cm", "rules", "wait", "admin", "mode", "done"}
Named(k) == k.at \in Known \/ (k.at = "refused" /\ k.why \notin {"identity", "policy"})

\* Everything kept under a session ID comes from a principal the host bound the ID to:
\* its binding, the tickets fetched for it and stored, its commands in the gate.
CallOwned(k) ==
    /\ k.opener \in owners[k.id]
    /\ Named(k) => k.who \in owners[k.id]
    /\ k.ticket # NoTicket => k.ticket.by \in owners[k.id]

Owned ==
    /\ \A id \in Ids : /\ idents[id].refs > 0 => idents[id].who \in owners[id]
                       /\ tickets[id] # NoTicket => tickets[id].by \in owners[id]
    /\ \A f \in fetching : f.ticket.by \in owners[f.id]
    /\ \A c \in GateCalls : gcall[c].at # "idle" => CallOwned(gcall[c])
    /\ \A r \in ranAll : r.id \in Ids

\* The state of a ticket is the meaning of the provider's word.
TicketOK(t) == t # NoTicket => t.state = TicketState(t.word)
TicketsOK ==
    /\ \A f \in fetching : TicketOK(f.ticket)
    /\ \A i \in Ids : TicketOK(tickets[i])

TicketCovers(k) ==
    k.covered /\ cfg.strict =>
       /\ cfg.build = "ee" /\ k.ticket # NoTicket
       /\ k.ticket.word \in {"approved", "implement", "In Progress"}
       /\ k.day >= k.ticket.from
       /\ k.ticket.until # 0 => k.day <= k.ticket.until

\* What a command in the gate was asked so far, and what refused it.
Asked(k) ==
    /\ k.at \in Known => k.who \in Principals /\ EvaluatePolicyDecision(k.cmd)
    /\ k.at \in Known \ {"entitlements"} => EntitlementsAllow(k.who, k.cmd)
    /\ k.at \in Known \ {"entitlements", "cm"} => TicketCovers(k)
    /\ k.at = "wait" => cfg.build = "ee"
    /\ k.at \in {"admin", "mode", "done"} /\ k.cmd \in BaseRules =>
          k.approved /\ cfg.build = "ee"
    /\ k.at = "done" => ~(k.restricted /\ k.cmd \in Barred)
    /\ k.at = "refused" /\ k.why = "policy" => ~EvaluatePolicyDecision(k.cmd)
    /\ k.at = "refused" /\ k.why = "entitlements" => ~EntitlementsAllow(k.who, k.cmd)

AllAsked == \A c \in GateCalls : Asked(gcall[c])

\* The inductive invariant.
GovInv ==
    /\ GovTyped /\ InUse /\ RulesOK /\ Bound /\ Owned /\ TicketsOK /\ AllAsked
    /\ RanAuthorized /\ TicketHeld /\ DenialShown

-----------------------------------------------------------------------------
(* The model's data.                                                       *)

\* What the host is configured with.
LEMMA ConfigTypes ==
    \A c \in Configs :
        /\ c.from \in Nat /\ c.until \in Nat /\ c.ids \subseteq Ids
        /\ c.build \in {"core", "ee"} /\ c.document \in [Cmds -> Decisions]
        /\ c.modes \subseteq BOOLEAN /\ c.restricted \in BOOLEAN
<1> SUFFICES ASSUME NEW c \in Configs
             PROVE  /\ c.from \in Nat /\ c.until \in Nat /\ c.ids \subseteq Ids
                    /\ c.build \in {"core", "ee"} /\ c.document \in [Cmds -> Decisions]
                    /\ c.modes \subseteq BOOLEAN /\ c.restricted \in BOOLEAN
  OBVIOUS
<1>1. {c.calls, c.edits, c.fetches, c.requires, c.days, c.from, c.until} \subseteq Nat
  BY GovAssumption
<1> QED  BY <1>1, GovAssumption

\* The values that stand for nothing are of the types.
LEMMA Blanks ==
    /\ Nobody \in Someone /\ NoTicket \in TicketType /\ Closed \in SessionType
    /\ AtRest \in GateType /\ NoEdit \in Edit /\ NoRefusal \in Refused
<1>1. Nobody \in Someone  BY DEF Someone
<1>2. NoTicket \in TicketType  BY <1>1 DEF NoTicket, TicketType, Words
<1>3. Closed \in SessionType  BY <1>1 DEF Closed, SessionType
<1>4. AtRest \in GateType
  <2>1. "idle" \in Stages /\ "" \in Whys  BY DEF Stages, Whys
  <2> QED  BY <1>1, <1>2, <2>1 DEF AtRest, GateType
<1>5. NoEdit \in Edit  BY DEF NoEdit, Edit
<1>6. NoRefusal \in Refused  BY DEF NoRefusal, Refused, Whys
<1> QED  BY <1>1, <1>2, <1>3, <1>4, <1>5, <1>6

\* The provider's word for the state of a change is a word, and so is its meaning;
\* a ticket is approved only in the provider's words for it.
LEMMA WordTypes ==
    /\ \A w \in ProviderWords : w \in Words
    /\ \A w \in Words : TicketState(w) \in Words
    /\ \A w \in Words : TicketState(w) = "approved" =>
                            w \in {"approved", "implement", "In Progress"}
<1>1. CASE cfg.provider = "servicenow"
  BY <1>1 DEF ProviderWords, TicketState, Words
<1>2. CASE cfg.provider = "jira"
  BY <1>2 DEF ProviderWords, TicketState, Words
<1>3. CASE cfg.provider \notin {"servicenow", "jira"}
  BY <1>3 DEF ProviderWords, TicketState, Words
<1> QED  BY <1>1, <1>2, <1>3

\* Unbind changes one binding: it drops it or leaves one fewer.
LEMMA Unbinds ==
    ASSUME GovTyped, NEW id \in Ids, Unbind(id)
    PROVE  \E b \in Binding :
              /\ idents' = [idents EXCEPT ![id] = b]
              /\ IF idents[id].refs <= 1 THEN b.refs = 0 /\ b.who = Nobody
                 ELSE b.refs = idents[id].refs - 1 /\ b.who = idents[id].who
<1>1. idents[id] \in Binding  BY DEF GovTyped
<1>2. CASE idents[id].refs <= 1
  <2>1. [who |-> Nobody, refs |-> 0] \in Binding  BY Blanks DEF Binding
  <2>2. idents' = [idents EXCEPT ![id] = [who |-> Nobody, refs |-> 0]]
    BY <1>2 DEF Unbind
  <2> QED  BY <1>2, <2>1, <2>2
<1>3. CASE ~(idents[id].refs <= 1)
  <2>1. PICK b : b = [who |-> idents[id].who, refs |-> idents[id].refs - 1]  OBVIOUS
  <2>2. /\ b \in Binding /\ b.refs = idents[id].refs - 1 /\ b.who = idents[id].who
    BY <1>1, <1>3, <2>1 DEF Binding
  <2>3. idents' = [idents EXCEPT ![id] = b]
    BY <1>3, <2>1 DEF Unbind
  <2> QED  BY <1>3, <2>2, <2>3
<1> QED  BY <1>2, <1>3

\* What changes in a step, and by which actions.
LEMMA StepKinds ==
    ASSUME [GovNext]_govVars
    PROVE  /\ cfg' = cfg
           /\ engine' = engine \/ NewEngine
           /\ \/ UNCHANGED fileVars
              \/ \E e \in Editors : EditRules(e) \/ SaveRules(e) \/ EditorDies(e)
           /\ \/ UNCHANGED <<sessVars, fetching, tickets>>
              \/ UNCHANGED gateVars /\ \E h \in Handles : SessionStep(h) \/ CMStep(h)
              \/ UNCHANGED gateVars /\ \E f \in fetching : CMStore(f)
           /\ raw' = raw \/ \E w \in ProviderWords : raw' = w
           /\ day' = day \/ (day' = day + 1)
           /\ \/ UNCHANGED gateVars
              \/ \E c \in GateCalls : GateStep(c) \/ \E h \in Handles, cmd \in Cmds : Enter(c, h, cmd)
<1>1. CASE UNCHANGED govVars
  BY <1>1 DEF govVars, hostVars, sessVars, fileVars, cmVars, gateVars
<1>2. CASE NewEngine
  BY <1>2 DEF NewEngine, sessVars, fileVars, cmVars, gateVars
<1>3. CASE Day
  BY <1>3 DEF Day, hostVars, sessVars, fileVars, gateVars
<1>4. ASSUME NEW word \in ProviderWords, Provider(word) PROVE raw' = word /\ UNCHANGED <<hostVars, sessVars, fileVars, day, fetching, tickets, gateVars>>
  BY <1>4 DEF Provider
<1>5. ASSUME NEW h \in Handles, SessionStep(h)
      PROVE  UNCHANGED <<hostVars, fileVars, gateVars, day, raw>>
  BY <1>5 DEF SessionStep, OpenSession, BuildSession, CloseSession, cmVars
<1>6. ASSUME NEW h \in Handles, CMStep(h)
      PROVE  UNCHANGED <<hostVars, sessVars, fileVars, gateVars, day, raw>>
  BY <1>6 DEF CMStep, CMFetch, CMClear, CMRequire
<1>9. ASSUME NEW f \in fetching, CMStore(f)
      PROVE  UNCHANGED <<hostVars, sessVars, fileVars, gateVars, day, raw>>
  BY <1>9 DEF CMStore
<1>7. ASSUME NEW c \in GateCalls,
             GateStep(c) \/ \E h \in Handles, cmd \in Cmds : Enter(c, h, cmd)
      PROVE  UNCHANGED <<hostVars, sessVars, fileVars, cmVars>>
  BY <1>7 DEF GateStep, AskPolicy, AskEntitlements, AskTicket, AskRules, Approved,
     Disapproved, AskAdminPlane, AskMode, LetThrough, Remember, Asks, Goes, Enter
<1>8. ASSUME NEW e \in Editors, EditRules(e) \/ SaveRules(e) \/ EditorDies(e)
      PROVE  UNCHANGED <<hostVars, sessVars, cmVars, gateVars>>
  BY <1>8 DEF EditRules, LoadRules, SaveRules, EditorDies
<1> QED
  BY <1>1, <1>2, <1>3, <1>4, <1>5, <1>6, <1>7, <1>8, <1>9 DEF GovNext, hostVars, sessVars, cmVars

-----------------------------------------------------------------------------
(* One step of a command through the gate.                                 *)

\* What a step makes of the command c: a call that is still in the gate.
Advances(c, k) ==
    /\ k \in GateType /\ k.at # "idle" /\ gcall[c].at # "idle"
    /\ k.id = gcall[c].id /\ k.cmd = gcall[c].cmd /\ k.opener = gcall[c].opener
    /\ k.ticket \in {gcall[c].ticket, tickets[k.id]}
    /\ Asked(k)
    /\ Named(k) => \/ Named(gcall[c]) /\ k.who = gcall[c].who
                   \/ k.who = Identity(k.id) /\ k.who # Nobody

\* A refused call was asked what an asked one was, and the question that refused it.
LEMMA Refusals ==
    ASSUME NEW c \in GateCalls, NEW j \in GateType, j = gcall[c], Asked(j), j.at # "idle",
           NEW why \in Whys, NEW k, k = [j EXCEPT !.at = "refused", !.why = why],
           why \notin {"identity", "policy"} => j.at \in Known,
           why = "policy" => ~EvaluatePolicyDecision(j.cmd),
           why = "entitlements" => ~EntitlementsAllow(j.who, j.cmd)
    PROVE  Advances(c, k)
<1>1. /\ k.at = "refused" /\ k.why = why /\ k.id = j.id /\ k.cmd = j.cmd /\ k.who = j.who
      /\ k \in GateType /\ k.opener = j.opener /\ k.ticket = j.ticket
  BY DEF GateType, Stages
<1>2. Asked(k)  BY <1>1 DEF Asked, Known
<1>3. Named(k) => Named(j)  BY <1>1 DEF Named, Known
<1> QED  BY <1>1, <1>2, <1>3 DEF Advances

\* A call that goes on with nothing but its stage changed is of the type.
LEMMA Onwards ==
    ASSUME NEW j \in GateType, NEW to \in Stages, NEW k, k = [j EXCEPT !.at = to]
    PROVE  /\ k \in GateType /\ k.at = to
           /\ k.id = j.id /\ k.cmd = j.cmd /\ k.who = j.who /\ k.restricted = j.restricted
           /\ k.opener = j.opener
           /\ k.opener = j.opener
        /\ k.covered = j.covered /\ k.ticket = j.ticket /\ k.day = j.day
           /\ k.approved = j.approved /\ k.why = j.why
  BY DEF GateType

LEMMA PolicyAsked ==
    ASSUME GovInv, NEW c \in GateCalls, AskPolicy(c)
    PROVE  \E k : Advances(c, k) /\ gcall' = [gcall EXCEPT ![c] = k]
<1>1. PICK j \in GateType : j = gcall[c]  BY DEF GovInv, GovTyped
<1>2. j.at = "policy" /\ j.id \in Ids /\ j.cmd \in Cmds /\ Asked(j)
  BY <1>1 DEF AskPolicy, Asks, GovInv, InUse, AllAsked, GovTyped
<1>3. PICK who \in Someone : who = Identity(j.id)
  BY <1>2 DEF GovInv, GovTyped, Identity, Binding
<1>4. CASE who # Nobody /\ EvaluatePolicyDecision(j.cmd)
  <2>1. PICK k : k = [j EXCEPT !.who = who, !.at = "entitlements"]  OBVIOUS
  <2>2. /\ k \in GateType /\ k.at = "entitlements" /\ k.id = j.id /\ k.cmd = j.cmd
        /\ k.who = who /\ k.opener = j.opener /\ k.ticket = j.ticket
    BY <2>1 DEF GateType, Stages
  <2>3. Asked(k)  BY <1>4, <2>2 DEF Asked, Known, Someone
  <2>4. Advances(c, k)  BY <1>1, <1>2, <1>3, <1>4, <2>2, <2>3 DEF Advances
  <2>5. gcall' = [gcall EXCEPT ![c] = k]
    BY <1>1, <1>3, <1>4, <2>1 DEF AskPolicy, Asks, Goes
  <2> QED  BY <2>4, <2>5
<1>5. CASE ~(who # Nobody /\ EvaluatePolicyDecision(j.cmd))
  <2>1. PICK why : why = IF who = Nobody THEN "identity" ELSE "policy"  OBVIOUS
  <2>2. PICK k : k = [j EXCEPT !.at = "refused", !.why = why]  OBVIOUS
  <2>3. why \in Whys /\ why \in {"identity", "policy"}  BY <2>1 DEF Whys
  <2>4. why = "policy" => ~EvaluatePolicyDecision(j.cmd)  BY <1>5, <2>1
  <2>5. Advances(c, k)  BY <1>1, <1>2, <2>2, <2>3, <2>4, Refusals
  <2>6. gcall' = [gcall EXCEPT ![c] = k]
    BY <1>1, <1>3, <1>5, <2>1, <2>2 DEF AskPolicy, Asks, Goes
  <2> QED  BY <2>5, <2>6
<1> QED  BY <1>4, <1>5

LEMMA EntitlementsAsked ==
    ASSUME GovInv, NEW c \in GateCalls, AskEntitlements(c)
    PROVE  \E k : Advances(c, k) /\ gcall' = [gcall EXCEPT ![c] = k]
<1>1. PICK j \in GateType : j = gcall[c]  BY DEF GovInv, GovTyped
<1>2. j.at = "entitlements" /\ Asked(j)
  BY <1>1 DEF AskEntitlements, Asks, GovInv, AllAsked
<1>4. CASE EntitlementsAllow(j.who, j.cmd)
  <2>1. PICK k : k = [j EXCEPT !.at = "cm"]  OBVIOUS
  <2>2. /\ k \in GateType /\ k.at = "cm" /\ k.id = j.id /\ k.cmd = j.cmd /\ k.who = j.who
        /\ k.opener = j.opener /\ k.ticket = j.ticket
    BY <2>1, Onwards DEF Stages
  <2>3. Asked(k)  BY <1>2, <1>4, <2>2 DEF Asked, Known
  <2>4. Advances(c, k)  BY <1>1, <1>2, <2>2, <2>3 DEF Advances, Named, Known
  <2>5. gcall' = [gcall EXCEPT ![c] = k]
    BY <1>1, <1>4, <2>1 DEF AskEntitlements, Asks, Goes
  <2> QED  BY <2>4, <2>5
<1>5. CASE ~EntitlementsAllow(j.who, j.cmd)
  <2>2. PICK k : k = [j EXCEPT !.at = "refused", !.why = "entitlements"]  OBVIOUS
  <2>5. Advances(c, k)  BY <1>1, <1>2, <1>5, <2>2, Refusals DEF Whys, Known
  <2>6. gcall' = [gcall EXCEPT ![c] = k]
    BY <1>1, <1>5, <2>2 DEF AskEntitlements, Asks, Goes
  <2> QED  BY <2>5, <2>6
<1> QED  BY <1>4, <1>5

\* The ticket of a session ID that the gate finds good enough in strict mode is its
\* principal's own, approved, and in its window.
LEMMA TicketAsked ==
    ASSUME GovInv, NEW c \in GateCalls, AskTicket(c)
    PROVE  \E k : Advances(c, k) /\ gcall' = [gcall EXCEPT ![c] = k]
<1>1. PICK j \in GateType : j = gcall[c]  BY DEF GovInv, GovTyped
<1>2. j.at = "cm" /\ Asked(j) /\ j.id \in Ids
  BY <1>1 DEF AskTicket, Asks, GovInv, AllAsked, InUse, GovTyped
<1>3. PICK t \in TicketType : t = tickets[j.id]  BY <1>2 DEF GovInv, GovTyped
<1>5. t # NoTicket => t.state = TicketState(t.word)
  BY <1>2, <1>3 DEF GovInv, TicketsOK, TicketOK
<1>6. PICK covered \in BOOLEAN : covered = CMRequired(j.id, j.cmd)
  <2>1. CASE CMRequired(j.id, j.cmd)
    <3>1. TRUE = CMRequired(j.id, j.cmd)  BY <2>1 DEF CMRequired
    <3> QED  BY <3>1
  <2>2. CASE ~CMRequired(j.id, j.cmd)
    <3>1. FALSE = CMRequired(j.id, j.cmd)  BY <2>2 DEF CMRequired
    <3> QED  BY <3>1
  <2> QED  BY <2>1, <2>2
<1>7. day \in Nat  BY DEF GovInv, GovTyped
<1>8. CASE CMCheck(j.id, j.cmd)
  <2>1. PICK k : k = [j EXCEPT !.covered = covered, !.ticket = t, !.day = day, !.at = "rules"]
    OBVIOUS
  <2>2. /\ k \in GateType /\ k.at = "rules" /\ k.id = j.id /\ k.cmd = j.cmd /\ k.who = j.who
        /\ k.covered = covered /\ k.ticket = t /\ k.day = day /\ k.opener = j.opener
    BY <2>1, <1>7 DEF GateType, Stages
  <2>3. ASSUME covered, cfg.strict
        PROVE  cfg.build = "ee" /\ t # NoTicket /\ IsTicketValid(t)
    <3>1. ~(cfg.build = "core" \/ t = NoTicket) /\ IsTicketValid(t)
      BY <1>3, <1>6, <1>8, <2>3 DEF CMCheck
    <3>2. cfg.build \in {"core", "ee"}  BY ConfigTypes DEF GovInv, GovTyped
    <3> QED  BY <3>1, <3>2
  <2>4. ASSUME IsTicketValid(t), t # NoTicket
        PROVE  /\ t.word \in {"approved", "implement", "In Progress"}
               /\ day >= t.from /\ (t.until # 0 => day <= t.until)
    <3>1. t.word \in Words /\ t.from \in Nat  BY DEF TicketType
    <3>2. TicketState(t.word) = "approved"  BY <1>5, <2>4 DEF IsTicketValid
    <3>3. t.word \in {"approved", "implement", "In Progress"}  BY <3>1, <3>2, WordTypes
    <3>4. day >= t.from /\ (t.until # 0 => day <= t.until)
      BY <1>7, <2>4, <3>1 DEF IsTicketValid
    <3> QED  BY <3>3, <3>4
  <2>5. TicketCovers(k)  BY <2>2, <2>3, <2>4 DEF TicketCovers
  <2>6. Asked(k)  BY <1>2, <2>2, <2>5 DEF Asked, Known
  <2>7. Advances(c, k)  BY <1>1, <1>2, <1>3, <2>2, <2>6 DEF Advances, Named, Known
  <2>8. gcall' = [gcall EXCEPT ![c] = k]
    BY <1>1, <1>3, <1>6, <1>8, <2>1 DEF AskTicket, Asks, Goes
  <2> QED  BY <2>7, <2>8
<1>9. CASE ~CMCheck(j.id, j.cmd)
  <2>2. PICK k : k = [j EXCEPT !.at = "refused", !.why = "cm"]  OBVIOUS
  <2>5. Advances(c, k)  BY <1>1, <1>2, <2>2, Refusals DEF Whys, Known
  <2>6. gcall' = [gcall EXCEPT ![c] = k]
    BY <1>1, <1>9, <2>2 DEF AskTicket, Asks, Goes
  <2> QED  BY <2>5, <2>6
<1> QED  BY <1>8, <1>9

\* A rule from the start is found, unless the file is being written: then nothing passes.
LEMMA BaseRulesFound ==
    ASSUME GovInv, NEW cmd \in BaseRules
    PROVE  MatchFourEyes(cmd) \in {"match", "error"}
  BY DEF GovInv, RulesOK, GovTyped, MatchFourEyes

LEMMA RulesAsked ==
    ASSUME GovInv, NEW c \in GateCalls, AskRules(c)
    PROVE  \E k : Advances(c, k) /\ gcall' = [gcall EXCEPT ![c] = k]
<1>1. PICK j \in GateType : j = gcall[c]  BY DEF GovInv, GovTyped
<1>2. j.at = "rules" /\ Asked(j)
  BY <1>1 DEF AskRules, Asks, GovInv, AllAsked
<1>3. PICK found : found = MatchFourEyes(j.cmd)  OBVIOUS
<1>4. CASE found = "none"
  <2>1. PICK k : k = [j EXCEPT !.at = "admin"]  OBVIOUS
  <2>2. /\ k \in GateType /\ k.at = "admin" /\ k.id = j.id /\ k.cmd = j.cmd /\ k.who = j.who
        /\ k.opener = j.opener
        /\ k.covered = j.covered /\ k.ticket = j.ticket /\ k.day = j.day
    BY <2>1, Onwards DEF Stages
  <2>3. j.cmd \notin BaseRules  BY <1>3, <1>4, BaseRulesFound
  <2>4. TicketCovers(k)  BY <1>2, <2>2 DEF Asked, Known, TicketCovers
  <2>5. Asked(k)  BY <1>2, <2>2, <2>3, <2>4 DEF Asked, Known
  <2>6. Advances(c, k)  BY <1>1, <1>2, <2>2, <2>5 DEF Advances, Named, Known
  <2>7. gcall' = [gcall EXCEPT ![c] = k]
    BY <1>1, <1>3, <1>4, <2>1 DEF AskRules, Asks, Goes
  <2> QED  BY <2>6, <2>7
<1>5. CASE found = "match" /\ cfg.build = "ee"
  <2>1. PICK k : k = [j EXCEPT !.at = "wait"]  OBVIOUS
  <2>2. /\ k \in GateType /\ k.at = "wait" /\ k.id = j.id /\ k.cmd = j.cmd /\ k.who = j.who
        /\ k.opener = j.opener
        /\ k.covered = j.covered /\ k.ticket = j.ticket /\ k.day = j.day
    BY <2>1, Onwards DEF Stages
  <2>4. TicketCovers(k)  BY <1>2, <2>2 DEF Asked, Known, TicketCovers
  <2>5. Asked(k)  BY <1>2, <1>5, <2>2, <2>4 DEF Asked, Known
  <2>6. Advances(c, k)  BY <1>1, <1>2, <2>2, <2>5 DEF Advances, Named, Known
  <2>7. gcall' = [gcall EXCEPT ![c] = k]
    BY <1>1, <1>3, <1>5, <2>1 DEF AskRules, Asks, Goes
  <2> QED  BY <2>6, <2>7
<1>6. CASE ~(found = "none" \/ (found = "match" /\ cfg.build = "ee"))
  <2>1. PICK why : why = IF found = "error" THEN "file" ELSE "rules"  OBVIOUS
  <2>2. PICK k : k = [j EXCEPT !.at = "refused", !.why = why]  OBVIOUS
  <2>3. why \in Whys /\ why \in {"file", "rules"}  BY <2>1 DEF Whys
  <2>5. Advances(c, k)  BY <1>1, <1>2, <2>2, <2>3, Refusals DEF Known
  <2>6. gcall' = [gcall EXCEPT ![c] = k]
    BY <1>1, <1>3, <1>6, <2>1, <2>2 DEF AskRules, Asks, Goes
  <2> QED  BY <2>5, <2>6
<1> QED  BY <1>4, <1>5, <1>6

\* The last questions: approvers' answer, quarantine, restricted mode.
LEMMA LastAsked ==
    ASSUME GovInv, NEW c \in GateCalls,
           Approved(c) \/ Disapproved(c) \/ AskAdminPlane(c) \/ AskMode(c)
    PROVE  \E k : Advances(c, k) /\ gcall' = [gcall EXCEPT ![c] = k]
<1>1. PICK j \in GateType : j = gcall[c]  BY DEF GovInv, GovTyped
<1>2. Asked(j)  BY <1>1 DEF GovInv, AllAsked
<1>r. ASSUME NEW why \in {"rules", "admin", "mode"}, j.at \in Known,
             gcall' = [gcall EXCEPT ![c] = [j EXCEPT !.at = "refused", !.why = why]]
      PROVE  \E k : Advances(c, k) /\ gcall' = [gcall EXCEPT ![c] = k]
  <2>1. PICK k : k = [j EXCEPT !.at = "refused", !.why = why]  OBVIOUS
  <2>2. why \in Whys /\ why \notin {"identity", "policy", "entitlements"} /\ j.at # "idle"
    BY <1>r DEF Whys, Known
  <2>3. Advances(c, k)  BY <1>1, <1>2, <1>r, <2>1, <2>2, Refusals
  <2> QED  BY <1>r, <2>1, <2>3
<1>3. CASE Approved(c)
  <2>0. j.at = "wait"  BY <1>1, <1>3 DEF Approved, Asks
  <2>1. PICK k : k = [j EXCEPT !.approved = TRUE, !.at = "admin"]  OBVIOUS
  <2>2. /\ k \in GateType /\ k.at = "admin" /\ k.id = j.id /\ k.cmd = j.cmd /\ k.who = j.who
        /\ k.opener = j.opener
        /\ k.covered = j.covered /\ k.ticket = j.ticket /\ k.day = j.day /\ k.approved
    BY <2>1 DEF GateType, Stages
  <2>4. TicketCovers(k)  BY <1>2, <2>0, <2>2 DEF Asked, Known, TicketCovers
  <2>5. Asked(k)  BY <1>2, <2>0, <2>2, <2>4 DEF Asked, Known
  <2>6. Advances(c, k)  BY <1>1, <2>0, <2>2, <2>5 DEF Advances, Named, Known
  <2>7. gcall' = [gcall EXCEPT ![c] = k]
    BY <1>1, <1>3, <2>1 DEF Approved, Asks, Goes
  <2> QED  BY <2>6, <2>7
<1>4. CASE Disapproved(c)
  BY <1>1, <1>4, <1>r DEF Disapproved, Asks, Goes, Known
<1>5. CASE AskAdminPlane(c) /\ cfg.quarantined
  BY <1>1, <1>5, <1>r DEF AskAdminPlane, Asks, Goes, Known
<1>6. CASE AskAdminPlane(c) /\ ~cfg.quarantined
  <2>0. j.at = "admin"  BY <1>1, <1>6 DEF AskAdminPlane, Asks
  <2>1. PICK k : k = [j EXCEPT !.at = "mode"]  OBVIOUS
  <2>2. /\ k \in GateType /\ k.at = "mode" /\ k.id = j.id /\ k.cmd = j.cmd /\ k.who = j.who
        /\ k.opener = j.opener
        /\ k.covered = j.covered /\ k.ticket = j.ticket /\ k.day = j.day
        /\ k.approved = j.approved
    BY <2>1, Onwards DEF Stages
  <2>4. TicketCovers(k)  BY <1>2, <2>0, <2>2 DEF Asked, Known, TicketCovers
  <2>5. Asked(k)  BY <1>2, <2>0, <2>2, <2>4 DEF Asked, Known
  <2>6. Advances(c, k)  BY <1>1, <2>0, <2>2, <2>5 DEF Advances, Named, Known
  <2>7. gcall' = [gcall EXCEPT ![c] = k]
    BY <1>1, <1>6, <2>1 DEF AskAdminPlane, Asks, Goes
  <2> QED  BY <2>6, <2>7
<1>7. CASE AskMode(c) /\ j.restricted /\ j.cmd \in Barred
  BY <1>1, <1>7, <1>r DEF AskMode, Asks, Goes, Known
<1>8. CASE AskMode(c) /\ ~(j.restricted /\ j.cmd \in Barred)
  <2>0. j.at = "mode"  BY <1>1, <1>8 DEF AskMode, Asks
  <2>1. PICK k : k = [j EXCEPT !.at = "done"]  OBVIOUS
  <2>2. /\ k \in GateType /\ k.at = "done" /\ k.id = j.id /\ k.cmd = j.cmd /\ k.who = j.who
        /\ k.opener = j.opener
        /\ k.covered = j.covered /\ k.ticket = j.ticket /\ k.day = j.day
        /\ k.approved = j.approved /\ k.restricted = j.restricted
    BY <2>1, Onwards DEF Stages
  <2>4. TicketCovers(k)  BY <1>2, <2>0, <2>2 DEF Asked, Known, TicketCovers
  <2>5. Asked(k)  BY <1>2, <1>8, <2>0, <2>2, <2>4 DEF Asked, Known
  <2>6. Advances(c, k)  BY <1>1, <2>0, <2>2, <2>5 DEF Advances, Named, Known
  <2>7. gcall' = [gcall EXCEPT ![c] = k]
    BY <1>1, <1>8, <2>1 DEF AskMode, Asks, Goes
  <2> QED  BY <2>6, <2>7
<1> QED  BY <1>3, <1>4, <1>5, <1>6, <1>7, <1>8

\* Every step of the gate takes a command on, or out of it.
LEMMA GateTakesOn ==
    ASSUME GovInv, NEW c \in GateCalls, GateStep(c)
    PROVE  \/ \E k : Advances(c, k) /\ gcall' = [gcall EXCEPT ![c] = k]
                     /\ UNCHANGED <<shown, ranAll, refusal>>
           \/ gcall' = [gcall EXCEPT ![c] = AtRest] /\ (LetThrough(c) \/ Remember(c))
<1>1. CASE LetThrough(c)  BY <1>1 DEF LetThrough
<1>2. CASE Remember(c)  BY <1>2 DEF Remember
<1>3. CASE ~LetThrough(c) /\ ~Remember(c)
  <2>1. UNCHANGED <<shown, ranAll, refusal>>
    BY <1>3 DEF GateStep, AskPolicy, AskEntitlements, AskTicket, AskRules, Approved,
       Disapproved, AskAdminPlane, AskMode, Asks, Goes
  <2>2. \E k : Advances(c, k) /\ gcall' = [gcall EXCEPT ![c] = k]
    BY <1>3, PolicyAsked, EntitlementsAsked, TicketAsked, RulesAsked, LastAsked DEF GateStep
  <2> QED  BY <2>1, <2>2
<1> QED  BY <1>1, <1>2, <1>3

-----------------------------------------------------------------------------
(* One step of a session or of its cm commands.                            *)

\* NewSession binds the ID for one more session, which was not there or is closed.
Opens(h) ==
    \E id \in Ids, who \in Principals, s \in SessionType :
        /\ engine = "up" /\ sess[h].at \in {"closed", "ended"} /\ MayBind(id, who)
        /\ s.at = "building" /\ s.id = id /\ s.who = who /\ s.bound
        /\ sess' = [sess EXCEPT ![h] = s]
        /\ idents' = [idents EXCEPT ![id] = [who |-> who, refs |-> idents[id].refs + 1]]
        /\ owners' = [owners EXCEPT ![id] = owners[id] \cup {who}]
        /\ UNCHANGED <<fetching, tickets>>

\* The runner is there; the binding stays.
Starts(h) ==
    \E s \in SessionType :
        /\ sess[h].at = "building"
        /\ s.at = "open" /\ s.id = sess[h].id /\ s.who = sess[h].who /\ s.bound = sess[h].bound
        /\ sess' = [sess EXCEPT ![h] = s] /\ UNCHANGED <<idents, owners, fetching, tickets>>

\* The session ends, by Close or because it could not be built.
Ends(h) ==
    \E b \in Binding, s \in SessionType :
        LET id == sess[h].id IN
        /\ sess[h].at \in {"building", "open"} /\ sess[h].bound /\ id \in Ids
        /\ s = Closed \/ (s.at = "ended" /\ s.id = id /\ s.who = sess[h].who)
        /\ ~s.bound /\ sess' = [sess EXCEPT ![h] = s]
        /\ idents' = [idents EXCEPT ![id] = b]
        /\ IF idents[id].refs <= 1 THEN b.refs = 0 /\ b.who = Nobody
           ELSE b.refs = idents[id].refs - 1 /\ b.who = idents[id].who
        /\ UNCHANGED <<owners, fetching, tickets>>

\* cm set fetches a ticket for the ID of a session, stores one that was fetched, or
\* drops it; cm clear.
Fetches ==
    \E h \in Handles : \E f :
        /\ Runs(h) /\ f.id = sess[h].id /\ f.ticket \in TicketType
        /\ f.ticket.by = sess[h].who /\ f.ticket.state = TicketState(f.ticket.word)
        /\ fetching' = fetching \cup {f} /\ UNCHANGED tickets

Stores ==
    \E f \in fetching : /\ fetching' = fetching \ {f}
                        /\ UNCHANGED tickets \/ tickets' = [tickets EXCEPT ![f.id] = f.ticket]

Clears ==
    \E id \in Ids : tickets' = [tickets EXCEPT ![id] = NoTicket] /\ UNCHANGED fetching

LEMMA SessionKinds ==
    ASSUME GovInv, NEW h \in Handles, SessionStep(h)
    PROVE  Opens(h) \/ Starts(h) \/ Ends(h)
<1>0. GovTyped /\ InUse /\ sess[h] \in SessionType  BY DEF GovInv, GovTyped
<1>1. ASSUME NEW id \in cfg.ids, NEW who \in Principals, NEW r \in cfg.modes,
             OpenSession(h, id, who, r)
      PROVE  Opens(h)
  <2>1. cfg \in Configs /\ id \in Ids /\ r \in BOOLEAN /\ cfg.restricted \in BOOLEAN
    BY <1>0, ConfigTypes DEF GovTyped
  <2>2. PICK m \in BOOLEAN : m = (r \/ cfg.restricted)  BY <2>1
  <2>3. PICK s : s = [at |-> "building", id |-> id, who |-> who, bound |-> TRUE,
                      restricted |-> m]
    OBVIOUS
  <2>4. s \in SessionType  BY <2>1, <2>3 DEF SessionType, Someone
  <2>5. sess' = [sess EXCEPT ![h] = s]  BY <1>1, <2>2, <2>3 DEF OpenSession
  <2>6. /\ s.at = "building" /\ s.id = id /\ s.who = who /\ s.bound  BY <2>3
  <2>7. idents' = [idents EXCEPT ![id] = [who |-> who, refs |-> idents[id].refs + 1]]
    BY <1>1, <1>0, <2>1 DEF OpenSession, GovTyped
  <2>8. owners' = [owners EXCEPT ![id] = owners[id] \cup {who}]
    BY <1>1, <1>0, <2>1 DEF OpenSession, GovTyped
  <2> QED  BY <1>1, <2>1, <2>4, <2>5, <2>6, <2>7, <2>8 DEF Opens, OpenSession, cmVars
<1>2. ASSUME sess[h].at = "building", sess' = [sess EXCEPT ![h].at = "open"],
             UNCHANGED <<idents, owners, fetching, tickets>>
      PROVE  Starts(h)
  <2>1. PICK s : s = [sess[h] EXCEPT !.at = "open"]  OBVIOUS
  <2>2. /\ s \in SessionType /\ s.at = "open" /\ s.id = sess[h].id /\ s.who = sess[h].who
        /\ s.bound = sess[h].bound
    BY <1>0, <2>1 DEF SessionType
  <2>3. sess' = [sess EXCEPT ![h] = s]  BY <1>2, <2>1
  <2> QED  BY <1>2, <2>2, <2>3 DEF Starts
<1>3. ASSUME sess[h].at \in {"building", "open"}, NEW s \in SessionType,
             s = Closed \/ (s.at = "ended" /\ s.id = sess[h].id /\ s.who = sess[h].who),
             ~s.bound, sess' = [sess EXCEPT ![h] = s],
             Unbind(sess[h].id), UNCHANGED <<owners, fetching, tickets>>
      PROVE  Ends(h)
  <2>1. sess[h].bound /\ sess[h].id \in Ids  BY <1>0, <1>3 DEF InUse
  <2>2. PICK id \in Ids : id = sess[h].id  BY <2>1
  <2>3. PICK b \in Binding :
           /\ idents' = [idents EXCEPT ![id] = b]
           /\ IF idents[id].refs <= 1 THEN b.refs = 0 /\ b.who = Nobody
              ELSE b.refs = idents[id].refs - 1 /\ b.who = idents[id].who
    BY <1>0, <1>3, <2>2, Unbinds
  <2> QED  BY <1>3, <2>1, <2>2, <2>3 DEF Ends
<1>4. CASE BuildSession(h)
  <2>1. UNCHANGED <<owners, tickets, fetching>>  BY <1>4 DEF BuildSession, cmVars
  <2>2. Closed \in SessionType /\ ~Closed.bound  BY Blanks DEF Closed
  <2> QED  BY <1>2, <1>3, <1>4, <2>1, <2>2 DEF BuildSession
<1>5. CASE CloseSession(h)
  <2>1. PICK s : s = [sess[h] EXCEPT !.at = "ended", !.bound = FALSE]  OBVIOUS
  <2>2. s \in SessionType /\ s.at = "ended" /\ s.id = sess[h].id /\ s.who = sess[h].who /\ ~s.bound
    BY <1>0, <2>1 DEF SessionType
  <2>3. sess' = [sess EXCEPT ![h] = s]  BY <1>0, <1>5, <2>1 DEF CloseSession, GovTyped
  <2>4. UNCHANGED <<owners, fetching, tickets>>  BY <1>5 DEF CloseSession, cmVars
  <2> QED  BY <1>3, <1>5, <2>2, <2>3, <2>4 DEF CloseSession
<1> QED  BY <1>1, <1>4, <1>5 DEF SessionStep

\* What cm commands do to tickets.
LEMMA TicketKinds ==
    ASSUME GovInv,
           (\E h \in Handles : CMStep(h)) \/ \E f \in fetching : CMStore(f)
    PROVE  /\ UNCHANGED <<cfg, sess, idents, owners, gcall>>
           /\ UNCHANGED <<fetching, tickets>> \/ Fetches \/ Stores \/ Clears
<1>0. GovTyped /\ InUse  BY DEF GovInv
<1>1. UNCHANGED <<cfg, sess, idents, owners, gcall>>
  BY DEF CMStep, CMFetch, CMStore, CMClear, CMRequire, hostVars, sessVars, gateVars
<1>2. ASSUME NEW h \in Handles, CMFetch(h) PROVE Fetches
  <2>1. PICK t : t = FetchCMTicket(sess[h].who)  OBVIOUS
  <2>2. PICK w \in Words : w = raw  BY <1>0 DEF GovTyped
  <2>3. cfg.from \in Nat /\ cfg.until \in Nat  BY <1>0, ConfigTypes DEF GovTyped
  <2>4. TicketState(w) \in Words  BY WordTypes
  <2>5. sess[h].who \in Someone  BY <1>0 DEF GovTyped, SessionType
  <2>6. /\ t \in TicketType /\ t.by = sess[h].who /\ t.word = w /\ t.state = TicketState(w)
    BY <2>1, <2>2, <2>3, <2>4, <2>5 DEF FetchCMTicket, TicketType
  <2>7. PICK f : f = [n |-> count.fetches, id |-> sess[h].id, ticket |-> t]  OBVIOUS
  <2>8. f.id = sess[h].id /\ f.ticket = t  BY <2>7
  <2>9. fetching' = fetching \cup {f} /\ UNCHANGED tickets /\ Runs(h)
    BY <1>2, <2>1, <2>7 DEF CMFetch
  <2> QED  BY <2>6, <2>8, <2>9 DEF Fetches
<1>3. ASSUME NEW f \in fetching, CMStore(f) PROVE Stores
  BY <1>3 DEF CMStore, Stores
<1>4. ASSUME NEW h \in Handles, CMClear(h) PROVE Clears
  <2>1. sess[h].id \in Ids
    <3>1. sess[h].at # "closed"  BY <1>4 DEF CMClear, Runs
    <3> QED  BY <1>0, <3>1 DEF InUse
  <2> QED  BY <1>4, <2>1 DEF CMClear, Clears
<1>5. ASSUME NEW h \in Handles, NEW cmd \in Cmds, CMRequire(h, cmd)
      PROVE  UNCHANGED <<fetching, tickets>>
  BY <1>5 DEF CMRequire
<1> QED  BY <1>1, <1>2, <1>3, <1>4, <1>5 DEF CMStep

-----------------------------------------------------------------------------
(* Every step keeps each part of the invariant.                            *)

\* Sessions, tickets and bindings change in one of these ways, and then no command
\* moves in the gate.
LEMMA OwnedKinds ==
    ASSUME GovInv, [GovNext]_govVars
    PROVE  \/ UNCHANGED <<sess, idents, owners, fetching, tickets>>
           \/ /\ UNCHANGED <<gcall, ranAll>>
              /\ \/ \E h \in Handles : Opens(h) \/ Starts(h) \/ Ends(h)
                 \/ /\ UNCHANGED <<sess, idents, owners>>
                    /\ Fetches \/ Stores \/ Clears
<1>1. \/ UNCHANGED <<sessVars, fetching, tickets>>
      \/ UNCHANGED gateVars /\ \E h \in Handles : SessionStep(h) \/ CMStep(h)
      \/ UNCHANGED gateVars /\ \E f \in fetching : CMStore(f)
  BY StepKinds
<1>2. CASE UNCHANGED <<sessVars, fetching, tickets>>  BY <1>2 DEF sessVars
<1>3. ASSUME UNCHANGED gateVars, NEW h \in Handles, SessionStep(h)
      PROVE  UNCHANGED <<gcall, ranAll>> /\ (Opens(h) \/ Starts(h) \/ Ends(h))
  BY <1>3, SessionKinds DEF gateVars
<1>4. ASSUME UNCHANGED gateVars,
             (\E h \in Handles : CMStep(h)) \/ \E f \in fetching : CMStore(f)
      PROVE  \/ UNCHANGED <<sess, idents, owners, fetching, tickets>>
             \/ /\ UNCHANGED <<gcall, ranAll, sess, idents, owners>>
                /\ Fetches \/ Stores \/ Clears
  BY <1>4, TicketKinds DEF gateVars
<1> QED  BY <1>1, <1>2, <1>3, <1>4

\* The principals an ID was bound to stay those it was bound to.
LEMMA OwnersGrow ==
    ASSUME GovInv, [GovNext]_govVars
    PROVE  \A id \in Ids : owners[id] \subseteq owners'[id]
<1>1. owners \in [Ids -> SUBSET Principals]  BY DEF GovInv, GovTyped
<1>2. CASE UNCHANGED owners  BY <1>2
<1>3. CASE \E h \in Handles : Opens(h)
  <2>1. PICK i \in Ids, who \in Principals :
           owners' = [owners EXCEPT ![i] = owners[i] \cup {who}]
    BY <1>3 DEF Opens
  <2> QED  BY <1>1, <2>1
<1> QED  BY <1>2, <1>3, OwnedKinds DEF Starts, Ends

\* What changes of the commands in the gate: one enters, moves on or leaves.
LEMMA GateKinds ==
    ASSUME GovInv, [GovNext]_govVars
    PROVE  \/ UNCHANGED gateVars
           \/ \E c \in GateCalls, k \in GateType :
                 /\ gcall' = [gcall EXCEPT ![c] = k] /\ UNCHANGED <<shown, ranAll, refusal>>
                 /\ \/ Advances(c, k)
                    \/ /\ k.at = "policy" /\ k.cmd \in Cmds /\ k.id \in Ids /\ Up
                       /\ k.opener \in owners[k.id] /\ k.ticket = NoTicket
           \/ \E c \in GateCalls :
                 gcall' = [gcall EXCEPT ![c] = AtRest] /\ (LetThrough(c) \/ Remember(c))
<1>1. ASSUME NEW c \in GateCalls, NEW h \in Handles, NEW cmd \in Cmds, Enter(c, h, cmd)
      PROVE  \E k \in GateType :
                 /\ gcall' = [gcall EXCEPT ![c] = k] /\ UNCHANGED <<shown, ranAll, refusal>>
                 /\ k.at = "policy" /\ k.cmd \in Cmds /\ k.id \in Ids /\ Up
                 /\ k.opener \in owners[k.id] /\ k.ticket = NoTicket
  <2>1. sess[h] \in SessionType /\ sess[h].at # "closed"
    BY <1>1 DEF Enter, Runs, GovInv, GovTyped
  <2>2. sess[h].id \in Ids /\ sess[h].who \in owners[sess[h].id] /\ Up
    BY <2>1 DEF GovInv, InUse
  <2>3. PICK k : k = [AtRest EXCEPT !.at = "policy", !.id = sess[h].id,
                     !.cmd = cmd, !.opener = sess[h].who, !.restricted = sess[h].restricted]
    OBVIOUS
  <2>4. /\ k \in GateType /\ k.at = "policy" /\ k.cmd = cmd /\ k.id = sess[h].id
        /\ k.opener = sess[h].who /\ k.ticket = NoTicket
    <3>1. AtRest \in GateType /\ AtRest.ticket = NoTicket  BY Blanks DEF AtRest
    <3>2. sess[h].restricted \in BOOLEAN /\ sess[h].who \in Someone  BY <2>1 DEF SessionType
    <3> QED  BY <3>1, <3>2, <2>2, <2>3 DEF GateType, Stages
  <2>5. gcall' = [gcall EXCEPT ![c] = k] /\ UNCHANGED <<shown, ranAll, refusal>>
    BY <1>1, <2>3 DEF Enter
  <2> QED  BY <2>2, <2>4, <2>5
<1>2. ASSUME NEW c \in GateCalls, GateStep(c)
      PROVE  \/ \E k \in GateType :
                   /\ gcall' = [gcall EXCEPT ![c] = k] /\ UNCHANGED <<shown, ranAll, refusal>>
                   /\ Advances(c, k)
             \/ gcall' = [gcall EXCEPT ![c] = AtRest] /\ (LetThrough(c) \/ Remember(c))
  BY <1>2, GateTakesOn DEF Advances
<1>3. \/ UNCHANGED gateVars
      \/ \E c \in GateCalls : GateStep(c) \/ \E h \in Handles, cmd \in Cmds : Enter(c, h, cmd)
  BY StepKinds
<1> QED  BY <1>1, <1>2, <1>3

LEMMA TypedStep ==
    ASSUME GovInv, [GovNext]_govVars PROVE GovTyped'
<1>0. GovTyped  BY DEF GovInv
<1>1. cfg' \in Configs  BY <1>0, StepKinds DEF GovTyped
<1>2. day' \in Nat /\ raw' \in Words
  <2>1. day' = day \/ day' = day + 1  BY StepKinds
  <2>2. raw' = raw \/ raw' \in ProviderWords  BY StepKinds
  <2>3. day \in Nat /\ raw \in Words  BY <1>0 DEF GovTyped
  <2>4. \A w \in ProviderWords : w \in Words  BY WordTypes
  <2> QED  BY <2>1, <2>2, <2>3, <2>4
<1>3. /\ sess' \in [Handles -> SessionType] /\ idents' \in [Ids -> Binding]
      /\ owners' \in [Ids -> SUBSET Principals] /\ tickets' \in [Ids -> TicketType]
      /\ \A f \in fetching' : f.id \in Ids /\ f.ticket \in TicketType
  <2>0. /\ sess \in [Handles -> SessionType] /\ idents \in [Ids -> Binding]
        /\ owners \in [Ids -> SUBSET Principals] /\ tickets \in [Ids -> TicketType]
        /\ \A f \in fetching : f.id \in Ids /\ f.ticket \in TicketType
    BY <1>0 DEF GovTyped
  <2>1. CASE UNCHANGED <<sess, idents, owners, fetching, tickets>>  BY <2>0, <2>1
  <2>2. CASE \E h \in Handles : Opens(h)
    <3>0. PICK h \in Handles : Opens(h)  BY <2>2
    <3>1. PICK id \in Ids, who \in Principals, s \in SessionType :
             /\ sess' = [sess EXCEPT ![h] = s]
             /\ idents' = [idents EXCEPT ![id] = [who |-> who, refs |-> idents[id].refs + 1]]
             /\ owners' = [owners EXCEPT ![id] = owners[id] \cup {who}]
             /\ UNCHANGED <<fetching, tickets>>
      BY <3>0 DEF Opens
    <3>2. PICK b : b = [who |-> who, refs |-> idents[id].refs + 1]  OBVIOUS
    <3>3. b \in Binding  BY <2>0, <3>2 DEF Binding, Someone
    <3> QED  BY <2>0, <3>1, <3>2, <3>3
  <2>3. CASE \E h \in Handles : Starts(h)
    <3>0. PICK h \in Handles : Starts(h)  BY <2>3
    <3> QED  BY <2>0, <3>0 DEF Starts
  <2>4. CASE \E h \in Handles : Ends(h)
    <3>0. PICK h \in Handles : Ends(h)  BY <2>4
    <3>1. PICK b \in Binding, s \in SessionType :
             /\ idents' = [idents EXCEPT ![sess[h].id] = b] /\ sess' = [sess EXCEPT ![h] = s]
             /\ UNCHANGED <<owners, fetching, tickets>>
      BY <3>0 DEF Ends
    <3> QED  BY <2>0, <3>1
  <2>5. CASE UNCHANGED <<sess, idents, owners>> /\ Fetches
    <3>0. PICK h \in Handles : \E f :
             /\ Runs(h) /\ f.id = sess[h].id /\ f.ticket \in TicketType /\ f.ticket.by = sess[h].who
             /\ fetching' = fetching \cup {f} /\ UNCHANGED tickets
      BY <2>5 DEF Fetches
    <3>1. PICK f :
             /\ Runs(h) /\ f.id = sess[h].id /\ f.ticket \in TicketType
             /\ fetching' = fetching \cup {f} /\ UNCHANGED tickets
      BY <3>0
    <3>2. f.id \in Ids
      <4>1. sess[h].at # "closed"  BY <3>1 DEF Runs
      <4> QED  BY <3>1, <4>1 DEF GovInv, InUse
    <3> QED  BY <2>0, <2>5, <3>1, <3>2
  <2>6. CASE UNCHANGED <<sess, idents, owners>> /\ Stores
    BY <2>0, <2>6 DEF Stores
  <2>7. CASE UNCHANGED <<sess, idents, owners>> /\ Clears
    BY <2>0, <2>7, Blanks DEF Clears
  <2> QED  BY <2>1, <2>2, <2>3, <2>4, <2>5, <2>6, <2>7, OwnedKinds
<1>4. /\ rules' \in [file : {"missing", "whole", "partial"}, rules : SUBSET Cmds]
      /\ editor' \in [Editors -> Edit]
  <2>0. /\ rules \in [file : {"missing", "whole", "partial"}, rules : SUBSET Cmds]
        /\ editor \in [Editors -> Edit]
    BY <1>0 DEF GovTyped
  <2>1. CASE UNCHANGED fileVars  BY <2>0, <2>1 DEF fileVars
  <2>2. CASE \E e \in Editors : EditRules(e)
    <3>0. PICK e \in Editors : EditRules(e)  BY <2>2
    <3>1. PICK r \in Cmds : LoadRules(e, IF r \in rules.rules THEN rules.rules \ {r}
                                         ELSE rules.rules \cup {r})
      BY <3>0 DEF EditRules
    <3>2. PICK edited : /\ edited = IF r \in rules.rules THEN rules.rules \ {r}
                                    ELSE rules.rules \cup {r}
                        /\ LoadRules(e, edited)
      BY <3>1
    <3>3. edited \in SUBSET Cmds  BY <2>0, <3>2
    <3> QED  BY <2>0, <3>2, <3>3 DEF LoadRules, Edit
  <2>3. CASE \E e \in Editors : SaveRules(e)
    <3>0. PICK e \in Editors : SaveRules(e)  BY <2>3
    <3> QED  BY <2>0, <3>0, Blanks DEF SaveRules, Edit
  <2>4. CASE \E e \in Editors : EditorDies(e)
    <3>0. PICK e \in Editors : EditorDies(e)  BY <2>4
    <3> QED  BY <2>0, <3>0 DEF EditorDies, Edit
  <2> QED  BY <2>1, <2>2, <2>3, <2>4, StepKinds
<1>5. gcall' \in [GateCalls -> GateType]
  <2>0. gcall \in [GateCalls -> GateType]  BY <1>0 DEF GovTyped
  <2> QED  BY <2>0, GateKinds, Blanks DEF gateVars
<1>6. shown' \in [Ids -> Cmds \cup {""}] /\ refusal' \in [Ids -> Refused]
  <2>0. shown \in [Ids -> Cmds \cup {""}] /\ refusal \in [Ids -> Refused]
    BY <1>0 DEF GovTyped
  <2>1. CASE \E c \in GateCalls : LetThrough(c)
    <3>0. PICK c \in GateCalls : LetThrough(c)  BY <2>1
    <3> QED  BY <2>0, <3>0, Blanks DEF LetThrough
  <2>2. CASE \E c \in GateCalls : Remember(c)
    <3>0. PICK c \in GateCalls : Remember(c)  BY <2>2
    <3>1. PICK j \in GateType : j = gcall[c]  BY <1>0 DEF GovTyped
    <3>2. PICK d : d = [cmd |-> j.cmd, why |-> j.why]  OBVIOUS
    <3>3. d \in Refused /\ j.cmd \in Cmds \cup {""}  BY <3>2 DEF GateType, Refused
    <3>4. refusal' = [refusal EXCEPT ![j.id] = d]  BY <3>0, <3>1, <3>2 DEF Remember
    <3>5. PICK w : w = IF ExplainCommand(j.id, j.cmd) # "allowed" THEN j.cmd ELSE shown[j.id]
      OBVIOUS
    <3>6. shown' = [shown EXCEPT ![j.id] = w]  BY <3>0, <3>1, <3>5 DEF Remember
    <3> QED  BY <2>0, <3>3, <3>4, <3>5, <3>6
  <2> QED  BY <2>0, <2>1, <2>2, GateKinds DEF gateVars
<1> QED  BY <1>1, <1>2, <1>3, <1>4, <1>5, <1>6 DEF GovTyped

LEMMA InUseStep ==
    ASSUME GovInv, [GovNext]_govVars PROVE InUse'
<1>0. GovTyped /\ InUse  BY DEF GovInv
<1>1. cfg' = cfg /\ (engine' = engine \/ NewEngine)  BY StepKinds
<1>2. (Buildable' <=> Buildable) /\ (engine = "up" => engine' = "up")
      /\ (engine' = "up" => Buildable')
  BY <1>0, <1>1 DEF Buildable, NewEngine, InUse
<1>3. \A id \in Ids : owners[id] \subseteq owners'[id]  BY OwnersGrow
<1>4. Up => Up'  BY <1>2 DEF Up
<1>5. ASSUME NEW h \in Handles
      PROVE  IF sess[h].at = "closed" THEN sess[h] = Closed
             ELSE /\ sess[h].bound = (sess[h].at # "ended")
                  /\ sess[h].id \in Ids /\ sess[h].who \in owners[sess[h].id] /\ Up
  BY <1>0 DEF InUse
<1>6. ASSUME NEW h \in Handles
      PROVE  IF sess'[h].at = "closed" THEN sess'[h] = Closed
             ELSE /\ sess'[h].bound = (sess'[h].at # "ended")
                  /\ sess'[h].id \in Ids /\ sess'[h].who \in owners'[sess'[h].id] /\ Up'
  <2>0. Closed.at = "closed"  BY DEF Closed
  <2>1. CASE UNCHANGED sess  BY <1>3, <1>4, <1>5, <2>1
  <2>2. CASE \E x \in Handles : Opens(x)
    <3>0. PICK x \in Handles : Opens(x)  BY <2>2
    <3>1. PICK id \in Ids, who \in Principals, s \in SessionType :
             /\ engine = "up" /\ s.at = "building" /\ s.id = id /\ s.who = who /\ s.bound
             /\ sess' = [sess EXCEPT ![x] = s]
             /\ owners' = [owners EXCEPT ![id] = owners[id] \cup {who}]
      BY <3>0 DEF Opens
    <3>2. Up /\ s.bound = TRUE  BY <3>1, <1>0 DEF Up, InUse, SessionType
    <3>3. CASE h = x  BY <1>0, <1>4, <3>1, <3>2, <3>3 DEF GovTyped
    <3>4. CASE h # x
      <4>1. sess'[h] = sess[h]  BY <1>0, <3>1, <3>4 DEF GovTyped
      <4> QED  BY <1>3, <1>4, <1>5, <4>1
    <3> QED  BY <3>3, <3>4
  <2>3. CASE \E x \in Handles : Starts(x)
    <3>0. PICK x \in Handles : Starts(x)  BY <2>3
    <3>1. PICK s \in SessionType :
             /\ sess[x].at = "building" /\ s.at = "open" /\ s.id = sess[x].id
             /\ s.who = sess[x].who /\ s.bound = sess[x].bound
             /\ sess' = [sess EXCEPT ![x] = s]
      BY <3>0 DEF Starts
    <3>3. CASE h = x
      <4>1. sess'[h] = s  BY <1>0, <3>1, <3>3 DEF GovTyped
      <4> QED  BY <1>3, <1>4, <1>5, <3>1, <3>3, <4>1
    <3>4. CASE h # x
      <4>1. sess'[h] = sess[h]  BY <1>0, <3>1, <3>4 DEF GovTyped
      <4> QED  BY <1>3, <1>4, <1>5, <4>1
    <3> QED  BY <3>3, <3>4
  <2>4. CASE \E x \in Handles : Ends(x)
    <3>0. PICK x \in Handles : Ends(x)  BY <2>4
    <3>1. PICK s \in SessionType :
             /\ sess[x].at \in {"building", "open"}
             /\ s = Closed \/ (s.at = "ended" /\ s.id = sess[x].id /\ s.who = sess[x].who)
             /\ ~s.bound /\ sess' = [sess EXCEPT ![x] = s]
      BY <3>0 DEF Ends
    <3>2. s.bound = FALSE  BY <3>1 DEF SessionType
    <3>3. CASE h = x
      <4>1. sess'[h] = s  BY <1>0, <3>1, <3>3 DEF GovTyped
      <4>2. CASE s = Closed  BY <2>0, <4>1, <4>2
      <4>3. CASE s.at = "ended" /\ s.id = sess[h].id /\ s.who = sess[h].who
        <5>1. sess[h].id \in Ids /\ sess[h].who \in owners[sess[h].id] /\ Up
          BY <1>5, <3>1, <3>3
        <5>2. s.who \in owners'[s.id] /\ s.bound = (s.at # "ended")
          BY <1>3, <3>2, <4>3, <5>1
        <5> QED  BY <1>4, <4>1, <4>3, <5>1, <5>2
      <4> QED  BY <3>1, <3>3, <4>2, <4>3
    <3>4. CASE h # x
      <4>1. sess'[h] = sess[h]  BY <1>0, <3>1, <3>4 DEF GovTyped
      <4> QED  BY <1>3, <1>4, <1>5, <4>1
    <3> QED  BY <3>3, <3>4
  <2> QED  BY <2>1, <2>2, <2>3, <2>4, OwnedKinds
<1>7. ASSUME NEW c \in GateCalls, gcall'[c].at # "idle"
      PROVE  gcall'[c].id \in Ids /\ gcall'[c].cmd \in Cmds /\ Up'
  <2>0. /\ gcall \in [GateCalls -> GateType]
        /\ gcall[c].at # "idle" => gcall[c].id \in Ids /\ gcall[c].cmd \in Cmds /\ Up
    BY <1>0 DEF InUse, GovTyped
  <2>1. CASE UNCHANGED gcall  BY <1>3, <1>4, <1>7, <2>0, <2>1
  <2>2. CASE \E x \in GateCalls, k \in GateType :
            /\ gcall' = [gcall EXCEPT ![x] = k]
            /\ \/ Advances(x, k)
               \/ k.at = "policy" /\ k.cmd \in Cmds /\ k.id \in Ids /\ Up
    <3>0. PICK x \in GateCalls, k \in GateType :
              /\ gcall' = [gcall EXCEPT ![x] = k]
              /\ \/ Advances(x, k)
                 \/ k.at = "policy" /\ k.cmd \in Cmds /\ k.id \in Ids /\ Up
      BY <2>2
    <3>1. Advances(x, k) => /\ k.id \in Ids /\ k.cmd \in Cmds /\ Up
      BY <1>0 DEF Advances, InUse
    <3> QED  BY <1>3, <1>4, <1>7, <2>0, <3>0, <3>1
  <2>3. CASE \E x \in GateCalls : gcall' = [gcall EXCEPT ![x] = AtRest]
    <3>0. PICK x \in GateCalls : gcall' = [gcall EXCEPT ![x] = AtRest]  BY <2>3
    <3>1. AtRest.at = "idle"  BY DEF AtRest
    <3> QED  BY <1>3, <1>4, <1>7, <2>0, <3>0, <3>1
  <2> QED  BY <2>1, <2>2, <2>3, GateKinds DEF gateVars
<1> QED  BY <1>2, <1>6, <1>7 DEF InUse

LEMMA RulesStep ==
    ASSUME GovInv, [GovNext]_govVars PROVE RulesOK'
<1>0. RulesOK /\ GovTyped  BY DEF GovInv
<1>1. CASE UNCHANGED fileVars  BY <1>0, <1>1 DEF fileVars, RulesOK
<1>2. CASE \E e \in Editors : EditRules(e)
  <2>1. PICK e \in Editors, r \in Cmds :
           /\ r \notin BaseRules
           /\ LoadRules(e, IF r \in rules.rules THEN rules.rules \ {r} ELSE rules.rules \cup {r})
    BY <1>2 DEF EditRules
  <2>2. PICK edited : edited = IF r \in rules.rules THEN rules.rules \ {r}
                               ELSE rules.rules \cup {r}
    OBVIOUS
  <2>3. /\ rules.file # "partial" /\ rules' = rules
        /\ editor' = [editor EXCEPT ![e] = [at |-> "save", rules |-> edited]]
    BY <2>1, <2>2 DEF LoadRules
  <2>4. rules.file \in {"missing", "whole"}  BY <1>0, <2>3 DEF GovTyped
  <2>5. BaseRules \subseteq edited  BY <1>0, <2>1, <2>2, <2>4 DEF RulesOK
  <2> QED  BY <1>0, <2>3, <2>5 DEF RulesOK, GovTyped
<1>3. CASE \E e \in Editors : SaveRules(e)
  <2>1. PICK e \in Editors : SaveRules(e)  BY <1>3
  <2>2. CASE editor[e].at = "save"
    <3>1. /\ rules' = [file |-> "partial", rules |-> {}]
          /\ editor' = [editor EXCEPT ![e].at = "write"]
      BY <2>1, <2>2 DEF SaveRules
    <3> QED  BY <1>0, <2>2, <3>1 DEF RulesOK, GovTyped, Edit
  <2>3. CASE editor[e].at = "write"
    <3>1. /\ rules' = [file |-> "whole", rules |-> editor[e].rules]
          /\ editor' = [editor EXCEPT ![e] = NoEdit]
      BY <2>1, <2>3 DEF SaveRules
    <3> QED  BY <1>0, <2>3, <3>1 DEF RulesOK, GovTyped, NoEdit
  <2> QED  BY <2>1, <2>2, <2>3 DEF SaveRules
<1>4. CASE \E e \in Editors : EditorDies(e)
  <2>1. PICK e \in Editors : /\ rules' = rules
                            /\ editor' = [editor EXCEPT ![e].at = "dead"]
    BY <1>4 DEF EditorDies
  <2> QED  BY <1>0, <2>1 DEF RulesOK, GovTyped, Edit
<1> QED  BY <1>1, <1>2, <1>3, <1>4, StepKinds

\* The sessions that hold an ID.
Holders(id) == {h \in Handles : sess[h].bound /\ sess[h].id = id}

LEMMA BoundStep ==
    ASSUME GovInv, [GovNext]_govVars PROVE Bound'
<1>0. Bound /\ GovTyped /\ InUse  BY DEF GovInv
<1>s. SUFFICES ASSUME NEW id \in Ids
               PROVE  /\ idents'[id].refs = Cardinality(Holders(id)')
                      /\ \A h \in Holders(id)' : idents'[id].who = sess'[h].who
                      /\ idents'[id].refs = 0 => idents'[id].who = Nobody
  BY DEF Bound, BindingsCounted, Holders
<1>1. /\ idents[id].refs = Cardinality(Holders(id))
      /\ \A h \in Holders(id) : idents[id].who = sess[h].who
      /\ idents[id].refs = 0 => idents[id].who = Nobody
  BY <1>0 DEF Bound, BindingsCounted, Holders
<1>2. IsFiniteSet(Holders(id))
  <2>1. Holders(id) \subseteq Handles  BY DEF Holders
  <2> QED  BY <2>1, FS_Subset, GovAssumption
<1>3. CASE UNCHANGED <<sess, idents>>
  <2>1. Holders(id)' = Holders(id)  BY <1>3 DEF Holders
  <2> QED  BY <1>1, <1>3, <2>1
<1>4. CASE \E h \in Handles : Opens(h)
  <2>0. PICK h \in Handles : Opens(h)  BY <1>4
  <2>1. PICK i \in Ids, who \in Principals, s \in SessionType :
           /\ sess[h].at \in {"closed", "ended"} /\ MayBind(i, who)
           /\ s.id = i /\ s.who = who /\ s.bound
           /\ sess' = [sess EXCEPT ![h] = s]
           /\ idents' = [idents EXCEPT ![i] = [who |-> who, refs |-> idents[i].refs + 1]]
    BY <2>0 DEF Opens
  <2>2. h \notin Holders(id)
    <3>1. ~Closed.bound  BY DEF Closed
    <3>2. ~sess[h].bound  BY <1>0, <2>1, <3>1 DEF InUse
    <3> QED  BY <3>2 DEF Holders
  <2>3. CASE id = i
    <3>1. Holders(id)' = Holders(id) \cup {h}  BY <1>0, <2>1, <2>3 DEF Holders, GovTyped
    <3>2. Cardinality(Holders(id)') = Cardinality(Holders(id)) + 1
      BY <1>2, <2>2, <3>1, FS_AddElement
    <3>3. idents'[id].refs = idents[id].refs + 1 /\ idents'[id].who = who
      BY <1>0, <2>1, <2>3 DEF GovTyped
    <3>4. idents[id].refs \in Nat  BY <1>0 DEF GovTyped, Binding
    <3>5. idents[id].refs > 0 => idents[id].who = who  BY <2>1, <2>3 DEF MayBind
    <3>6. idents[id].refs = 0 => Holders(id) = {}  BY <1>1, <1>2, FS_EmptySet
    <3>7. ASSUME NEW x \in Holders(id)' PROVE sess'[x].who = who
      <4>1. CASE x = h  BY <1>0, <2>1, <4>1 DEF GovTyped
      <4>2. CASE x # h
        <5>1. x \in Holders(id) /\ x \in Handles  BY <3>1, <3>7, <4>2 DEF Holders
        <5>2. sess[x].who = who  BY <1>1, <3>4, <3>5, <3>6, <5>1
        <5> QED  BY <1>0, <2>1, <4>2, <5>1, <5>2 DEF GovTyped
      <4> QED  BY <4>1, <4>2
    <3> QED  BY <1>1, <2>1, <2>3, <3>2, <3>3, <3>4, <3>7
  <2>4. CASE id # i
    <3>1. Holders(id)' = Holders(id)  BY <1>0, <2>1, <2>2, <2>4 DEF Holders, GovTyped
    <3>2. idents'[id] = idents[id]  BY <1>0, <2>1, <2>4 DEF GovTyped
    <3>3. \A x \in Holders(id) : sess'[x] = sess[x]
      BY <1>0, <2>1, <2>2 DEF Holders, GovTyped
    <3> QED  BY <1>1, <2>1, <3>1, <3>2, <3>3
  <2> QED  BY <2>3, <2>4
<1>5. CASE \E h \in Handles : Starts(h)
  <2>0. PICK h \in Handles : Starts(h)  BY <1>5
  <2>1. PICK s \in SessionType :
           /\ s.id = sess[h].id /\ s.who = sess[h].who /\ s.bound = sess[h].bound
           /\ sess' = [sess EXCEPT ![h] = s] /\ UNCHANGED idents
    BY <2>0 DEF Starts
  <2>2. Holders(id)' = Holders(id)  BY <1>0, <2>1 DEF Holders, GovTyped
  <2>3. \A x \in Handles : sess'[x].who = sess[x].who  BY <1>0, <2>1 DEF GovTyped
  <2> QED  BY <1>1, <2>1, <2>2, <2>3 DEF Holders
<1>6. CASE \E h \in Handles : Ends(h)
  <2>0. PICK h \in Handles : Ends(h)  BY <1>6
  <2>1. PICK i \in Ids : i = sess[h].id  BY <1>0, <2>0 DEF Ends, GovTyped
  <2>2. PICK b \in Binding, s \in SessionType :
           /\ sess[h].bound /\ ~s.bound
           /\ sess' = [sess EXCEPT ![h] = s] /\ idents' = [idents EXCEPT ![i] = b]
           /\ IF idents[i].refs <= 1 THEN b.refs = 0 /\ b.who = Nobody
              ELSE b.refs = idents[i].refs - 1 /\ b.who = idents[i].who
    BY <2>0, <2>1 DEF Ends
  <2>3. \A x \in Handles : x # h => sess'[x] = sess[x]  BY <1>0, <2>2 DEF GovTyped
  <2>4. ~sess'[h].bound  BY <1>0, <2>2 DEF GovTyped
  <2>5. CASE id = i
    <3>1. h \in Holders(id)  BY <2>1, <2>2, <2>5 DEF Holders
    <3>2. Holders(id)' = Holders(id) \ {h}  BY <2>3, <2>4 DEF Holders
    <3>3. Cardinality(Holders(id)') = Cardinality(Holders(id)) - 1
      BY <1>2, <3>1, <3>2, FS_RemoveElement
    <3>4. Cardinality(Holders(id)) \in Nat /\ Cardinality(Holders(id)) # 0
      BY <1>2, <3>1, FS_CardinalityType, FS_EmptySet
    <3>5. idents'[id] = b  BY <1>0, <2>2, <2>5 DEF GovTyped
    <3>6. b.refs = Cardinality(Holders(id)')  BY <1>1, <2>2, <2>5, <3>3, <3>4
    <3>7. IsFiniteSet(Holders(id)')  BY <1>2, <3>2, FS_Subset
    <3>8. ASSUME NEW x \in Holders(id)' PROVE b.who = sess'[x].who
      <4>1. x \in Holders(id) /\ x # h /\ x \in Handles  BY <3>2, <3>8 DEF Holders
      <4>2. b.refs # 0  BY <3>6, <3>7, <3>8, FS_EmptySet
      <4>3. b.who = idents[id].who  BY <2>2, <2>5, <4>2
      <4> QED  BY <1>1, <2>3, <4>1, <4>3
    <3>9. b.refs = 0 => b.who = Nobody
      BY <1>1, <2>2, <2>5, <3>4
    <3> QED  BY <2>2, <2>5, <3>5, <3>6, <3>8, <3>9
  <2>6. CASE id # i
    <3>1. h \notin Holders(id)  BY <2>1, <2>6 DEF Holders
    <3>2. Holders(id)' = Holders(id)  BY <2>3, <2>4, <3>1 DEF Holders
    <3>3. idents'[id] = idents[id]  BY <1>0, <2>2, <2>6 DEF GovTyped
    <3>4. \A x \in Holders(id) : sess'[x] = sess[x]  BY <2>3, <3>1 DEF Holders
    <3> QED  BY <1>1, <2>2, <3>2, <3>3, <3>4
  <2> QED  BY <2>5, <2>6
<1> QED  BY <1>3, <1>4, <1>5, <1>6, OwnedKinds

\* What the gate holds under an ID came from a principal of the ID.
LEMMA CallStaysOwned ==
    ASSUME GovInv, [GovNext]_govVars, NEW c \in GateCalls, gcall'[c].at # "idle"
    PROVE  CallOwned(gcall[c])'
<1>0. GovTyped /\ InUse /\ Bound /\ Owned  BY DEF GovInv
<1>1. \A id \in Ids : owners[id] \subseteq owners'[id]  BY OwnersGrow
<1>2. ASSUME NEW k, k.id \in Ids, CallOwned(k) PROVE CallOwned(k)'
  BY <1>1, <1>2 DEF CallOwned, Named
<1>3. CASE gcall'[c] = gcall[c]
  <2>1. CallOwned(gcall[c]) /\ gcall[c].id \in Ids  BY <1>0, <1>3 DEF Owned, InUse
  <2>2. PICK k : k = gcall[c]  OBVIOUS
  <2>3. CallOwned(k)'  BY <1>2, <2>1, <2>2
  <2>4. gcall'[c] = k  BY <1>3, <2>2
  <2> QED  BY <2>3, <2>4 DEF CallOwned, Named
<1>4. ASSUME NEW k \in GateType, gcall'[c] = k, Advances(c, k) PROVE CallOwned(gcall[c])'
  <2>1. CallOwned(gcall[c]) /\ gcall[c].id \in Ids /\ k.id = gcall[c].id
    BY <1>0, <1>4 DEF Owned, InUse, Advances
  <2>2. k.opener \in owners[k.id]  BY <1>4, <2>1 DEF CallOwned, Advances
  <2>3. ASSUME Named(k) PROVE k.who \in owners[k.id]
    <3>1. CASE Named(gcall[c]) /\ k.who = gcall[c].who  BY <2>1, <3>1 DEF CallOwned
    <3>2. CASE k.who = Identity(k.id) /\ k.who # Nobody
      <4>1. idents[k.id].who = k.who /\ idents[k.id].refs \in Nat
        BY <1>0, <2>1, <3>2 DEF Identity, GovTyped, Binding
      <4>2. idents[k.id].refs > 0  BY <1>0, <2>1, <3>2, <4>1 DEF Bound
      <4> QED  BY <1>0, <2>1, <4>1, <4>2 DEF Owned
    <3> QED  BY <1>4, <2>3, <3>1, <3>2 DEF Advances
  <2>4. k.ticket # NoTicket => k.ticket.by \in owners[k.id]
    <3>1. CASE k.ticket = gcall[c].ticket  BY <2>1, <3>1 DEF CallOwned
    <3>2. CASE k.ticket = tickets[k.id]  BY <1>0, <2>1, <3>2 DEF Owned
    <3> QED  BY <1>4, <3>1, <3>2 DEF Advances
  <2>5. CallOwned(k)'  BY <1>2, <2>1, <2>2, <2>3, <2>4 DEF CallOwned
  <2> QED  BY <1>4, <2>5 DEF CallOwned, Named
<1>5. ASSUME NEW k \in GateType, gcall'[c] = k, k.at = "policy", k.id \in Ids,
             k.opener \in owners[k.id], k.ticket = NoTicket
      PROVE  CallOwned(gcall[c])'
  <2>1. ~Named(k)  BY <1>5 DEF Named, Known
  <2>2. CallOwned(k)'  BY <1>2, <1>5, <2>1 DEF CallOwned
  <2> QED  BY <1>5, <2>2 DEF CallOwned, Named
<1>6. gcall \in [GateCalls -> GateType]  BY <1>0 DEF GovTyped
<1>7. AtRest.at = "idle"  BY DEF AtRest
<1>8. CASE UNCHANGED gateVars  BY <1>3, <1>8 DEF gateVars
<1>9. CASE \E x \in GateCalls, k \in GateType :
              /\ gcall' = [gcall EXCEPT ![x] = k]
              /\ \/ Advances(x, k)
                 \/ /\ k.at = "policy" /\ k.cmd \in Cmds /\ k.id \in Ids /\ Up
                    /\ k.opener \in owners[k.id] /\ k.ticket = NoTicket
  <2>1. PICK x \in GateCalls, k \in GateType :
              /\ gcall' = [gcall EXCEPT ![x] = k]
              /\ \/ Advances(x, k)
                 \/ /\ k.at = "policy" /\ k.cmd \in Cmds /\ k.id \in Ids /\ Up
                    /\ k.opener \in owners[k.id] /\ k.ticket = NoTicket
    BY <1>9
  <2>2. CASE x = c
    <3>1. gcall'[c] = k  BY <1>6, <2>1, <2>2
    <3> QED  BY <1>4, <1>5, <2>1, <2>2, <3>1
  <2>3. CASE x # c
    <3>1. gcall'[c] = gcall[c]  BY <1>6, <2>1, <2>3
    <3> QED  BY <1>3, <3>1
  <2> QED  BY <2>2, <2>3
<1>10. CASE \E x \in GateCalls : gcall' = [gcall EXCEPT ![x] = AtRest]
  <2>1. PICK x \in GateCalls : gcall' = [gcall EXCEPT ![x] = AtRest]  BY <1>10
  <2>2. gcall'[c] = gcall[c]  BY <1>6, <1>7, <2>1
  <2> QED  BY <1>3, <2>2
<1> QED  BY <1>8, <1>9, <1>10, GateKinds

LEMMA OwnedStep ==
    ASSUME GovInv, [GovNext]_govVars PROVE Owned'
<1>0. GovTyped /\ InUse /\ Bound /\ Owned  BY DEF GovInv
<1>1. \A id \in Ids : owners[id] \subseteq owners'[id]  BY OwnersGrow
<1>2. \A c \in GateCalls : gcall'[c].at # "idle" => CallOwned(gcall[c])'  BY CallStaysOwned
<1>3. \A r \in ranAll' : r.id \in Ids
  <2>1. CASE UNCHANGED ranAll  BY <1>0, <2>1 DEF Owned
  <2>2. ASSUME NEW c \in GateCalls, LetThrough(c) PROVE \A r \in ranAll' : r.id \in Ids
    <3>1. gcall[c].at # "idle"  BY <2>2 DEF LetThrough
    <3>2. gcall[c].id \in Ids  BY <1>0, <3>1 DEF InUse
    <3>3. ASSUME NEW r \in ranAll' PROVE r \in ranAll \/ r.id = gcall[c].id
      <4>1. PICK j : j = gcall[c]  OBVIOUS
      <4>2. PICK q : q = [id |-> j.id, cmd |-> j.cmd, opener |-> j.opener, who |-> j.who,
                          restricted |-> j.restricted, covered |-> j.covered,
                          ticket |-> j.ticket, day |-> j.day, approved |-> j.approved]
        OBVIOUS
      <4>3. ranAll' = ranAll \cup {q}  BY <2>2, <4>1, <4>2 DEF LetThrough
      <4> QED  BY <3>3, <4>1, <4>2, <4>3
    <3> QED  BY <1>0, <3>2, <3>3 DEF Owned
  <2>3. ASSUME NEW c \in GateCalls, Remember(c) PROVE \A r \in ranAll' : r.id \in Ids
    BY <2>1, <2>3 DEF Remember
  <2> QED  BY <2>1, <2>2, <2>3, GateKinds DEF gateVars
<1>4. /\ \A id \in Ids : idents'[id].refs > 0 => idents'[id].who \in owners'[id]
      /\ \A id \in Ids : tickets'[id] # NoTicket => tickets'[id].by \in owners'[id]
      /\ \A f \in fetching' : f.ticket.by \in owners'[f.id]
  <2>0. /\ \A id \in Ids : idents[id].refs > 0 => idents[id].who \in owners[id]
        /\ \A id \in Ids : tickets[id] # NoTicket => tickets[id].by \in owners[id]
        /\ \A f \in fetching : f.id \in Ids /\ f.ticket.by \in owners[f.id]
        /\ owners \in [Ids -> SUBSET Principals] /\ idents \in [Ids -> Binding]
        /\ tickets \in [Ids -> TicketType]
    BY <1>0 DEF Owned, GovTyped
  <2>1. CASE UNCHANGED <<idents, fetching, tickets>>  BY <1>1, <2>0, <2>1
  <2>2. CASE \E h \in Handles : Opens(h)
    <3>1. PICK i \in Ids, who \in Principals :
             /\ idents' = [idents EXCEPT ![i] = [who |-> who, refs |-> idents[i].refs + 1]]
             /\ owners' = [owners EXCEPT ![i] = owners[i] \cup {who}]
             /\ UNCHANGED <<fetching, tickets>>
      BY <2>2 DEF Opens
    <3>2. \A id \in Ids : idents'[id].refs > 0 => idents'[id].who \in owners'[id]
      BY <1>1, <2>0, <3>1
    <3> QED  BY <1>1, <2>0, <3>1, <3>2
  <2>3. CASE \E h \in Handles : Ends(h)
    <3>1. PICK i \in Ids, b \in Binding :
             /\ idents' = [idents EXCEPT ![i] = b]
             /\ IF idents[i].refs <= 1 THEN b.refs = 0 /\ b.who = Nobody
                ELSE b.refs = idents[i].refs - 1 /\ b.who = idents[i].who
             /\ UNCHANGED <<owners, fetching, tickets>>
      BY <2>3 DEF Ends
    <3>2. idents[i].refs \in Nat  BY <2>0 DEF Binding
    <3>3. b.refs > 0 => b.who \in owners[i]  BY <2>0, <3>1, <3>2
    <3> QED  BY <2>0, <3>1, <3>3
  <2>4. CASE UNCHANGED <<sess, idents, owners>> /\ Fetches
    <3>0. PICK h \in Handles : \E f :
             /\ Runs(h) /\ f.id = sess[h].id /\ f.ticket \in TicketType /\ f.ticket.by = sess[h].who
             /\ fetching' = fetching \cup {f} /\ UNCHANGED tickets
      BY <2>4 DEF Fetches
    <3>1. PICK f :
             /\ Runs(h) /\ f.id = sess[h].id /\ f.ticket.by = sess[h].who
             /\ fetching' = fetching \cup {f} /\ UNCHANGED tickets
      BY <3>0
    <3>2. sess[h].at # "closed"  BY <3>1 DEF Runs
    <3>3. sess[h].who \in owners[sess[h].id]  BY <1>0, <3>2 DEF InUse
    <3>4. f.ticket.by \in owners[f.id]  BY <3>1, <3>3
    <3> QED  BY <2>0, <2>4, <3>1, <3>4
  <2>5. CASE UNCHANGED <<sess, idents, owners>> /\ Stores
    BY <2>0, <2>5 DEF Stores
  <2>6. CASE UNCHANGED <<sess, idents, owners>> /\ Clears
    BY <2>0, <2>6 DEF Clears
  <2> QED  BY <2>1, <2>2, <2>3, <2>4, <2>5, <2>6, OwnedKinds DEF Starts
<1> QED  BY <1>2, <1>3, <1>4 DEF Owned

LEMMA TicketsStep ==
    ASSUME GovInv, [GovNext]_govVars PROVE TicketsOK'
<1>0. /\ GovTyped /\ InUse /\ TicketsOK /\ cfg' = cfg  BY StepKinds DEF GovInv
<1>1. CASE UNCHANGED <<fetching, tickets>>
  BY <1>0, <1>1 DEF TicketsOK, TicketOK, TicketState
<1>2. CASE Fetches
  <2>1. PICK f : /\ f.ticket.state = TicketState(f.ticket.word)
                 /\ fetching' = fetching \cup {f} /\ UNCHANGED tickets
    BY <1>2 DEF Fetches
  <2> QED  BY <1>0, <2>1 DEF TicketsOK, TicketOK, TicketState
<1>3. CASE Stores
  <2>1. PICK f \in fetching :
           /\ fetching' = fetching \ {f}
           /\ UNCHANGED tickets \/ tickets' = [tickets EXCEPT ![f.id] = f.ticket]
    BY <1>3 DEF Stores
  <2>2. ASSUME NEW i \in Ids PROVE tickets'[i] \in {tickets[i], f.ticket}
    BY <1>0, <2>1 DEF GovTyped
  <2>3. \A t : TicketOK(t) => TicketOK(t)'  BY <1>0 DEF TicketOK, TicketState
  <2>4. TicketOK(f.ticket)  BY <1>0, <2>1 DEF TicketsOK, TicketOK, TicketState
  <2>5. \A i \in Ids : TicketOK(tickets'[i])
    <3> SUFFICES ASSUME NEW i \in Ids PROVE TicketOK(tickets'[i])
      OBVIOUS
    <3>1. CASE tickets'[i] = tickets[i]  BY <1>0, <3>1 DEF TicketsOK
    <3>2. CASE tickets'[i] = f.ticket  BY <2>4, <3>2
    <3> QED  BY <2>2, <3>1, <3>2
  <2> QED  BY <1>0, <2>1, <2>3, <2>5 DEF TicketsOK, TicketOK, TicketState
<1>4. CASE Clears
  <2>1. PICK id \in Ids : tickets' = [tickets EXCEPT ![id] = NoTicket] /\ UNCHANGED fetching
    BY <1>4 DEF Clears
  <2>2. ASSUME NEW i \in Ids PROVE tickets'[i] \in {tickets[i], NoTicket}
    BY <1>0, <2>1 DEF GovTyped
  <2>3. \A t : TicketOK(t) => TicketOK(t)'  BY <1>0 DEF TicketOK, TicketState
  <2>4. TicketOK(NoTicket)  BY DEF TicketOK
  <2>5. \A i \in Ids : TicketOK(tickets'[i])
    <3> SUFFICES ASSUME NEW i \in Ids PROVE TicketOK(tickets'[i])
      OBVIOUS
    <3>1. CASE tickets'[i] = tickets[i]  BY <1>0, <3>1 DEF TicketsOK
    <3>2. CASE tickets'[i] = NoTicket  BY <2>4, <3>2
    <3> QED  BY <2>2, <3>1, <3>2
  <2> QED  BY <1>0, <2>1, <2>3, <2>5 DEF TicketsOK, TicketOK, TicketState
<1> QED  BY <1>1, <1>2, <1>3, <1>4, OwnedKinds DEF Opens, Starts, Ends

\* What RanAuthorized and TicketHeld say of one command that was let through: of its
\* session ID, and of the rest.
Granted(r) ==
    \E g \in {cfg.users[r.who.user]} \cup {cfg.groups[x] : x \in r.who.groups} :
        {r.cmd, "*"} \cap g # {}

OfItsID(r) ==
    /\ {r.opener, r.who} \subseteq owners[r.id]
    /\ (r.covered /\ cfg.strict) => r.ticket.by \in owners[r.id]

Authorized(r) ==
    /\ cfg.require => cfg.policy = "loaded"
    /\ PolicyPermits(r.cmd)
    /\ cfg.ents = "loaded" => Granted(r)
    /\ r.cmd \in BaseRules => r.approved /\ cfg.build = "ee"
    /\ ~(r.restricted /\ r.cmd \in Barred)

Held(r) ==
    (r.covered /\ cfg.strict) =>
        /\ cfg.build = "ee"
        /\ r.ticket.word \in {"approved", "implement", "In Progress"}
        /\ r.day >= r.ticket.from
        /\ r.ticket.until # 0 => r.day <= r.ticket.until

LEMMA RanParts ==
    (RanAuthorized /\ TicketHeld) <=> \A r \in ranAll : OfItsID(r) /\ Authorized(r) /\ Held(r)
<1>1. ASSUME NEW r \in ranAll, RanAuthorized, TicketHeld PROVE OfItsID(r)
  BY <1>1 DEF RanAuthorized, TicketHeld, OfItsID
<1>2. ASSUME NEW r \in ranAll, RanAuthorized, TicketHeld PROVE Authorized(r) /\ Held(r)
  BY <1>2 DEF RanAuthorized, TicketHeld, Authorized, Granted, Held
<1>3. ASSUME \A r \in ranAll : OfItsID(r) /\ Authorized(r) /\ Held(r) PROVE RanAuthorized
  BY <1>3 DEF RanAuthorized, OfItsID, Authorized, Granted
<1>4. ASSUME \A r \in ranAll : OfItsID(r) /\ Authorized(r) /\ Held(r) PROVE TicketHeld
  BY <1>4 DEF TicketHeld, OfItsID, Held
<1> QED  BY <1>1, <1>2, <1>3, <1>4

\* What a call was asked depends on the configuration only, which no step changes.
LEMMA AskedKept ==
    ASSUME UNCHANGED cfg
    PROVE  /\ \A k : Asked(k)' <=> Asked(k)
           /\ \A r : (Authorized(r)' <=> Authorized(r)) /\ (Held(r)' <=> Held(r))
<1>1. \A who, cmd : IsAuthorized(who, cmd)' <=> IsAuthorized(who, cmd)
  BY DEF IsAuthorized
<1>2. \A who, cmd : EntitlementsAllow(who, cmd)' <=> EntitlementsAllow(who, cmd)
  BY <1>1 DEF EntitlementsAllow
<1>3. \A cmd : EvaluatePolicyDecision(cmd)' <=> EvaluatePolicyDecision(cmd)
  BY DEF EvaluatePolicyDecision, DecisionAllows
<1>4. \A k : TicketCovers(k)' <=> TicketCovers(k)  BY DEF TicketCovers
<1>5. \A k : Asked(k)' <=> Asked(k)  BY <1>2, <1>3, <1>4 DEF Asked
<1>6. \A cmd : PolicyPermits(cmd)' <=> PolicyPermits(cmd)  BY DEF PolicyPermits
<1>7. \A r : Granted(r)' <=> Granted(r)  BY DEF Granted
<1>8. \A r : Authorized(r)' <=> Authorized(r)  BY <1>6, <1>7 DEF Authorized
<1>9. \A r : Held(r)' <=> Held(r)  BY DEF Held
<1> QED  BY <1>5, <1>8, <1>9

LEMMA AskedStep ==
    ASSUME GovInv, [GovNext]_govVars PROVE AllAsked'
<1>0. GovTyped /\ AllAsked /\ cfg' = cfg  BY StepKinds DEF GovInv
<1>1. CASE UNCHANGED gcall
  BY <1>0, <1>1, AskedKept DEF AllAsked
<1>2. ASSUME NEW x \in GateCalls, NEW k \in GateType, gcall' = [gcall EXCEPT ![x] = k], Asked(k)
      PROVE  AllAsked'
  <2>1. \A c \in GateCalls : gcall'[c] = gcall[c] \/ gcall'[c] = k
    BY <1>0, <1>2 DEF GovTyped
  <2> QED  BY <1>0, <1>2, <2>1, AskedKept DEF AllAsked
<1>3. \A k \in GateType : k.at \in {"policy", "idle"} => Asked(k)
  BY DEF Asked, Known
<1>4. AtRest \in GateType /\ AtRest.at = "idle"  BY Blanks DEF AtRest
<1> QED  BY <1>1, <1>2, <1>3, <1>4, GateKinds DEF gateVars, Advances

\* What was asked of a command that is let through is what RanAuthorized and
\* TicketHeld say.
LEMMA RanStep ==
    ASSUME GovInv, [GovNext]_govVars PROVE RanAuthorized' /\ TicketHeld'
<1>0. /\ GovTyped /\ InUse /\ Owned /\ AllAsked /\ RanAuthorized /\ TicketHeld /\ cfg' = cfg
  BY StepKinds DEF GovInv
<1>a. /\ \A r \in ranAll : OfItsID(r) /\ Authorized(r) /\ Held(r)
      /\ \A r : (Authorized(r)' <=> Authorized(r)) /\ (Held(r)' <=> Held(r))
  BY <1>0, AskedKept, RanParts
<1>o. ASSUME NEW r, r.id \in Ids, OfItsID(r) PROVE OfItsID(r)'
  BY <1>0, <1>o, OwnersGrow DEF OfItsID
<1>c. ASSUME \A r \in ranAll' : OfItsID(r)' /\ Authorized(r)' /\ Held(r)' PROVE RanAuthorized'
  BY <1>c DEF RanAuthorized, OfItsID, Authorized, Granted
<1>d. ASSUME \A r \in ranAll' : OfItsID(r)' /\ Authorized(r)' /\ Held(r)' PROVE TicketHeld'
  BY <1>d DEF TicketHeld, OfItsID, Held
<1>b. SUFFICES ASSUME NEW r \in ranAll' PROVE OfItsID(r)' /\ Authorized(r)' /\ Held(r)'
  BY <1>c, <1>d
<1>1. CASE UNCHANGED ranAll  BY <1>0, <1>1, <1>a, <1>o DEF Owned
<1>2. ASSUME NEW c \in GateCalls, LetThrough(c) PROVE OfItsID(r)' /\ Authorized(r)' /\ Held(r)'
  <2>1. PICK j \in GateType : j = gcall[c]  BY <1>0 DEF GovTyped
  <2>2. /\ j.at = "done" /\ Asked(j) /\ j.cmd \in Cmds /\ j.id \in Ids /\ CallOwned(j) /\ Up
    BY <1>0, <1>2, <2>1 DEF LetThrough, InUse, AllAsked, Owned
  <2>3. PICK q : q = [id |-> j.id, cmd |-> j.cmd, opener |-> j.opener, who |-> j.who, restricted |-> j.restricted,
                      covered |-> j.covered, ticket |-> j.ticket, day |-> j.day,
                      approved |-> j.approved]
    OBVIOUS
  <2>4. ranAll' = ranAll \cup {q}  BY <1>2, <2>1, <2>3 DEF LetThrough
  <2>5. /\ q.cmd = j.cmd /\ q.who = j.who /\ q.restricted = j.restricted /\ q.day = j.day
        /\ q.covered = j.covered /\ q.ticket = j.ticket /\ q.approved = j.approved
    BY <2>3
  <2>6. cfg.require => cfg.policy = "loaded"  BY <2>2 DEF Up, Buildable
  <2>7. PolicyPermits(q.cmd)
    <3>1. PICK d \in Decisions : d = cfg.document[j.cmd]
      BY <1>0, <2>2, ConfigTypes DEF GovTyped
    <3>2. cfg.policy = "loaded" => DecisionAllows(d)
      BY <2>2, <3>1 DEF Asked, Known, EvaluatePolicyDecision
    <3>3. cfg.policy = "loaded" => d \in [result : {"object"}, allow : {"true"},
              rule : {"absent", "text"}, entitlement : {"absent", "text"}]
      BY <3>2 DEF DecisionAllows, Decisions
    <3> QED  BY <2>5, <3>1, <3>3 DEF PolicyPermits
  <2>7a. q.id = j.id /\ q.opener = j.opener  BY <2>3
  <2>8. OfItsID(q)
    <3>1. Named(j) /\ TicketCovers(j)  BY <2>2 DEF Asked, Known, Named
    <3> QED  BY <2>2, <2>5, <2>7a, <3>1 DEF CallOwned, TicketCovers, OfItsID
  <2>9. cfg.ents = "loaded" => Granted(q)
    <3>1. EntitlementsAllow(q.who, q.cmd)  BY <2>2, <2>5 DEF Asked, Known
    <3> QED  BY <3>1 DEF EntitlementsAllow, IsAuthorized, Granted
  <2>10. /\ q.cmd \in BaseRules => q.approved /\ cfg.build = "ee"
         /\ ~(q.restricted /\ q.cmd \in Barred)
    BY <2>2, <2>5 DEF Asked
  <2>11. Authorized(q)  BY <2>6, <2>7, <2>9, <2>10 DEF Authorized
  <2>12. Held(q)
    <3>1. TicketCovers(j)  BY <2>2 DEF Asked, Known
    <3> QED  BY <2>5, <3>1 DEF TicketCovers, Held
  <2>13. CASE r \in ranAll  BY <1>0, <1>a, <1>o, <2>13 DEF Owned
  <2>14. CASE r = q  BY <1>a, <1>o, <2>2, <2>7a, <2>8, <2>11, <2>12, <2>14
  <2> QED  BY <2>4, <2>13, <2>14
<1>3. ASSUME NEW c \in GateCalls, Remember(c) PROVE OfItsID(r)' /\ Authorized(r)' /\ Held(r)'
  BY <1>1, <1>3 DEF Remember
<1> QED  BY <1>1, <1>2, <1>3, GateKinds DEF gateVars

\* A command the policy, the entitlements or a rule from the start refused is refused
\* again when it is explained.
LEMMA RefusedAgain ==
    ASSUME GovInv, NEW c \in GateCalls, Remember(c),
           \/ gcall[c].why = "policy"
           \/ gcall[c].why = "entitlements" /\ OneOwner(gcall[c].id)
           \/ gcall[c].why = "rules" /\ gcall[c].cmd \in BaseRules
    PROVE  ExplainCommand(gcall[c].id, gcall[c].cmd) # "allowed"
<1>1. PICK j \in GateType : j = gcall[c]  BY DEF GovInv, GovTyped
<1>2. j.at = "refused" /\ Asked(j) /\ j.id \in Ids
  BY <1>1 DEF Remember, GovInv, AllAsked, InUse, GovTyped
<1>3. CASE j.why = "policy"
  <2>1. ExplainPolicy(j.cmd) = "denied"  BY <1>2, <1>3 DEF Asked, ExplainPolicy
  <2> QED  BY <1>1, <2>1 DEF ExplainCommand
<1>4. CASE j.why = "entitlements" /\ OneOwner(j.id)
  <2>1. ~EntitlementsAllow(j.who, j.cmd) /\ Named(j)  BY <1>2, <1>4 DEF Asked, Named
  <2>2. cfg.ents = "loaded" /\ ~IsAuthorized(j.who, j.cmd)  BY <2>1 DEF EntitlementsAllow
  <2>3. idents[j.id].refs > 0 => Identity(j.id) = j.who
    <3>1. CallOwned(j)  BY <1>1, <1>2 DEF GovInv, Owned
    <3>2. j.who \in owners[j.id]  BY <2>1, <3>1 DEF CallOwned
    <3>3. idents[j.id].refs > 0 => idents[j.id].who \in owners[j.id]
      BY <1>2 DEF GovInv, Owned
    <3> QED  BY <1>4, <3>2, <3>3 DEF OneOwner, Identity
  <2>4. idents[j.id].refs = 0 => Identity(j.id) = Nobody
    BY <1>2 DEF GovInv, Bound, Identity
  <2>5. idents[j.id].refs \in Nat  BY <1>2 DEF GovInv, GovTyped, Binding
  <2>6. Identity(j.id) = Nobody \/ Identity(j.id) = j.who  BY <2>3, <2>4, <2>5
  <2>7. ~(Identity(j.id) # Nobody /\ IsAuthorized(Identity(j.id), j.cmd))
    BY <2>2, <2>6
  <2>8. ExplainEntitlements(j.id, j.cmd) = "denied"
    BY <2>2, <2>7 DEF ExplainEntitlements
  <2> QED  BY <1>1, <2>8 DEF ExplainCommand
<1>5. CASE j.why = "rules" /\ j.cmd \in BaseRules
  <2>1. MatchFourEyes(j.cmd) \in {"match", "error"}  BY <1>5, BaseRulesFound
  <2>2. ExplainFourEyes(j.cmd) \in {"denied", "approval_required"}
    BY <2>1 DEF ExplainFourEyes
  <2> QED  BY <1>1, <2>2 DEF ExplainCommand
<1> QED  BY <1>1, <1>3, <1>4, <1>5

LEMMA DenialStep ==
    ASSUME GovInv, [GovNext]_govVars PROVE DenialShown'
<1>0. GovTyped /\ InUse /\ DenialShown  BY DEF GovInv
<1>g. ASSUME NEW i \in Ids, OneOwner(i)' PROVE OneOwner(i)
  BY <1>g, OwnersGrow DEF OneOwner
<1>1. CASE UNCHANGED <<shown, refusal>>  BY <1>0, <1>1, <1>g DEF DenialShown
<1>2. ASSUME NEW c \in GateCalls, LetThrough(c) PROVE DenialShown'
  <2>1. PICK i \in Ids : i = gcall[c].id  BY <1>0, <1>2 DEF LetThrough, InUse, GovTyped
  <2>2. shown' = [shown EXCEPT ![i] = ""] /\ refusal' = [refusal EXCEPT ![i] = NoRefusal]
    BY <1>2, <2>1 DEF LetThrough
  <2>3. NoRefusal.why = ""  BY DEF NoRefusal
  <2> QED  BY <1>0, <1>g, <2>2, <2>3 DEF DenialShown, GovTyped
<1>3. ASSUME NEW c \in GateCalls, Remember(c) PROVE DenialShown'
  <2>1. PICK j \in GateType : j = gcall[c]  BY <1>0 DEF GovTyped
  <2>2. j.id \in Ids  BY <1>0, <1>3, <2>1 DEF Remember, InUse, GovTyped
  <2>3. PICK w : w = IF ExplainCommand(j.id, j.cmd) # "allowed" THEN j.cmd ELSE shown[j.id]
    OBVIOUS
  <2>4. PICK r : r = [cmd |-> j.cmd, why |-> j.why]  OBVIOUS
  <2>5. shown' = [shown EXCEPT ![j.id] = w] /\ refusal' = [refusal EXCEPT ![j.id] = r]
    BY <1>3, <2>1, <2>3, <2>4 DEF Remember
  <2>6. \/ r.why = "policy"
        \/ r.why = "entitlements" /\ OneOwner(j.id)
        \/ r.why = "rules" /\ r.cmd \in BaseRules
        => w = r.cmd
    BY <1>3, <2>1, <2>3, <2>4, RefusedAgain
  <2> QED  BY <1>0, <1>g, <2>2, <2>5, <2>6 DEF DenialShown, GovTyped
<1> QED  BY <1>1, <1>2, <1>3, GateKinds DEF gateVars

-----------------------------------------------------------------------------
(* The theorems.                                                           *)

LEMMA InvInit == GovInit => GovInv
<1> SUFFICES ASSUME GovInit PROVE GovInv
  OBVIOUS
<1>0. Closed.at = "closed" /\ ~Closed.bound /\ AtRest.at = "idle"
  BY DEF Closed, AtRest
<1>1. GovTyped
  <2>1. [who |-> Nobody, refs |-> 0] \in Binding  BY Blanks DEF Binding
  <2>2. "new" \in Words  BY DEF Words
  <2> QED  BY <2>1, <2>2, Blanks, GovAssumption DEF GovInit, GovTyped
<1>2. InUse  BY <1>0 DEF GovInit, InUse
<1>3. RulesOK  BY DEF GovInit, RulesOK, NoEdit
<1>4. Bound
  <2>1. \A id \in Ids : {h \in Handles : sess[h].bound /\ sess[h].id = id} = {}
    BY <1>0 DEF GovInit
  <2>2. \A id \in Ids : idents[id].refs = 0 /\ idents[id].who = Nobody  BY DEF GovInit
  <2>3. Cardinality({}) = 0  BY FS_EmptySet
  <2>4. BindingsCounted
    <3> SUFFICES ASSUME NEW id \in Ids
                 PROVE  LET holders == {h \in Handles : sess[h].bound /\ sess[h].id = id} IN
                        /\ idents[id].refs = Cardinality(holders)
                        /\ \A h \in holders : idents[id].who = sess[h].who
      BY DEF BindingsCounted
    <3> DEFINE holders == {h \in Handles : sess[h].bound /\ sess[h].id = id}
    <3>1. holders = {}  BY <2>1
    <3> QED  BY <2>2, <2>3, <3>1
  <2> QED  BY <2>2, <2>4 DEF Bound
<1>5. Owned /\ TicketsOK
  <2>1. /\ \A id \in Ids : idents[id].refs = 0 /\ tickets[id] = NoTicket
        /\ fetching = {} /\ ranAll = {}
    BY DEF GovInit
  <2>2. \A c \in GateCalls : gcall[c].at = "idle"  BY <1>0 DEF GovInit
  <2> QED  BY <2>1, <2>2 DEF Owned, TicketsOK, TicketOK
<1>6. AllAsked
  BY <1>0, Blanks DEF GovInit, AllAsked, Asked, Known
<1>7. RanAuthorized /\ TicketHeld  BY DEF GovInit, RanAuthorized, TicketHeld
<1>8. DenialShown  BY DEF GovInit, DenialShown, NoRefusal
<1> QED  BY <1>1, <1>2, <1>3, <1>4, <1>5, <1>6, <1>7, <1>8 DEF GovInv

LEMMA InvNext == GovInv /\ [GovNext]_govVars => GovInv'
<1> SUFFICES ASSUME GovInv, [GovNext]_govVars PROVE GovInv'
  OBVIOUS
<1> QED  BY TypedStep, InUseStep, RulesStep, BoundStep, OwnedStep, TicketsStep, AskedStep,
         RanStep, DenialStep DEF GovInv

LEMMA Invariance == GovSpec => []GovInv
  BY InvInit, InvNext, PTL DEF GovSpec

\* Whatever sessions open, close and reopen, whatever tickets are fetched, expire and
\* are cleared, and whoever rewrites the rules file in the middle of a command: every
\* command let through was authorized, for the principal of its session, by everything
\* the host configured.
THEOREM GateAuthorizes == GovSpec => []CommandsAuthorized
<1>1. GovInv => CommandsAuthorized  BY DEF GovInv, Bound, CommandsAuthorized
<1> QED  BY <1>1, Invariance, PTL

\* The explanation of a command, stage by stage, comes to what the gate answers in
\* the same state.
LEMMA ExplanationAgrees == GovInv => ExplainAgrees
<1> SUFFICES ASSUME GovInv, NEW h \in Handles, NEW cmd \in Cmds,
                    sess[h].at = "open", sess[h].restricted = cfg.restricted
             PROVE  LET id == sess[h].id
                        lets == /\ Identity(id) # Nobody
                                /\ EvaluatePolicyDecision(cmd)
                                /\ EntitlementsAllow(Identity(id), cmd)
                                /\ CMCheck(id, cmd) /\ ~(sess[h].restricted /\ cmd \in Barred)
                        found == MatchFourEyes(cmd)
                        says == ExplainCommand(id, cmd)
                    IN  /\ says = "allowed" <=> (lets /\ found = "none")
                        /\ says = "approval_required" <=>
                               (lets /\ found = "match" /\ cfg.build = "ee")
  BY DEF ExplainAgrees
<1> DEFINE id == sess[h].id
<1>1. cfg.build \in {"core", "ee"} /\ cfg.restricted \in BOOLEAN
  BY ConfigTypes DEF GovInv, GovTyped
<1>2. /\ ExplainIdentity(id) \in {"denied", "allowed"}
      /\ ExplainIdentity(id) = "denied" <=> Identity(id) = Nobody
  BY DEF ExplainIdentity
<1>3. /\ ExplainPolicy(cmd) \in {"denied", "allowed"}
      /\ ExplainPolicy(cmd) = "denied" <=> ~EvaluatePolicyDecision(cmd)
  BY DEF ExplainPolicy
<1>4. /\ ExplainEntitlements(id, cmd) \in {"denied", "allowed", "not_configured"}
      /\ Identity(id) # Nobody =>
            (ExplainEntitlements(id, cmd) = "denied" <=> ~EntitlementsAllow(Identity(id), cmd))
  BY DEF ExplainEntitlements, EntitlementsAllow
<1>5. /\ ExplainTicket(id, cmd) \in {"denied", "allowed", "warning", "not_required"}
      /\ ExplainTicket(id, cmd) = "denied" <=> ~CMCheck(id, cmd)
  <2>1. CASE ~CMRequired(id, cmd)  BY <2>1 DEF ExplainTicket, CMCheck
  <2>2. CASE CMRequired(id, cmd) /\ (cfg.build = "core" \/ tickets[id] = NoTicket)
    BY <2>2 DEF ExplainTicket, CMCheck
  <2>3. CASE CMRequired(id, cmd) /\ ~(cfg.build = "core" \/ tickets[id] = NoTicket)
    BY <2>3 DEF ExplainTicket, CMCheck
  <2> QED  BY <2>1, <2>2, <2>3
<1>6. /\ ExplainFourEyes(cmd) \in {"denied", "approval_required", "not_required"}
      /\ ExplainFourEyes(cmd) = "not_required" <=> MatchFourEyes(cmd) = "none"
      /\ ExplainFourEyes(cmd) = "approval_required" <=>
            (MatchFourEyes(cmd) = "match" /\ cfg.build = "ee")
  BY <1>1 DEF ExplainFourEyes, MatchFourEyes
<1>7. /\ ExplainMode(cmd) \in {"denied", "allowed", "disabled"}
      /\ ExplainMode(cmd) = "denied" <=> (sess[h].restricted /\ cmd \in Barred)
  BY <1>1 DEF ExplainMode
<1> QED  BY <1>2, <1>3, <1>4, <1>5, <1>6, <1>7 DEF ExplainCommand

\* why answers what the gate would, and ?? shows the last refusal that has not gone
\* away, in every state of every run.
THEOREM GateExplains == GovSpec => []ExplanationTrue
<1>1. GovInv => ExplanationTrue  BY ExplanationAgrees DEF GovInv, ExplanationTrue
<1> QED  BY <1>1, Invariance, PTL
=============================================================================
