----------------------------- MODULE Governance -----------------------------
(***************************************************************************)
(* What the command gate asks: the engine a host builds (security/         *)
(* engine.go), the identities its sessions bind (engine/session.go), the   *)
(* decision document of the Rego policy, the entitlements file, change     *)
(* tickets, the four-eyes rules file and restricted mode; and the          *)
(* explanation why and ?? give of the same answers (security/explain.go).  *)
(*                                                                         *)
(* The gate asks one after the other, with no lock over two of them, while *)
(* sessions open and close, tickets are fetched, expire and are cleared,   *)
(* and other processes rewrite the rules file.  Module Gate follows one    *)
(* agent's command through the same gate with free answers.                *)
(***************************************************************************)
EXTENDS Naturals, FiniteSets

CONSTANTS
    Ids,        \* session IDs
    Handles,    \* embedded sessions a host opens (engine.Session)
    Principals, \* [user, groups] the host authenticated
    Cmds,       \* command names
    Barred,     \* what restricted mode refuses: cd, export, names with '/'
    BaseRules,  \* commands the four-eyes rules cover from the start
    GateCalls,  \* commands in the gate at once
    Editors,    \* processes that run 4eyes add and 4eyes remove
    Configs     \* the configurations of the host, each with the bounds it is
                  \* explored to: sessions opened, calls into the gate, edits of the rules file,
                  \* cm set and cm require commands, the clock, session IDs

\* What a policy returns for a command: an object, something else or an error,
\* with fields that are well typed, of another type, or absent.
Decisions == [result : {"object", "other", "error"},
              allow : {"true", "false", "other", "absent"},
              rule : {"text", "other", "absent"}, entitlement : {"text", "other", "absent"}]

ASSUME GovAssumption ==
    /\ Barred \cup BaseRules \subseteq Cmds
    /\ IsFiniteSet(Handles)
    /\ \A c \in Configs :
          /\ {c.opens, c.calls, c.edits, c.fetches, c.requires, c.days, c.from, c.until} \subseteq Nat
          /\ c.ids \subseteq Ids
          /\ c.build \in {"core", "ee"}
          /\ c.document \in [Cmds -> Decisions]
          /\ c.modes \subseteq BOOLEAN /\ c.restricted \in BOOLEAN

VARIABLES
    cfg,      \* the configuration, which nothing changes at run time
    engine,   \* "off", "up" or "failed"
    sess,     \* each embedded session
    idents,   \* Engine.identities: the principal and how often it is bound
    owners,   \* history: the principals each session ID was ever bound to
    rules,    \* the rules file: missing, whole or partly written
    editor,   \* each editor: what it loaded and is about to save
    day,      \* the clock
    raw,      \* the ticket's status at the provider, in its own words
    fetching, \* cm set commands under way: the session ID and the ticket fetched
    tickets,  \* cmTicketStore: each session's ticket
    patterns, \* what each session added with cm require
    gcall,    \* each command in the gate
    shown,    \* Engine.lastDenials: what ?? shows
    count,    \* sessions, calls, edits, fetches and requirements so far
    ranAll,   \* history: commands let through, with what they were asked
    refusal   \* history: each session's last refusal not followed by a success

govVars == <<cfg, engine, sess, idents, owners, rules, editor, day, raw, fetching,
             tickets, patterns, gcall, shown, count, ranAll, refusal>>
hostVars == <<cfg, engine>>
sessVars == <<sess, idents, owners>>
fileVars == <<rules, editor>>
cmVars   == <<day, raw, fetching, tickets, patterns>>
gateVars == <<gcall, shown, ranAll, refusal>>

Nobody   == [user |-> "", groups |-> {}]
NoTicket == [state |-> "none", from |-> 0, until |-> 0, by |-> Nobody, word |-> ""]
Closed   == [at |-> "closed", id |-> "", who |-> Nobody, bound |-> FALSE, restricted |-> FALSE]
NoEdit   == [at |-> "idle", rules |-> {}]
AtRest   == [at |-> "idle", id |-> "", cmd |-> "", opener |-> Nobody, who |-> Nobody, restricted |-> FALSE,
             ticket |-> NoTicket, covered |-> FALSE, day |-> 0,
             approved |-> FALSE, why |-> ""]
NoRefusal == [cmd |-> "", why |-> ""]

GovInit ==
    /\ cfg \in Configs
    /\ engine = "off"
    /\ sess = [h \in Handles |-> Closed]
    /\ idents = [i \in Ids |-> [who |-> Nobody, refs |-> 0]]
    /\ owners = [i \in Ids |-> {}]
    /\ rules = [file |-> IF BaseRules = {} THEN "missing" ELSE "whole", rules |-> BaseRules]
    /\ editor = [e \in Editors |-> NoEdit]
    /\ day = 0 /\ raw = "new"
    /\ fetching = {}
    /\ tickets = [i \in Ids |-> NoTicket]
    /\ patterns = [i \in Ids |-> {}]
    /\ gcall = [c \in GateCalls |-> AtRest]
    /\ shown = [i \in Ids |-> ""]
    /\ count = [opens |-> 0, calls |-> 0, edits |-> 0, fetches |-> 0, requires |-> 0]
    /\ ranAll = {}
    /\ refusal = [i \in Ids |-> NoRefusal]

-----------------------------------------------------------------------------
(* The host builds its engine and opens sessions on it.                    *)

\* NewEngine fails closed: a policy that cannot be read or compiled, none where
\* one is required, an entitlements file that is missing or malformed.
Buildable ==
    /\ cfg.policy \in {"none", "missing", "loaded"}
    /\ cfg.require => cfg.policy = "loaded"
    /\ cfg.ents \in {"none", "loaded"}

NewEngine ==
    /\ engine = "off"
    /\ engine' = IF Buildable THEN "up" ELSE "failed"
    /\ UNCHANGED <<cfg, sessVars, fileVars, cmVars, gateVars, count>>

\* BindSessionIdentity: a live ID is bound again only to the same principal.
MayBind(id, who) == idents[id].refs > 0 => idents[id].who = who

\* NewSession: the identity is bound before the rest of the session is built. The
\* host chooses the ID, also one that an earlier session had: what the engine keeps
\* under it (ticket, patterns, last denial) is still there.
OpenSession(h, id, who, restricted) ==
    /\ engine = "up" /\ sess[h].at \in {"closed", "ended"}
    /\ MayBind(id, who) /\ count.opens < cfg.opens
    /\ count' = [count EXCEPT !.opens = @ + 1]
    /\ sess' = [sess EXCEPT ![h] = [at |-> "building", id |-> id, who |-> who, bound |-> TRUE,
                                    restricted |-> restricted \/ cfg.restricted]]
    /\ idents' = [idents EXCEPT ![id] = [who |-> who, refs |-> @.refs + 1]]
    /\ owners' = [owners EXCEPT ![id] = @ \cup {who}]
    /\ UNCHANGED <<hostVars, fileVars, cmVars, gateVars>>

\* UnbindSessionIdentity: the last of several bindings removes the identity.
Unbind(id) ==
    idents' = [idents EXCEPT ![id] =
                  IF @.refs <= 1 THEN [who |-> Nobody, refs |-> 0]
                  ELSE [who |-> @.who, refs |-> @.refs - 1]]

\* The runner is built, or it is not and the binding goes again.
BuildSession(h) ==
    /\ sess[h].at = "building"
    /\ \/ /\ sess' = [sess EXCEPT ![h].at = "open"]
          /\ UNCHANGED idents
       \/ /\ sess' = [sess EXCEPT ![h] = Closed]
          /\ Unbind(sess[h].id)
    /\ UNCHANGED <<hostVars, owners, fileVars, cmVars, gateVars, count>>

\* Close, once: the binding goes, and nothing else. What the session runs goes on.
CloseSession(h) ==
    /\ sess[h].at = "open"
    /\ sess' = [sess EXCEPT ![h].at = "ended", ![h].bound = FALSE]
    /\ Unbind(sess[h].id)
    /\ UNCHANGED <<hostVars, owners, fileVars, cmVars, gateVars, count>>

\* Programs run in an open session, and in a closed one that has not come to an end.
Runs(h) == sess[h].at \in {"open", "ended"}

-----------------------------------------------------------------------------
(* The answers.                                                            *)

\* buildPolicyContext: the principal bound to the ID, or nobody.
Identity(id) == idents[id].who

\* Mutant: an allow that is no boolean is taken for true.
DecisionAllows_Truthy(d) ==
    /\ d.result = "object" /\ d.rule # "other" /\ d.entitlement # "other"
    /\ d.allow \in {"true", "other"}

\* EvaluatePolicyDecision on a decision document.
DecisionAllows(d) ==
    /\ d.result = "object"
    /\ d.rule # "other" /\ d.entitlement # "other"
    /\ d.allow = "true"

\* Without a policy everything is allowed; a session process never evaluates one.
EvaluatePolicyDecision(cmd) ==
    /\ ~cfg.remote
    /\ cfg.policy = "loaded" => DecisionAllows(cfg.document[cmd])

\* The user's entry, or one of a group the session was bound with.
IsAuthorized(who, cmd) ==
    \E granted \in {cfg.users[who.user]} \cup {cfg.groups[g] : g \in who.groups} :
        cmd \in granted \/ "*" \in granted

EntitlementsAllow(who, cmd) == cfg.ents = "loaded" => IsAuthorized(who, cmd)

CMRequired(id, cmd) == cmd \in cfg.patterns \cup patterns[id]

\* A window that is 0 on a side is open on that side.
IsTicketValid(t) ==
    /\ t.state = "approved"
    /\ t.from # 0 => day >= t.from
    /\ t.until # 0 => day <= t.until

\* CMSessionCheckForSession; a core build has no tickets and refuses.
CMCheck(id, cmd) ==
    CMRequired(id, cmd) =>
        IF cfg.build = "core" \/ tickets[id] = NoTicket THEN ~cfg.strict
        ELSE IsTicketValid(tickets[id])

\* matchFourEyes; a file that is there and cannot be parsed is an error.
MatchFourEyes(cmd) ==
    IF rules.file = "partial" THEN "error"
    ELSE IF rules.file = "whole" /\ cmd \in rules.rules THEN "match" ELSE "none"

-----------------------------------------------------------------------------
(* The gate.                                                               *)

Enter(c, h, cmd) ==
    /\ Runs(h) /\ gcall[c] = AtRest
    /\ count.calls < cfg.calls
    /\ count' = [count EXCEPT !.calls = @ + 1]
    /\ gcall' = [gcall EXCEPT ![c] = [AtRest EXCEPT !.at = "policy", !.id = sess[h].id,
                     !.cmd = cmd, !.opener = sess[h].who, !.restricted = sess[h].restricted]]
    /\ UNCHANGED <<hostVars, sessVars, fileVars, cmVars, shown, ranAll, refusal>>

Goes(c, k) ==
    /\ gcall' = [gcall EXCEPT ![c] = k]
    /\ UNCHANGED <<hostVars, sessVars, fileVars, cmVars, shown, count, ranAll, refusal>>

\* One question: yes leads on with the call as it then is, no to the refusal.
Asks(c, from, yes, on, to, why) ==
    /\ gcall[c].at = from
    /\ Goes(c, IF yes THEN [on EXCEPT !.at = to]
               ELSE [gcall[c] EXCEPT !.at = "refused", !.why = why])

\* The principal is read once, for policy and entitlements both.
AskPolicy(c) ==
    LET k == gcall[c]  who == Identity(k.id) IN
    Asks(c, "policy", who # Nobody /\ EvaluatePolicyDecision(k.cmd),
         [k EXCEPT !.who = who], "entitlements",
         IF who = Nobody THEN "identity" ELSE "policy")

AskEntitlements(c) ==
    LET k == gcall[c] IN
    Asks(c, "entitlements", EntitlementsAllow(k.who, k.cmd), k, "cm", "entitlements")

AskTicket(c) ==
    LET k == gcall[c] IN
    Asks(c, "cm", CMCheck(k.id, k.cmd),
         [k EXCEPT !.covered = CMRequired(k.id, k.cmd), !.ticket = tickets[k.id],
                   !.day = day], "rules", "cm")

\* A rule that matches: the core build refuses, the other waits for approvers.
AskRules(c) ==
    LET k == gcall[c]  found == MatchFourEyes(k.cmd) IN
    Asks(c, "rules", found = "none" \/ (found = "match" /\ cfg.build = "ee"), k,
         IF found = "match" THEN "wait" ELSE "admin",
         IF found = "error" THEN "file" ELSE "rules")

\* Approvers answer (module FourEyes), or the wait times out.
Approved(c) ==
    Asks(c, "wait", TRUE, [gcall[c] EXCEPT !.approved = TRUE], "admin", "")

Disapproved(c) ==
    Asks(c, "wait", FALSE, gcall[c], "admin", "rules")

AskAdminPlane(c) ==
    Asks(c, "admin", ~cfg.quarantined, gcall[c], "mode", "admin")

AskMode(c) ==
    LET k == gcall[c] IN
    Asks(c, "mode", ~(k.restricted /\ k.cmd \in Barred), k, "done", "mode")

\* The command is let through and the session's last refusal forgotten.
LetThrough(c) ==
    LET k == gcall[c] IN
    /\ k.at = "done"
    /\ gcall' = [gcall EXCEPT ![c] = AtRest]
    /\ shown' = [shown EXCEPT ![k.id] = ""]
    /\ refusal' = [refusal EXCEPT ![k.id] = NoRefusal]
    /\ ranAll' = ranAll \cup {[id |-> k.id, cmd |-> k.cmd, opener |-> k.opener,
                               who |-> k.who, restricted |-> k.restricted, covered |-> k.covered,
                               ticket |-> k.ticket, day |-> k.day, approved |-> k.approved]}
    /\ UNCHANGED <<hostVars, sessVars, fileVars, cmVars, count>>

-----------------------------------------------------------------------------
(* Explanations: the same answers, asked again and all of them.            *)

ExplainIdentity(id) == IF Identity(id) = Nobody THEN "denied" ELSE "allowed"

ExplainPolicy(cmd) == IF EvaluatePolicyDecision(cmd) THEN "allowed" ELSE "denied"

ExplainEntitlements(id, cmd) ==
    CASE cfg.ents # "loaded" -> "not_configured"
      [] cfg.ents = "loaded" /\ Identity(id) # Nobody /\ IsAuthorized(Identity(id), cmd) -> "allowed"
      [] OTHER -> "denied"

\* Mutant: the explanation does not look at the ticket's window.
ExplainTicket_NoWindow(id, cmd) ==
    IF ~CMRequired(id, cmd) THEN "not_required"
    ELSE IF cfg.build = "core" \/ tickets[id] = NoTicket
    THEN IF cfg.strict THEN "denied" ELSE "warning"
    ELSE IF tickets[id].state = "approved" THEN "allowed" ELSE "denied"

ExplainTicket(id, cmd) ==
    IF ~CMRequired(id, cmd) THEN "not_required"
    ELSE IF cfg.build = "core" \/ tickets[id] = NoTicket
    THEN IF cfg.strict THEN "denied" ELSE "warning"
    ELSE IF IsTicketValid(tickets[id]) THEN "allowed" ELSE "denied"

ExplainFourEyes(cmd) ==
    CASE MatchFourEyes(cmd) = "error" -> "denied"
      [] MatchFourEyes(cmd) = "none" -> "not_required"
      [] OTHER -> IF cfg.build = "core" THEN "denied" ELSE "approval_required"

\* The engine's restricted mode, whatever the session's.
ExplainMode(cmd) ==
    IF ~cfg.restricted THEN "disabled" ELSE IF cmd \in Barred THEN "denied" ELSE "allowed"

\* ExplainCommand: one denied stage denies, and approval is required otherwise.
ExplainCommand(id, cmd) ==
    LET stages == {ExplainIdentity(id), ExplainPolicy(cmd), ExplainEntitlements(id, cmd),
                   ExplainTicket(id, cmd), ExplainFourEyes(cmd), ExplainMode(cmd)}
    IN  IF "denied" \in stages THEN "denied"
        ELSE IF "approval_required" \in stages THEN "approval_required" ELSE "allowed"

\* rememberDeniedCommand: the refused command is explained again, and kept for ??
\* unless the explanation says it is allowed.
Remember(c) ==
    LET k == gcall[c] IN
    /\ k.at = "refused"
    /\ shown' = [shown EXCEPT ![k.id] = IF ExplainCommand(k.id, k.cmd) # "allowed" THEN k.cmd ELSE @]
    /\ refusal' = [refusal EXCEPT ![k.id] = [cmd |-> k.cmd, why |-> k.why]]
    /\ gcall' = [gcall EXCEPT ![c] = AtRest]
    /\ UNCHANGED <<hostVars, sessVars, fileVars, cmVars, count, ranAll>>

-----------------------------------------------------------------------------
(* Change tickets.                                                         *)

\* The provider's words for the state of a change.
TicketState(word) ==
    CASE cfg.provider = "servicenow" ->
            IF word \in {"approved", "implement"} THEN "approved"
            ELSE IF word = "closed" THEN "closed" ELSE "open"
      [] cfg.provider = "jira" ->
            IF word = "In Progress" THEN "approved"
            ELSE IF word \in {"Done", "Closed"} THEN "closed" ELSE "open"
      [] OTHER -> word

\* The words a provider uses.
ProviderWords ==
    CASE cfg.provider = "servicenow" -> {"new", "approved", "implement", "closed"}
      [] cfg.provider = "jira" -> {"new", "In Progress", "Done"}
      [] OTHER -> {"new", "approved", "closed"}

\* FetchCMTicket; only ServiceNow has windows, and one it cannot parse is none.
FetchCMTicket(who) ==
    [state |-> TicketState(raw), by |-> who, word |-> raw,
     from |-> IF cfg.provider = "servicenow" THEN cfg.from ELSE 0,
     until |-> IF cfg.provider = "servicenow" THEN cfg.until ELSE 0]

\* cm set asks the provider, which takes time (a failed request leaves no trace).
CMFetch(h) ==
    /\ cfg.build = "ee" /\ cfg.provider # "unknown" /\ Runs(h)
    /\ count.fetches < cfg.fetches
    /\ count' = [count EXCEPT !.fetches = @ + 1]
    /\ fetching' = fetching \cup {[n |-> count.fetches, id |-> sess[h].id,
                                   ticket |-> FetchCMTicket(sess[h].who)]}
    /\ UNCHANGED <<hostVars, sessVars, fileVars, day, raw, tickets, patterns, gateVars>>

\* A ticket that is valid by then becomes the one of the session ID, whether the
\* session is still open or not.
CMStore(f) ==
    /\ fetching' = fetching \ {f}
    /\ tickets' = IF IsTicketValid(f.ticket) THEN [tickets EXCEPT ![f.id] = f.ticket] ELSE tickets
    /\ UNCHANGED <<hostVars, sessVars, fileVars, day, raw, patterns, gateVars, count>>

CMClear(h) ==
    /\ Runs(h) /\ tickets[sess[h].id] # NoTicket
    /\ tickets' = [tickets EXCEPT ![sess[h].id] = NoTicket]
    /\ UNCHANGED <<hostVars, sessVars, fileVars, day, raw, fetching, patterns, gateVars, count>>

\* AddCMPatternForSession: for this session ID only, and never taken back.
CMRequire(h, cmd) ==
    /\ cfg.build = "ee" /\ Runs(h) /\ ~CMRequired(sess[h].id, cmd)
    /\ count.requires < cfg.requires
    /\ count' = [count EXCEPT !.requires = @ + 1]
    /\ patterns' = [patterns EXCEPT ![sess[h].id] = @ \cup {cmd}]
    /\ UNCHANGED <<hostVars, sessVars, fileVars, day, raw, fetching, tickets, gateVars>>

\* Time passes, and the change moves on at the provider.
Day ==
    /\ day < cfg.days /\ day' = day + 1
    /\ UNCHANGED <<hostVars, sessVars, fileVars, raw, fetching, tickets, patterns, gateVars, count>>

Provider(word) ==
    /\ cfg.fetches > 0 /\ word \in ProviderWords \ {raw} /\ raw' = word /\ word # "new" /\ raw \notin {"closed", "Done"}
    /\ UNCHANGED <<hostVars, sessVars, fileVars, day, fetching, tickets, patterns, gateVars, count>>

-----------------------------------------------------------------------------
(* The rules file, which other processes load, change and save.            *)

\* AddFourEyesRule and RemoveFourEyesRule load the file first.
LoadRules(e, edited) ==
    /\ editor[e] = NoEdit /\ rules.file # "partial" /\ count.edits < cfg.edits
    /\ count' = [count EXCEPT !.edits = @ + 1]
    /\ editor' = [editor EXCEPT ![e] = [at |-> "save", rules |-> edited]]
    /\ UNCHANGED <<hostVars, sessVars, rules, cmVars, gateVars>>

EditRules(e) ==
    \E r \in Cmds :
        /\ r \notin BaseRules
        /\ LoadRules(e, IF r \in rules.rules THEN rules.rules \ {r} ELSE rules.rules \cup {r})

\* SaveFourEyesRules truncates the file and writes it.
SaveRules(e) ==
    \/ /\ editor[e].at = "save"
       /\ rules' = [file |-> "partial", rules |-> {}]
       /\ editor' = [editor EXCEPT ![e].at = "write"]
       /\ UNCHANGED <<hostVars, sessVars, cmVars, gateVars, count>>
    \/ /\ editor[e].at = "write"
       /\ rules' = [file |-> "whole", rules |-> editor[e].rules]
       /\ editor' = [editor EXCEPT ![e] = NoEdit]
       /\ UNCHANGED <<hostVars, sessVars, cmVars, gateVars, count>>

\* The editor dies in between; the file stays as it is.
EditorDies(e) ==
    /\ editor[e].at = "write"
    /\ editor' = [editor EXCEPT ![e].at = "dead"]
    /\ UNCHANGED <<hostVars, sessVars, rules, cmVars, gateVars, count>>

-----------------------------------------------------------------------------
GateStep(c) ==
    \/ AskPolicy(c) \/ AskEntitlements(c) \/ AskTicket(c) \/ AskRules(c) \/ Approved(c)
    \/ Disapproved(c) \/ AskAdminPlane(c) \/ AskMode(c) \/ LetThrough(c) \/ Remember(c)

CMStep(h) ==
    \/ CMFetch(h) \/ CMClear(h)
    \/ \E cmd \in Cmds : CMRequire(h, cmd)

SessionStep(h) ==
    \/ BuildSession(h) \/ CloseSession(h)
    \/ \E id \in cfg.ids, who \in Principals, r \in cfg.modes : OpenSession(h, id, who, r)

GovNext ==
    \/ NewEngine \/ Day \/ \E word \in ProviderWords : Provider(word)
    \/ \E h \in Handles : SessionStep(h) \/ CMStep(h)
    \/ \E f \in fetching : CMStore(f)
    \/ \E c \in GateCalls : GateStep(c) \/ (\E h \in Handles, cmd \in Cmds : Enter(c, h, cmd))
    \/ \E e \in Editors : EditRules(e) \/ SaveRules(e) \/ EditorDies(e)

GovSpec == GovInit /\ [][GovNext]_govVars

-----------------------------------------------------------------------------
(* Properties.                                                             *)

\* The binding of a session ID is counted once for each session that holds it, and
\* it names the principal each of them was opened for: a session never authorizes
\* as someone else, nor loses its identity because another closed.
BindingsCounted ==
    \A id \in Ids :
        LET holders == {h \in Handles : sess[h].bound /\ sess[h].id = id} IN
        /\ idents[id].refs = Cardinality(holders)
        /\ \A h \in holders : idents[id].who = sess[h].who

\* What a loaded policy means (the contract over EvaluatePolicy): only an object
\* whose allow is the boolean true permits, and a malformed field denies.
PolicyPermits(cmd) ==
    LET d == cfg.document[cmd] IN
    cfg.policy = "loaded" =>
        d \in [result : {"object"}, allow : {"true"}, rule : {"absent", "text"},
               entitlement : {"absent", "text"}]

\* Every command let through was allowed by everything the host configured: the
\* policy it requires, the entitlements of one principal that its session ID was
\* bound to (the one of its session, unless the host gave the ID to another while
\* the session was closed and still ran), a second person where a rule that nobody removed covers the command, restricted
\* mode. A rules file caught in the middle of a save never lets one pass.
RanAuthorized ==
    \A r \in ranAll :
        /\ cfg.require => cfg.policy = "loaded"
        /\ PolicyPermits(r.cmd) /\ {r.opener, r.who} \subseteq owners[r.id]
        /\ cfg.ents = "loaded" =>
              \E g \in {cfg.users[r.who.user]} \cup {cfg.groups[x] : x \in r.who.groups} :
                  {r.cmd, "*"} \cap g # {}
        /\ r.cmd \in BaseRules => r.approved /\ cfg.build = "ee"
        /\ ~(r.restricted /\ r.cmd \in Barred)

\* In strict mode a command that change management covers ran with a ticket that was
\* fetched under its own session ID by a principal the host gave that ID to (its own
\* principal, if the host gives an ID to one only: a close does not clear the
\* ticket), that was approved in the provider's own words then, and whose window it
\* was when the gate looked.
TicketHeld ==
    \A r \in ranAll :
        (r.covered /\ cfg.strict) =>
            /\ cfg.build = "ee"
            /\ r.ticket.by \in owners[r.id]
            /\ r.ticket.word \in {"approved", "implement", "In Progress"}
            /\ r.day >= r.ticket.from
            /\ r.ticket.until # 0 => r.day <= r.ticket.until

\* why agrees with the gate: asked of the same state it says allowed exactly for
\* the commands the gate would let through without waiting, and approval required
\* for those that would wait, in a session of the engine's own mode on a host that
\* is not in quarantine (it asks neither).
ExplainAgrees ==
    \A h \in Handles, cmd \in Cmds :
        LET id == sess[h].id
            lets == /\ Identity(id) # Nobody
                    /\ EvaluatePolicyDecision(cmd) /\ EntitlementsAllow(Identity(id), cmd)
                    /\ CMCheck(id, cmd) /\ ~(sess[h].restricted /\ cmd \in Barred)
            found == MatchFourEyes(cmd)
            says == ExplainCommand(id, cmd)
        IN  (sess[h].at = "open" /\ sess[h].restricted = cfg.restricted /\ ~cfg.quarantined) =>
                /\ says = "allowed" <=> (lets /\ found = "none")
                /\ says = "approval_required" <=> (lets /\ found = "match" /\ cfg.build = "ee")

\* The host gave the ID to one principal only.
OneOwner(id) == \A p, q \in owners[id] : p = q

\* ?? shows the session's last refusal, where the refusal came from something that
\* does not change by itself before the command is explained again.
DenialShown ==
    \A id \in Ids :
        LET r == refusal[id] IN
        \/ r.why = "policy"
        \/ r.why = "entitlements" /\ OneOwner(id)
        \/ r.why = "rules" /\ r.cmd \in BaseRules
        => shown[id] = r.cmd

\* What the comment on SaveFourEyesRules says: the file is written atomically, so
\* no command is refused because a save was under way.
SavedAtomically == \A c \in GateCalls : gcall[c].why # "file"

\* Every command the gate let through was authorized: for a principal the host bound
\* its session ID to, by everything the host configured, and with a ticket of that ID
\* in its window.
CommandsAuthorized == BindingsCounted /\ RanAuthorized /\ TicketHeld

\* why and ?? say what the gate does (explain.go, denial.go).
ExplanationTrue == ExplainAgrees /\ DenialShown
=============================================================================
