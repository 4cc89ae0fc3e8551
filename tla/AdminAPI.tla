------------------------------ MODULE AdminAPI ------------------------------
(***************************************************************************)
(* The admin HTTP API and its client (security/vbin_admin_ee.go,             *)
(* admin_http_ee.go, admin_lists_ee.go, ee/cmd/adsshadm). A server binds a   *)
(* socket path, records its start and serves; a request is authenticated,    *)
(* recorded before it changes anything, served into a buffer, recorded again *)
(* and only then answered. Any audit write may fail.                         *)
(***************************************************************************)
EXTENDS Naturals, FiniteSets

CONSTANTS
  Servers,   \* admin serve processes on one socket path
  NamedKeys, \* names of the keys file
  ApiCalls,  \* concurrent requests
  Pending,   \* four-eyes requests that wait for a decision
  MaxStarts, \* bound: starts of servers
  MaxSent    \* bound: requests sent

ASSUME AdminAssumption == "none" \notin NamedKeys /\ MaxStarts \in Nat /\ MaxSent \in Nat

VARIABLES
  server,    \* where each server is
  sock,      \* the server whose socket the path names, or none
  starts,    \* starts so far
  callAt,    \* where each request is
  sent,      \* requests sent so far
  decision,  \* of each four-eyes request: the principal and what it decided
  banned,    \* is the address banned?
  requested, \* principals and operations of ADMIN_HTTP_REQUEST records
  answered   \* calls with an answer and whether an ADMIN_HTTP record precedes it

adminVars == <<server, sock, starts, callAt, sent, decision, banned, requested, answered>>
serverVars == <<server, sock, starts>>
dataVars == <<decision, banned>>

NoSock == "none"
Undecided == [who |-> "none", approve |-> FALSE]
NoApiCall == [pc |-> "rest"]
Changing == {"approve", "deny", "unban"}

-----------------------------------------------------------------------------
(* admin serve, StartAdminAPI                                               *)

At(s, from, to) == server[s] = from /\ server' = [server EXCEPT ![s] = to]

\* The keys file is loaded, and a socket at the path is probed: one that answers
\* refuses the start, one that nobody answers on is stale.
adminListenUnix(s) ==
  /\ starts < MaxStarts
  /\ \/ sock = NoSock /\ At(s, "off", "bind")
     \/ sock # NoSock /\ server[sock] = "off" /\ At(s, "off", "remove")
  /\ starts' = starts + 1
  /\ UNCHANGED <<sock, callAt, sent, dataVars, requested, answered>>

\* The path is removed, whoever has it by now.
RemoveStale(s) ==
  /\ At(s, "remove", "bind")
  /\ sock' = NoSock
  /\ UNCHANGED <<starts, callAt, sent, dataVars, requested, answered>>

\* bind fails when the path exists again.
Bind(s) ==
  /\ \/ sock = NoSock /\ At(s, "bind", "log") /\ sock' = s
     \/ sock # NoSock /\ At(s, "bind", "off") /\ UNCHANGED sock
  /\ UNCHANGED <<starts, callAt, sent, dataVars, requested, answered>>

\* A start that cannot be recorded closes the listener, which unlinks the path.
LogStart(s) ==
  /\ \/ At(s, "log", "serving") /\ UNCHANGED sock
     \/ At(s, "log", "off") /\ sock' = NoSock
  /\ UNCHANGED <<starts, callAt, sent, dataVars, requested, answered>>

\* The context ends and the listener unlinks the path, or the process dies and leaves it.
StopServer(s) ==
  /\ server[s] \in {"log", "serving"} /\ server' = [server EXCEPT ![s] = "off"]
  /\ sock' \in {sock, NoSock}
  /\ callAt' = [c \in ApiCalls |-> IF callAt[c] # NoApiCall /\ callAt[c].by = s THEN NoApiCall ELSE callAt[c]]
  /\ UNCHANGED <<starts, sent, dataVars, requested, answered>>

-----------------------------------------------------------------------------
(* A request, from adsshadm or from any other client                        *)

Step(c, from, to) == callAt[c].pc = from /\ callAt' = [callAt EXCEPT ![c].pc = to]
Finish(c, status, recorded) ==
  /\ answered' = answered \cup {[op |-> callAt[c].op, of |-> callAt[c].of, by |-> callAt[c].key,
                                 status |-> status, recorded |-> recorded]}
  /\ callAt' = [callAt EXCEPT ![c] = NoApiCall]

Send(c, key, op, r, pc) ==
  /\ callAt[c] = NoApiCall /\ sock # NoSock /\ server[sock] = "serving" /\ sent < MaxSent
  /\ sent' = sent + 1
  /\ callAt' = [callAt EXCEPT ![c] = [pc |-> pc, by |-> sock, key |-> key, op |-> op, of |-> r,
                                      status |-> 200]]
  /\ UNCHANGED <<serverVars, dataVars, requested, answered>>

\* adsshadm approve and deny: the request is looked up among the pending ones,
\* shown to the operator and confirmed before it is sent.
decidePrompt(c) == \E k \in NamedKeys \cup {"legacy"}, op \in {"approve", "deny"}, r \in Pending :
  /\ decision[r] = Undecided
  /\ Send(c, k, op, r, "confirm")

confirmWrite(c) ==
  /\ \/ Step(c, "confirm", "authenticate")
     \/ callAt[c].pc = "confirm" /\ callAt' = [callAt EXCEPT ![c] = NoApiCall]
  /\ UNCHANGED <<serverVars, sent, dataVars, requested, answered>>

\* Any client, without a prompt.
Arrive(c) == \E k \in NamedKeys \cup {"legacy", "wrong"}, op \in Changing \cup {"list", "explain"}, r \in Pending :
  Send(c, k, op, r, "authenticate")

\* Anyone with a key of any kind is let in; only a change is recorded first.
authenticate(c) ==
  /\ callAt[c].pc = "authenticate"
  /\ callAt' = [callAt EXCEPT ![c] =
       IF @.key = "wrong" THEN [@ EXCEPT !.pc = "record", !.status = 401]
       ELSE [@ EXCEPT !.pc = IF callAt[c].op \in Changing THEN "request" ELSE "serve"]]
  /\ UNCHANGED <<serverVars, sent, dataVars, requested, answered>>

\* The change is recorded after it was made.
LogRequest_Later(c) ==
  /\ Step(c, "request", "serve")
  /\ UNCHANGED <<serverVars, sent, dataVars, requested, answered>>

LogRequest(c) ==
  /\ \/ /\ Step(c, "request", "serve")
        /\ requested' = requested \cup {[who |-> callAt[c].key, op |-> callAt[c].op]}
        /\ UNCHANGED answered
     \/ callAt[c].pc = "request" /\ Finish(c, 503, FALSE) /\ UNCHANGED requested
  /\ UNCHANGED <<serverVars, sent, dataVars>>

requireNamedAdmin(c) == callAt[c].key \in NamedKeys

Served(c, status) == callAt' = [callAt EXCEPT ![c].pc = "record", ![c].status = status]

\* DecideRequest takes the first decision, and may fail on its own records.
handleApproval(c) ==
  /\ callAt[c].op \in {"approve", "deny"}
  /\ \/ /\ decision[callAt[c].of] = Undecided /\ Served(c, 200)
        /\ decision' = [decision EXCEPT ![callAt[c].of] =
             [who |-> callAt[c].key, approve |-> callAt[c].op = "approve"]]
     \/ decision[callAt[c].of] # Undecided /\ Served(c, 400) /\ UNCHANGED decision
     \/ Served(c, 503) /\ UNCHANGED decision
  /\ UNCHANGED banned

handleGuardUnban(c) ==
  /\ callAt[c].op = "unban"
  /\ Served(c, IF banned THEN 200 ELSE 404)
  /\ banned' = FALSE
  /\ UNCHANGED decision

\* Lists of recordings, elevations, leases and approvals; the ones from the audit
\* chain fail when it does not verify.
ListVerified(c) == callAt[c].op = "list" /\ (Served(c, 200) \/ Served(c, 500))

\* explain, whoami and evidence answer, or refuse what they are asked.
handleExplain(c) == callAt[c].op = "explain" /\ (Served(c, 200) \/ Served(c, 400))

serveAuthorized(c) ==
  /\ callAt[c].pc = "serve"
  /\ IF callAt[c].op \in Changing
     THEN IF requireNamedAdmin(c)
          THEN handleApproval(c) \/ handleGuardUnban(c)
          ELSE Served(c, 403) /\ UNCHANGED dataVars
     ELSE (ListVerified(c) \/ handleExplain(c)) /\ UNCHANGED dataVars
  /\ UNCHANGED <<serverVars, sent, requested, answered>>

\* The buffered answer is sent after its record, or discarded for a 503.
LogAnswer(c) ==
  /\ callAt[c].pc = "record"
  /\ Finish(c, callAt[c].status, TRUE) \/ Finish(c, 503, FALSE)
  /\ UNCHANGED <<serverVars, sent, dataVars, requested>>

-----------------------------------------------------------------------------
AdminInit ==
  /\ server = [s \in Servers |-> "off"]
  /\ sock = NoSock /\ starts = 0
  /\ callAt = [c \in ApiCalls |-> NoApiCall] /\ sent = 0
  /\ decision = [r \in Pending |-> Undecided]
  /\ banned = TRUE
  /\ requested = {} /\ answered = {}

AdminNext ==
  \/ \E s \in Servers :
       adminListenUnix(s) \/ RemoveStale(s) \/ Bind(s) \/ LogStart(s) \/ StopServer(s)
  \/ \E c \in ApiCalls :
       \/ decidePrompt(c) \/ confirmWrite(c) \/ Arrive(c) \/ authenticate(c) \/ LogRequest(c)
       \/ serveAuthorized(c) \/ LogAnswer(c)

AdminSpec == AdminInit /\ [][AdminNext]_adminVars

-----------------------------------------------------------------------------
(* Properties                                                               *)

\* A decision, or the end of a ban, was recorded before it was made, under the
\* name of a key of the keys file and never under the shared key (ServeHTTP and
\* requireNamedAdmin; the server may stop and start in between).
ChangeOnRecord ==
  /\ \A r \in Pending : decision[r] # Undecided =>
       /\ decision[r].who \in NamedKeys
       /\ \E q \in requested : q.who = decision[r].who /\ q.op = (IF decision[r].approve THEN "approve" ELSE "deny")
  /\ ~banned => \E q \in requested : q.who \in NamedKeys /\ q.op = "unban"

\* "The response is buffered and sent only after the ADMIN_HTTP record is written,
\* so a failed audit write discloses nothing": any answer but 503 has its record.
AnswerOnRecord == \A a \in answered : a.status # 503 => a.recorded

\* Whoever is told that a decision was made made it, when two keys decide the same
\* request at once.
AnswerTrue == \A a \in answered :
  a.status = 200 /\ a.op \in {"approve", "deny"} =>
    decision[a.of] = [who |-> a.by, approve |-> a.op = "approve"]

\* What an administrator was told, what was done and what the log says agree, when
\* several calls, keys and servers overlap and each of the two records may fail.
AdminSafety == ChangeOnRecord /\ AnswerOnRecord /\ AnswerTrue
=============================================================================
