---------------------------- MODULE SetupProofs -----------------------------
(* What holds of the way a host is set up, for every number of servers,    *)
(* commands and grid calls: the answers of the admin API (AdminAPI), the   *)
(* host's profile (HostProfile), the tables of the grid (Grid), the        *)
(* loading of plugins (Plugins) and the jail of the listener (Guard).      *)
EXTENDS HostProfile, AdminAPI, Grid, Plugins, Guard,
        FiniteSetTheorems, WellFoundedInduction, TLAPS

-----------------------------------------------------------------------------
(* The admin API.                                                          *)

Operations == Changing \cup {"list", "explain"}
Statuses == {200, 400, 401, 403, 404, 500, 503}
ApiKeys == NamedKeys \cup {"legacy", "wrong"}

RequestType == [pc : {"confirm", "authenticate", "request", "serve", "record"}, by : Servers,
             key : ApiKeys, op : Operations, of : Pending, status : Statuses]

AnswerType == [op : Operations, of : Pending, by : ApiKeys, status : Statuses, recorded : BOOLEAN]

Decision(key, verb) == [who |-> key, approve |-> verb = "approve"]

AdminTyped ==
    /\ sock \in Servers \cup {NoSock}
    /\ callAt \in [ApiCalls -> {NoApiCall} \cup RequestType]
    /\ decision \in [Pending -> [who : NamedKeys \cup {"none"}, approve : BOOLEAN]]
    /\ answered \subseteq AnswerType

InCall(c, pc) == callAt[c] \in RequestType /\ callAt[c].pc = pc

\* A change that is served was recorded under its key; an answer that is about to be
\* recorded and tells of a decision tells of the one that was made.
CallsSound ==
    \A c \in ApiCalls :
       /\ InCall(c, "serve") /\ callAt[c].op \in Changing =>
             \E q \in requested : q.who = callAt[c].key /\ q.op = callAt[c].op
       /\ InCall(c, "record") /\ callAt[c].status = 200 /\ callAt[c].op \in {"approve", "deny"} =>
             /\ decision[callAt[c].of] # Undecided
             /\ decision[callAt[c].of] = Decision(callAt[c].key, callAt[c].op)

\* What an answer told of was decided, and stays so.
AnswersStand ==
    \A a \in answered : a.status = 200 /\ a.op \in {"approve", "deny"} =>
        decision[a.of] # Undecided /\ decision[a.of] = Decision(a.by, a.op)

AdminInv == AdminTyped /\ CallsSound /\ AnswersStand /\ ChangeOnRecord /\ AnswerOnRecord

LEMMA RestIsNoCall == NoApiCall \notin RequestType /\ NoApiCall.pc = "rest"
BY DEF NoApiCall, RequestType

LEMMA AdminStart == AdminInit => AdminInv
<1> SUFFICES ASSUME AdminInit PROVE AdminInv
  OBVIOUS
<1>1. AdminTyped
  BY DEF AdminInit, AdminTyped, Undecided
<1>2. CallsSound
  BY RestIsNoCall DEF AdminInit, CallsSound, InCall
<1> QED
  BY <1>1, <1>2 DEF AdminInit, AdminInv, AnswersStand, ChangeOnRecord, AnswerOnRecord

\* A step of call c that neither decides nor answers: it moves to r, and is in "serve"
\* only with its record, and in "record" only with an answer that tells of no decision.
LEMMA RequestMoves ==
    ASSUME AdminInv, NEW c \in ApiCalls, NEW r \in {NoApiCall} \cup RequestType,
           callAt' = [callAt EXCEPT ![c] = r], sock' = sock,
           UNCHANGED <<dataVars, answered>>, requested \subseteq requested',
           r \in RequestType /\ r.pc = "serve" /\ r.op \in Changing =>
               \E q \in requested' : q.who = r.key /\ q.op = r.op,
           r \in RequestType /\ r.pc = "record" => r.status # 200 \/ r.op \notin {"approve", "deny"}
    PROVE  AdminInv'
<1>1. AdminTyped'
  BY DEF AdminInv, AdminTyped, dataVars
<1>2. callAt'[c] = r /\ \A d \in ApiCalls : d # c => callAt'[d] = callAt[d]
  BY DEF AdminInv, AdminTyped
<1>3. CallsSound'
  <2> SUFFICES ASSUME NEW d \in ApiCalls
               PROVE  /\ InCall(d, "serve")' /\ callAt'[d].op \in Changing =>
                            \E q \in requested' : q.who = callAt'[d].key /\ q.op = callAt'[d].op
                      /\ InCall(d, "record")' /\ callAt'[d].status = 200
                            /\ callAt'[d].op \in {"approve", "deny"} =>
                            /\ decision'[callAt'[d].of] # Undecided
                            /\ decision'[callAt'[d].of] = Decision(callAt'[d].key, callAt'[d].op)
    BY DEF CallsSound, Changing, Decision
  <2>1. CASE d = c
    BY <1>2, <2>1 DEF InCall
  <2>2. CASE d # c
    BY <1>2, <2>2 DEF InCall, AdminInv, CallsSound, dataVars
  <2> QED
    BY <2>1, <2>2
<1>4. AnswersStand' /\ ChangeOnRecord' /\ AnswerOnRecord'
  BY DEF AdminInv, AnswersStand, ChangeOnRecord, AnswerOnRecord, dataVars
<1> QED
  BY <1>1, <1>3, <1>4 DEF AdminInv

\* A call with the answer it will get.
Answering(call, status) == [call EXCEPT !.pc = "record", !.status = status]

LEMMA ServedRecord ==
    ASSUME NEW call \in RequestType, NEW status \in Statuses
    PROVE  /\ Answering(call, status) \in RequestType
           /\ Answering(call, status).pc = "record" /\ Answering(call, status).status = status
           /\ Answering(call, status).key = call.key /\ Answering(call, status).op = call.op
           /\ Answering(call, status).of = call.of
BY DEF RequestType, Answering

LEMMA Refusals ==
    /\ 200 \in Statuses /\ 401 \in Statuses /\ 404 \in Statuses /\ 503 \in Statuses
    /\ 401 # 200 /\ 503 # 200
BY DEF Statuses

\* The start, the end and the socket of a server.
LEMMA ServerStep ==
    ASSUME AdminInv, NEW s \in Servers,
           adminListenUnix(s) \/ RemoveStale(s) \/ Bind(s) \/ LogStart(s) \/ StopServer(s)
    PROVE  AdminInv'
<1>1. /\ sock' \in Servers \cup {NoSock}
      /\ \A c \in ApiCalls : callAt'[c] \in {callAt[c], NoApiCall}
      /\ callAt' \in [ApiCalls -> {NoApiCall} \cup RequestType]
      /\ UNCHANGED <<dataVars, requested, answered>>
  BY DEF AdminInv, AdminTyped, adminListenUnix, RemoveStale, Bind, LogStart, StopServer
<1>2. AdminTyped'
  BY <1>1 DEF AdminInv, AdminTyped, dataVars
<1>3. CallsSound'
  <2>1. ASSUME NEW c \in ApiCalls, NEW pc \in {"serve", "record"}, InCall(c, pc)'
        PROVE  callAt'[c] = callAt[c] /\ InCall(c, pc)
    BY <1>1, <2>1, RestIsNoCall DEF InCall
  <2> QED
    BY <1>1, <2>1 DEF AdminInv, CallsSound, dataVars
<1>4. AnswersStand' /\ ChangeOnRecord' /\ AnswerOnRecord'
  BY <1>1 DEF AdminInv, AnswersStand, ChangeOnRecord, AnswerOnRecord, dataVars
<1> QED
  BY <1>2, <1>3, <1>4 DEF AdminInv

\* A request arrives.
LEMMA SendStep ==
    ASSUME AdminInv, NEW c \in ApiCalls, NEW key \in ApiKeys, NEW verb \in Operations,
           NEW of \in Pending, NEW pc \in {"confirm", "authenticate"}, Send(c, key, verb, of, pc)
    PROVE  AdminInv'
<1> DEFINE r == [pc |-> pc, by |-> sock, key |-> key, op |-> verb, of |-> of, status |-> 200]
<1>1. r \in RequestType /\ r.pc \notin {"serve", "record"}
  BY DEF Send, AdminInv, AdminTyped, RequestType, Statuses
<1>2. /\ callAt' = [callAt EXCEPT ![c] = r] /\ sock' = sock
      /\ UNCHANGED <<dataVars, answered, requested>>
  BY DEF Send, serverVars, dataVars
<1> HIDE DEF r
<1> QED
  BY <1>1, <1>2, RequestMoves

\* A call leaves a stage before it is served.
LEMMA EarlyStep ==
    ASSUME AdminInv, NEW c \in ApiCalls, confirmWrite(c) \/ authenticate(c)
    PROVE  AdminInv'
<1>0. callAt \in [ApiCalls -> {NoApiCall} \cup RequestType]
  BY DEF AdminInv, AdminTyped
<1>1. UNCHANGED <<serverVars, dataVars, answered, requested>>
  BY DEF confirmWrite, authenticate
<1>2. callAt[c] \in RequestType
  BY <1>0, RestIsNoCall DEF confirmWrite, authenticate, Step
<1>3. CASE confirmWrite(c) /\ callAt' = [callAt EXCEPT ![c] = NoApiCall]
  BY <1>1, <1>3, RestIsNoCall, RequestMoves DEF serverVars
<1>4. CASE confirmWrite(c) /\ Step(c, "confirm", "authenticate")
  <2> DEFINE r == [callAt[c] EXCEPT !.pc = "authenticate"]
  <2>1. r \in RequestType /\ r.pc = "authenticate" /\ callAt' = [callAt EXCEPT ![c] = r]
    BY <1>0, <1>2, <1>4 DEF Step, RequestType
  <2> HIDE DEF r
  <2> QED
    BY <1>1, <2>1, RequestMoves DEF serverVars
<1>5. CASE authenticate(c) /\ callAt[c].key = "wrong"
  <2>0. PICK status \in Statuses : status = 401 /\ status # 200
    BY Refusals
  <2> DEFINE r == Answering(callAt[c], status)
  <2>1. r \in RequestType /\ r.pc = "record" /\ r.status # 200
    BY <1>2, <2>0, ServedRecord
  <2>2. callAt' = [callAt EXCEPT ![c] = r]
    BY <1>0, <1>2, <1>5, <2>0 DEF authenticate, Answering
  <2> HIDE DEF r
  <2> QED
    BY <1>1, <2>1, <2>2, RequestMoves DEF serverVars
<1>6. CASE authenticate(c) /\ callAt[c].key # "wrong"
  <2> DEFINE r == [callAt[c] EXCEPT !.pc = IF callAt[c].op \in Changing THEN "request" ELSE "serve"]
  <2>1. r \in RequestType /\ r.pc # "record" /\ (r.pc = "serve" => r.op \notin Changing)
    BY <1>0, <1>2 DEF RequestType
  <2>2. callAt' = [callAt EXCEPT ![c] = r]
    BY <1>0, <1>2, <1>6 DEF authenticate
  <2> HIDE DEF r
  <2> QED
    BY <1>1, <2>1, <2>2, RequestMoves DEF serverVars
<1> QED
  BY <1>3, <1>4, <1>5, <1>6 DEF confirmWrite

\* A call ends with the answer it was served, or with a 503.
LEMMA FinishStep ==
    ASSUME AdminInv, NEW c \in ApiCalls, callAt[c] \in RequestType, NEW status \in Statuses,
           NEW rec \in BOOLEAN, Finish(c, status, rec),
           UNCHANGED <<serverVars, dataVars, requested>>,
           status = 503 \/ rec,
           status = 200 /\ callAt[c].op \in {"approve", "deny"} =>
               /\ decision[callAt[c].of] # Undecided
               /\ decision[callAt[c].of] = Decision(callAt[c].key, callAt[c].op)
    PROVE  AdminInv'
<1> DEFINE a == [op |-> callAt[c].op, of |-> callAt[c].of, by |-> callAt[c].key,
                 status |-> status, recorded |-> rec]
<1>1. answered' = answered \cup {a} /\ callAt' = [callAt EXCEPT ![c] = NoApiCall]
  BY DEF Finish
<1>2. a \in AnswerType
  BY DEF AnswerType, RequestType
<1>3. /\ callAt'[c] = NoApiCall
      /\ \A d \in ApiCalls : d # c => callAt'[d] = callAt[d]
      /\ callAt' \in [ApiCalls -> {NoApiCall} \cup RequestType]
  BY <1>1 DEF AdminInv, AdminTyped
<1>4. AdminTyped'
  BY <1>1, <1>2, <1>3 DEF AdminInv, AdminTyped, serverVars, dataVars
<1>5. CallsSound'
  <2>1. ASSUME NEW d \in ApiCalls, NEW pc \in {"serve", "record"}, InCall(d, pc)'
        PROVE  callAt'[d] = callAt[d] /\ InCall(d, pc)
    BY <1>3, <2>1, RestIsNoCall DEF InCall
  <2> QED
    BY <2>1 DEF AdminInv, CallsSound, dataVars
<1>6. AnswersStand' /\ AnswerOnRecord'
  BY <1>1 DEF AdminInv, AnswersStand, AnswerOnRecord, dataVars, Decision
<1>7. ChangeOnRecord'
  BY DEF AdminInv, ChangeOnRecord, dataVars
<1> QED
  BY <1>4, <1>5, <1>6, <1>7 DEF AdminInv

LEMMA RecordStep ==
    ASSUME AdminInv, NEW c \in ApiCalls, LogRequest(c) \/ LogAnswer(c)
    PROVE  AdminInv'
<1>0. callAt \in [ApiCalls -> {NoApiCall} \cup RequestType]
  BY DEF AdminInv, AdminTyped
<1>2. callAt[c] \in RequestType
  BY <1>0, RestIsNoCall DEF LogRequest, LogAnswer, Step
<1>3. CASE LogRequest(c) /\ Step(c, "request", "serve")
           /\ requested' = requested \cup {[who |-> callAt[c].key, op |-> callAt[c].op]}
           /\ UNCHANGED answered
  <2> DEFINE r == [callAt[c] EXCEPT !.pc = "serve"]
  <2>1. /\ r \in RequestType /\ r.pc = "serve" /\ r.key = callAt[c].key /\ r.op = callAt[c].op
        /\ callAt' = [callAt EXCEPT ![c] = r]
    BY <1>0, <1>2, <1>3 DEF Step, RequestType
  <2>2. \E q \in requested' : q.who = r.key /\ q.op = r.op
    <3>1. [who |-> callAt[c].key, op |-> callAt[c].op] \in requested'
      BY <1>3
    <3> QED
      BY <2>1, <3>1
  <2>3. UNCHANGED <<serverVars, dataVars>>
    BY <1>3 DEF LogRequest
  <2> HIDE DEF r
  <2> QED
    BY <1>3, <2>1, <2>2, <2>3, RequestMoves DEF serverVars
<1>4. CASE LogRequest(c) /\ Finish(c, 503, FALSE) /\ UNCHANGED requested
  <2>1. PICK status \in Statuses : status = 503 /\ status # 200
    BY Refusals
  <2>r. PICK rec \in BOOLEAN : rec = FALSE
    BY Zenon
  <2>2. Finish(c, status, rec) /\ UNCHANGED <<serverVars, dataVars, requested>>
    BY <1>4, <2>1, <2>r DEF LogRequest
  <2> QED
    BY <1>2, <2>1, <2>2, FinishStep
<1>5. CASE LogAnswer(c)
  <2>1. callAt[c].status \in Statuses /\ InCall(c, "record")
    BY <1>2, <1>5 DEF RequestType, LogAnswer, InCall
  <2>2. UNCHANGED <<serverVars, dataVars, requested>>
    BY <1>5 DEF LogAnswer
  <2>3. callAt[c].status = 200 /\ callAt[c].op \in {"approve", "deny"} =>
           /\ decision[callAt[c].of] # Undecided
           /\ decision[callAt[c].of] = Decision(callAt[c].key, callAt[c].op)
    BY <2>1 DEF AdminInv, CallsSound
  <2>4. CASE Finish(c, callAt[c].status, TRUE)
    BY <1>2, <2>1, <2>2, <2>3, <2>4, FinishStep
  <2>5. CASE Finish(c, 503, FALSE)
    <3>1. PICK status \in Statuses : status = 503 /\ status # 200
      BY Refusals
    <3>r. PICK rec \in BOOLEAN : rec = FALSE
      BY Zenon
    <3>2. Finish(c, status, rec)
      BY <2>5, <3>1, <3>r
    <3> QED
      BY <1>2, <2>2, <3>1, <3>2, FinishStep
  <2> QED
    BY <1>5, <2>4, <2>5 DEF LogAnswer
<1> QED
  BY <1>3, <1>4, <1>5 DEF LogRequest

\* The decision of a request that waits, under the name of a key that was recorded.
LEMMA DecideStep ==
    ASSUME AdminInv, NEW c \in ApiCalls, InCall(c, "serve"), callAt[c].key \in NamedKeys,
           callAt[c].op \in {"approve", "deny"}, decision[callAt[c].of] = Undecided, Served(c, 200),
           decision' = [decision EXCEPT ![callAt[c].of] =
              [who |-> callAt[c].key, approve |-> callAt[c].op = "approve"]],
           UNCHANGED <<serverVars, banned, requested, answered>>
    PROVE  AdminInv'
<1> DEFINE f == callAt[c].of
           k == callAt[c].key
           r == Answering(callAt[c], 200)
<1>0. /\ callAt[c] \in RequestType /\ f \in Pending /\ k \in NamedKeys
      /\ r \in RequestType /\ r.pc = "record" /\ r.key = k /\ r.of = f /\ r.op = callAt[c].op
      /\ callAt' = [callAt EXCEPT ![c] = r]
  <2>1. callAt[c] \in RequestType /\ callAt \in [ApiCalls -> {NoApiCall} \cup RequestType]
    BY DEF InCall, AdminInv, AdminTyped
  <2>2. f \in Pending /\ k \in NamedKeys /\ callAt' = [callAt EXCEPT ![c] = r]
    BY <2>1 DEF RequestType, Served, Answering
  <2>3. r \in RequestType /\ r.pc = "record" /\ r.key = k /\ r.of = f /\ r.op = callAt[c].op
    BY <2>1, ServedRecord, Refusals
  <2> QED
    BY <2>1, <2>2, <2>3
<1>1. /\ callAt'[c] = r /\ \A d \in ApiCalls : d # c => callAt'[d] = callAt[d]
      /\ callAt' \in [ApiCalls -> {NoApiCall} \cup RequestType]
  BY <1>0 DEF AdminInv, AdminTyped
<1>2. /\ decision'[f] = Decision(k, callAt[c].op) /\ decision'[f].who = k
      /\ decision'[f].approve = (callAt[c].op = "approve")
      /\ decision'[f] # Undecided
      /\ \A g \in Pending : g # f => decision'[g] = decision[g]
      /\ decision' \in [Pending -> [who : NamedKeys \cup {"none"}, approve : BOOLEAN]]
  BY <1>0, AdminAssumption DEF AdminInv, AdminTyped, Decision, Undecided
<1> HIDE DEF f, k, r
<1>3. AdminTyped'
  BY <1>1, <1>2 DEF AdminInv, AdminTyped, serverVars
<1>4. \A g \in Pending : decision[g] # Undecided => decision'[g] = decision[g]
  BY <1>2 DEF f
<1>5. AnswersStand'
  <2>1. \A a \in answered : a.of \in Pending
    BY DEF AdminInv, AdminTyped, AnswerType
  <2> QED
    BY <1>4, <2>1 DEF AdminInv, AnswersStand, Decision, Undecided
<1>6. CallsSound'
  <2> SUFFICES ASSUME NEW d \in ApiCalls
               PROVE  /\ InCall(d, "serve")' /\ callAt'[d].op \in Changing =>
                            \E q \in requested' : q.who = callAt'[d].key /\ q.op = callAt'[d].op
                      /\ InCall(d, "record")' /\ callAt'[d].status = 200
                            /\ callAt'[d].op \in {"approve", "deny"} =>
                            /\ decision'[callAt'[d].of] # Undecided
                            /\ decision'[callAt'[d].of] = Decision(callAt'[d].key, callAt'[d].op)
    BY DEF CallsSound, Changing, Decision
  <2>1. CASE d = c
    BY <1>0, <1>1, <1>2, <2>1 DEF InCall
  <2>2. CASE d # c
    <3>1. callAt'[d] = callAt[d]
      BY <1>1, <2>2
    <3>2. callAt[d] \in RequestType => callAt[d].of \in Pending
      BY DEF RequestType
    <3> QED
      BY <1>4, <3>1, <3>2 DEF InCall, AdminInv, CallsSound
  <2> QED
    BY <2>1, <2>2
<1>7. ChangeOnRecord'
  <2>1. \E q \in requested : q.who = k /\ q.op = callAt[c].op
    BY DEF AdminInv, CallsSound, Changing, k
  <2>2. (IF decision'[f].approve THEN "approve" ELSE "deny") = callAt[c].op
    BY <1>2
  <2>3. \A g \in Pending : g # f => decision'[g] = decision[g]
    BY <1>2
  <2> QED
    BY <1>0, <1>2, <2>1, <2>2, <2>3 DEF AdminInv, ChangeOnRecord
<1>8. AnswerOnRecord'
  BY DEF AdminInv, AnswerOnRecord
<1> QED
  BY <1>3, <1>5, <1>6, <1>7, <1>8 DEF AdminInv

LEMMA ServeStep ==
    ASSUME AdminInv, NEW c \in ApiCalls, serveAuthorized(c)
    PROVE  AdminInv'
<1>0. /\ callAt \in [ApiCalls -> {NoApiCall} \cup RequestType]
      /\ UNCHANGED <<serverVars, requested, answered>>
  BY DEF AdminInv, AdminTyped, serveAuthorized
<1>1. callAt[c] \in RequestType /\ InCall(c, "serve")
  BY <1>0, RestIsNoCall DEF serveAuthorized, InCall
<1>2. ASSUME NEW status \in Statuses, Served(c, status), UNCHANGED dataVars,
             status # 200 \/ callAt[c].op \notin {"approve", "deny"}
      PROVE  AdminInv'
  <2> DEFINE r == Answering(callAt[c], status)
  <2>1. r \in RequestType /\ r.pc = "record" /\ r.status = status /\ r.op = callAt[c].op
    BY <1>1, ServedRecord
  <2>2. callAt' = [callAt EXCEPT ![c] = r]
    BY <1>2 DEF Served, Answering
  <2> HIDE DEF r
  <2> QED
    BY <1>0, <1>2, <2>1, <2>2, RequestMoves DEF serverVars
<1>3. CASE callAt[c].op \in Changing /\ ~requireNamedAdmin(c)
  BY <1>2, <1>3 DEF serveAuthorized, Statuses
<1>4. CASE callAt[c].op \notin Changing
  BY <1>2, <1>4 DEF serveAuthorized, ListVerified, handleExplain, Statuses, Changing
<1>5. CASE requireNamedAdmin(c) /\ handleApproval(c)
  <2>1. CASE /\ decision[callAt[c].of] = Undecided /\ Served(c, 200)
             /\ decision' = [decision EXCEPT ![callAt[c].of] =
                   [who |-> callAt[c].key, approve |-> callAt[c].op = "approve"]]
    BY <1>0, <1>1, <1>5, <2>1, DecideStep DEF handleApproval, requireNamedAdmin
  <2>2. CASE (Served(c, 400) \/ Served(c, 503)) /\ UNCHANGED decision
    BY <1>2, <1>5, <2>2 DEF handleApproval, Statuses, dataVars
  <2> QED
    BY <1>5, <2>1, <2>2 DEF handleApproval
<1>6. CASE requireNamedAdmin(c) /\ handleGuardUnban(c)
  <2>1. \E q \in requested : q.who \in NamedKeys /\ q.op = "unban"
    BY <1>1, <1>6 DEF AdminInv, CallsSound, handleGuardUnban, requireNamedAdmin, Changing
  <2>2. PICK status \in Statuses : Served(c, status)
    BY <1>6, Refusals DEF handleGuardUnban
  <2> DEFINE r == Answering(callAt[c], status)
  <2>3. r \in RequestType /\ r.pc = "record" /\ r.op = "unban"
    <3>1. callAt[c].op = "unban"
      BY <1>6 DEF handleGuardUnban
    <3> QED
      BY <1>1, <3>1, ServedRecord
  <2>4. callAt' = [callAt EXCEPT ![c] = r] /\ decision' = decision
    <3>1. callAt' = [callAt EXCEPT ![c] = r]
      BY <2>2 DEF Served, Answering
    <3>2. decision' = decision
      BY <1>6 DEF handleGuardUnban
    <3> QED
      BY <3>1, <3>2
  <2>5. callAt'[c] = r /\ \A d \in ApiCalls : d # c => callAt'[d] = callAt[d]
    BY <1>0, <2>4
  <2> HIDE DEF r
  <2>6. AdminTyped'
    BY <1>0, <2>3, <2>4 DEF AdminInv, AdminTyped, serverVars
  <2>7. CallsSound'
    <3> SUFFICES ASSUME NEW d \in ApiCalls
                 PROVE  /\ InCall(d, "serve")' /\ callAt'[d].op \in Changing =>
                              \E q \in requested' : q.who = callAt'[d].key /\ q.op = callAt'[d].op
                        /\ InCall(d, "record")' /\ callAt'[d].status = 200
                              /\ callAt'[d].op \in {"approve", "deny"} =>
                              /\ decision'[callAt'[d].of] # Undecided
                              /\ decision'[callAt'[d].of] = Decision(callAt'[d].key, callAt'[d].op)
      BY DEF CallsSound, Changing, Decision
    <3>1. CASE d = c
      BY <2>3, <2>5, <3>1 DEF InCall
    <3>2. CASE d # c
      BY <1>0, <2>4, <2>5, <3>2 DEF InCall, AdminInv, CallsSound
    <3> QED
      BY <3>1, <3>2
  <2>8. AnswersStand' /\ AnswerOnRecord'
    BY <1>0, <2>4 DEF AdminInv, AnswersStand, AnswerOnRecord
  <2>9. ChangeOnRecord'
    BY <1>0, <2>1, <2>4 DEF AdminInv, ChangeOnRecord
  <2> QED
    BY <2>6, <2>7, <2>8, <2>9 DEF AdminInv
<1> QED
  BY <1>3, <1>4, <1>5, <1>6 DEF serveAuthorized

LEMMA AdminStep == AdminInv /\ [AdminNext]_adminVars => AdminInv'
<1> SUFFICES ASSUME AdminInv, [AdminNext]_adminVars PROVE AdminInv'
  OBVIOUS
<1>1. ASSUME NEW c \in ApiCalls, decidePrompt(c) PROVE AdminInv'
  <2>1. PICK k \in ApiKeys, verb \in {"approve", "deny"}, r \in Pending : Send(c, k, verb, r, "confirm")
    BY <1>1 DEF decidePrompt, ApiKeys
  <2> QED
    BY <2>1, SendStep DEF Operations, Changing
<1>2. ASSUME NEW c \in ApiCalls, Arrive(c) PROVE AdminInv'
  <2>1. PICK k \in ApiKeys, verb \in Operations, r \in Pending : Send(c, k, verb, r, "authenticate")
    BY <1>2 DEF Arrive, ApiKeys, Operations
  <2> QED
    BY <2>1, SendStep
<1>3. CASE UNCHANGED adminVars
  BY <1>3 DEF adminVars, AdminInv, AdminTyped, CallsSound, InCall, AnswersStand, ChangeOnRecord,
              AnswerOnRecord
<1> QED
  BY <1>1, <1>2, <1>3, ServerStep, EarlyStep, RecordStep, ServeStep DEF AdminNext

\* What an administrator was told, what was done and what the log says agree, for any
\* number of servers, keys, calls and failing records.
THEOREM AnswersAreTrue == AdminSpec => []AdminSafety
<1>1. AdminInit => AdminInv
  BY AdminStart
<1>2. AdminInv /\ [AdminNext]_adminVars => AdminInv'
  BY AdminStep
<1>3. AdminInv => AdminSafety
  BY DEF AdminInv, AdminSafety, AnswerTrue, AnswersStand, Decision
<1> QED
  BY <1>1, <1>2, <1>3, PTL DEF AdminSpec

-----------------------------------------------------------------------------
(* Host profiles.                                                          *)

\* What a command knows at each of its stages, with what has been recorded.
Committing(r, log) ==
    /\ {"pc", "profile", "then"} \subseteq DOMAIN r
    /\ r.pc \in {"log", "keep", "write", "overlay"} /\ r.then \in {"keep", "write", "overlay"}
    /\ r.then \in {"keep", "write"} => r.profile \in Signed
    /\ r.pc \in {"keep", "write"} => r.profile \in Signed /\ r.profile \in log

Reading(r) ==
    /\ {"pc", "profile", "read"} \subseteq DOMAIN r
    /\ r.pc \in {"apply", "log", "show"} /\ r.read \in Signed
    /\ r.pc = "log" => r.then = "show"
    /\ r.pc \in {"log", "show"} => narrowOf(r.profile, r.read)

Acting(r, log) ==
    /\ {"pc", "verb", "menu"} \subseteq DOMAIN r
    /\ r.pc \in {"event", "act"}
    /\ r.menu => r.verb \in {"read", "restart-agent"}
    /\ r.pc = "act" => r.verb \in log

Known(r, profiles, verbs) ==
    r = Resting \/ Committing(r, profiles) \/ Reading(r) \/ Acting(r, verbs)

CommandsKnown == DOMAIN cmd = HostShells /\ \A o \in HostShells : Known(cmd[o], recorded, events)

HostInv == CommandsKnown /\ ProfilesOnRecord /\ ProfileSurvives /\ ActedAsRecorded

LEMMA NoFileUnsigned == NoFile \notin Signed
BY DEF NoFile, Signed

LEMMA HostStart == HostInit => HostInv
<1> SUFFICES ASSUME HostInit PROVE HostInv
  OBVIOUS
<1>1. CommandsKnown
  BY DEF HostInit, CommandsKnown, Known
<1>2. ProfilesOnRecord /\ ProfileSurvives /\ ActedAsRecorded
  BY DEF HostInit, ProfilesOnRecord, ProfileSurvives, ActedAsRecorded
<1> QED
  BY <1>1, <1>2 DEF HostInv

LEMMA HostSafe == HostInv => HostSafety
<1> SUFFICES ASSUME HostInv PROVE HostSafety
  OBVIOUS
<1>1. DriftNeverWidens
  <2> SUFFICES ASSUME NEW o \in HostShells, cmd[o].pc = "show"
               PROVE  cmd[o].read \in Signed /\ narrowOf(cmd[o].profile, cmd[o].read)
    BY DEF DriftNeverWidens
  <2>1. Reading(cmd[o])
    BY DEF HostInv, CommandsKnown, Known, Committing, Acting, Resting
  <2> QED
    BY <2>1 DEF Reading
<1> QED
  BY <1>1 DEF HostInv, HostSafety

\* Command o moves to r; what is on record only grows.
LEMMA CommandMoves ==
    ASSUME CommandsKnown, NEW o \in HostShells, NEW r, cmd' = [cmd EXCEPT ![o] = r],
           recorded \subseteq recorded', events \subseteq events', Known(r, recorded', events')
    PROVE  CommandsKnown'
<1>1. \A p \in HostShells : Known(cmd[p], recorded', events')
  <2> SUFFICES ASSUME NEW p \in HostShells PROVE Known(cmd[p], recorded', events')
    OBVIOUS
  <2>1. Known(cmd[p], recorded, events)
    BY DEF CommandsKnown
  <2>2. ASSUME Committing(cmd[p], recorded) PROVE Committing(cmd[p], recorded')
    BY <2>2 DEF Committing
  <2>3. ASSUME Acting(cmd[p], events) PROVE Acting(cmd[p], events')
    BY <2>3 DEF Acting
  <2> QED
    BY <2>1, <2>2, <2>3 DEF Known
<1>2. DOMAIN cmd' = HostShells /\ \A p \in HostShells : cmd'[p] = IF p = o THEN r ELSE cmd[p]
  BY DEF CommandsKnown
<1>3. \A p \in HostShells : Known(cmd'[p], recorded', events')
  BY <1>1, <1>2
<1> QED
  BY <1>2, <1>3 DEF CommandsKnown

\* The files and the other records stay.
LEMMA FilesKept ==
    ASSUME HostInv, CommandsKnown', UNCHANGED <<inst, prev, removed, ever, acted>>,
           recorded \subseteq recorded', events \subseteq events'
    PROVE  HostInv'
BY DEF HostInv, ProfilesOnRecord, ProfileSurvives, ActedAsRecorded

\* A command ends.
LEMMA CommandLeaves ==
    ASSUME CommandsKnown, NEW o \in HostShells, Leave(o), UNCHANGED <<recorded, events>>
    PROVE  CommandsKnown'
<1>1. Known(Resting, recorded', events')
  BY DEF Known
<1> QED
  BY <1>1, CommandMoves DEF Leave

\* A command starts, with what it has read.
LEMMA CommandStarts ==
    ASSUME HostInv, NEW o \in HostShells, NEW r, EnterCmd(o, r), Known(r, recorded, events),
           UNCHANGED <<inst, prev, recorded, events, acted, removed, ever>>
    PROVE  HostInv'
<1>1. CommandsKnown'
  BY CommandMoves DEF EnterCmd, HostInv
<1> QED
  BY <1>1, FilesKept

LEMMA StartStep ==
    ASSUME HostInv, NEW o \in HostShells,
           \/ hostCommit(o) \/ hostRollback(o) \/ hostDrift(o) \/ hostVerify(o)
           \/ RunDo(o, FALSE) \/ RunUnit(o, FALSE) \/ RunRecovery(o)
    PROVE  HostInv'
<1>1. CASE hostCommit(o)
  <2>1. PICK p \in Candidates \cap (Signed \cup Unsigned) :
           EnterCmd(o, [pc |-> "log", profile |-> p,
                        then |-> IF p \in Unsigned THEN "overlay"
                                 ELSE IF inst # NoFile THEN "keep" ELSE "write"])
    BY <1>1 DEF hostCommit
  <2> DEFINE r == [pc |-> "log", profile |-> p,
                   then |-> IF p \in Unsigned THEN "overlay"
                            ELSE IF inst # NoFile THEN "keep" ELSE "write"]
  <2>2. Committing(r, recorded)
    BY DEF Committing
  <2> HIDE DEF r
  <2> QED
    BY <1>1, <2>1, <2>2, CommandStarts DEF hostCommit, Known, r
<1>2. CASE hostRollback(o)
  <2> DEFINE r == [pc |-> "log", profile |-> prev, then |-> "write"]
  <2>1. Known(r, recorded, events) /\ EnterCmd(o, r)
    BY <1>2 DEF hostRollback, Known, Committing
  <2> HIDE DEF r
  <2> QED
    BY <1>2, <2>1, CommandStarts DEF hostRollback
<1>3. CASE hostDrift(o)
  <2> DEFINE r == [pc |-> "apply", profile |-> inst, read |-> inst]
  <2>1. Known(r, recorded, events) /\ EnterCmd(o, r)
    BY <1>3 DEF hostDrift, Known, Reading
  <2> HIDE DEF r
  <2> QED
    BY <1>3, <2>1, CommandStarts DEF hostDrift
<1>4. CASE hostVerify(o)
  <2> DEFINE r == [pc |-> "log", profile |-> inst, read |-> inst, then |-> "show"]
  <2>1. Known(r, recorded, events) /\ EnterCmd(o, r)
    BY <1>4 DEF hostVerify, Known, Reading, narrowOf
  <2> HIDE DEF r
  <2> QED
    BY <1>4, <2>1, CommandStarts DEF hostVerify
<1>5. CASE RunDo(o, FALSE)
  <2> DEFINE r == [pc |-> "event", verb |-> "do", menu |-> FALSE]
  <2>1. Known(r, recorded, events) /\ EnterCmd(o, r)
    BY <1>5 DEF RunDo, Known, Acting
  <2> HIDE DEF r
  <2> QED
    BY <1>5, <2>1, CommandStarts DEF RunDo
<1>6. ASSUME NEW menu \in BOOLEAN, RunUnit(o, menu) PROVE HostInv'
  <2>1. PICK verb \in {"read", "restart-agent", "restart", "stop"} :
           /\ menu \/ quarantine => unitObserveAllowed(verb)
           /\ EnterCmd(o, [pc |-> "event", verb |-> verb, menu |-> menu])
    BY <1>6 DEF RunUnit
  <2> DEFINE r == [pc |-> "event", verb |-> verb, menu |-> menu]
  <2>2. Known(r, recorded, events) /\ EnterCmd(o, r)
    BY <2>1 DEF Known, Acting, unitObserveAllowed
  <2> HIDE DEF r
  <2> QED
    BY <1>6, <2>2, CommandStarts DEF RunUnit
<1> QED
  BY <1>1, <1>2, <1>3, <1>4, <1>5, <1>6 DEF RunRecovery

\* Records of profiles and of acts come before what they record.
LEMMA LogStep ==
    ASSUME HostInv, NEW o \in HostShells, HostLogged(o) \/ applyNarrow(o) \/ ActLogged(o)
    PROVE  HostInv'
<1>0. CommandsKnown /\ Known(cmd[o], recorded, events)
  BY DEF HostInv, CommandsKnown
<1>1. CASE HostLogged(o)
  <2> DEFINE r == [cmd[o] EXCEPT !.pc = cmd[o].then]
  <2>1. cmd[o].pc = "log" /\ cmd' = [cmd EXCEPT ![o] = r] /\ recorded' = recorded \cup {cmd[o].profile}
        /\ events' = events
    BY <1>1 DEF HostLogged
  <2>2. Known(r, recorded', events')
    <3>1. ASSUME Committing(cmd[o], recorded) PROVE Committing(r, recorded')
      BY <2>1, <3>1 DEF Committing
    <3>2. ASSUME Reading(cmd[o]) PROVE Reading(r)
      BY <2>1, <3>2 DEF Reading
    <3>3. cmd[o] # Resting /\ ~Acting(cmd[o], events)
      BY <2>1 DEF Resting, Acting
    <3> QED
      BY <1>0, <3>1, <3>2, <3>3 DEF Known
  <2> HIDE DEF r
  <2>3. CommandsKnown'
    BY <1>0, <2>1, <2>2, CommandMoves
  <2> QED
    BY <1>1, <2>1, <2>3, FilesKept DEF HostLogged
<1>2. CASE applyNarrow(o)
  <2> DEFINE r == [pc |-> "log", then |-> "show", read |-> cmd[o].read,
                   profile |-> IF narrow = NoFile THEN cmd[o].read ELSE narrow]
  <2>1. cmd[o].pc = "apply" /\ cmd' = [cmd EXCEPT ![o] = r]
        /\ (narrow # NoFile => narrowOf(narrow, cmd[o].read))
    BY <1>2 DEF applyNarrow
  <2>2. Reading(cmd[o])
    BY <1>0, <2>1 DEF Known, Resting, Committing, Acting
  <2>3. Reading(r)
    BY <2>1, <2>2 DEF Reading, narrowOf
  <2> HIDE DEF r
  <2>4. CommandsKnown'
    BY <1>0, <1>2, <2>1, <2>3, CommandMoves DEF applyNarrow, Known
  <2> QED
    BY <1>2, <2>4, FilesKept DEF applyNarrow
<1>3. CASE ActLogged(o)
  <2> DEFINE r == [cmd[o] EXCEPT !.pc = "act"]
  <2>1. cmd[o].pc = "event" /\ cmd' = [cmd EXCEPT ![o] = r] /\ events' = events \cup {cmd[o].verb}
        /\ recorded' = recorded
    BY <1>3 DEF ActLogged
  <2>2. Acting(cmd[o], events)
    BY <1>0, <2>1 DEF Known, Resting, Committing, Reading
  <2>3. Acting(r, events')
    BY <2>1, <2>2 DEF Acting
  <2> HIDE DEF r
  <2>4. CommandsKnown'
    BY <1>0, <2>1, <2>3, CommandMoves DEF Known
  <2> QED
    BY <1>3, <2>1, <2>4, FilesKept DEF ActLogged
<1> QED
  BY <1>1, <1>2, <1>3

\* The files are written.
LEMMA WriteStep ==
    ASSUME HostInv, NEW o \in HostShells, CommitKeep(o) \/ writePrivate(o)
    PROVE  HostInv'
<1>0. CommandsKnown /\ Known(cmd[o], recorded, events)
  BY DEF HostInv, CommandsKnown
<1>1. Committing(cmd[o], recorded)
  BY <1>0 DEF Known, Resting, Reading, Acting, CommitKeep, writePrivate
<1>2. CASE CommitKeep(o)
  <2> DEFINE r == [cmd[o] EXCEPT !.pc = "write"]
  <2>1. Committing(r, recorded') /\ cmd' = [cmd EXCEPT ![o] = r]
    BY <1>1, <1>2 DEF Committing, CommitKeep
  <2> HIDE DEF r
  <2>2. CommandsKnown'
    BY <1>0, <1>2, <2>1, CommandMoves DEF CommitKeep, Known
  <2> QED
    BY <1>2, <2>2
       DEF CommitKeep, HostInv, ProfilesOnRecord, ProfileSurvives, ActedAsRecorded
<1>3. CASE writePrivate(o)
  <2>1. CommandsKnown'
    BY <1>0, <1>3, CommandLeaves DEF writePrivate
  <2>2. cmd[o].profile \in Signed /\ cmd[o].profile \in recorded /\ cmd[o].profile # NoFile
    BY <1>1, <1>3, NoFileUnsigned DEF writePrivate, Committing
  <2> QED
    BY <1>3, <2>1, <2>2
       DEF writePrivate, HostInv, ProfilesOnRecord, ProfileSurvives, ActedAsRecorded
<1> QED
  BY <1>2, <1>3

\* A command ends without touching the profiles, or with an act.
LEMMA EndStep ==
    ASSUME HostInv, NEW o \in HostShells,
           commitNarrow(o) \/ formatProfile(o) \/ ActRuns(o) \/ Abandon(o)
    PROVE  HostInv'
<1>0. CommandsKnown /\ Known(cmd[o], recorded, events)
  BY DEF HostInv, CommandsKnown
<1>1. CommandsKnown'
  BY <1>0, CommandLeaves DEF commitNarrow, formatProfile, ActRuns, Abandon
<1>2. CASE commitNarrow(o)
  BY <1>1, <1>2
     DEF commitNarrow, HostInv, ProfilesOnRecord, ProfileSurvives, ActedAsRecorded
<1>3. CASE formatProfile(o) \/ Abandon(o)
  BY <1>1, <1>3, FilesKept DEF formatProfile, Abandon
<1>4. CASE ActRuns(o)
  <2>1. Acting(cmd[o], events)
    BY <1>0, <1>4 DEF ActRuns, Known, Resting, Committing, Reading
  <2> QED
    BY <1>1, <1>4, <2>1
       DEF ActRuns, Acting, HostInv, ProfilesOnRecord, ProfileSurvives, ActedAsRecorded
<1> QED
  BY <1>2, <1>3, <1>4

LEMMA HostStep == HostInv /\ [HostNext]_profileVars => HostInv'
<1> SUFFICES ASSUME HostInv, [HostNext]_profileVars PROVE HostInv'
  OBVIOUS
<1>1. CASE Quarantine \/ LiftQuarantine \/ UNCHANGED profileVars
  BY <1>1 DEF Quarantine, LiftQuarantine, profileVars, HostInv, CommandsKnown, ProfilesOnRecord,
              ProfileSurvives, ActedAsRecorded
<1> QED
  BY <1>1, StartStep, LogStep, WriteStep, EndStep DEF HostNext

\* Whatever shells commit, roll back, read and act at once, and die or fail anywhere, the
\* installed and previous profile are signed and on record, one of them survives, what
\* is read never allows more than it, and no child starts without its event.
THEOREM ProfilesAreSafe == HostSpec => []HostSafety
<1>1. HostInit => HostInv
  BY HostStart
<1>2. HostInv /\ [HostNext]_profileVars => HostInv'
  BY HostStep
<1>3. HostInv => HostSafety
  BY HostSafe
<1> QED
  BY <1>1, <1>2, <1>3, PTL DEF HostSpec

-----------------------------------------------------------------------------
(* The grid.                                                               *)

Record == [status : {"placed", "canceled"}, tree : Trees, remote : BOOLEAN,
           source : Sources \cup {"none"}]

GridTyped ==
  /\ DOMAIN op = Ops /\ openPorts \subseteq Ops
  /\ trees \in [Trees -> {"absent", NoFlight, Destroying} \cup Placed]
  /\ placed \in [Placed -> {NoRecord} \cup Record]
  /\ \A f \in Placed : placed[f] \in Record /\ placed[f].remote => placed[f].source = "none"

Removing == {"remove", "removed", "kept"}

\* What call r knows at its stage, with the tables as they are.
Placing(r) ==
  /\ {"pc", "flight", "tree", "remote", "source"} \subseteq DOMAIN r
  /\ r.pc \in {"ensure", "register"}
  /\ r.flight \in Placed /\ r.tree \in Trees /\ r.remote \in BOOLEAN
  /\ r.source \in Sources \cup {"none"} /\ (r.remote => r.source = "none")

Canceling(r) == r.pc = "cancel" /\ r.flight \in Placed

Creating(r) == {"pc", "tree"} \subseteq DOMAIN r /\ r.pc \in {"mkdir", "record"} /\ r.tree \in Trees

Destroys(r, trs) ==
  /\ {"pc", "tree"} \subseteq DOMAIN r /\ r.pc \in Removing
  /\ r.tree \in Trees /\ trs[r.tree] = Destroying

Cloning(r, plc) ==
  /\ r.pc = "clone" /\ r.flight \in Placed
  /\ plc[r.flight] \in Record /\ ~plc[r.flight].remote /\ plc[r.flight].source = r.source

Joining(r) == "pc" \in DOMAIN r /\ r.pc \in {"off", "init", "join", "install"}

CallKnown(r, trs, plc) ==
  Joining(r) \/ Placing(r) \/ Canceling(r) \/ Creating(r) \/ Destroys(r, trs) \/ Cloning(r, plc)

GridInv ==
  /\ GridTyped /\ TablesAgree /\ OneOpenListener
  /\ \A o \in Ops : CallKnown(op[o], trees, placed)
  /\ \A o, p \in Ops :
        op[o].pc \in Removing /\ op[p].pc \in Removing /\ op[o].tree = op[p].tree => o = p

LEMMA Unplaced == NoRecord \notin Record /\ NoRecord.status # "placed"
BY DEF NoRecord, Record

LEMMA GridStart == GridInit => GridInv
<1> SUFFICES ASSUME GridInit PROVE GridInv
  OBVIOUS
<1>1. GridTyped /\ OneOpenListener
  BY Unplaced DEF GridInit, GridTyped, OneOpenListener
<1>2. TablesAgree
  BY Unplaced, GridAssumption DEF GridInit, TablesAgree, Holds
<1>3. \A o \in Ops : op[o] = Off /\ op[o].pc = "off" /\ Joining(op[o])
  BY DEF GridInit, Off, Joining
<1> QED
  BY <1>1, <1>2, <1>3 DEF GridInv, CallKnown, Removing

\* A stage belongs to one kind of call.
LEMMA Stages ==
  ASSUME NEW r, CallKnown(r, trees, placed)
  PROVE  /\ r.pc \in {"ensure", "register"} => Placing(r)
         /\ r.pc = "cancel" => Canceling(r)
         /\ r.pc \in {"mkdir", "record"} => Creating(r)
         /\ r.pc \in Removing => Destroys(r, trees)
         /\ r.pc = "clone" => Cloning(r, placed)
         /\ r.pc \in {"off", "init", "join", "install"} => Joining(r)
BY DEF CallKnown, Joining, Placing, Canceling, Creating, Destroys, Cloning, Removing

LEMMA GridSafe ==
  GridInv => DestroySpares /\ TablesAgree /\ OneOpenListener /\ ClonesBound
<1> SUFFICES ASSUME GridInv PROVE DestroySpares /\ ClonesBound
  BY DEF GridInv
<1>1. DestroySpares
  <2> SUFFICES ASSUME NEW o \in Ops, op[o].pc \in {"remove", "removed"}, NEW f \in Placed,
                      Holds(f, op[o].tree)
               PROVE  FALSE
    BY DEF DestroySpares
  <2>1. Destroys(op[o], trees)
    BY Stages DEF GridInv, Removing
  <2>2. trees[op[o].tree] = f
    BY <2>1 DEF Destroys, GridInv, TablesAgree
  <2> QED
    BY <2>1, <2>2, GridAssumption DEF Destroys
<1>2. ClonesBound
  BY Stages DEF ClonesBound, GridInv, OpAt, Cloning
<1> QED
  BY <1>1, <1>2

\* Call o moves to r, and the tables stay.
LEMMA CallMoves ==
  ASSUME GridInv, NEW o \in Ops, NEW r, op' = [op EXCEPT ![o] = r], UNCHANGED <<trees, placed>>,
         CallKnown(r, trees, placed),
         r.pc \in Removing => op[o].pc \in Removing /\ r.tree = op[o].tree,
         openPorts' \subseteq Ops, OneOpenListener'
  PROVE  GridInv'
<1>1. op'[o] = r /\ \A p \in Ops : p # o => op'[p] = op[p]
  BY DEF GridInv, GridTyped
<1>2. GridTyped' /\ TablesAgree'
  BY DEF GridInv, GridTyped, TablesAgree, Holds
<1>3. \A p \in Ops : CallKnown(op'[p], trees', placed')
  BY <1>1 DEF GridInv
<1>4. \A p, q \in Ops :
        op'[p].pc \in Removing /\ op'[q].pc \in Removing /\ op'[p].tree = op'[q].tree => p = q
  BY <1>1 DEF GridInv
<1> QED
  BY <1>2, <1>3, <1>4 DEF GridInv

LEMMA PortsKept ==
  ASSUME GridInv, NEW o \in Ops, NEW r, op' = [op EXCEPT ![o] = r],
         UNCHANGED <<listener, openPorts>>, op[o].pc # "install"
  PROVE  OneOpenListener' /\ openPorts' \subseteq Ops
BY DEF GridInv, GridTyped, OneOpenListener, OpAt

\* Inits and serves.
LEMMA MemberStep ==
  ASSUME GridInv, NEW o \in Ops,
         InitLook(o) \/ InitToken(o) \/ InitJoin(o) \/ ServeBind(o) \/ installGridServer(o)
  PROVE  GridInv'
<1>0. CallKnown(op[o], trees, placed) /\ DOMAIN op = Ops /\ openPorts \subseteq Ops
  BY DEF GridInv, GridTyped
<1>1. UNCHANGED <<trees, placed>>
  BY DEF InitLook, InitToken, InitJoin, ServeBind, installGridServer, treeVars
<1>2. ASSUME NEW r, op' = [op EXCEPT ![o] = r], Joining(r), OneOpenListener', openPorts' \subseteq Ops
      PROVE  GridInv'
  BY <1>1, <1>2, CallMoves DEF CallKnown, Joining, Removing
<1>3. Joining(Off)
  BY DEF Off, Joining
<1>4. CASE InitLook(o)
  <2>1. PICK path \in {"t1", "t2"}, out \in BOOLEAN :
           op' = [op EXCEPT ![o] = [pc |-> "init", path |-> path, out |-> out]]
    BY <1>4 DEF InitLook
  <2> DEFINE r == [pc |-> "init", path |-> path, out |-> out]
  <2>2. Joining(r) /\ op[o].pc # "install"
    BY <1>4 DEF Joining, InitLook, Off
  <2> HIDE DEF r
  <2>3. OneOpenListener' /\ openPorts' \subseteq Ops
    BY <1>4, <2>1, <2>2, PortsKept DEF InitLook, r
  <2> QED
    BY <1>2, <2>1, <2>2, <2>3 DEF r
<1>5. CASE InitToken(o)
  <2>1. PICK r : op' = [op EXCEPT ![o] = r] /\ Joining(r)
    <3>1. CASE To(o, "join")
      <4> DEFINE r == [op[o] EXCEPT !.pc = "join"]
      <4>1. Joining(op[o])
        BY <1>0, <1>5, Stages DEF InitToken, OpAt
      <4>2. Joining(r) /\ op' = [op EXCEPT ![o] = r]
        BY <3>1, <4>1 DEF To, Joining
      <4> QED
        BY <4>2
    <3>2. CASE Done(o)
      BY <1>3, <3>2 DEF Done
    <3> QED
      BY <1>5, <3>1, <3>2 DEF InitToken
  <2>2. OneOpenListener' /\ openPorts' \subseteq Ops
    BY <1>5, <2>1, PortsKept DEF InitToken, OpAt
  <2> QED
    BY <1>2, <2>1, <2>2
<1>6. CASE InitJoin(o)
  BY <1>2, <1>3, <1>6, PortsKept DEF InitJoin, OpAt, Done
<1>7. CASE ServeBind(o)
  <2>1. PICK path \in tokens : op' = [op EXCEPT ![o] = [pc |-> "install", path |-> path]]
    BY <1>7 DEF ServeBind
  <2> DEFINE r == [pc |-> "install", path |-> path]
  <2>2. Joining(r) /\ r.pc = "install"
    BY DEF Joining
  <2> HIDE DEF r
  <2>3. op'[o].pc = "install" /\ \A p \in Ops : p # o => op'[p] = op[p]
    BY <1>0, <2>1, <2>2 DEF r
  <2>4. OneOpenListener' /\ openPorts' \subseteq Ops
    BY <1>0, <1>7, <2>3 DEF ServeBind, GridInv, OneOpenListener, OpAt
  <2> QED
    BY <1>2, <2>1, <2>2, <2>4 DEF r
<1>8. CASE installGridServer(o)
  <2>1. \A p \in Ops : p # o => op'[p] = op[p]
    BY <1>0, <1>8 DEF installGridServer, Done
  <2>2. \A p \in openPorts : p # "none"
    BY <1>0, GridAssumption
  <2>3. OneOpenListener' /\ openPorts' \subseteq Ops
    BY <1>0, <1>8, <2>1, <2>2 DEF installGridServer, GridInv, OneOpenListener, OpAt
  <2> QED
    BY <1>2, <1>3, <1>8, <2>3 DEF installGridServer, Done
<1> QED
  BY <1>4, <1>5, <1>6, <1>7, <1>8

\* A call begins with what it was asked and what it found in the tables.
LEMMA BeginStep ==
  ASSUME GridInv, NEW o \in Ops,
         \/ gridFlightHandler(o) \/ flightPlace(o) \/ flightCancel(o) \/ CreateLook(o)
         \/ worktreeCheckout(o)
  PROVE  GridInv'
<1>0. GridTyped /\ op[o].pc = "off" /\ UNCHANGED <<trees, placed, listener, openPorts>>
  BY DEF GridInv, gridFlightHandler, flightPlace, flightCancel, CreateLook, worktreeCheckout, Off,
         nodeVars, treeVars
<1>1. ASSUME NEW r, op' = [op EXCEPT ![o] = r], Placing(r) \/ Canceling(r) \/ Creating(r) \/ Cloning(r, placed)
      PROVE  GridInv'
  <2>1. OneOpenListener' /\ openPorts' \subseteq Ops
    BY <1>0, <1>1, PortsKept
  <2>2. r.pc \notin Removing
    BY <1>1 DEF Placing, Canceling, Creating, Cloning, Removing
  <2> QED
    BY <1>0, <1>1, <2>1, <2>2, CallMoves DEF CallKnown
<1>2. ASSUME NEW f \in Placed, NEW w \in Trees, NEW remote \in BOOLEAN,
             NEW source \in Sources \cup {"none"}, remote => source = "none",
             op' = [op EXCEPT ![o] = [pc |-> "ensure", flight |-> f, tree |-> w,
                                      remote |-> remote, source |-> source]]
      PROVE  GridInv'
  <2> DEFINE r == [pc |-> "ensure", flight |-> f, tree |-> w, remote |-> remote, source |-> source]
  <2>1. Placing(r)
    BY <1>2 DEF Placing
  <2> HIDE DEF r
  <2> QED
    BY <1>1, <1>2, <2>1 DEF r
<1>3. ASSUME NEW f \in Placed, NEW remote \in BOOLEAN,
             op' = [op EXCEPT ![o] = [pc |-> "cancel", flight |-> f, remote |-> remote]]
      PROVE  GridInv'
  <2> DEFINE r == [pc |-> "cancel", flight |-> f, remote |-> remote]
  <2>1. Canceling(r)
    BY DEF Canceling
  <2> HIDE DEF r
  <2> QED
    BY <1>1, <1>3, <2>1 DEF r
<1>4. CASE gridFlightHandler(o)
  BY <1>2, <1>3, <1>4 DEF gridFlightHandler
<1>5. CASE flightPlace(o)
  BY <1>2, <1>5 DEF flightPlace
<1>6. CASE flightCancel(o)
  BY <1>3, <1>6 DEF flightCancel
<1>7. CASE CreateLook(o)
  <2>1. PICK w \in Trees : op' = [op EXCEPT ![o] = [pc |-> "mkdir", tree |-> w]]
    BY <1>7 DEF CreateLook
  <2> DEFINE r == [pc |-> "mkdir", tree |-> w]
  <2>2. Creating(r)
    BY DEF Creating
  <2> HIDE DEF r
  <2> QED
    BY <1>1, <2>1, <2>2 DEF r
<1>8. CASE worktreeCheckout(o)
  <2>0. PICK f \in Placed :
           /\ placed[f] # NoRecord
           /\ \E source \in agentCheckoutSource(f) :
                op' = [op EXCEPT ![o] = [pc |-> "clone", flight |-> f, tree |-> placed[f].tree,
                                         source |-> source]]
    BY <1>8 DEF worktreeCheckout
  <2>1. PICK source \in agentCheckoutSource(f) :
           op' = [op EXCEPT ![o] = [pc |-> "clone", flight |-> f, tree |-> placed[f].tree,
                                    source |-> source]]
    BY <2>0
  <2> DEFINE r == [pc |-> "clone", flight |-> f, tree |-> placed[f].tree, source |-> source]
  <2>2. placed[f] \in Record /\ source = placed[f].source /\ source # "none"
    BY <1>0, <2>0, <2>1 DEF GridTyped, agentCheckoutSource
  <2>3. ~placed[f].remote
    BY <1>0, <2>2 DEF GridTyped
  <2>4. Cloning(r, placed)
    BY <2>2, <2>3 DEF Cloning
  <2> HIDE DEF r
  <2> QED
    BY <1>1, <2>1, <2>4 DEF r
<1> QED
  BY <1>4, <1>5, <1>6, <1>7, <1>8

\* A call works on directories, which the tables do not show.
LEMMA DirectoryStep ==
  ASSUME GridInv, NEW o \in Ops,
         PlaceEnsure(o) \/ CreateDir(o) \/ removeWorktreeDir(o) \/ checkoutWorktree(o)
  PROVE  GridInv'
<1>0. /\ CallKnown(op[o], trees, placed) /\ op[o].pc # "install"
      /\ UNCHANGED <<trees, placed, listener, openPorts>>
  BY DEF GridInv, PlaceEnsure, CreateDir, removeWorktreeDir, checkoutWorktree, OpAt, nodeVars
<1>1. ASSUME NEW r, op' = [op EXCEPT ![o] = r], CallKnown(r, trees, placed),
             r.pc \in Removing => op[o].pc \in Removing /\ r.tree = op[o].tree
      PROVE  GridInv'
  <2>1. OneOpenListener' /\ openPorts' \subseteq Ops
    BY <1>0, <1>1, PortsKept
  <2> QED
    BY <1>0, <1>1, <2>1, CallMoves
<1>2. CASE PlaceEnsure(o)
  <2> DEFINE r == [op[o] EXCEPT !.pc = "register"]
  <2>1. Placing(op[o]) /\ op' = [op EXCEPT ![o] = r]
    BY <1>0, <1>2, Stages DEF PlaceEnsure, OpAt, To
  <2>2. Placing(r) /\ r.pc \notin Removing
    BY <2>1 DEF Placing, Removing
  <2> HIDE DEF r
  <2> QED
    BY <1>1, <2>1, <2>2 DEF CallKnown
<1>3. CASE CreateDir(o)
  <2> DEFINE r == [op[o] EXCEPT !.pc = "record"]
  <2>1. Creating(op[o]) /\ op' = [op EXCEPT ![o] = r]
    BY <1>0, <1>3, Stages DEF CreateDir, OpAt, To
  <2>2. Creating(r) /\ r.pc \notin Removing
    BY <2>1 DEF Creating, Removing
  <2> HIDE DEF r
  <2> QED
    BY <1>1, <2>1, <2>2 DEF CallKnown
<1>4. CASE removeWorktreeDir(o)
  <2>1. PICK pc \in {"removed", "kept"} : To(o, pc)
    BY <1>4 DEF removeWorktreeDir
  <2> DEFINE r == [op[o] EXCEPT !.pc = pc]
  <2>2. Destroys(op[o], trees) /\ op' = [op EXCEPT ![o] = r]
    BY <1>0, <1>4, <2>1, Stages DEF removeWorktreeDir, OpAt, To, Removing
  <2>3. Destroys(r, trees) /\ r.tree = op[o].tree
    BY <2>2 DEF Destroys, Removing
  <2> HIDE DEF r
  <2> QED
    BY <1>1, <2>2, <2>3 DEF CallKnown, Destroys
<1>5. CASE checkoutWorktree(o)
  BY <1>1, <1>5 DEF checkoutWorktree, Done, CallKnown, Joining, Off, Removing
<1> QED
  BY <1>2, <1>3, <1>4, <1>5

\* Call o changes the tables and moves to r; the other calls still know what they knew.
LEMMA TableChange ==
  ASSUME GridInv, NEW o \in Ops, NEW r, op' = [op EXCEPT ![o] = r], op[o].pc # "install",
         UNCHANGED <<listener, openPorts>>,
         CallKnown(r, trees', placed'),
         \A p \in Ops \ {o} :
            /\ op[p].pc \in Removing => trees'[op[p].tree] = Destroying
            /\ op[p].pc \in Removing /\ r.pc \in Removing => op[p].tree # r.tree,
         \A f \in Placed : placed[f] \in Record =>
            placed'[f] \in Record /\ placed'[f].remote = placed[f].remote
                                  /\ placed'[f].source = placed[f].source,
         trees' \in [Trees -> {"absent", NoFlight, Destroying} \cup Placed],
         placed' \in [Placed -> {NoRecord} \cup Record],
         \A f \in Placed : placed'[f] \in Record /\ placed'[f].remote => placed'[f].source = "none",
         TablesAgree'
  PROVE  GridInv'
<1>1. op'[o] = r /\ \A p \in Ops : p # o => op'[p] = op[p]
  BY DEF GridInv, GridTyped
<1>2. OneOpenListener' /\ openPorts' \subseteq Ops
  BY PortsKept
<1>3. GridTyped'
  BY <1>2 DEF GridInv, GridTyped
<1>4. ASSUME NEW p \in Ops, p # o PROVE CallKnown(op[p], trees', placed')
  <2>1. CallKnown(op[p], trees, placed)
    BY DEF GridInv
  <2>2. Destroys(op[p], trees) => Destroys(op[p], trees')
    BY <1>4 DEF Destroys
  <2>3. Cloning(op[p], placed) => Cloning(op[p], placed')
    BY DEF Cloning
  <2> QED
    BY <2>1, <2>2, <2>3 DEF CallKnown
<1>5. \A p \in Ops : CallKnown(op'[p], trees', placed')
  BY <1>1, <1>4
<1>6. \A p, q \in Ops :
        op'[p].pc \in Removing /\ op'[q].pc \in Removing /\ op'[p].tree = op'[q].tree => p = q
  BY <1>1 DEF GridInv
<1> QED
  BY <1>2, <1>3, <1>5, <1>6 DEF GridInv

\* Of another call that destroys a worktree, the worktree is reserved.
LEMMA OthersReserved ==
  ASSUME GridInv, NEW p \in Ops, op[p].pc \in Removing
  PROVE  op[p].tree \in Trees /\ trees[op[p].tree] = Destroying
BY Stages DEF GridInv, Destroys

\* The tables change under the mutex.
LEMMA TableStep ==
  ASSUME GridInv, NEW o \in Ops,
         registerFlight(o) \/ cancelFlight(o) \/ CreateRecord(o) \/ DestroyReserve(o) \/ DestroyFinish(o)
  PROVE  GridInv'
<1>0. /\ CallKnown(op[o], trees, placed) /\ op[o].pc # "install" /\ GridTyped /\ TablesAgree
      /\ UNCHANGED <<listener, openPorts>>
  BY DEF GridInv, registerFlight, cancelFlight, CreateRecord, DestroyReserve, DestroyFinish, OpAt,
         nodeVars, Off
<1>d. CallKnown(Off, trees', placed') /\ Off.pc \notin Removing
  BY DEF CallKnown, Joining, Off, Removing
<1>n. NoFlight \notin Placed /\ Destroying \notin Placed /\ "absent" \notin Placed
      /\ NoFlight # Destroying /\ Destroying # "absent"
  BY GridAssumption DEF NoFlight, Destroying
<1>k. ASSUME UNCHANGED <<trees, placed>>, Done(o) PROVE GridInv'
  <2>1. OneOpenListener' /\ openPorts' \subseteq Ops
    BY <1>0, <1>k, PortsKept DEF Done
  <2> QED
    BY <1>k, <1>d, <2>1, CallMoves DEF Done
<1>1. CASE registerFlight(o)
  <2> DEFINE f == op[o].flight
             w == op[o].tree
             rec == [status |-> "placed", tree |-> w, remote |-> op[o].remote, source |-> op[o].source]
  <2>1. Placing(op[o]) /\ Done(o)
    BY <1>0, <1>1, Stages DEF registerFlight, OpAt
  <2>2. f \in Placed /\ w \in Trees /\ rec \in Record /\ rec.status = "placed" /\ rec.tree = w
        /\ (rec.remote => rec.source = "none")
    BY <2>1 DEF Placing, Record
  <2>3. CASE placed[f] = NoRecord /\ Bindable(w)
    <3>1. placed' = [placed EXCEPT ![f] = rec] /\ trees' = [trees EXCEPT ![w] = f]
      BY <1>1, <2>3 DEF registerFlight
    <3> HIDE DEF f, w, rec
    <3>2. /\ placed'[f] = rec /\ \A g \in Placed : g # f => placed'[g] = placed[g]
          /\ trees'[w] = f /\ \A v \in Trees : v # w => trees'[v] = trees[v]
      BY <1>0, <2>2, <3>1 DEF GridTyped
    <3>3. trees[w] # Destroying /\ trees[w] \notin Placed
      BY <1>n, <2>3 DEF Bindable
    <3>4. TablesAgree'
      <4> SUFFICES ASSUME NEW g \in Placed, NEW v \in Trees
                   PROVE  (placed'[g].status = "placed" /\ placed'[g].tree = v) <=> trees'[v] = g
        BY DEF TablesAgree, Holds
      <4>1. (placed[g].status = "placed" /\ placed[g].tree = v) <=> trees[v] = g
        BY <1>0 DEF TablesAgree, Holds
      <4>2. CASE g = f
        <5>1. placed[f].status # "placed"
          BY <2>3, Unplaced
        <5> QED
          BY <2>2, <3>2, <4>1, <4>2, <5>1
      <4>3. CASE g # f
        BY <3>2, <3>3, <4>1, <4>3
      <4> QED
        BY <4>2, <4>3
    <3>5. \A p \in Ops \ {o} : op[p].pc \in Removing => trees'[op[p].tree] = Destroying
      BY <3>2, <3>3, OthersReserved
    <3>6. \A g \in Placed : placed[g] \in Record => placed'[g] = placed[g]
      BY <2>3, <3>2, Unplaced
    <3>7. /\ trees' \in [Trees -> {"absent", NoFlight, Destroying} \cup Placed]
          /\ placed' \in [Placed -> {NoRecord} \cup Record]
          /\ \A g \in Placed : placed'[g] \in Record /\ placed'[g].remote => placed'[g].source = "none"
      BY <1>0, <2>2, <3>1, <3>2 DEF GridTyped
    <3> QED
      BY <1>0, <1>d, <2>1, <3>4, <3>5, <3>6, <3>7, TableChange DEF Done
  <2>4. CASE ~(placed[f] = NoRecord /\ Bindable(w))
    BY <1>1, <1>k, <2>1, <2>4 DEF registerFlight
  <2> QED
    BY <2>3, <2>4
<1>2. CASE cancelFlight(o)
  <2> DEFINE f == op[o].flight
             w == placed[f].tree
             rec == [placed[f] EXCEPT !.status = "canceled"]
  <2>1. Canceling(op[o]) /\ Done(o)
    BY <1>0, <1>2, Stages DEF cancelFlight, OpAt
  <2>2. CASE placed[f] = NoRecord \/ (op[o].remote /\ ~placed[f].remote)
    BY <1>2, <1>k, <2>1, <2>2 DEF cancelFlight
  <2>3. CASE ~(placed[f] = NoRecord \/ (op[o].remote /\ ~placed[f].remote))
    <3>0. f \in Placed /\ placed[f] \in Record /\ w \in Trees
      BY <1>0, <2>1, <2>3 DEF Canceling, GridTyped, Record
    <3>1. /\ placed' = [placed EXCEPT ![f] = rec]
          /\ trees' = [trees EXCEPT ![w] = IF trees[w] = f THEN NoFlight ELSE trees[w]]
      BY <1>0, <1>2, <2>3, <3>0 DEF cancelFlight, FreeTree, GridTyped
    <3>2. /\ rec \in Record /\ rec.status = "canceled" /\ rec.tree = w
          /\ rec.remote = placed[f].remote /\ rec.source = placed[f].source
      BY <3>0 DEF Record
    <3> HIDE DEF f, w, rec
    <3>3. /\ placed'[f] = rec /\ \A g \in Placed : g # f => placed'[g] = placed[g]
          /\ trees'[w] = (IF trees[w] = f THEN NoFlight ELSE trees[w])
          /\ \A v \in Trees : v # w => trees'[v] = trees[v]
      BY <1>0, <3>0, <3>1 DEF GridTyped
    <3>4. TablesAgree'
      <4> SUFFICES ASSUME NEW g \in Placed, NEW v \in Trees
                   PROVE  (placed'[g].status = "placed" /\ placed'[g].tree = v) <=> trees'[v] = g
        BY DEF TablesAgree, Holds
      <4>1. (placed[g].status = "placed" /\ placed[g].tree = v) <=> trees[v] = g
        BY <1>0 DEF TablesAgree, Holds
      <4>2. CASE g = f
        <5>1. v # w => trees[v] # f
          BY <4>1, <4>2 DEF w
        <5> QED
          BY <1>n, <3>0, <3>2, <3>3, <4>2, <5>1
      <4>3. CASE g # f
        BY <1>n, <3>3, <4>1, <4>3
      <4> QED
        BY <4>2, <4>3
    <3>5. \A p \in Ops \ {o} : op[p].pc \in Removing => trees'[op[p].tree] = Destroying
      BY <1>n, <3>0, <3>3, OthersReserved
    <3>6. \A g \in Placed : placed[g] \in Record =>
             placed'[g] \in Record /\ placed'[g].remote = placed[g].remote
                                   /\ placed'[g].source = placed[g].source
      BY <3>2, <3>3
    <3>7. /\ trees' \in [Trees -> {"absent", NoFlight, Destroying} \cup Placed]
          /\ placed' \in [Placed -> {NoRecord} \cup Record]
      BY <1>0, <3>0, <3>1, <3>2 DEF GridTyped
    <3>8. \A g \in Placed : placed'[g] \in Record /\ placed'[g].remote => placed'[g].source = "none"
      BY <1>0, <3>0, <3>2, <3>3 DEF GridTyped
    <3> QED
      BY <1>0, <1>d, <2>1, <3>4, <3>5, <3>6, <3>7, <3>8, TableChange DEF Done
  <2> QED
    BY <2>2, <2>3
\* From one value that names no flight to another.
<1>3. ASSUME NEW r, op' = [op EXCEPT ![o] = r], NEW w \in Trees, trees[w] \notin Placed,
             NEW v \in {"absent", NoFlight, Destroying}, trees' = [trees EXCEPT ![w] = v],
             placed' = placed, CallKnown(r, trees', placed'),
             \A p \in Ops \ {o} : op[p].pc \in Removing => op[p].tree # w,
             r.pc \in Removing => r.tree = w
      PROVE  GridInv'
  <2>1. trees'[w] = v /\ \A x \in Trees : x # w => trees'[x] = trees[x]
    BY <1>0, <1>3 DEF GridTyped
  <2>2. TablesAgree'
    <3> SUFFICES ASSUME NEW g \in Placed, NEW x \in Trees
                 PROVE  (placed'[g].status = "placed" /\ placed'[g].tree = x) <=> trees'[x] = g
      BY DEF TablesAgree, Holds
    <3>1. (placed[g].status = "placed" /\ placed[g].tree = x) <=> trees[x] = g
      BY <1>0 DEF TablesAgree, Holds
    <3> QED
      BY <1>3, <1>n, <2>1, <3>1
  <2>3. \A p \in Ops \ {o} :
           /\ op[p].pc \in Removing => trees'[op[p].tree] = Destroying
           /\ op[p].pc \in Removing /\ r.pc \in Removing => op[p].tree # r.tree
    BY <1>3, <2>1, OthersReserved
  <2>4. trees' \in [Trees -> {"absent", NoFlight, Destroying} \cup Placed]
    BY <1>0, <1>3 DEF GridTyped
  <2>5. /\ placed' \in [Placed -> {NoRecord} \cup Record]
        /\ \A g \in Placed : placed'[g] \in Record /\ placed'[g].remote => placed'[g].source = "none"
        /\ \A g \in Placed : placed'[g] = placed[g]
    BY <1>0, <1>3 DEF GridTyped
  <2> QED
    BY <1>0, <1>3, <2>2, <2>3, <2>4, <2>5, TableChange
<1>4. CASE CreateRecord(o)
  <2>1. Creating(op[o]) /\ Done(o) /\ placed' = placed
    BY <1>0, <1>4, Stages DEF CreateRecord, OpAt
  <2>2. CASE trees[op[o].tree] = "absent"
    <3>1. trees' = [trees EXCEPT ![op[o].tree] = NoFlight] /\ op[o].tree \in Trees
      BY <1>4, <2>1, <2>2 DEF CreateRecord, Creating
    <3>2. \A p \in Ops \ {o} : op[p].pc \in Removing => op[p].tree # op[o].tree
      BY <1>n, <2>2, OthersReserved
    <3> QED
      BY <1>3, <1>d, <1>n, <2>1, <2>2, <3>1, <3>2 DEF Done
  <2>3. CASE trees[op[o].tree] # "absent"
    BY <1>4, <1>k, <2>1, <2>3 DEF CreateRecord
  <2> QED
    BY <2>2, <2>3
<1>5. CASE DestroyReserve(o)
  <2>1. PICK w \in Trees :
           /\ trees[w] = NoFlight /\ trees' = [trees EXCEPT ![w] = Destroying]
           /\ op' = [op EXCEPT ![o] = [pc |-> "remove", tree |-> w]] /\ placed' = placed
    BY <1>5 DEF DestroyReserve
  <2> DEFINE r == [pc |-> "remove", tree |-> w]
  <2>2. trees'[w] = Destroying
    BY <1>0, <2>1 DEF GridTyped
  <2>3. Destroys(r, trees') /\ r.tree = w
    BY <2>2 DEF Destroys, Removing
  <2>4. \A p \in Ops \ {o} : op[p].pc \in Removing => op[p].tree # w
    BY <1>n, <2>1, OthersReserved
  <2> HIDE DEF r
  <2> QED
    BY <1>3, <1>n, <2>1, <2>3, <2>4 DEF CallKnown, r
<1>6. CASE DestroyFinish(o)
  <2>1. Destroys(op[o], trees) /\ Done(o) /\ placed' = placed /\ op[o].pc \in Removing
    BY <1>0, <1>6, Stages DEF DestroyFinish, Removing
  <2>2. PICK v \in {"absent", NoFlight, Destroying} : trees' = [trees EXCEPT ![op[o].tree] = v]
    BY <1>6, <2>1 DEF DestroyFinish, Destroys
  <2>3. \A p \in Ops \ {o} : op[p].pc \in Removing => op[p].tree # op[o].tree
    BY <2>1 DEF GridInv
  <2> QED
    BY <1>3, <1>d, <1>n, <2>1, <2>2, <2>3 DEF Done, Destroys
<1> QED
  BY <1>1, <1>2, <1>4, <1>5, <1>6

LEMMA GridStep == GridInv /\ [GridNext]_gridVars => GridInv'
<1> SUFFICES ASSUME GridInv, [GridNext]_gridVars PROVE GridInv'
  OBVIOUS
<1>1. CASE UNCHANGED gridVars
  BY <1>1 DEF gridVars, GridInv, GridTyped, TablesAgree, Holds, OneOpenListener, OpAt
<1> QED
  BY <1>1, MemberStep, BeginStep, DirectoryStep, TableStep DEF GridNext, DestroyStep

\* Only a member without a token joins.
LEMMA MemberStays == [GridNext]_gridVars => [member # "none" => member' = member]_gridVars
BY DEF GridNext, gridVars, nodeVars, InitLook, InitToken, InitJoin, ServeBind, installGridServer,
       gridFlightHandler, flightPlace, PlaceEnsure, registerFlight, flightCancel, cancelFlight,
       CreateLook, CreateDir, CreateRecord, DestroyReserve, DestroyStep, removeWorktreeDir,
       DestroyFinish, worktreeCheckout, checkoutWorktree

\* Whatever inits, serves, placements, cancels, creates, destroys and checkouts run at
\* once, for any number of them: the tables agree on who holds a worktree, none is
\* removed while a flight holds it, one listener is open, the membership is for good,
\* and an agent clones only what a local operator bound to its flight.
THEOREM TablesStayTrue == GridSpec => GridSafety
<1>1. GridInit => GridInv
  BY GridStart
<1>2. GridInv /\ [GridNext]_gridVars => GridInv'
  BY GridStep
<1>3. GridInv => DestroySpares /\ TablesAgree /\ OneOpenListener /\ ClonesBound
  BY GridSafe
<1>4. [GridNext]_gridVars => [member # "none" => member' = member]_gridVars
  BY MemberStays
<1> QED
  BY <1>1, <1>2, <1>3, <1>4, PTL DEF GridSpec, GridSafety, OneMembership

-----------------------------------------------------------------------------
(* Plugins.                                                                *)

Sessions == [top : [TopNames -> PluginNames \cup {"none", "user"}], cmds : SUBSET PluginNames,
             comps : SUBSET PluginNames, exported : UNION {[D -> SUBSET TopNames] : D \in SUBSET PluginNames}]

\* Each plugin's name is on its record, records are disjoint, and what is on one is bound.
Recorded(s) ==
  /\ \A n \in TopNames : s.top[n] \notin {"none", "user"} =>
        s.top[n] \in DOMAIN s.exported /\ n \in s.exported[s.top[n]]
  /\ \A p, q \in DOMAIN s.exported : p # q => s.exported[p] \cap s.exported[q] = {}
  /\ \A p \in DOMAIN s.exported : \A n \in s.exported[p] : s.top[n] # "none"

\* A load that has run the first plugins of its batch has hidden what they exported before.
HiddenBy(r, n) == \E k \in 1 .. Len(r.batch) : k < r.i /\ n \in Prev(r.snap, r.batch[k])

Loads == [at : {"exec"}, batch : Batches, exports : UNION {[1 .. Len(b) -> SUBSET TopNames] : b \in Batches},
          i : Nat \ {0}, snap : Sessions]
Failures == [at : {"failed"}, snap : Sessions]

Loading(r) ==
  /\ r \in Loads /\ r.exports \in [1 .. Len(r.batch) -> SUBSET TopNames] /\ Recorded(r.snap)
  /\ exported = r.snap.exported
  /\ \A n \in TopNames : top[n] = IF HiddenBy(r, n) THEN "none" ELSE r.snap.top[n]

Failed(r) == r \in Failures /\ Recorded(r.snap) /\ Session = r.snap

PluginsInv ==
  /\ Session \in Sessions /\ DOMAIN loading = {"fg"}
  /\ \/ loading["fg"] = NoLoad /\ Recorded(Session)
     \/ Loading(loading["fg"])
     \/ Failed(loading["fg"])

LEMMA SessionParts ==
  ASSUME NEW t, NEW c, NEW m, NEW e
  PROVE  [top |-> t, cmds |-> c, comps |-> m, exported |-> e] \in Sessions <=>
           /\ t \in [TopNames -> PluginNames \cup {"none", "user"}]
           /\ c \subseteq PluginNames /\ m \subseteq PluginNames
           /\ DOMAIN e \subseteq PluginNames /\ e \in [DOMAIN e -> SUBSET TopNames]
<1>1. e \in UNION {[D -> SUBSET TopNames] : D \in SUBSET PluginNames} <=>
        DOMAIN e \subseteq PluginNames /\ e \in [DOMAIN e -> SUBSET TopNames]
  OBVIOUS
<1> DEFINE E == UNION {[D -> SUBSET TopNames] : D \in SUBSET PluginNames}
<1>2. e \in E <=> DOMAIN e \subseteq PluginNames /\ e \in [DOMAIN e -> SUBSET TopNames]
  BY <1>1
<1> SUFFICES [top |-> t, cmds |-> c, comps |-> m, exported |-> e] \in
               [top : [TopNames -> PluginNames \cup {"none", "user"}], cmds : SUBSET PluginNames,
                comps : SUBSET PluginNames, exported : E] <=>
           /\ t \in [TopNames -> PluginNames \cup {"none", "user"}]
           /\ c \subseteq PluginNames /\ m \subseteq PluginNames /\ e \in E
  BY <1>2 DEF Sessions
<1> HIDE DEF E
<1> QED
  OBVIOUS

LEMMA LoadStages ==
  ASSUME PluginsInv
  PROVE  /\ loading["fg"].at = "idle" => Recorded(Session)
         /\ loading["fg"].at = "exec" => Loading(loading["fg"])
         /\ loading["fg"].at = "failed" => Failed(loading["fg"])
BY DEF PluginsInv, NoLoad, Loading, Loads, Failed, Failures

LEMMA PluginsStart == Loaders = {"fg"} /\ PluginsInit => PluginsInv
<1> SUFFICES ASSUME Loaders = {"fg"}, PluginsInit PROVE PluginsInv
  OBVIOUS
<1>1. [p \in {} |-> {}] \in [{} -> SUBSET TopNames] /\ {} \in SUBSET PluginNames
  OBVIOUS
<1>2. exported \in UNION {[D -> SUBSET TopNames] : D \in SUBSET PluginNames}
  BY <1>1 DEF PluginsInit
<1>3. Session \in Sessions
  BY <1>2 DEF PluginsInit, Session, Sessions
<1>4. Recorded(Session)
  BY DEF PluginsInit, Session, Recorded
<1> QED
  BY <1>3, <1>4 DEF PluginsInit, PluginsInv

LEMMA PluginsSafe == Loaders = {"fg"} /\ PluginsInv => RollbackWhole /\ RecordsTrue
<1> SUFFICES ASSUME Loaders = {"fg"}, PluginsInv PROVE RollbackWhole /\ RecordsTrue
  OBVIOUS
<1>1. RollbackWhole
  BY LoadStages DEF RollbackWhole, Failed
<1>2. RecordsTrue
  BY LoadStages DEF RecordsTrue, Recorded, Session
<1> QED
  BY <1>1, <1>2

\* A load ends with the session as it found it.
LEMMA RollBack ==
  ASSUME PluginsInv, loading["fg"].at = "exec", Fails("fg")
  PROVE  PluginsInv' /\ top' = loading["fg"].snap.top
<1> DEFINE snap == loading["fg"].snap
<1>1. snap \in Sessions /\ Recorded(snap)
  BY LoadStages DEF Loading, Loads
<1>2. Session' = snap /\ top' = snap.top
  BY <1>1 DEF Fails, restoreSession, Session, Sessions
<1>3. loading' = [loading EXCEPT !["fg"] = [at |-> "failed", snap |-> snap]]
  BY DEF Fails
<1>4. loading'["fg"] = [at |-> "failed", snap |-> snap] /\ DOMAIN loading' = {"fg"}
  BY <1>3 DEF PluginsInv
<1> HIDE DEF snap
<1>5. Failed(loading["fg"])'
  BY <1>1, <1>2, <1>4 DEF Failed, Failures
<1> QED
  BY <1>1, <1>2, <1>4, <1>5 DEF PluginsInv, snap

LEMMA LoadStarts == PluginsInv /\ LoadStarlarkPlugins("fg") => PluginsInv'
<1> SUFFICES ASSUME PluginsInv, LoadStarlarkPlugins("fg") PROVE PluginsInv'
  OBVIOUS
<1>1. Session' = Session /\ top' = top /\ exported' = exported /\ Recorded(Session)
  BY LoadStages DEF LoadStarlarkPlugins, sessionVars, Session
<1>2. PICK b \in Batches : \E read \in preflight(b) :
         \/ read = {} /\ UNCHANGED loading
         \/ \E x \in read : loading' = [loading EXCEPT !["fg"] =
               [at |-> "exec", batch |-> b, exports |-> x, i |-> 1, snap |-> Session]]
  BY DEF LoadStarlarkPlugins
<1>3. CASE UNCHANGED loading
  BY <1>1, <1>3 DEF PluginsInv, LoadStarlarkPlugins, sessionVars, NoLoad, Loading, Loads, Failed, Failures
<1>4. CASE \E x \in [1 .. Len(b) -> SUBSET TopNames] : loading' = [loading EXCEPT !["fg"] =
               [at |-> "exec", batch |-> b, exports |-> x, i |-> 1, snap |-> Session]]
  <2>1. PICK x \in [1 .. Len(b) -> SUBSET TopNames] : loading' = [loading EXCEPT !["fg"] =
               [at |-> "exec", batch |-> b, exports |-> x, i |-> 1, snap |-> Session]]
    BY <1>4
  <2> DEFINE r == [at |-> "exec", batch |-> b, exports |-> x, i |-> 1, snap |-> Session]
  <2>2. r \in Loads /\ r.exports \in [1 .. Len(r.batch) -> SUBSET TopNames] /\ Recorded(r.snap)
    BY <1>1, <1>2 DEF Loads, PluginsInv
  <2>3. \A n \in TopNames : ~HiddenBy(r, n)
    BY DEF HiddenBy
  <2>4. exported = r.snap.exported /\ top = r.snap.top
    BY DEF Session
  <2>5. loading'["fg"] = r /\ DOMAIN loading' = {"fg"}
    BY <2>1 DEF PluginsInv
  <2> HIDE DEF r
  <2>6. Loading(loading["fg"])'
    BY <1>1, <2>2, <2>3, <2>4, <2>5 DEF Loading
  <2> QED
    BY <1>1, <2>5, <2>6 DEF PluginsInv
<1> QED
  BY <1>2, <1>3, <1>4 DEF preflight

LEMMA LoadRuns == PluginsInv /\ executePlugin("fg") => PluginsInv'
<1> SUFFICES ASSUME PluginsInv, executePlugin("fg") PROVE PluginsInv'
  OBVIOUS
<1> DEFINE r == loading["fg"]
           p == r.batch[r.i]
<1>1. Loading(r) /\ r.at = "exec" /\ r.i \in 1 .. Len(r.batch)
  BY LoadStages DEF executePlugin, Loading, Loads
<1>2. r.batch \in Seq(PluginNames) /\ p \in PluginNames
  BY <1>1, PluginsAssumption DEF Loading, Loads
<1>3. CASE Fails("fg")
  BY <1>1, <1>3, RollBack
<1>4. CASE /\ top' = [n \in TopNames |-> IF n \in Prev(r.snap, p) THEN "none" ELSE top[n]]
           /\ cmds' \in {cmds, cmds \cup {p}}
           /\ comps' \in {comps, comps \cup {p}}
           /\ loading' = [loading EXCEPT !["fg"].i = @ + 1]
           /\ UNCHANGED exported
  <2> DEFINE t == [r EXCEPT !.i = @ + 1]
  <2>1. Session' \in Sessions
    BY <1>2, <1>4 DEF PluginsInv, Session, Sessions
  <2>2. t \in Loads /\ t.i = r.i + 1 /\ t.batch = r.batch /\ t.snap = r.snap /\ t.exports = r.exports
    BY <1>1 DEF Loading, Loads
  <2>3. loading'["fg"] = t /\ DOMAIN loading' = {"fg"}
    BY <1>4 DEF PluginsInv
  <2>4. \A n \in TopNames : HiddenBy(t, n) <=> HiddenBy(r, n) \/ n \in Prev(r.snap, p)
    BY <1>1, <2>2 DEF HiddenBy, Loading, Loads
  <2> HIDE DEF t, p
  <2>5. \A n \in TopNames : top'[n] = IF HiddenBy(t, n) THEN "none" ELSE t.snap.top[n]
    BY <1>1, <1>4, <2>2, <2>4 DEF Loading
  <2> HIDE DEF r
  <2>6. Loading(loading["fg"])'
    BY <1>1, <1>4, <2>2, <2>3, <2>5 DEF Loading
  <2> QED
    BY <2>1, <2>3, <2>6 DEF PluginsInv
<1> QED
  BY <1>3, <1>4 DEF executePlugin

\* Without a clash the records of a batch are disjoint, and take no name that is bound by
\* another.
LEMMA NoClash ==
  ASSUME Loading(loading["fg"]), ~Clash("fg")
  PROVE  LET r == loading["fg"] IN
         \A i \in 1 .. Len(r.batch) : \A n \in r.exports[i] :
           /\ \A k \in 1 .. Len(r.batch) : n \in r.exports[k] => k = i
           /\ r.snap.top[n] = "none" \/ n \in Prev(r.snap, r.batch[i])
<1> DEFINE r == loading["fg"]
<1>1. Len(r.batch) \in Nat
  BY PluginsAssumption DEF Loading, Loads
<1> SUFFICES ASSUME NEW i \in 1 .. Len(r.batch), NEW n \in r.exports[i]
             PROVE  /\ \A k \in 1 .. Len(r.batch) : n \in r.exports[k] => k = i
                    /\ r.snap.top[n] = "none" \/ n \in Prev(r.snap, r.batch[i])
  OBVIOUS
<1>2. \A k \in 1 .. Len(r.batch) : k < i => n \notin r.exports[k]
  BY <1>1 DEF Clash
<1>3. \A k \in 1 .. Len(r.batch) : i < k => n \notin r.exports[k]
  BY <1>1 DEF Clash
<1> QED
  BY <1>1, <1>2, <1>3 DEF Clash

\* The bindings of a batch and its records.
LEMMA LoadCommits ==
  ASSUME PluginsInv, commitPlugins("fg"), ~Clash("fg")
  PROVE  /\ PluginsInv'
         /\ \A n \in TopNames : top[n] = "user" /\ (\A p \in DOMAIN exported : n \notin exported[p]) =>
              top'[n] = "user"
<1> DEFINE r == loading["fg"]
           b == r.batch
           by(n) == {i \in 1 .. Len(b) : n \in r.exports[i]}
           done == {b[i] : i \in 1 .. Len(b)}
<1>1. /\ Loading(r) /\ r.i > Len(b)
      /\ top' = [n \in TopNames |->
                   IF by(n) # {} THEN b[CHOOSE i \in by(n) : \A k \in by(n) : k <= i] ELSE top[n]]
      /\ exported' = [p \in DOMAIN exported \cup done |->
                        IF p \in done THEN r.exports[CHOOSE i \in 1 .. Len(b) : b[i] = p] ELSE exported[p]]
      /\ loading' = [loading EXCEPT !["fg"] = NoLoad] /\ cmds' = cmds /\ comps' = comps
  BY LoadStages DEF commitPlugins
<1>2. /\ b \in Seq(PluginNames) /\ Len(b) \in Nat /\ r.i \in Nat /\ r.exports \in [1 .. Len(b) -> SUBSET TopNames]
      /\ \A i, k \in 1 .. Len(b) : b[i] = b[k] => i = k
      /\ Recorded(r.snap) /\ exported = r.snap.exported
      /\ \A n \in TopNames : top[n] = IF HiddenBy(r, n) THEN "none" ELSE r.snap.top[n]
  BY <1>1, PluginsAssumption DEF Loading, Loads
<1>3. \A i \in 1 .. Len(b) : \A n \in r.exports[i] :
        /\ \A k \in 1 .. Len(b) : n \in r.exports[k] => k = i
        /\ r.snap.top[n] = "none" \/ n \in Prev(r.snap, b[i])
  BY <1>1, NoClash
<1>4. \A i \in 1 .. Len(b) : \A n \in r.exports[i] : top'[n] = b[i]
  <2> SUFFICES ASSUME NEW i \in 1 .. Len(b), NEW n \in r.exports[i] PROVE top'[n] = b[i]
    OBVIOUS
  <2>1. n \in TopNames /\ by(n) = {i}
    BY <1>2, <1>3
  <2>2. (CHOOSE j \in by(n) : \A k \in by(n) : k <= j) = i
    BY <2>1
  <2> QED
    BY <1>1, <2>1, <2>2
<1>5. \A n \in TopNames : (\A i \in 1 .. Len(b) : n \notin r.exports[i]) => top'[n] = top[n]
  BY <1>1
<1>6. \A i \in 1 .. Len(b) : b[i] \in DOMAIN exported' /\ exported'[b[i]] = r.exports[i]
  <2> SUFFICES ASSUME NEW i \in 1 .. Len(b)
               PROVE  b[i] \in DOMAIN exported' /\ exported'[b[i]] = r.exports[i]
    OBVIOUS
  <2>1. (CHOOSE j \in 1 .. Len(b) : b[j] = b[i]) = i
    BY <1>2
  <2> QED
    BY <1>1, <2>1
<1>7. \A p \in DOMAIN exported' : p \in done \/ (p \in DOMAIN exported /\ exported'[p] = exported[p])
  BY <1>1
<1>8. \A p \in DOMAIN exported : p \notin done => p \in DOMAIN exported' /\ exported'[p] = exported[p]
  <2> HIDE DEF done, by, b, r
  <2> SUFFICES ASSUME NEW p \in DOMAIN exported, p \notin done
               PROVE  p \in DOMAIN exported' /\ exported'[p] = exported[p]
    OBVIOUS
  <2> QED
    BY <1>1
<1>9. Session' \in Sessions
  <2>0. /\ top \in [TopNames -> PluginNames \cup {"none", "user"}]
        /\ cmds \subseteq PluginNames /\ comps \subseteq PluginNames
        /\ DOMAIN exported \subseteq PluginNames /\ exported \in [DOMAIN exported -> SUBSET TopNames]
    BY SessionParts DEF PluginsInv, Session
  <2>1. top' \in [TopNames -> PluginNames \cup {"none", "user"}]
    <3>1. \A n \in TopNames : top'[n] \in PluginNames \cup {"none", "user"}
      BY <2>0, <1>2, <1>4, <1>5
    <3> QED
      BY <1>1, <3>1
  <2>2. /\ DOMAIN exported' \in SUBSET PluginNames
        /\ exported' = [p \in DOMAIN exported' |-> exported'[p]]
    BY <1>1, <1>2, <2>0, SMTT(20)
  <2>3. \A p \in DOMAIN exported' : exported'[p] \subseteq TopNames
    BY <1>2, <1>6, <1>7, <2>0
  <2>4. exported' \in [DOMAIN exported' -> SUBSET TopNames]
    BY <2>2, <2>3
  <2> QED
    <3>1. cmds' = cmds /\ comps' = comps
      BY <1>1
    <3> QED
      BY <3>1, <2>0, <2>1, <2>2, <2>4, SessionParts DEF Session
<1> HIDE DEF r, b, by
<1>10. \A n \in TopNames : HiddenBy(r, n) <=> \E k \in 1 .. Len(b) : n \in Prev(r.snap, b[k])
  BY <1>1, <1>2 DEF HiddenBy, b
<1>11. \A n \in TopNames : top'[n] \notin {"none", "user"} =>
         top'[n] \in DOMAIN exported' /\ n \in exported'[top'[n]]
  <2> SUFFICES ASSUME NEW n \in TopNames, top'[n] \notin {"none", "user"}
               PROVE  top'[n] \in DOMAIN exported' /\ n \in exported'[top'[n]]
    OBVIOUS
  <2>1. CASE \E i \in 1 .. Len(b) : n \in r.exports[i]
    BY <2>1, <1>4, <1>6
  <2>2. CASE \A i \in 1 .. Len(b) : n \notin r.exports[i]
    <3>1. top'[n] = top[n] /\ top[n] = r.snap.top[n] /\ ~HiddenBy(r, n)
      BY <2>2, <1>2, <1>5
    <3>2. top[n] \in DOMAIN exported /\ n \in exported[top[n]]
      BY <3>1, <1>2 DEF Recorded
    <3>3. top[n] \notin done
      BY <3>1, <3>2, <1>2, <1>10 DEF Prev
    <3> QED
      BY <3>1, <3>2, <3>3, <1>8
  <2> QED
    BY <2>1, <2>2
<1>12. \A n \in TopNames : \A i \in 1 .. Len(b) : \A q \in DOMAIN exported :
         n \in r.exports[i] /\ n \in exported[q] => q = b[i]
  BY <1>2, <1>3 DEF Recorded, Prev
<1>13. \A p, q \in DOMAIN exported' : p # q => exported'[p] \cap exported'[q] = {}
  <2> SUFFICES ASSUME NEW p \in DOMAIN exported', NEW q \in DOMAIN exported', p # q,
                      NEW n \in exported'[p], n \in exported'[q]
               PROVE  FALSE
    OBVIOUS
  <2>0. n \in TopNames
    BY <1>9 DEF Session, Sessions
  <2>1. CASE p \in done /\ q \in done
    BY <2>1, <1>3, <1>6
  <2>2. CASE p \in done /\ q \notin done
    BY <2>0, <2>2, <1>6, <1>7, <1>12
  <2>3. CASE p \notin done /\ q \in done
    BY <2>0, <2>3, <1>6, <1>7, <1>12
  <2>4. CASE p \notin done /\ q \notin done
    BY <2>4, <1>2, <1>7 DEF Recorded
  <2> QED
    BY <2>1, <2>2, <2>3, <2>4
<1>14. \A p \in DOMAIN exported' : \A n \in exported'[p] : top'[n] # "none"
  <2> SUFFICES ASSUME NEW p \in DOMAIN exported', NEW n \in exported'[p] PROVE top'[n] # "none"
    OBVIOUS
  <2>0. n \in TopNames
    BY <1>9 DEF Session, Sessions
  <2>1. CASE \E i \in 1 .. Len(b) : n \in r.exports[i]
    BY <2>1, <1>2, <1>4, PluginsAssumption
  <2>2. CASE \A i \in 1 .. Len(b) : n \notin r.exports[i]
    <3>1. p \notin done
      BY <2>2, <1>6
    <3>2. p \in DOMAIN exported /\ n \in exported[p] /\ top'[n] = top[n]
      BY <2>0, <2>2, <3>1, <1>5, <1>7
    <3>3. ~HiddenBy(r, n)
      BY <2>0, <3>1, <3>2, <1>2, <1>10 DEF Recorded, Prev
    <3> QED
      BY <2>0, <3>2, <3>3, <1>2 DEF Recorded
  <2> QED
    BY <2>1, <2>2
<1>15. Recorded(Session)'
  BY <1>11, <1>13, <1>14 DEF Recorded, Session
<1>16. \A n \in TopNames : top[n] = "user" /\ (\A p \in DOMAIN exported : n \notin exported[p]) =>
         top'[n] = "user"
  <2> SUFFICES ASSUME NEW n \in TopNames, top[n] = "user", \A p \in DOMAIN exported : n \notin exported[p]
               PROVE  top'[n] = "user"
    OBVIOUS
  <2>1. r.snap.top[n] = "user"
    BY <1>2
  <2>2. \A i \in 1 .. Len(b) : n \notin r.exports[i]
    BY <2>1, <1>2, <1>3 DEF Prev
  <2> QED
    BY <2>2, <1>5
<1> QED
  BY <1>1, <1>9, <1>15, <1>16 DEF PluginsInv

\* The session's own binding.
LEMMA NameBound == PluginsInv /\ UserBinds => PluginsInv'
<1> SUFFICES ASSUME PluginsInv, UserBinds PROVE PluginsInv'
  OBVIOUS
<1>1. PICK n \in TopNames : top' = [top EXCEPT ![n] = "user"]
  BY DEF UserBinds
<1>2. Recorded(Session) /\ loading["fg"] = NoLoad
  BY LoadStages DEF UserBinds, PluginsInv, Loading, Loads, Failed, Failures
<1>3. Session' \in Sessions /\ Recorded(Session)'
  BY <1>1, <1>2 DEF PluginsInv, UserBinds, Session, Sessions, Recorded
<1> QED
  BY <1>2, <1>3 DEF PluginsInv, UserBinds

LEMMA PluginsStep ==
  ASSUME Loaders = {"fg"}, PluginsInv, [PluginsNext]_pluginVars
  PROVE  /\ PluginsInv'
         /\ \A n \in TopNames : top[n] = "user" /\ (\A p \in DOMAIN exported : n \notin exported[p]) =>
              top'[n] = "user"
<1> DEFINE Kept == \A n \in TopNames :
                     top[n] = "user" /\ (\A p \in DOMAIN exported : n \notin exported[p]) => top'[n] = "user"
<1>1. CASE LoadStarlarkPlugins("fg")
  BY <1>1, LoadStarts DEF LoadStarlarkPlugins, sessionVars
<1>2. ASSUME loading["fg"].at = "exec", Fails("fg") PROVE PluginsInv' /\ Kept
  <2>1. PluginsInv' /\ top' = loading["fg"].snap.top
    BY <1>2, RollBack
  <2>2. \A n \in TopNames : top[n] = "user" => loading["fg"].snap.top[n] = "user"
    BY <1>2, LoadStages DEF Loading
  <2> QED
    BY <2>1, <2>2
<1>3. CASE executePlugin("fg")
  <2>1. PluginsInv'
    BY <1>3, LoadRuns
  <2>2. CASE ~Fails("fg")
    <3>1. exported = loading["fg"].snap.exported
      BY <1>3, LoadStages DEF executePlugin, Loading
    <3> QED
      BY <1>3, <2>1, <2>2, <3>1 DEF executePlugin, Prev
  <2> QED
    BY <1>2, <1>3, <2>1, <2>2 DEF executePlugin
<1>4. CASE commitPlugins("fg")
  BY <1>2, <1>4, LoadCommits DEF commitPlugins
<1>5. CASE LoadReturns("fg")
  <2>1. Recorded(Session) /\ Session \in Sessions
    BY <1>5, LoadStages DEF LoadReturns, Failed, PluginsInv
  <2> QED
    BY <1>5, <2>1 DEF LoadReturns, PluginsInv, Session, sessionVars
<1>6. CASE UserBinds
  <2>1. Kept
    BY <1>6 DEF UserBinds, PluginsInv, Session, Sessions
  <2> QED
    BY <1>6, <2>1, NameBound
<1>7. CASE UNCHANGED pluginVars
  BY <1>7 DEF pluginVars, sessionVars, PluginsInv, Session, Loading, Failed
<1> QED
  BY <1>1, <1>3, <1>4, <1>5, <1>6, <1>7 DEF PluginsNext, LoadStep

\* With one loader, a load that fails puts the session back, the records are true when
\* none is under way, and a name of the user's own is never taken. Two loads at once roll
\* back to snapshots of their own, and each takes the other's bindings with it.
THEOREM LoadsAreWhole == Loaders = {"fg"} /\ PluginsSpec => PluginsSafety
<1> SUFFICES ASSUME Loaders = {"fg"} PROVE PluginsSpec => PluginsSafety
  OBVIOUS
<1>1. PluginsInit => PluginsInv
  BY PluginsStart
<1>2. PluginsInv /\ [PluginsNext]_pluginVars => PluginsInv'
  BY PluginsStep
<1>3. PluginsInv => RollbackWhole /\ RecordsTrue
  BY PluginsSafe
<1>4. PluginsInv /\ [PluginsNext]_pluginVars =>
        [\A n \in TopNames : top[n] = "user" /\ (\A p \in DOMAIN exported : n \notin exported[p]) =>
           top'[n] = "user"]_pluginVars
  BY PluginsStep
<1> QED
  BY <1>1, <1>2, <1>3, <1>4, PTL DEF PluginsSpec, PluginsSafety, UserNamesKept

-----------------------------------------------------------------------------
(* The jail.                                                               *)

\* A sample is a time in the past; the samples of a peer are in the order they
\* were taken.
Samples(cap) ==
    {w \in Seq(Nat) : /\ Len(w) <= cap
                      /\ \A i \in 1..Len(w) : w[i] <= now
                      /\ \A i, j \in 1..Len(w) : i <= j => w[i] <= w[j]}

BanTables == {b \in [Peers -> Nat] : IsFiniteSet(Banned(b)) /\ Cardinality(Banned(b)) <= MaxEntries}

JailServices ==
    [bans : BanTables, strikes : [Peers -> Samples(MaxRetry)], rates : [Peers -> Samples(RateLimit)],
     swept : Int, saw : BOOLEAN, seen : Nat \cup {-1}, tripped : BOOLEAN, write : {"none", "ban", "unban"},
     peer : Peers \cup {"none"}, prev : BanTables, base : Nat \cup {-1}]

\* The bans of a service that its last look at the file left it with.
Memory(s) == IF s.write = "none" THEN s.bans ELSE s.prev
UpToDate(s) == s.saw /\ s.seen = banFile.version

\* A file that is damaged or gone bans nobody.
FileSound ==
    /\ now \in Nat \ {0} /\ banFile = [state |-> banFile.state, bans |-> banFile.bans, version |-> banFile.version]
    /\ banFile.state \in {"absent", "ok", "bad"} /\ banFile.bans \in BanTables
    /\ banFile.version \in Nat
    /\ banFile.state # "ok" => banFile.bans = NoBans

JailTyped ==
    /\ now \in 1..MaxClock /\ faults \in 0..MaxFaults
    /\ banFile.version \in 0..(MaxWrites + 1)
    /\ banFile.state = "ok" => banFile.version <= MaxWrites

\* One service and the file.
Writing(s) ==
    /\ s.peer \in Peers /\ s.base # -1 /\ s.base <= banFile.version /\ ~s.tripped
    /\ s.write = "unban" => s.bans = [s.prev EXCEPT ![s.peer] = 0]
    /\ \A p \in Peers : p = s.peer \/ s.bans[p] \in {0, s.prev[p]}

ServiceSound(x, s) ==
    /\ s \in JailServices
    /\ s.seen <= banFile.version /\ (banFile.state # "ok" => s.seen < banFile.version)
    /\ s.write # "none" => Writing(s)
    /\ s.write # "none" /\ s.base = banFile.version =>
          IF banFile.state = "ok" THEN UpToDate(s) ELSE x = "daemon" /\ ~s.saw
    /\ UpToDate(s) /\ ~s.tripped => Live(Memory(s)) = Live(banFile.bans)
    /\ x = "console" => s.write # "ban" /\ (~s.saw => s.bans = NoBans /\ s.write = "none")

\* What was told is of the right kind, and a ban that was told of lies ahead.
GhostTyped(g) ==
    /\ g \in [held : [Peers -> Nat], fails : [Peers -> Samples(MaxRetry)], count : [Peers -> 0..MaxRetry],
              excused : BOOLEAN, let : Peers \cup {"none"}, unearned : BOOLEAN]
    /\ \A p \in Peers : g.held[p] # 0 => g.held[p] > now

\* What the daemon has of a peer's failures.
Covers(strikes, fails) ==
    \A i \in 0..(Len(fails) - 1) :
        fails[Len(fails) - i] > now - FindTime =>
            i < Len(strikes) /\ strikes[Len(strikes) - i] >= fails[Len(fails) - i]

\* The daemon has yet to read that the peer's ban was lifted.
Lifted(d, p) ==
    IF banFile.state = "ok"
    THEN /\ ~UpToDate(d) /\ Live(banFile.bans)[p] = 0 /\ Memory(d)[p] # 0
         /\ d.write # "none" => d.base < banFile.version
    ELSE d.saw

\* A peer's ban is in the file; one with failures that count is not banned anywhere
\* the daemon looks; the daemon has a strike for each of them, and has no strike
\* from before the last pardon unless it is yet to read of it.
PeerSound(d, g, p) ==
    /\ g.held[p] # 0 => banFile.bans[p] >= g.held[p]
    /\ g.fails[p] # <<>> => d.bans[p] = 0 /\ Live(banFile.bans)[p] = 0 /\ (d.write # "none" => d.prev[p] = 0)
    /\ Live(banFile.bans)[p] # 0 => Memory(d)[p] >= banFile.bans[p] \/ d.strikes[p] = <<>>
    /\ Covers(d.strikes[p], g.fails[p])
    /\ TableFull = "evict" => Len(g.fails[p]) < MaxRetry
    /\ Len(d.strikes[p]) <= g.count[p] \/ Lifted(d, p)

Accounted(d, g) ==
    g.excused \/ (/\ ~g.unearned
                  /\ banFile.state = "ok" => d.saw
                  /\ \A p \in Peers : PeerSound(d, g, p))

JailSound(S, g) ==
    /\ DOMAIN S = Procs
    /\ FileSound
    /\ \A x \in Procs : ServiceSound(x, S[x])
    /\ GhostTyped(g)
    /\ Accounted(S["daemon"], g)

JailInv == JailTyped /\ JailSound(svc, ghost) /\ BanHolds

\* A set of numbers has a least one.
LEMMA LeastNatural ==
  ASSUME NEW T, T \subseteq Nat, T # {}
  PROVE  \E m \in T : \A n \in T : m <= n
<1> DEFINE R == {ss \in Nat \X Nat : ss[1] < ss[2]}
<1>1. IsWellFoundedOn(R, Nat)
  BY NatLessThanWellFounded DEF OpToRel
<1>2. \E m \in T : \A n \in T : ~ (<<n, m>> \in R)
  <2> HIDE DEF R
  <2> QED
    BY <1>1, WFMin
<1>3. \A m, n \in Nat : n < m => <<n, m>> \in R
  OBVIOUS
<1> HIDE DEF R
<1>4. \A m, n \in T : ~ (<<n, m>> \in R) => m <= n
  BY <1>3
<1> QED
  BY <1>2, <1>4

\* Induction up to N, over the set of the numbers for which it holds.
LEMMA UpTo ==
  ASSUME NEW N \in Nat, NEW Q, 0 \in Q, \A n \in 1..N : n - 1 \in Q => n \in Q
  PROVE  0..N \subseteq Q
<1> DEFINE T == (0..N) \ Q
<1> SUFFICES ASSUME T # {} PROVE FALSE
  OBVIOUS
<1>0. T \subseteq Nat
  OBVIOUS
<1>1. PICK m \in T : \A n \in T : m <= n
  <2> HIDE DEF T
  <2> QED
    BY <1>0, LeastNatural
<1>2. m # 0 /\ m \in 1..N /\ m - 1 \in 0..N
  BY <1>1
<1>3. m - 1 \notin T
  BY <1>1, <1>2
<1> QED
  BY <1>1, <1>2, <1>3

\* What a walk over sorted samples keeps is their end: those after the cutoff.
LEMMA AfterIs ==
  ASSUME NEW w \in Seq(Nat), \A i, j \in 1..Len(w) : i <= j => w[i] <= w[j], NEW cutoff \in Int
  PROVE  \E k \in 0..Len(w) :
            /\ After(w, cutoff) = SubSeq(w, k + 1, Len(w))
            /\ \A i \in 1..k : w[i] <= cutoff
            /\ \A i \in (k + 1)..Len(w) : w[i] > cutoff
<1> DEFINE N == Len(w)
           T == {i \in 1..(N + 1) : \A j \in 1..N : j >= i => w[j] > cutoff}
<1>0. N \in Nat /\ \A i \in 1..N : w[i] \in Nat
  OBVIOUS
<1>1. PICK m \in T : \A i \in T : m <= i
  <2>1. T \subseteq Nat /\ N + 1 \in T
    BY <1>0
  <2> HIDE DEF T
  <2> QED
    BY <2>1, LeastNatural
<1> DEFINE k == m - 1
<1>m. m \in 1..(N + 1)
  OBVIOUS
<1>2. k \in 0..N /\ \A i \in (k + 1)..N : w[i] > cutoff
  BY <1>0
<1>3. \A i \in 1..k : w[i] <= cutoff
  <2>1. k \in 1..N => w[k] <= cutoff
    <3>1. k \in 1..N => k \notin T
      <4> HIDE DEF T
      <4>1. m = k + 1
        BY <1>m
      <4> QED
        BY <1>1, <1>2, <4>1
    <3> QED
      BY <1>0, <1>2, <3>1
  <2> QED
    BY <1>0, <1>2, <2>1, SMTT(20)
<1> HIDE DEF k, T
<1> DEFINE W(n) == SubSeq(w, k + 1, n)
           s == [n \in 0..N |-> W(n)]
           Walk(a) == [n \in 0..N |-> IF n = 0 THEN <<>>
                                      ELSE IF w[n] > cutoff THEN Append(a[n - 1], w[n])
                                      ELSE a[n - 1]]
<1>4. W(0) = <<>>
  BY <1>0, <1>2
<1>5. ASSUME NEW n \in 1..N
      PROVE  W(n) = IF w[n] > cutoff THEN Append(W(n - 1), w[n]) ELSE W(n - 1)
  <2>1. CASE n <= k
    BY <1>0, <1>2, <1>3, <2>1
  <2>2. CASE n > k
    BY <1>0, <1>2, <2>2, SMTT(20)
  <2> QED
    BY <1>0, <1>2, <2>1, <2>2
<1>6. s = Walk(s)
  <2>1. \A n \in 1..N : n - 1 \in 0..N
    BY <1>0
  <2> HIDE DEF W
  <2>2. \A n \in 0..N : s[n] = IF n = 0 THEN <<>>
                               ELSE IF w[n] > cutoff THEN Append(s[n - 1], w[n]) ELSE s[n - 1]
    BY <1>0, <1>4, <1>5, <2>1
  <2> QED
    BY <2>2
<1>7. \E a : a = Walk(a) /\ After(w, cutoff) = a[N]
  <2> DEFINE c == CHOOSE a : a = Walk(a)
  <2>1. c = Walk(c)
    <3> HIDE DEF s, Walk
    <3> QED
      BY <1>6, Zenon
  <2>2. After(w, cutoff) = c[N]
    BY Zenon DEF After
  <2> QED
    BY <2>1, <2>2, Zenon
<1>8. PICK a : a = Walk(a) /\ After(w, cutoff) = a[N]
  BY <1>7, Zenon
<1>9. a[0] = s[0] /\ \A n \in 1..N : a[n - 1] = s[n - 1] => a[n] = s[n]
  <2> HIDE DEF s, W
  <2>1. \A n \in 0..N : a[n] = IF n = 0 THEN <<>>
                               ELSE IF w[n] > cutoff THEN Append(a[n - 1], w[n]) ELSE a[n - 1]
    BY <1>8
  <2>2. \A n \in 0..N : s[n] = IF n = 0 THEN <<>>
                               ELSE IF w[n] > cutoff THEN Append(s[n - 1], w[n]) ELSE s[n - 1]
    BY <1>6
  <2>3. 0 \in 0..N /\ \A n \in 1..N : n \in 0..N /\ n # 0
    BY <1>0
  <2> QED
    BY <2>1, <2>2, <2>3
<1>10. a[N] = s[N]
  <2> HIDE DEF s, N
  <2> DEFINE Q == {n \in 0..N : a[n] = s[n]}
  <2>1. 0 \in Q /\ \A n \in 1..N : n - 1 \in Q => n \in Q
    BY <1>0, <1>9
  <2>2. 0..N \subseteq Q
    <3> HIDE DEF Q
    <3> QED
      BY <1>0, <2>1, UpTo
  <2> QED
    BY <1>0, <2>2
<1>11. After(w, cutoff) = SubSeq(w, k + 1, Len(w))
  <2>1. s[N] = W(N)
    <3> HIDE DEF W
    <3> QED
      BY <1>0
  <2> HIDE DEF s, Walk
  <2> QED
    BY <1>8, <1>10, <2>1
<1> QED
  BY <1>2, <1>3, <1>11

\* The samples within a window are no more than there are; when there are none,
\* all are old.
LEMMA WithinIs ==
  ASSUME now \in Nat, NEW cap \in Nat, NEW w \in Samples(cap), NEW window \in Nat
  PROVE  /\ Len(Within(w, window)) \in Nat /\ Len(Within(w, window)) <= Len(w)
         /\ Within(w, window) = <<>> => \A i \in 1..Len(w) : w[i] <= now - window
<1>1. w \in Seq(Nat) /\ (\A i, j \in 1..Len(w) : i <= j => w[i] <= w[j]) /\ Len(w) \in Nat
  BY DEF Samples
<1>2. PICK k \in 0..Len(w) :
            /\ After(w, now - window) = SubSeq(w, k + 1, Len(w))
            /\ \A i \in 1..k : w[i] <= now - window
            /\ \A i \in (k + 1)..Len(w) : w[i] > now - window
  <2> DEFINE c == now - window
  <2>1. c \in Int
    OBVIOUS
  <2> HIDE DEF c
  <2>2. \E k \in 0..Len(w) :
            /\ After(w, c) = SubSeq(w, k + 1, Len(w))
            /\ \A i \in 1..k : w[i] <= c
            /\ \A i \in (k + 1)..Len(w) : w[i] > c
    BY <1>1, <2>1, AfterIs
  <2> QED
    BY <2>2 DEF c
<1>3. Len(SubSeq(w, k + 1, Len(w))) = Len(w) - k
  BY <1>1
<1>4. SubSeq(w, k + 1, Len(w)) = <<>> => k = Len(w)
  <2>1. Len(<<>>) = 0
    OBVIOUS
  <2> DEFINE e == SubSeq(w, k + 1, Len(w))
  <2>2. Len(e) = Len(w) - k
    BY <1>3
  <2> HIDE DEF e
  <2>3. e = <<>> => k = Len(w)
    BY <1>1, <2>1, <2>2
  <2> QED
    BY <2>3 DEF e
<1> QED
  BY <1>1, <1>2, <1>3, <1>4 DEF Within

\* v is w without its first k samples, the old ones, and with one of now; of these
\* the last ones that there is room for.
WindowOf(v, w, window, cap, k) ==
    /\ Len(v) = IF Len(w) - k + 1 > cap THEN cap ELSE Len(w) - k + 1
    /\ \A i \in 1..k : w[i] <= now - window
    /\ \A i \in (k + 1)..Len(w) : w[i] > now - window
    /\ v[Len(v)] = now
    /\ \A i \in 1..(Len(v) - 1) : v[Len(v) - i] = w[Len(w) - (i - 1)]

\* appendWindow: the new sample comes last, before it those still in the window,
\* as many as there is room for.
LEMMA AppendWindowIs ==
  ASSUME now \in Nat, NEW cap \in Nat \ {0}, NEW w \in Samples(cap), NEW window \in Nat,
         NEW v, v = AppendWindow(w, window, cap)
  PROVE  /\ v \in Samples(cap) /\ v # <<>> /\ Len(v) <= Len(w) + 1
         /\ \E k \in 0..Len(w) : WindowOf(v, w, window, cap, k)
<1> DEFINE n == Len(w)
<1>1. w \in Seq(Nat) /\ n \in Nat /\ n <= cap /\ (\A i \in 1..n : w[i] \in Nat /\ w[i] <= now)
      /\ \A i, j \in 1..n : i <= j => w[i] <= w[j]
  BY DEF Samples
<1>2. PICK k \in 0..n :
            /\ After(w, now - window) = SubSeq(w, k + 1, n)
            /\ \A i \in 1..k : w[i] <= now - window
            /\ \A i \in (k + 1)..n : w[i] > now - window
  <2> DEFINE c == now - window
  <2>1. c \in Int
    OBVIOUS
  <2> HIDE DEF c
  <2>2. \E k \in 0..Len(w) :
            /\ After(w, c) = SubSeq(w, k + 1, Len(w))
            /\ \A i \in 1..k : w[i] <= c
            /\ \A i \in (k + 1)..Len(w) : w[i] > c
    BY <1>1, <2>1, AfterIs
  <2> QED
    BY <2>2 DEF c
<1> DEFINE e == SubSeq(w, k + 1, n)
           kept == Append(e, now)
<1>3. e \in Seq(Nat) /\ Len(e) = n - k /\ \A i \in 1..(n - k) : e[i] = w[k + i]
  BY <1>1
<1>4. kept \in Seq(Nat) /\ Len(kept) = n - k + 1 /\ kept[n - k + 1] = now
      /\ \A i \in 1..(n - k) : kept[i] = w[k + i]
  <2> HIDE DEF e
  <2> QED
    BY <1>1, <1>3
<1> HIDE DEF kept, n
<1>5. v = IF Len(kept) > cap THEN SubSeq(kept, Len(kept) - cap + 1, Len(kept)) ELSE kept
  BY <1>2 DEF AppendWindow, Within, kept, n
<1> DEFINE d == IF n - k + 1 > cap THEN n - k + 1 - cap ELSE 0
<1>6. d \in 0..(n - k) /\ d + k <= n /\ Len(kept) - d \in 1..cap
  BY <1>1, <1>4
<1>7. v \in Seq(Nat) /\ Len(v) = n - k + 1 - d /\ \A i \in 1..(n - k + 1 - d) : v[i] = kept[i + d]
  <2>1. CASE Len(kept) > cap
    <3>1. v = SubSeq(kept, d + 1, n - k + 1)
      BY <1>1, <1>4, <1>5, <2>1
    <3> HIDE DEF d
    <3>2. d \in Nat /\ Len(kept) = n - k + 1 /\ d + 1 <= n - k + 1
      BY <1>1, <1>4, <1>6
    <3>3. v \in Seq(Nat) /\ Len(v) = n - k + 1 - d
      BY <1>1, <1>4, <3>1, <3>2, SMTT(20)
    <3>4. \A i \in 1..(n - k + 1 - d) : v[i] = kept[d + i]
      BY <1>1, <1>4, <3>1, <3>2
    <3> QED
      BY <1>1, <1>6, <3>3, <3>4, SMTT(20)
  <2>2. CASE ~(Len(kept) > cap)
    <3>1. d = 0
      BY <1>1, <1>4, <2>2
    <3> QED
      BY <1>1, <1>4, <1>5, <2>2, <3>1
  <2> QED
    BY <2>1, <2>2
<1> HIDE DEF d
<1>a. Len(v) \in 1..cap /\ Len(v) + d = n - k + 1
  BY <1>1, <1>4, <1>6, <1>7
<1>8. v[Len(v)] = now
  BY <1>1, <1>4, <1>7, <1>a, SMTT(20)
<1>9. \A i \in 1..(Len(v) - 1) : v[i] = w[k + i + d] /\ k + i + d \in 1..n
  <2> SUFFICES ASSUME NEW i \in 1..(Len(v) - 1) PROVE v[i] = w[k + i + d] /\ k + i + d \in 1..n
    OBVIOUS
  <2>1. i + d \in 1..(n - k) /\ k + (i + d) = k + i + d /\ i \in 1..(n - k + 1 - d)
    BY <1>1, <1>6, <1>7, <1>a
  <2>2. v[i] = kept[i + d]
    BY <1>7, <2>1
  <2>3. kept[i + d] = w[k + (i + d)]
    BY <1>4, <2>1
  <2>4. k + (i + d) \in 1..n
    BY <1>1, <2>1
  <2> QED
    BY <2>1, <2>2, <2>3, <2>4
<1>10. \A i \in 1..(Len(v) - 1) : v[Len(v) - i] = w[n - (i - 1)]
  <2> SUFFICES ASSUME NEW i \in 1..(Len(v) - 1) PROVE v[Len(v) - i] = w[n - (i - 1)]
    OBVIOUS
  <2>1. Len(v) - i \in 1..(Len(v) - 1)
    BY <1>a
  <2>2. k + (Len(v) - i) + d = n - (i - 1)
    BY <1>1, <1>6, <1>a
  <2> QED
    BY <1>9, <2>1, <2>2
<1>11. v \in Samples(cap)
  <2>0. Len(v) \in 1..cap
    BY <1>a
  <2>1. \A i \in 1..Len(v) : v[i] <= now
    <3>1. \A i \in 1..Len(v) : i = Len(v) \/ i \in 1..(Len(v) - 1)
      BY <2>0
    <3>2. ASSUME NEW i \in 1..(Len(v) - 1) PROVE v[i] <= now
      <4>1. v[i] = w[k + i + d] /\ k + i + d \in 1..n
        BY <1>9
      <4> QED
        BY <1>1, <4>1
    <3>3. now <= now
      OBVIOUS
    <3> QED
      BY <1>8, <3>1, <3>2, <3>3
  <2>2. \A i, j \in 1..Len(v) : i <= j => v[i] <= v[j]
    <3> SUFFICES ASSUME NEW i \in 1..Len(v), NEW j \in 1..Len(v), i <= j PROVE v[i] <= v[j]
      OBVIOUS
    <3>1. CASE j = Len(v)
      BY <1>8, <2>1, <3>1
    <3>2. CASE j # Len(v)
      <4>1. i \in 1..(Len(v) - 1) /\ j \in 1..(Len(v) - 1)
        BY <2>0, <3>2
      <4>2. k + i + d <= k + j + d
        BY <1>6
      <4> QED
        BY <1>1, <1>9, <4>1, <4>2
    <3> QED
      BY <3>1, <3>2
  <2> QED
    BY <1>7, <2>0, <2>1, <2>2 DEF Samples
<1>12. Len(v) = IF n - k + 1 > cap THEN cap ELSE n - k + 1
  BY <1>1, <1>7 DEF d
<1>13. v # <<>> /\ Len(v) <= n + 1
  BY <1>1, <1>6, <1>a, <1>12
<1>14. WindowOf(v, w, window, cap, k)
  BY <1>2, <1>8, <1>10, <1>12 DEF WindowOf, n
<1> QED
  BY <1>2, <1>11, <1>13, <1>14 DEF n

\* What the constants are.
LEMMA GuardConsts ==
  ASSUME GuardAssumption
  PROVE  /\ FindTime \in Nat \ {0} /\ MaxRetry \in Nat \ {0} /\ RateWindow \in Nat \ {0}
         /\ RateLimit \in Nat \ {0} /\ BanTime \in Nat \ {0} /\ MaxEntries \in Nat \ {0}
         /\ MaxClock \in Nat \ {0} /\ MaxWrites \in Nat /\ MaxFaults \in Nat
BY DEF GuardAssumption

\* A sample is a number, and lies in the past.
LEMMA SamplesAre ==
  ASSUME NEW cap \in Nat, NEW w \in Samples(cap)
  PROVE  /\ w \in Seq(Nat) /\ Len(w) \in Nat /\ Len(w) <= cap
         /\ \A i \in 1..Len(w) : w[i] \in Nat /\ w[i] <= now
<1>1. w \in Seq(Nat) /\ Len(w) <= cap /\ \A i \in 1..Len(w) : w[i] <= now
  BY DEF Samples
<1> QED
  BY <1>1

\* The daemon strikes a peer whenever it is told of a failure: what it has still
\* covers the failures, and so they are no more than its strikes.
LEMMA StruckCovers ==
  ASSUME GuardAssumption, now \in Nat,
         NEW strikes \in Samples(MaxRetry), NEW fails \in Samples(MaxRetry), Covers(strikes, fails),
         NEW u, u = AppendWindow(strikes, FindTime, MaxRetry),
         NEW f, f = AppendWindow(fails, FindTime, MaxRetry)
  PROVE  Covers(u, f) /\ Len(f) <= Len(u)
<1> DEFINE n == Len(strikes)
           m == Len(fails)
           t == now - FindTime
<1>0. /\ MaxRetry \in Nat \ {0} /\ FindTime \in Nat \ {0} /\ n \in Nat /\ m \in Nat /\ m <= MaxRetry
      /\ t \in Int /\ now > t /\ \A i \in 1..n : strikes[i] \in Nat
  BY GuardConsts, SamplesAre, SMTT(20)
<1>w. FindTime \in Nat /\ MaxRetry \in Nat \ {0}
  BY <1>0
<1>2. PICK k \in 0..n :
         /\ Len(u) = IF n - k + 1 > MaxRetry THEN MaxRetry ELSE n - k + 1
         /\ \A i \in 1..k : strikes[i] <= t
         /\ u[Len(u)] = now
         /\ \A i \in 1..(Len(u) - 1) : u[Len(u) - i] = strikes[n - (i - 1)]
  <2>1. PICK k \in 0..Len(strikes) : WindowOf(u, strikes, FindTime, MaxRetry, k)
    BY <1>w, AppendWindowIs
  <2> QED
    BY <2>1 DEF WindowOf
<1>3. PICK j \in 0..m :
         /\ Len(f) = IF m - j + 1 > MaxRetry THEN MaxRetry ELSE m - j + 1
         /\ \A i \in (j + 1)..m : fails[i] > t
         /\ f[Len(f)] = now
         /\ \A i \in 1..(Len(f) - 1) : f[Len(f) - i] = fails[m - (i - 1)]
  <2>1. PICK l \in 0..Len(fails) : WindowOf(f, fails, FindTime, MaxRetry, l)
    BY <1>w, AppendWindowIs
  <2> QED
    BY <2>1 DEF WindowOf
<1>4. \A i \in 0..(m - 1) : fails[m - i] > t => i < n /\ strikes[n - i] >= fails[m - i]
  BY DEF Covers
<1>5. \A i \in 1..m : fails[i] \in Nat
  BY <1>0, SamplesAre
<1> HIDE DEF n, m, t
<1>6. Len(f) \in 1..MaxRetry /\ Len(u) \in 1..MaxRetry
  BY <1>0, <1>2, <1>3
<1>7. ASSUME NEW i \in 0..(Len(f) - 1)
      PROVE  i < Len(u) /\ u[Len(u) - i] >= f[Len(f) - i] /\ f[Len(f) - i] > t
  <2>1. CASE i = 0
    <3>1. Len(u) - i = Len(u) /\ Len(f) - i = Len(f)
      BY <1>6, <2>1
    <3>2. u[Len(u) - i] = now /\ f[Len(f) - i] = now /\ now >= now
      BY <1>0, <1>2, <1>3, <3>1, SMTT(20)
    <3>3. i < Len(u)
      BY <1>6, <2>1
    <3> QED
      BY <1>0, <3>2, <3>3
  <2>2. CASE i # 0
    <3>1. i \in 1..(Len(f) - 1) /\ i - 1 \in 0..(m - 1) /\ m - (i - 1) \in (j + 1)..m
      BY <1>0, <1>3, <1>6, <2>2
    <3>2. f[Len(f) - i] = fails[m - (i - 1)] /\ fails[m - (i - 1)] > t
      BY <1>3, <3>1
    <3>3. i - 1 < n /\ strikes[n - (i - 1)] >= fails[m - (i - 1)]
      BY <1>4, <3>1, <3>2
    <3>4. n - (i - 1) \in 1..n
      BY <1>0, <3>1, <3>3
    <3>5. strikes[n - (i - 1)] > t
      BY <1>0, <1>5, <3>1, <3>2, <3>3, <3>4, SMTT(20)
    <3>6. ~(n - (i - 1) \in 1..k)
      BY <1>0, <1>2, <3>4, <3>5, SMTT(20)
    <3>7. i + 1 <= Len(u)
      BY <1>0, <1>2, <1>6, <3>1, <3>4, <3>6
    <3>8. u[Len(u) - i] = strikes[n - (i - 1)]
      <4>1. i \in 1..(Len(u) - 1)
        BY <1>6, <3>1, <3>7
      <4> QED
        BY <1>2, <4>1
    <3> QED
      BY <1>6, <3>2, <3>3, <3>7, <3>8
  <2> QED
    BY <2>1, <2>2
<1>8. Len(f) <= Len(u)
  <2>1. Len(f) - 1 \in 0..(Len(f) - 1)
    BY <1>6
  <2>2. Len(f) - 1 < Len(u)
    BY <1>7, <2>1
  <2> QED
    BY <1>6, <2>2
<1>9. Covers(u, f)
  BY <1>7 DEF Covers
<1> QED
  BY <1>8, <1>9

\* No samples are samples.
LEMMA NoneAreSamples ==
  ASSUME NEW cap \in Nat
  PROVE  <<>> \in Samples(cap) /\ Len(<<>>) = 0 /\ \A w \in Samples(cap) : w # <<>> => Len(w) > 0
<1>1. <<>> \in Seq(Nat) /\ Len(<<>>) = 0
  OBVIOUS
<1>2. \A w \in Seq(Nat) : w # <<>> => Len(w) > 0
  OBVIOUS
<1> QED
  BY <1>1, <1>2 DEF Samples

\* Nothing covers no failures; and when none of the strikes is in the window,
\* neither is a failure.
LEMMA NoneCover ==
  ASSUME GuardAssumption, now \in Nat, NEW strikes \in Samples(MaxRetry), NEW fails \in Samples(MaxRetry),
         NEW none, none = <<>>
  PROVE  /\ fails = <<>> => Covers(none, fails)
         /\ Covers(strikes, fails) /\ Within(strikes, FindTime) = <<>> => Covers(none, fails)
<1>0. FindTime \in Nat /\ MaxRetry \in Nat /\ Len(none) = 0 /\ Len(<<>>) = 0
  BY GuardConsts
<1>1. fails = <<>> => Covers(none, fails)
  BY <1>0 DEF Covers
<1>2. ASSUME Covers(strikes, fails), Within(strikes, FindTime) = <<>>
      PROVE  Covers(none, fails)
  <2>1. \A i \in 1..Len(strikes) : strikes[i] <= now - FindTime
    BY <1>0, <1>2, WithinIs
  <2>2. Len(strikes) \in Nat /\ Len(fails) \in Nat /\ (\A i \in 1..Len(strikes) : strikes[i] \in Nat)
        /\ \A i \in 1..Len(fails) : fails[i] \in Nat
    BY <1>0, SamplesAre
  <2>3. ASSUME NEW i \in 0..(Len(fails) - 1), fails[Len(fails) - i] > now - FindTime PROVE FALSE
    <3>1. i < Len(strikes) /\ strikes[Len(strikes) - i] >= fails[Len(fails) - i]
      BY <1>2, <2>3 DEF Covers
    <3>2. Len(strikes) - i \in 1..Len(strikes) /\ Len(fails) - i \in 1..Len(fails)
      <4> DEFINE a == Len(strikes)
                 b == Len(fails)
      <4>1. a \in Nat /\ b \in Nat /\ i \in 0..(b - 1) /\ i < a
        BY <2>2, <2>3, <3>1
      <4> HIDE DEF a, b
      <4>2. a - i \in 1..a /\ b - i \in 1..b
        BY <4>1
      <4> QED
        BY <4>2 DEF a, b
    <3>3. strikes[Len(strikes) - i] <= now - FindTime /\ strikes[Len(strikes) - i] \in Nat
      BY <2>1, <2>2, <3>2
    <3>4. fails[Len(fails) - i] \in Nat
      BY <2>2, <3>2
    <3>5. \A a, b \in Nat, c \in Int : ~(a > c /\ b >= a /\ b <= c)
      OBVIOUS
    <3>6. now - FindTime \in Int
      BY <1>0
    <3> QED
      BY <2>3, <3>1, <3>3, <3>4, <3>5, <3>6
  <2> QED
    BY <2>3 DEF Covers
<1> QED
  BY <1>1, <1>2

\* The empty table is one.
LEMMA NoBansIsTable ==
  ASSUME GuardAssumption
  PROVE  NoBans \in BanTables
<1>1. Banned(NoBans) = {} /\ NoBans \in [Peers -> Nat]
  BY DEF NoBans, Banned
<1>2. IsFiniteSet({}) /\ Cardinality({}) = 0
  BY FS_EmptySet
<1> QED
  BY <1>1, <1>2, GuardConsts DEF BanTables

\* A table that bans no one else is a table.
LEMMA FewerBans ==
  ASSUME GuardAssumption, NEW b \in BanTables, NEW c \in [Peers -> Nat],
         \A p \in Peers : c[p] # 0 => b[p] # 0
  PROVE  c \in BanTables
<1>1. IsFiniteSet(Banned(b)) /\ Cardinality(Banned(b)) <= MaxEntries /\ Banned(c) \subseteq Banned(b)
  BY DEF BanTables, Banned
<1>2. IsFiniteSet(Banned(c)) /\ Cardinality(Banned(c)) <= Cardinality(Banned(b))
  BY <1>1, FS_Subset
<1>3. Cardinality(Banned(b)) \in Nat /\ Cardinality(Banned(c)) \in Nat
  BY <1>1, <1>2, FS_CardinalityType
<1> QED
  BY <1>1, <1>2, <1>3, GuardConsts DEF BanTables

\* The bans that hold are a table, and taking them again changes nothing.
LEMMA LiveIs ==
  ASSUME GuardAssumption, now \in Nat, NEW b \in BanTables
  PROVE  /\ Live(b) \in BanTables /\ Live(Live(b)) = Live(b)
         /\ \A p \in Peers : Live(b)[p] = IF b[p] > now THEN b[p] ELSE 0
<1>1. b \in [Peers -> Nat]
  BY DEF BanTables
<1>2. \A p \in Peers : Live(b)[p] = IF b[p] > now THEN b[p] ELSE 0
  BY DEF Live
<1>3. Live(b) \in [Peers -> Nat]
  BY <1>1 DEF Live
<1>4. \A p \in Peers : Live(b)[p] # 0 => b[p] # 0
  BY <1>1, <1>2
<1>5. Live(Live(b)) = Live(b)
  BY <1>1 DEF Live
<1> QED
  BY <1>2, <1>3, <1>4, <1>5, FewerBans

\* A full table has one whose ban ends first.
LEMMA VictimIsBanned ==
  ASSUME GuardAssumption, NEW s, s.bans \in BanTables, Full(s)
  PROVE  Victim(s) \in Banned(s.bans)
<1> DEFINE B == Banned(s.bans)
           T == {s.bans[p] : p \in B}
<1>1. B # {}
  <2>1. Cardinality({}) = 0
    BY FS_EmptySet
  <2> QED
    BY <2>1, GuardConsts DEF Full
<1>2. T \subseteq Nat /\ T # {}
  BY <1>1 DEF BanTables, Banned
<1>3. PICK m \in T : \A n \in T : m <= n
  <2> HIDE DEF T
  <2> QED
    BY <1>2, LeastNatural
<1>4. \E p \in B : \A q \in B : s.bans[p] <= s.bans[q]
  BY <1>3
<1> QED
  BY <1>4 DEF Victim

\* applyBanLocked keeps the table within its bound.
LEMMA ApplyBanIs ==
  ASSUME GuardAssumption, now \in Nat, NEW s \in JailServices, NEW p \in Peers,
         NEW t, t = ApplyBan(s, p), banFile.version \in Nat
  PROVE  /\ t \in JailServices /\ t.write = "ban" /\ t.peer = p /\ t.prev = s.bans /\ t.base = banFile.version
         /\ t.strikes = s.strikes /\ t.saw = s.saw /\ t.seen = s.seen /\ t.tripped = s.tripped
         /\ \A q \in Peers : q = p \/ t.bans[q] \in {0, s.bans[q]}
<1> DEFINE room == IF s.bans[p] = 0 /\ Full(s) THEN [s.bans EXCEPT ![Victim(s)] = 0] ELSE s.bans
           after == [room EXCEPT ![p] = now + BanTime]
<1>0. s.bans \in BanTables /\ s.bans \in [Peers -> Nat] /\ IsFiniteSet(Banned(s.bans))
      /\ Cardinality(Banned(s.bans)) <= MaxEntries /\ Cardinality(Banned(s.bans)) \in Nat
  BY FS_CardinalityType DEF JailServices, BanTables
<1>1. t = [s EXCEPT !.bans = after, !.write = "ban", !.peer = p, !.prev = s.bans, !.base = banFile.version]
  BY DEF ApplyBan
<1>2. room \in [Peers -> Nat] /\ \A q \in Peers : room[q] \in {0, s.bans[q]}
  BY <1>0
<1>3. after \in [Peers -> Nat] /\ after[p] # 0 /\ \A q \in Peers : q # p => after[q] = room[q]
  <2> HIDE DEF room
  <2> QED
    BY <1>2, GuardConsts
<1>4. after \in BanTables
  <2>1. CASE s.bans[p] # 0
    <3>1. \A q \in Peers : after[q] # 0 => s.bans[q] # 0
      BY <1>0, <1>2, <1>3, <2>1
    <3> HIDE DEF after
    <3> QED
      BY <1>0, <1>3, <3>1, FewerBans
  <2>2. CASE s.bans[p] = 0 /\ ~Full(s)
    <3>1. Banned(after) = Banned(s.bans) \cup {p} /\ p \notin Banned(s.bans)
      <4>1. \A q \in Peers : after[q] # 0 <=> q = p \/ s.bans[q] # 0
        BY <1>3, <2>2
      <4> HIDE DEF after
      <4> QED
        BY <2>2, <4>1 DEF Banned
    <3>2. IsFiniteSet(Banned(after)) /\ Cardinality(Banned(after)) = Cardinality(Banned(s.bans)) + 1
      BY <1>0, <3>1, FS_AddElement
    <3>3. Cardinality(Banned(s.bans)) < MaxEntries
      BY <1>0, <2>2, GuardConsts DEF Full
    <3> HIDE DEF after
    <3> QED
      BY <1>0, <1>3, <3>2, <3>3, GuardConsts DEF BanTables
  <2>3. CASE s.bans[p] = 0 /\ Full(s)
    <3>1. Victim(s) \in Banned(s.bans) /\ Victim(s) \in Peers /\ Victim(s) # p
      BY <1>0, <2>3, VictimIsBanned DEF Banned
    <3> DEFINE rest == Banned(s.bans) \ {Victim(s)}
    <3>2. Banned(after) = rest \cup {p} /\ p \notin rest
      <4>1. \A q \in Peers : after[q] # 0 <=> q = p \/ (s.bans[q] # 0 /\ q # Victim(s))
        BY <1>0, <1>3, <2>3, <3>1
      <4> HIDE DEF after
      <4> QED
        BY <2>3, <4>1 DEF Banned
    <3>3. IsFiniteSet(rest) /\ Cardinality(rest) = Cardinality(Banned(s.bans)) - 1
      BY <1>0, <3>1, FS_RemoveElement
    <3>4. IsFiniteSet(Banned(after)) /\ Cardinality(Banned(after)) = Cardinality(rest) + 1
      BY <3>2, <3>3, FS_AddElement, SMTT(20)
    <3> HIDE DEF after, rest
    <3> QED
      BY <1>0, <1>3, <3>3, <3>4, GuardConsts DEF BanTables
  <2> QED
    BY <2>1, <2>2, <2>3
<1> HIDE DEF after
<1>5. t \in JailServices
  BY <1>0, <1>1, <1>4 DEF JailServices
<1>6. t.bans = after
  BY <1>1 DEF JailServices
<1> QED
  BY <1>1, <1>2, <1>3, <1>5, <1>6 DEF JailServices

\* What a service remembers besides its bans.
Rest(s) == <<s.write, s.peer, s.prev, s.base>>

\* What the service has after it read the file (Load).
LEMMA LoadIs ==
  ASSUME GuardAssumption, FileSound, NEW s \in JailServices, NEW t, t = Load(s)
  PROVE  /\ t \in JailServices /\ t.bans = Live(banFile.bans) /\ t.saw /\ t.seen = banFile.version
         /\ t.tripped = s.tripped /\ Rest(t) = Rest(s)
         /\ \A p \in Peers : t.strikes[p] = IF s.bans[p] # 0 /\ t.bans[p] = 0 THEN <<>> ELSE s.strikes[p]
<1> DEFINE file == Live(banFile.bans)
           Gone(p) == s.bans[p] # 0 /\ file[p] = 0
           strikes == [p \in Peers |-> IF Gone(p) THEN <<>> ELSE s.strikes[p]]
           rates == [p \in Peers |-> IF Gone(p) THEN <<>> ELSE s.rates[p]]
<1>1. t = [s EXCEPT !.bans = file, !.saw = TRUE, !.seen = banFile.version, !.strikes = strikes, !.rates = rates]
  BY DEF Load
<1>2. file \in BanTables
  BY LiveIs DEF FileSound
<1>3. strikes \in [Peers -> Samples(MaxRetry)] /\ rates \in [Peers -> Samples(RateLimit)]
  BY NoneAreSamples, GuardConsts DEF JailServices
<1>4. \A p \in Peers : strikes[p] = IF s.bans[p] # 0 /\ file[p] = 0 THEN <<>> ELSE s.strikes[p]
  OBVIOUS
<1> HIDE DEF file, strikes, rates
<1>5. t \in JailServices
  BY <1>1, <1>2, <1>3, ZenonT(40) DEF JailServices, FileSound
<1>6. /\ t.bans = file /\ t.saw /\ t.seen = banFile.version /\ t.strikes = strikes
      /\ t.tripped = s.tripped /\ Rest(t) = Rest(s)
  BY <1>1 DEF JailServices, Rest
<1> QED
  BY <1>4, <1>5, <1>6 DEF file

\* What it has after a sweep.
LEMMA SweepIs ==
  ASSUME GuardAssumption, FileSound, NEW s \in JailServices, NEW t, t = Sweep(s)
  PROVE  /\ t \in JailServices /\ t.bans = Live(s.bans) /\ t.saw = s.saw /\ t.seen = s.seen
         /\ t.tripped = s.tripped /\ Rest(t) = Rest(s)
         /\ \A p \in Peers : \/ t.strikes[p] = s.strikes[p]
                             \/ t.strikes[p] = <<>> /\ Within(s.strikes[p], FindTime) = <<>>
<1> DEFINE Due == s.swept < 0 \/ now >= s.swept + FindTime \/ now >= s.swept + RateWindow
           Idle(p) == Within(s.strikes[p], FindTime) = <<>> /\ Within(s.rates[p], RateWindow) = <<>>
           strikes == [p \in Peers |-> IF Due /\ Idle(p) THEN <<>> ELSE s.strikes[p]]
           rates == [p \in Peers |-> IF Due /\ Idle(p) THEN <<>> ELSE s.rates[p]]
           swept == IF Due THEN now ELSE s.swept
<1>1. t = [s EXCEPT !.bans = Live(s.bans), !.strikes = strikes, !.rates = rates, !.swept = swept]
  BY DEF Sweep
<1>s. swept \in Int
  BY DEF FileSound, JailServices
<1>2. Live(s.bans) \in BanTables
  BY LiveIs DEF FileSound, JailServices
<1>3. strikes \in [Peers -> Samples(MaxRetry)] /\ rates \in [Peers -> Samples(RateLimit)]
  BY NoneAreSamples, GuardConsts DEF JailServices
<1>4. \A p \in Peers : \/ strikes[p] = s.strikes[p]
                       \/ strikes[p] = <<>> /\ Within(s.strikes[p], FindTime) = <<>>
  OBVIOUS
<1> HIDE DEF strikes, rates, swept
<1>5. t \in JailServices
  BY <1>1, <1>2, <1>3, <1>s DEF JailServices
<1>6. /\ t.bans = Live(s.bans) /\ t.saw = s.saw /\ t.seen = s.seen /\ t.strikes = strikes
      /\ t.tripped = s.tripped /\ Rest(t) = Rest(s)
  BY <1>1 DEF JailServices, Rest
<1> QED
  BY <1>4, <1>5, <1>6

\* refreshLocked leaves the service, trips it or reads the file.
LEMMA RefreshIs ==
  ASSUME GuardAssumption, FileSound, NEW s \in JailServices, NEW t, t = Refresh(s)
  PROVE  \/ banFile.state # "absent" /\ UpToDate(s) /\ t = s
         \/ banFile.state = "ok" /\ ~UpToDate(s) /\ t = Load(s)
         \/ banFile.state = "absent" /\ t = [s EXCEPT !.tripped = @ \/ s.saw]
         \/ banFile.state = "bad" /\ ~UpToDate(s) /\ t = [s EXCEPT !.tripped = TRUE]
<1>1. CASE banFile.state = "absent"
  BY <1>1 DEF Refresh
<1>2. CASE banFile.state # "absent" /\ UpToDate(s)
  BY <1>2 DEF Refresh, UpToDate
<1>3. CASE banFile.state = "ok" /\ ~UpToDate(s)
  BY <1>3 DEF Refresh, UpToDate
<1>4. CASE banFile.state = "bad" /\ ~UpToDate(s)
  BY <1>4 DEF Refresh, UpToDate
<1> QED
  BY <1>1, <1>2, <1>3, <1>4 DEF FileSound

\* refreshLocked leaves a service that is sound and, unless it trips it, one that
\* knows the file.
Looked(x, s) ==
    /\ ServiceSound(x, s) /\ s.write = "none"
    /\ banFile.state = "ok" => UpToDate(s)
    /\ banFile.state # "ok" /\ s.saw => s.tripped

\* A service that read the file is sound.
LEMMA LoadSound ==
  ASSUME GuardAssumption, FileSound, NEW x \in Procs, NEW s, ServiceSound(x, s), s.write = "none",
         banFile.state = "ok", NEW t, t = Load(s)
  PROVE  Looked(x, t)
<1>0. s \in JailServices
  BY DEF ServiceSound
<1>1. /\ t \in JailServices /\ t.bans = Live(banFile.bans) /\ t.saw /\ t.seen = banFile.version
      /\ t.tripped = s.tripped /\ t.write = "none"
  BY <1>0, LoadIs DEF Rest
<1>2. Live(Memory(t)) = Live(banFile.bans)
  BY <1>1, LiveIs DEF Memory, FileSound
<1> QED
  BY <1>1, <1>2 DEF Looked, ServiceSound, UpToDate, FileSound

\* A service that looked at the file is sound; when it is not tripped, it has the file's bans.
LEMMA RefreshSound ==
  ASSUME GuardAssumption, FileSound, NEW x \in Procs, NEW s, ServiceSound(x, s), s.write = "none",
         NEW t, t = Refresh(s)
  PROVE  Looked(x, t) /\ (~t.tripped => ~s.tripped)
<1>0. s \in JailServices
  BY DEF ServiceSound
<1>1. CASE banFile.state # "absent" /\ UpToDate(s) /\ t = s
  BY <1>1 DEF Looked, ServiceSound, UpToDate, FileSound, JailServices
<1>2. CASE banFile.state = "ok" /\ t = Load(s)
  <2>1. t.tripped = s.tripped
    BY <1>0, <1>2, LoadIs
  <2> QED
    BY <1>2, <2>1, LoadSound
<1>3. CASE banFile.state = "absent" /\ t = [s EXCEPT !.tripped = @ \/ s.saw]
  <2>1. t \in JailServices /\ t.tripped = (s.tripped \/ s.saw) /\ t.saw = s.saw /\ t.seen = s.seen
        /\ t.bans = s.bans /\ t.write = "none"
    BY <1>0, <1>3 DEF JailServices
  <2>2. ~UpToDate(t)
    BY <1>0, <1>3, <2>1 DEF ServiceSound, UpToDate, JailServices, FileSound
  <2> QED
    BY <1>3, <2>1, <2>2 DEF Looked, ServiceSound
<1>4. CASE banFile.state = "bad" /\ ~UpToDate(s) /\ t = [s EXCEPT !.tripped = TRUE]
  <2>1. t \in JailServices /\ t.tripped /\ t.saw = s.saw /\ t.seen = s.seen
        /\ t.bans = s.bans /\ t.write = "none"
    BY <1>0, <1>4 DEF JailServices
  <2>2. ~UpToDate(t)
    BY <1>4, <2>1 DEF UpToDate
  <2> QED
    BY <1>4, <2>1, <2>2 DEF Looked, ServiceSound
<1> QED
  BY <1>0, <1>1, <1>2, <1>3, <1>4, RefreshIs

\* A sweep keeps a service sound.
LEMMA SweepSound ==
  ASSUME GuardAssumption, FileSound, NEW x \in Procs, NEW s, Looked(x, s), NEW t, t = Sweep(s)
  PROVE  Looked(x, t) /\ t.tripped = s.tripped /\ Live(t.bans) = t.bans
<1>0. s \in JailServices /\ ServiceSound(x, s) /\ s.bans \in BanTables
  BY DEF Looked, ServiceSound, JailServices
<1>1. /\ t \in JailServices /\ t.bans = Live(s.bans) /\ t.saw = s.saw /\ t.seen = s.seen
      /\ t.tripped = s.tripped /\ t.write = "none"
  BY <1>0, SweepIs DEF Rest, Looked
<1>2. Live(t.bans) = t.bans /\ Live(t.bans) = Live(s.bans)
  BY <1>0, <1>1, LiveIs DEF FileSound
<1>3. Live(NoBans) = NoBans
  BY DEF Live, NoBans, FileSound
<1>4. UpToDate(t) = UpToDate(s)
  BY <1>1 DEF UpToDate
<1>5. Live(Memory(t)) = Live(Memory(s))
  BY <1>1, <1>2 DEF Memory, Looked
<1> QED
  BY <1>0, <1>1, <1>2, <1>3, <1>4, <1>5 DEF Looked, ServiceSound

\* A step that leaves a peer's bans, strikes and ghost as they are.
LEMMA LoadAccounted ==
  ASSUME GuardAssumption, FileSound, NEW s, ServiceSound("daemon", s), s.write = "none",
         banFile.state = "ok", NEW t, t = Load(s), NEW g, GhostTyped(g), Accounted(s, g)
  PROVE  Accounted(t, g)
<1>0. s \in JailServices /\ banFile.bans \in BanTables /\ now \in Nat /\ s.bans \in BanTables
  BY DEF ServiceSound, JailServices, FileSound
<1>1. /\ t \in JailServices /\ t.bans = Live(banFile.bans) /\ t.saw /\ t.write = "none"
      /\ \A p \in Peers : t.strikes[p] = IF s.bans[p] # 0 /\ t.bans[p] = 0 THEN <<>> ELSE s.strikes[p]
  BY <1>0, LoadIs DEF Rest
<1>2. SUFFICES ASSUME ~g.excused, NEW p \in Peers PROVE PeerSound(t, g, p)
  BY <1>1 DEF Accounted
<1>3. PeerSound(s, g, p)
  BY <1>2 DEF Accounted
<1>4. g.fails[p] # <<>> => t.bans[p] = 0 /\ s.bans[p] = 0
  BY <1>1, <1>3 DEF PeerSound
<1>5. Live(banFile.bans)[p] # 0 => Memory(t)[p] >= banFile.bans[p]
  <2>1. banFile.bans[p] \in Nat
    BY <1>0 DEF BanTables
  <2>2. Live(banFile.bans)[p] = IF banFile.bans[p] > now THEN banFile.bans[p] ELSE 0
    BY <1>0, LiveIs
  <2> QED
    BY <1>1, <2>1, <2>2 DEF Memory
<1>6. g.fails[p] \in Samples(MaxRetry) /\ s.strikes[p] \in Samples(MaxRetry) /\ g.count[p] \in Nat
  BY <1>0, GuardConsts DEF GhostTyped, JailServices
<1>7. Covers(t.strikes[p], g.fails[p])
  <2>1. CASE t.strikes[p] = s.strikes[p]
    BY <1>3, <2>1 DEF PeerSound
  <2>2. CASE t.strikes[p] = <<>> /\ g.fails[p] = <<>>
    BY <1>0, <1>6, <2>2, NoneCover
  <2> QED
    BY <1>1, <1>4, <2>1, <2>2
<1>8. Len(t.strikes[p]) <= g.count[p]
  <2>1. CASE s.bans[p] # 0 /\ t.bans[p] = 0
    <3>1. Len(t.strikes[p]) = 0
      BY <1>1, <2>1, NoneAreSamples, GuardConsts
    <3> QED
      BY <1>6, <3>1
  <2>2. CASE ~(s.bans[p] # 0 /\ t.bans[p] = 0)
    <3>1. ~Lifted(s, p)
      BY <1>1, <2>2 DEF Lifted, Memory
    <3> QED
      BY <1>1, <1>3, <2>2, <3>1 DEF PeerSound
  <2> QED
    BY <2>1, <2>2
<1> QED
  BY <1>1, <1>3, <1>4, <1>5, <1>7, <1>8 DEF PeerSound

\* What matters of the daemon to the account.
LEMMA SameAccount ==
  ASSUME NEW s, NEW g, Accounted(s, g), NEW t, NEW h,
         t.bans = s.bans, t.strikes = s.strikes, t.saw = s.saw, t.seen = s.seen, Rest(t) = Rest(s),
         h.held = g.held, h.fails = g.fails, h.count = g.count, h.excused = g.excused,
         h.unearned = g.unearned
  PROVE  Accounted(t, h)
<1>1. /\ t.write = s.write /\ t.base = s.base /\ t.prev = s.prev /\ Memory(t) = Memory(s)
      /\ UpToDate(t) = UpToDate(s)
  BY DEF Rest, Memory, UpToDate
<1>2. \A p \in Peers : Lifted(t, p) = Lifted(s, p)
  BY <1>1 DEF Lifted
<1>3. \A p \in Peers : PeerSound(s, g, p) => PeerSound(t, h, p)
  BY <1>1, <1>2 DEF PeerSound
<1> QED
  BY <1>3 DEF Accounted

\* A look at the file forgets no failure that still counts.
LEMMA RefreshAccounted ==
  ASSUME GuardAssumption, FileSound, NEW s, ServiceSound("daemon", s), s.write = "none",
         NEW t, t = Refresh(s), NEW g, GhostTyped(g), Accounted(s, g)
  PROVE  Accounted(t, g)
<1>0. s \in JailServices
  BY DEF ServiceSound
<1>1. CASE t = s
  BY <1>1
<1>2. CASE banFile.state = "ok" /\ t = Load(s)
  BY <1>2, LoadAccounted
<1>3. CASE t = [s EXCEPT !.tripped = @ \/ s.saw] \/ t = [s EXCEPT !.tripped = TRUE]
  <2>1. t.bans = s.bans /\ t.strikes = s.strikes /\ t.saw = s.saw /\ t.seen = s.seen /\ Rest(t) = Rest(s)
    BY <1>0, <1>3 DEF JailServices, Rest
  <2> QED
    BY <2>1, SameAccount
<1> QED
  BY <1>0, <1>1, <1>2, <1>3, RefreshIs

\* Neither does a sweep.
LEMMA SweepAccounted ==
  ASSUME GuardAssumption, FileSound, NEW s, Looked("daemon", s),
         NEW t, t = Sweep(s), NEW g, GhostTyped(g), Accounted(s, g)
  PROVE  Accounted(t, g)
<1>0. s \in JailServices /\ banFile.bans \in BanTables /\ now \in Nat /\ s.bans \in BanTables
  BY DEF Looked, ServiceSound, JailServices, FileSound
<1>1. /\ t \in JailServices /\ t.bans = Live(s.bans) /\ t.saw = s.saw /\ t.seen = s.seen /\ t.write = "none"
      /\ \A p \in Peers : \/ t.strikes[p] = s.strikes[p]
                          \/ t.strikes[p] = <<>> /\ Within(s.strikes[p], FindTime) = <<>>
  BY <1>0, SweepIs DEF Rest, Looked
<1>2. SUFFICES ASSUME ~g.excused, NEW p \in Peers PROVE PeerSound(t, g, p)
  BY <1>1 DEF Accounted
<1>3. PeerSound(s, g, p)
  BY <1>2 DEF Accounted
<1>4. /\ s.bans[p] \in Nat /\ banFile.bans[p] \in Nat
      /\ t.bans[p] = (IF s.bans[p] > now THEN s.bans[p] ELSE 0)
      /\ Live(banFile.bans)[p] = IF banFile.bans[p] > now THEN banFile.bans[p] ELSE 0
  BY <1>0, <1>1, LiveIs, SMTT(20) DEF BanTables
<1>5. Memory(t) = t.bans /\ Memory(s) = s.bans
  BY <1>1 DEF Memory, Looked
<1>6. g.fails[p] \in Samples(MaxRetry) /\ s.strikes[p] \in Samples(MaxRetry) /\ g.count[p] \in Nat
  BY <1>0, GuardConsts DEF GhostTyped, JailServices
<1>7. g.fails[p] # <<>> => t.bans[p] = 0
  BY <1>3, <1>4 DEF PeerSound
<1>8. Live(banFile.bans)[p] # 0 => Memory(t)[p] >= banFile.bans[p] \/ t.strikes[p] = <<>>
  <2>1. Live(banFile.bans)[p] # 0 => s.bans[p] >= banFile.bans[p] \/ s.strikes[p] = <<>>
    BY <1>3, <1>5 DEF PeerSound
  <2>2. s.strikes[p] = <<>> => t.strikes[p] = <<>>
    BY <1>1
  <2>3. ASSUME Live(banFile.bans)[p] # 0, s.bans[p] >= banFile.bans[p] PROVE t.bans[p] >= banFile.bans[p]
    <3>1. banFile.bans[p] > now /\ s.bans[p] > now
      BY <1>0, <1>4, <2>3
    <3> QED
      BY <1>4, <2>3, <3>1
  <2> QED
    BY <1>5, <2>1, <2>2, <2>3
<1>9. Covers(t.strikes[p], g.fails[p])
  BY <1>0, <1>1, <1>3, <1>6, NoneCover DEF PeerSound
<1>10. Len(t.strikes[p]) <= Len(s.strikes[p]) /\ Len(t.strikes[p]) \in Nat /\ Len(s.strikes[p]) \in Nat
  <2>1. Len(s.strikes[p]) \in Nat /\ Len(<<>>) = 0
    BY <1>6, SamplesAre, NoneAreSamples, GuardConsts
  <2>2. t.strikes[p] = s.strikes[p] \/ t.strikes[p] = <<>>
    BY <1>1
  <2> QED
    BY <2>1, <2>2, SMTT(20)
<1>11. Lifted(s, p) => Lifted(t, p)
  BY <1>1 DEF Lifted, Looked
<1> QED
  BY <1>1, <1>3, <1>6, <1>7, <1>8, <1>9, <1>10, <1>11, SMTT(20) DEF PeerSound

\* What every call begins with: a service that is not tripped has looked at the file
\* and swept.
LEMMA LookIs ==
  ASSUME GuardAssumption, NEW x \in Procs, NEW S, NEW g, JailSound(S, g), S[x].write = "none",
         NEW s, s = Look(S[x])
  PROVE  /\ ServiceSound(x, s) /\ (~s.tripped => Looked(x, s) /\ Live(s.bans) = s.bans)
         /\ x = "daemon" => Accounted(s, g)
<1>1. FileSound /\ ServiceSound(x, S[x]) /\ GhostTyped(g) /\ (x = "daemon" => Accounted(S[x], g))
  BY DEF JailSound
<1>2. PICK r : r = Refresh(S[x])
  OBVIOUS
<1>3. Looked(x, r)
  BY <1>1, <1>2, RefreshSound
<1>4. x = "daemon" => Accounted(r, g)
  BY <1>1, <1>2, RefreshAccounted
<1>5. CASE S[x].tripped /\ s = S[x]
  BY <1>1, <1>5
<1>6. CASE r.tripped /\ s = r
  BY <1>3, <1>4, <1>6 DEF Looked
<1>7. CASE s = Sweep(r)
  <2>1. Looked(x, s) /\ Live(s.bans) = s.bans
    BY <1>1, <1>3, <1>7, SweepSound
  <2>2. x = "daemon" => Accounted(s, g)
    BY <1>1, <1>3, <1>4, <1>7, SweepAccounted
  <2> QED
    BY <2>1, <2>2 DEF Looked
<1>8. \/ S[x].tripped /\ s = S[x]
      \/ r.tripped /\ s = r
      \/ s = Sweep(r)
  <2>1. S[x].tripped \in BOOLEAN /\ r.tripped \in BOOLEAN
    BY <1>1, <1>3 DEF Looked, ServiceSound, JailServices
  <2>2. CASE S[x].tripped
    BY <2>2 DEF Look
  <2>3. CASE ~S[x].tripped /\ r.tripped
    BY <1>2, <2>3 DEF Look
  <2>4. CASE ~S[x].tripped /\ ~r.tripped
    BY <1>2, <2>4 DEF Look
  <2> QED
    BY <2>1, <2>2, <2>3, <2>4
<1> QED
  BY <1>5, <1>6, <1>7, <1>8

\* A peer that is pushed out of the table takes its failures out of the account.
LEMMA PushOutSound ==
  ASSUME GuardAssumption, FileSound, NEW s, Looked("daemon", s), Live(s.bans) = s.bans,
         NEW g, GhostTyped(g), Accounted(s, g), NEW out, NEW t, t = PushOut(s, out),
         NEW h, h = [g EXCEPT !.fails = Without(@, out)]
  PROVE  /\ Looked("daemon", t) /\ Live(t.bans) = t.bans /\ t.bans = s.bans /\ t.tripped = s.tripped
         /\ GhostTyped(h) /\ Accounted(t, h)
<1> DEFINE strikes == Without(s.strikes, out)
           rates == Without(s.rates, out)
           fails == Without(g.fails, out)
<1>0. /\ s \in JailServices /\ s.strikes \in [Peers -> Samples(MaxRetry)] /\ s.rates \in [Peers -> Samples(RateLimit)]
      /\ g.fails \in [Peers -> Samples(MaxRetry)] /\ g.count \in [Peers -> 0..MaxRetry]
      /\ <<>> \in Samples(MaxRetry) /\ <<>> \in Samples(RateLimit) /\ Len(<<>>) = 0 /\ MaxRetry \in Nat \ {0}
  BY NoneAreSamples, GuardConsts DEF Looked, ServiceSound, JailServices, GhostTyped
<1>1. /\ strikes \in [Peers -> Samples(MaxRetry)] /\ rates \in [Peers -> Samples(RateLimit)]
      /\ fails \in [Peers -> Samples(MaxRetry)]
      /\ \A p \in Peers : \/ strikes[p] = s.strikes[p] /\ fails[p] = g.fails[p]
                          \/ strikes[p] = <<>> /\ fails[p] = <<>>
  BY <1>0 DEF Without
<1>2. t = [s EXCEPT !.strikes = strikes, !.rates = rates] /\ h = [g EXCEPT !.fails = fails]
  BY <1>0 DEF PushOut, JailServices, GhostTyped
<1> HIDE DEF strikes, rates, fails
<1>3. /\ t \in JailServices /\ t.write = s.write
      /\ t.bans = s.bans /\ t.strikes = strikes /\ t.saw = s.saw /\ t.seen = s.seen
      /\ t.tripped = s.tripped /\ Rest(t) = Rest(s)
  BY <1>0, <1>1, <1>2 DEF JailServices, Rest
<1>4. /\ GhostTyped(h) /\ h.held = g.held /\ h.fails = fails /\ h.count = g.count /\ h.excused = g.excused
      /\ h.unearned = g.unearned
  BY <1>1, <1>2 DEF GhostTyped
<1>5. UpToDate(t) = UpToDate(s) /\ Memory(t) = Memory(s) /\ (\A p \in Peers : Lifted(t, p) = Lifted(s, p))
      /\ t.base = s.base /\ t.prev = s.prev
  BY <1>3 DEF UpToDate, Memory, Rest, Lifted
<1>6. Looked("daemon", t) /\ Live(t.bans) = t.bans
  BY <1>3, <1>5 DEF Looked, ServiceSound
<1>7. ASSUME ~g.excused, NEW p \in Peers PROVE PeerSound(t, h, p)
  <2>1. PeerSound(s, g, p)
    BY <1>7 DEF Accounted
  <2>2. CASE t.strikes[p] = s.strikes[p] /\ h.fails[p] = g.fails[p]
    BY <1>3, <1>4, <1>5, <2>1, <2>2 DEF PeerSound
  <2>3. CASE t.strikes[p] = <<>> /\ h.fails[p] = <<>>
    <3>1. Covers(t.strikes[p], h.fails[p])
      BY <1>0, <2>3 DEF Covers
    <3>2. Len(t.strikes[p]) <= h.count[p] /\ Len(h.fails[p]) < MaxRetry
      <4>1. h.count[p] \in 0..MaxRetry
        BY <1>0, <1>4
      <4> QED
        BY <1>0, <2>3, <4>1
    <3> QED
      BY <1>3, <1>4, <1>5, <2>1, <2>3, <3>1, <3>2 DEF PeerSound
  <2> QED
    BY <1>1, <1>3, <1>4, <2>2, <2>3
<1>8. Accounted(t, h)
  BY <1>3, <1>4, <1>7 DEF Accounted
<1> QED
  BY <1>3, <1>4, <1>6, <1>8

\* One service and the ghost change.
LEMMA Becomes ==
  ASSUME NEW S, NEW g, JailSound(S, g), NEW x \in Procs, NEW s, ServiceSound(x, s),
         NEW h, GhostTyped(h), x = "daemon" => Accounted(s, h), x # "daemon" => Accounted(S["daemon"], h)
  PROVE  JailSound([S EXCEPT ![x] = s], h)
<1> DEFINE T == [S EXCEPT ![x] = s]
<1>1. DOMAIN T = Procs /\ T[x] = s /\ \A y \in Procs : y # x => T[y] = S[y]
  BY DEF JailSound
<1>2. "daemon" \in Procs
  BY DEF Procs
<1>3. Accounted(T["daemon"], h)
  BY <1>1, <1>2
<1>4. \A y \in Procs : ServiceSound(y, T[y])
  BY <1>1 DEF JailSound
<1> HIDE DEF T
<1>5. JailSound(T, h)
  BY <1>1, <1>3, <1>4 DEF JailSound
<1> QED
  BY <1>5 DEF T

\* A peer that the daemon has looked for and finds not banned is not held.
LEMMA NotHeld ==
  ASSUME GuardAssumption, FileSound, NEW s, Looked("daemon", s), Live(s.bans) = s.bans, ~s.tripped,
         NEW g, GhostTyped(g), Accounted(s, g), ~g.excused, NEW p \in Peers, s.bans[p] = 0
  PROVE  g.held[p] = 0 /\ Live(banFile.bans)[p] = 0
<1>0. banFile.bans \in BanTables /\ now \in Nat /\ g.held[p] \in Nat /\ banFile.bans[p] \in Nat
      /\ (g.held[p] # 0 => g.held[p] > now) /\ (g.held[p] # 0 => banFile.bans[p] >= g.held[p])
  BY DEF FileSound, BanTables, GhostTyped, Accounted, PeerSound
<1>1. Live(banFile.bans)[p] = IF banFile.bans[p] > now THEN banFile.bans[p] ELSE 0
  BY <1>0, LiveIs
<1>2. CASE banFile.state = "ok"
  <2>1. Live(banFile.bans) = s.bans
    BY <1>2 DEF Looked, ServiceSound, Memory
  <2> QED
    BY <1>0, <1>1, <2>1
<1>3. CASE banFile.state # "ok"
  <2>1. banFile.bans[p] = 0
    BY <1>3 DEF FileSound, NoBans
  <2> QED
    BY <1>0, <1>1, <2>1
<1> QED
  BY <1>2, <1>3

\* A sample more of a rate leaves the account as it is.
LEMMA CountedSound ==
  ASSUME GuardAssumption, FileSound, NEW x \in Procs, NEW s, Looked(x, s), Live(s.bans) = s.bans,
         NEW p \in Peers, NEW t, t = [s EXCEPT !.rates[p] = AppendWindow(@, RateWindow, RateLimit)]
  PROVE  /\ Looked(x, t) /\ Live(t.bans) = t.bans
         /\ t.bans = s.bans /\ t.strikes = s.strikes /\ t.saw = s.saw /\ t.seen = s.seen
         /\ t.tripped = s.tripped /\ Rest(t) = Rest(s)
<1> DEFINE w == AppendWindow(s.rates[p], RateWindow, RateLimit)
           rates == [s.rates EXCEPT ![p] = w]
<1>0. s \in JailServices /\ now \in Nat /\ RateWindow \in Nat /\ RateLimit \in Nat \ {0}
  BY GuardConsts DEF Looked, ServiceSound, FileSound
<1>1. s.rates[p] \in Samples(RateLimit)
  BY <1>0 DEF JailServices
<1>2. w \in Samples(RateLimit)
  <2> HIDE DEF w
  <2>1. w = AppendWindow(s.rates[p], RateWindow, RateLimit)
    BY DEF w
  <2> QED
    BY <1>0, <1>1, <2>1, AppendWindowIs
<1>3. t = [s EXCEPT !.rates = rates]
  BY <1>0 DEF JailServices
<1>4. rates \in [Peers -> Samples(RateLimit)]
  <2> HIDE DEF w
  <2> QED
    BY <1>0, <1>2 DEF JailServices
<1> HIDE DEF rates
<1>5. t \in JailServices /\ t.write = s.write
      /\ t.bans = s.bans /\ t.strikes = s.strikes /\ t.saw = s.saw /\ t.seen = s.seen
      /\ t.tripped = s.tripped /\ Rest(t) = Rest(s)
  BY <1>0, <1>3, <1>4 DEF JailServices, Rest
<1>6. UpToDate(t) = UpToDate(s) /\ Memory(t) = Memory(s)
  BY <1>5 DEF UpToDate, Memory, Rest
<1> QED
  BY <1>5, <1>6 DEF Looked, ServiceSound

OneMore(n) == IF n = MaxRetry THEN n ELSE n + 1
Struck(s, p) == [s EXCEPT !.strikes[p] = AppendWindow(@, FindTime, MaxRetry)]

\* The ghost h of a failure of p more, n of them since the last pardon: f is what
\* it remembers of them, unless they come to a ban.
Tells(h, g, p, f, n) ==
    /\ h.held = g.held /\ h.count = [g.count EXCEPT ![p] = n]
    /\ h.fails = [g.fails EXCEPT ![p] = f] \/ h.fails = [g.fails EXCEPT ![p] = <<>>]
    /\ TableFull = "evict" => Len(h.fails[p]) < MaxRetry
    /\ h.excused = g.excused /\ (~g.excused => h.unearned = g.unearned)

\* A strike more, told of or, when it bans the peer, forgiven with the rest.
LEMMA StruckSound ==
  ASSUME GuardAssumption, FileSound, NEW s, Looked("daemon", s), Live(s.bans) = s.bans, ~s.tripped,
         NEW g, GhostTyped(g), Accounted(s, g), NEW p \in Peers, s.bans[p] = 0,
         NEW t, t = Struck(s, p), NEW n, n = OneMore(g.count[p]),
         NEW f, f = AppendWindow(g.fails[p], FindTime, MaxRetry)
  PROVE  /\ Looked("daemon", t) /\ Live(t.bans) = t.bans /\ t.bans = s.bans /\ ~t.tripped
         /\ n \in 0..MaxRetry /\ f \in Samples(MaxRetry)
         /\ ~g.excused => Len(t.strikes[p]) <= n /\ Len(f) <= Len(t.strikes[p])
         /\ \A h : Tells(h, g, p, f, n) => Accounted(t, h)
<1> DEFINE w == AppendWindow(s.strikes[p], FindTime, MaxRetry)
           strikes == [s.strikes EXCEPT ![p] = w]
<1>0. s \in JailServices /\ now \in Nat /\ FindTime \in Nat /\ MaxRetry \in Nat \ {0}
  BY GuardConsts DEF Looked, ServiceSound, FileSound
<1>1. s.strikes[p] \in Samples(MaxRetry) /\ g.fails[p] \in Samples(MaxRetry) /\ g.count[p] \in 0..MaxRetry
      /\ g.fails \in [Peers -> Samples(MaxRetry)] /\ g.count \in [Peers -> 0..MaxRetry]
      /\ s.strikes \in [Peers -> Samples(MaxRetry)]
  BY <1>0 DEF JailServices, GhostTyped
<1>w. w = AppendWindow(s.strikes[p], FindTime, MaxRetry)
  OBVIOUS
<1>3. t = [s EXCEPT !.strikes = strikes]
  BY <1>0 DEF JailServices, Struck
<1> HIDE DEF w
<1>2. w \in Samples(MaxRetry) /\ f \in Samples(MaxRetry) /\ Len(w) <= Len(s.strikes[p]) + 1
  BY <1>0, <1>1, <1>w, AppendWindowIs
<1>4. strikes \in [Peers -> Samples(MaxRetry)] /\ strikes[p] = w /\ \A q \in Peers : q # p => strikes[q] = s.strikes[q]
  BY <1>1, <1>2
<1> HIDE DEF strikes
<1>5. t \in JailServices /\ t.write = s.write
      /\ t.bans = s.bans /\ t.strikes = strikes /\ t.saw = s.saw /\ t.seen = s.seen
      /\ t.tripped = s.tripped /\ Rest(t) = Rest(s)
  BY <1>0, <1>3, <1>4 DEF JailServices, Rest
<1>6. UpToDate(t) = UpToDate(s) /\ Memory(t) = Memory(s) /\ (\A q \in Peers : Lifted(t, q) = Lifted(s, q))
      /\ t.base = s.base /\ t.prev = s.prev
  BY <1>5 DEF UpToDate, Memory, Rest, Lifted
<1>7. Looked("daemon", t) /\ Live(t.bans) = t.bans /\ ~t.tripped
  BY <1>5, <1>6 DEF Looked, ServiceSound
<1>8. n \in 0..MaxRetry
  BY <1>0, <1>1 DEF OneMore
<1>9. ASSUME ~g.excused
      PROVE  Len(t.strikes[p]) <= n /\ Len(f) <= Len(t.strikes[p]) /\ Covers(w, f)
  <2>1. PeerSound(s, g, p)
    BY <1>9 DEF Accounted
  <2>2. ~Lifted(s, p)
    BY DEF Looked, Lifted
  <2>3. Len(s.strikes[p]) <= g.count[p] /\ Len(s.strikes[p]) \in Nat /\ Len(w) \in Nat /\ Len(w) <= MaxRetry
    BY <1>0, <1>1, <1>2, <2>1, <2>2, SamplesAre DEF PeerSound
  <2>4. Len(w) <= n
    BY <1>0, <1>1, <1>2, <2>3, SMTT(20) DEF OneMore
  <2>5. Covers(s.strikes[p], g.fails[p])
    BY <2>1 DEF PeerSound
  <2>6. Covers(w, f) /\ Len(f) <= Len(w)
    BY <1>0, <1>1, <1>w, <2>5, StruckCovers
  <2> QED
    BY <1>4, <1>5, <2>4, <2>6
<1>10. ASSUME NEW h, Tells(h, g, p, f, n)
       PROVE  Accounted(t, h)
  <2>0. /\ h.held = g.held /\ h.count = [g.count EXCEPT ![p] = n]
        /\ h.fails = [g.fails EXCEPT ![p] = f] \/ h.fails = [g.fails EXCEPT ![p] = <<>>]
        /\ TableFull = "evict" => Len(h.fails[p]) < MaxRetry
        /\ h.excused = g.excused /\ (~g.excused => h.unearned = g.unearned)
    BY <1>10 DEF Tells
  <2>1. SUFFICES ASSUME ~g.excused, NEW q \in Peers PROVE PeerSound(t, h, q)
    BY <1>5, <2>0 DEF Accounted
  <2>2. PeerSound(s, g, q)
    BY <2>1 DEF Accounted
  <2>3. CASE q # p
    <3>1. h.fails[q] = g.fails[q] /\ h.count[q] = g.count[q] /\ t.strikes[q] = s.strikes[q] /\ h.held = g.held
      BY <1>1, <1>4, <1>5, <2>0, <2>3
    <3> QED
      BY <1>5, <1>6, <2>2, <3>1 DEF PeerSound, Rest
  <2>4. CASE q = p
    <3>1. h.count[p] = n /\ (h.fails[p] = f \/ h.fails[p] = <<>>) /\ t.strikes[p] = w /\ h.held = g.held
      BY <1>1, <1>4, <1>5, <2>0
    <3>2. Covers(t.strikes[p], h.fails[p])
      <4>1. CASE h.fails[p] = f
        BY <1>9, <2>1, <3>1, <4>1
      <4>2. CASE h.fails[p] = <<>>
        <5>1. Len(<<>>) = 0
          OBVIOUS
        <5> QED
          BY <4>2, <5>1 DEF Covers
      <4> QED
        BY <3>1, <4>1, <4>2
    <3>3. Live(banFile.bans)[p] = 0
      BY <2>1, NotHeld
    <3>4. t.write = "none"
      BY <1>7 DEF Looked
    <3> QED
      BY <1>5, <1>9, <2>0, <2>1, <2>2, <2>4, <3>1, <3>2, <3>3, <3>4 DEF PeerSound
  <2> QED
    BY <2>3, <2>4
<1> QED
  BY <1>2, <1>5, <1>7, <1>8, <1>9, <1>10

\* A call that begins to write about a peer remembers the bans it found.
Begins(s, t, p) ==
    /\ t \in JailServices /\ t.write # "none" /\ t.peer = p /\ t.prev = s.bans /\ t.base = banFile.version
    /\ t.saw = s.saw /\ t.seen = s.seen /\ t.tripped = s.tripped /\ t.strikes = s.strikes
    /\ \A q \in Peers : q = p \/ t.bans[q] \in {0, s.bans[q]}
    /\ t.write = "unban" => t.bans = [s.bans EXCEPT ![p] = 0]

\* A call that begins to write the table leaves a sound service.
LEMMA BeginsSound ==
  ASSUME GuardAssumption, FileSound, NEW x \in Procs, NEW s, Looked(x, s), Live(s.bans) = s.bans, ~s.tripped,
         NEW p \in Peers, NEW t, Begins(s, t, p),
         x = "console" => t.write # "ban" /\ s.bans # NoBans
  PROVE  ServiceSound(x, t)
<1>1. Memory(t) = s.bans /\ Memory(s) = s.bans /\ UpToDate(t) = UpToDate(s)
  BY DEF Memory, UpToDate, Looked, Begins
<1>2. Writing(t)
  BY DEF Writing, FileSound, Begins
<1>3. banFile.state # "ok" => x = "daemon" /\ ~t.saw
  BY DEF Looked, ServiceSound, Procs, Begins
<1> QED
  BY <1>1, <1>2, <1>3 DEF Looked, ServiceSound, Begins

\* What the daemon knows of the failures when it begins to write.
LEMMA BeginsAccounted ==
  ASSUME FileSound, NEW s, Looked("daemon", s), NEW g, Accounted(s, g),
         NEW p \in Peers, NEW t, Begins(s, t, p), ~g.excused => g.fails[p] = <<>> \/ t.bans[p] = 0
  PROVE  Accounted(t, g)
<1>1. SUFFICES ASSUME ~g.excused, NEW q \in Peers PROVE PeerSound(t, g, q)
  BY DEF Accounted, Begins
<1>2. PeerSound(s, g, q)
  BY <1>1 DEF Accounted
<1>3. Memory(t) = s.bans /\ Memory(s) = s.bans
  BY DEF Memory, Looked, Begins
<1>4. Lifted(s, q) => Lifted(t, q)
  BY DEF Lifted, Looked, Begins
<1>5. g.fails[q] # <<>> => t.bans[q] = 0
  BY <1>1, <1>2 DEF PeerSound, Begins
<1> QED
  BY <1>2, <1>3, <1>4, <1>5 DEF PeerSound, Begins

\* applyBanLocked, up to its write, leaves a sound service.
LEMMA ApplyBanSound ==
  ASSUME GuardAssumption, FileSound, NEW s, Looked("daemon", s), Live(s.bans) = s.bans, ~s.tripped,
         NEW g, Accounted(s, g), NEW p \in Peers, ~g.excused => g.fails[p] = <<>>,
         NEW t, t = ApplyBan(s, p)
  PROVE  ServiceSound("daemon", t) /\ Accounted(t, g)
<1>0. s \in JailServices /\ now \in Nat /\ banFile.version \in Nat /\ "daemon" \in Procs
  BY DEF Looked, ServiceSound, FileSound, Procs
<1>1. /\ t \in JailServices /\ t.write = "ban" /\ t.peer = p /\ t.prev = s.bans /\ t.base = banFile.version
      /\ t.strikes = s.strikes /\ t.saw = s.saw /\ t.seen = s.seen /\ t.tripped = s.tripped
      /\ \A q \in Peers : q = p \/ t.bans[q] \in {0, s.bans[q]}
  BY <1>0, ApplyBanIs, SMTT(20)
<1>2. Begins(s, t, p) /\ t.write # "unban" /\ "daemon" # "console"
  BY <1>1 DEF Begins
<1>3. ServiceSound("daemon", t)
  BY <1>0, <1>2, BeginsSound
<1>4. Accounted(t, g)
  BY <1>2, BeginsAccounted
<1> QED
  BY <1>3, <1>4

\* So does a pardon, up to its write.
LEMMA UnbanSound ==
  ASSUME GuardAssumption, FileSound, NEW x \in Procs, NEW s, Looked(x, s), Live(s.bans) = s.bans, ~s.tripped,
         NEW p \in Peers, s.bans[p] # 0, NEW g, x = "daemon" => Accounted(s, g),
         NEW t, t = [s EXCEPT !.bans[p] = 0, !.write = "unban", !.peer = p, !.prev = s.bans,
                              !.base = banFile.version]
  PROVE  ServiceSound(x, t) /\ (x = "daemon" => Accounted(t, g))
<1> DEFINE less == [s.bans EXCEPT ![p] = 0]
<1>0. s \in JailServices /\ s.bans \in BanTables /\ s.bans \in [Peers -> Nat]
  BY DEF Looked, ServiceSound, JailServices, BanTables
<1>1. t = [s EXCEPT !.bans = less, !.write = "unban", !.peer = p, !.prev = s.bans, !.base = banFile.version]
  BY <1>0 DEF JailServices
<1>2. less \in [Peers -> Nat] /\ (\A q \in Peers : less[q] # 0 => s.bans[q] # 0)
      /\ (\A q \in Peers : q = p \/ less[q] \in {0, s.bans[q]}) /\ less[p] = 0
  BY <1>0
<1>l. less = [s.bans EXCEPT ![p] = 0]
  OBVIOUS
<1> HIDE DEF less
<1>3. less \in BanTables
  BY <1>0, <1>2, FewerBans
<1>4. /\ t \in JailServices /\ t.write = "unban" /\ t.peer = p /\ t.prev = s.bans /\ t.base = banFile.version
      /\ t.strikes = s.strikes /\ t.saw = s.saw /\ t.seen = s.seen /\ t.tripped = s.tripped
      /\ t.bans = less
  BY <1>0, <1>1, <1>3, ZenonT(40) DEF JailServices, FileSound
<1>5. s.bans # NoBans
  BY DEF NoBans
<1>6. Begins(s, t, p) /\ t.write # "ban" /\ t.bans[p] = 0
  BY <1>2, <1>l, <1>4 DEF Begins
<1>7. ServiceSound(x, t)
  BY <1>5, <1>6, BeginsSound
<1>8. x = "daemon" => Accounted(t, g)
  BY <1>6, BeginsAccounted
<1> QED
  BY <1>7, <1>8

\* What is sound stays so when neither the clock nor the file moves.
LEMMA Stands ==
  ASSUME now' = now, banFile' = banFile, NEW T, NEW h, JailSound(T, h), svc' = T, ghost' = h
  PROVE  JailSound(svc, ghost)'
<1>1. /\ \A cap : Samples(cap)' = Samples(cap)
      /\ \A b : Live(b)' = Live(b)
      /\ BanTables' = BanTables /\ NoBans' = NoBans
  BY DEF Samples, Live, BanTables, Banned, NoBans
<1>2. JailServices' = JailServices /\ \A s : UpToDate(s)' = UpToDate(s)
  BY <1>1 DEF JailServices, UpToDate
<1>3. \A s : Writing(s)' = Writing(s) /\ Memory(s)' = Memory(s)
  BY DEF Writing, Memory
<1>4. \A x, s : ServiceSound(x, s)' = ServiceSound(x, s)
  BY <1>1, <1>2, <1>3 DEF ServiceSound
<1>5. \A g : GhostTyped(g)' = GhostTyped(g)
  BY <1>1 DEF GhostTyped
<1>6. \A s, p : Lifted(s, p)' = Lifted(s, p)
  BY <1>1, <1>2, <1>3 DEF Lifted
<1>7. \A s, f : Covers(s, f)' = Covers(s, f)
  BY DEF Covers
<1>8. \A s, g, p : PeerSound(s, g, p)' = PeerSound(s, g, p)
  BY <1>1, <1>3, <1>6, <1>7 DEF PeerSound
<1>9. \A s, g : Accounted(s, g)' = Accounted(s, g)
  BY <1>8 DEF Accounted
<1>10. FileSound' = FileSound
  BY <1>1 DEF FileSound
<1> QED
  BY <1>4, <1>5, <1>9, <1>10 DEF JailSound

\* A call that changes one service, and tells of it, keeps the jail sound.
LEMMA CallSound ==
  ASSUME JailSound(svc, ghost), now' = now, banFile' = banFile, NEW x \in Procs, NEW s,
         svc' = [svc EXCEPT ![x] = s], ServiceSound(x, s), NEW h, ghost' = h, GhostTyped(h),
         x = "daemon" => Accounted(s, h), x # "daemon" => Accounted(svc["daemon"], h)
  PROVE  JailSound(svc, ghost)'
<1> DEFINE T == [svc EXCEPT ![x] = s]
<1>1. JailSound(T, h)
  BY Becomes
<1>2. svc' = T
  OBVIOUS
<1> HIDE DEF T
<1> QED
  BY <1>1, <1>2, Stands

\* The ghost is told whom a call lets in, if anyone.
LEMMA Telling ==
  ASSUME NEW g, GhostTyped(g), NEW to \in Peers \cup {"none"}, NEW h, h = [g EXCEPT !.let = to]
  PROVE  /\ GhostTyped(h) /\ h.held = g.held /\ h.fails = g.fails /\ h.count = g.count
         /\ h.excused = g.excused /\ h.unearned = g.unearned /\ h.let = to
         /\ \A s : Accounted(s, g) => Accounted(s, h)
<1>1. /\ GhostTyped(h) /\ h.held = g.held /\ h.fails = g.fails /\ h.count = g.count
      /\ h.excused = g.excused /\ h.unearned = g.unearned /\ h.let = to
  BY DEF GhostTyped
<1> QED
  BY <1>1, SameAccount

\* What Admit does to a peer of the table, and what NoteHandshake does.
Counted(s, p) == [s EXCEPT !.rates[p] = AppendWindow(@, RateWindow, RateLimit)]

Admits(c, g, p) ==
    \/ /\ svc' = [svc EXCEPT !["daemon"] = ApplyBan(c, p)]
       /\ ghost' = [g EXCEPT !.let = "none", !.fails[p] = <<>>]
    \/ svc' = [svc EXCEPT !["daemon"] = c] /\ ghost' = [g EXCEPT !.let = p]

Strikes(s, g, k, p) ==
    LET over == Len(k.strikes[p]) >= MaxRetry /\ RoomForBan(s, p)
        told == [g EXCEPT !.let = "none", !.fails[p] = AppendWindow(@, FindTime, MaxRetry),
                          !.count[p] = IF @ = MaxRetry THEN @ ELSE @ + 1]
    IN  \/ ~over /\ svc' = [svc EXCEPT !["daemon"] = k] /\ ghost' = told
        \/ /\ over /\ svc' = [svc EXCEPT !["daemon"] = ApplyBan(k, p)]
           /\ ghost' = [told EXCEPT !.unearned = @ \/ told.count[p] < MaxRetry, !.fails[p] = <<>>]

Left(g, out) == [g EXCEPT !.fails = Without(@, out)]

\* A peer of the table that is counted towards its rate leaves the jail sound, and is
\* let in only when it is not banned.
LEMMA CountSound ==
  ASSUME GuardAssumption, JailSound(svc, ghost), now' = now, banFile' = banFile,
         NEW s, Looked("daemon", s), Live(s.bans) = s.bans, ~s.tripped,
         NEW g, GhostTyped(g), Accounted(s, g), NEW p \in Peers, s.bans[p] = 0,
         NEW counted, counted = Counted(s, p), Admits(counted, g, p)
  PROVE  JailSound(svc, ghost)' /\ BanHolds'
<1>0. "daemon" \in Procs /\ FileSound /\ GhostTyped(g) /\ now' = now /\ banFile' = banFile
  BY DEF Procs, JailSound
<1>4. Looked("daemon", s) /\ Live(s.bans) = s.bans /\ Accounted(s, g) /\ ~s.tripped /\ s.bans[p] = 0
  OBVIOUS
<1>6. /\ Looked("daemon", counted) /\ Live(counted.bans) = counted.bans
      /\ counted.bans = s.bans /\ counted.strikes = s.strikes /\ counted.saw = s.saw
      /\ counted.seen = s.seen /\ counted.tripped = s.tripped /\ Rest(counted) = Rest(s)
  BY <1>0, <1>4, CountedSound DEF Counted
<1>8. CASE /\ svc' = [svc EXCEPT !["daemon"] = ApplyBan(counted, p)]
           /\ ghost' = [g EXCEPT !.let = "none", !.fails[p] = <<>>]
  <2> DEFINE h == [g EXCEPT !.let = "none", !.fails[p] = <<>>]
             t == ApplyBan(counted, p)
  <2>1. /\ ghost' = h /\ h.let = "none" /\ h.held = g.held /\ h.count = g.count /\ h.excused = g.excused
        /\ h.unearned = g.unearned /\ h.fails = [g.fails EXCEPT ![p] = <<>>]
    BY <1>0, <1>8 DEF GhostTyped
  <2>2. GhostTyped(h)
    <3>1. <<>> \in Samples(MaxRetry)
      BY NoneAreSamples, GuardConsts
    <3> QED
      BY <1>0, <3>1 DEF GhostTyped
  <2>3. Accounted(counted, h)
    <3> HIDE DEF h
    <3>1. Accounted(counted, g)
      BY <1>4, <1>6, SameAccount
    <3>2. g.fails \in [Peers -> Samples(MaxRetry)]
      BY <1>0 DEF GhostTyped
    <3>3. \A q \in Peers : PeerSound(counted, g, q) => PeerSound(counted, h, q)
      <4> SUFFICES ASSUME NEW q \in Peers, PeerSound(counted, g, q) PROVE PeerSound(counted, h, q)
        OBVIOUS
      <4>1. h.fails[q] = g.fails[q] \/ h.fails[q] = <<>>
        BY <2>1, <3>2
      <4>2. Len(<<>>) = 0 /\ Len(<<>>) < MaxRetry
        BY GuardConsts
      <4>3. h.fails[q] = <<>> => Covers(counted.strikes[q], h.fails[q])
        BY <4>2 DEF Covers
      <4> QED
        BY <2>1, <4>1, <4>2, <4>3 DEF PeerSound
    <3> QED
      BY <2>1, <3>1, <3>3 DEF Accounted
  <2>4. h.fails[p] = <<>>
    BY <1>0 DEF GhostTyped
  <2>5. t = ApplyBan(counted, p) /\ svc' = [svc EXCEPT !["daemon"] = t]
    BY <1>8
  <2> HIDE DEF h, t
  <2>6. ServiceSound("daemon", t) /\ Accounted(t, h)
    BY <1>0, <1>6, <1>8, <2>3, <2>4, <2>5, ApplyBanSound
  <2>7. JailSound(svc, ghost)'
    BY <1>0, <2>1, <2>2, <2>5, <2>6, CallSound
  <2> QED
    BY <2>1, <2>7 DEF BanHolds
<1>9. CASE /\ svc' = [svc EXCEPT !["daemon"] = counted] /\ ghost' = [g EXCEPT !.let = p]
  <2> DEFINE h == [g EXCEPT !.let = p]
  <2>1. h = [g EXCEPT !.let = p] /\ ghost' = h
    BY <1>9
  <2> HIDE DEF h
  <2>2. Accounted(counted, g)
    BY <1>4, <1>6, SameAccount
  <2>3. GhostTyped(h) /\ Accounted(counted, h) /\ h.let = p /\ h.held = g.held /\ h.excused = g.excused
    BY <1>0, <2>1, <2>2, Telling
  <2>4. JailSound(svc, ghost)'
    BY <1>0, <1>6, <1>9, <2>1, <2>3, CallSound DEF Looked
  <2>5. ~g.excused => g.held[p] = 0
    BY <1>0, <1>4, <1>9, NotHeld
  <2> QED
    BY <2>1, <2>3, <2>4, <2>5 DEF BanHolds
<1> QED
  BY <1>8, <1>9 DEF Admits

\* A call that is refused, or has nothing to do, leaves the service as its look did.
LEMMA NothingDone ==
  ASSUME GuardAssumption, JailSound(svc, ghost), now' = now, banFile' = banFile, svc["daemon"].write = "none",
         NEW s, s = Look(svc["daemon"]), svc' = [svc EXCEPT !["daemon"] = s],
         ghost' = [ghost EXCEPT !.let = "none"]
  PROVE  JailSound(svc, ghost)' /\ BanHolds'
<1>0. "daemon" \in Procs /\ FileSound /\ GhostTyped(ghost)
  BY DEF Procs, JailSound
<1>1. ServiceSound("daemon", s) /\ Accounted(s, ghost)
  BY <1>0, LookIs
<1>2. PICK h : h = [ghost EXCEPT !.let = "none"]
  OBVIOUS
<1>3. GhostTyped(h) /\ Accounted(s, h) /\ h.let = "none"
  BY <1>0, <1>1, <1>2, Telling, SMTT(20)
<1>4. JailSound(svc, ghost)'
  BY <1>0, <1>1, <1>2, <1>3, CallSound
<1> QED
  BY <1>2, <1>3, <1>4 DEF BanHolds

\* Admit keeps the jail sound, and lets in nobody who is banned.
LEMMA AdmitSound ==
  ASSUME GuardAssumption, JailSound(svc, ghost), NEW p \in Peers, Admit(p)
  PROVE  JailSound(svc, ghost)' /\ BanHolds'
<1>a. now' = now /\ banFile' = banFile
  BY Zenon DEF Admit
<1>0. "daemon" \in Procs /\ FileSound /\ GhostTyped(ghost) /\ now' = now /\ banFile' = banFile
  BY <1>a DEF Procs, JailSound
<1>1. svc["daemon"].write = "none"
  BY ZenonT(40) DEF Admit, Free
<1>2. PICK s : s = Look(svc["daemon"])
  OBVIOUS
<1>3. \/ svc' = [svc EXCEPT !["daemon"] = s] /\ ghost' = [ghost EXCEPT !.let = "none"]
      \/ /\ ~(s.tripped \/ s.bans[p] # 0)
         /\ \E out \in Outs(s, p) : Admits(Counted(PushOut(s, out), p), Left(ghost, out), p)
  BY <1>2, ZenonT(60) DEF Admit, Become, Admits, Counted, Left
<1>4. CASE svc' = [svc EXCEPT !["daemon"] = s] /\ ghost' = [ghost EXCEPT !.let = "none"]
  BY <1>0, <1>1, <1>2, <1>4, NothingDone
<1>5. ASSUME NEW out, ~s.tripped, s.bans[p] = 0,
             NEW r, r = PushOut(s, out), NEW g, g = Left(ghost, out),
             NEW c, c = Counted(r, p), Admits(c, g, p)
      PROVE  JailSound(svc, ghost)' /\ BanHolds'
  <2>1. Looked("daemon", s) /\ Live(s.bans) = s.bans /\ Accounted(s, ghost)
    BY <1>0, <1>1, <1>2, <1>5, LookIs
  <2>2. /\ Looked("daemon", r) /\ Live(r.bans) = r.bans /\ r.bans = s.bans /\ r.tripped = s.tripped
        /\ GhostTyped(g) /\ Accounted(r, g)
    BY <1>0, <1>5, <2>1, PushOutSound DEF Left
  <2>3. ~r.tripped /\ r.bans[p] = 0
    BY <1>5, <2>2
  <2> QED
    BY <1>0, <1>5, <2>2, <2>3, CountSound
<1>6. s.tripped \in BOOLEAN
  BY <1>0, <1>1, <1>2, LookIs DEF ServiceSound, JailServices
<1> QED
  BY <1>3, <1>4, <1>5, <1>6

\* A failure of a peer of the table leaves the jail sound: a ban that it begins is of
\* MaxRetry strikes.
LEMMA StrikeSound ==
  ASSUME GuardAssumption, JailSound(svc, ghost), now' = now, banFile' = banFile,
         NEW s, Looked("daemon", s), Live(s.bans) = s.bans, ~s.tripped,
         NEW g, GhostTyped(g), Accounted(s, g), NEW p \in Peers, s.bans[p] = 0,
         NEW struck, struck = Struck(s, p), Strikes(s, g, struck, p)
  PROVE  JailSound(svc, ghost)' /\ BanHolds'
<1> DEFINE Over == Len(struck.strikes[p]) >= MaxRetry /\ RoomForBan(s, p)
           told == [g EXCEPT !.let = "none", !.fails[p] = AppendWindow(@, FindTime, MaxRetry),
                                 !.count[p] = IF @ = MaxRetry THEN @ ELSE @ + 1]
           full == [told EXCEPT !.unearned = @ \/ told.count[p] < MaxRetry, !.fails[p] = <<>>]
           f == AppendWindow(g.fails[p], FindTime, MaxRetry)
           n == IF g.count[p] = MaxRetry THEN g.count[p] ELSE g.count[p] + 1
<1>0. "daemon" \in Procs /\ FileSound /\ GhostTyped(g) /\ now' = now /\ banFile' = banFile
  BY DEF Procs, JailSound
<1>3. struck = Struck(s, p)
  OBVIOUS
<1>4. Looked("daemon", s) /\ Live(s.bans) = s.bans /\ Accounted(s, g) /\ ~s.tripped /\ s.bans[p] = 0
  OBVIOUS
<1>r. ~Over => (TableFull = "evict" => ~(Len(struck.strikes[p]) >= MaxRetry))
  BY DEF RoomForBan
<1>o. Over => Len(struck.strikes[p]) >= MaxRetry
  OBVIOUS
<1>n. n = OneMore(g.count[p]) /\ f = AppendWindow(g.fails[p], FindTime, MaxRetry)
  BY DEF OneMore
<1>t. /\ told.let = "none" /\ told.held = g.held /\ told.excused = g.excused
      /\ told.unearned = g.unearned /\ told.fails = [g.fails EXCEPT ![p] = f]
      /\ told.count = [g.count EXCEPT ![p] = n]
  <2> HIDE DEF f, n
  <2> QED
    BY <1>0, <1>n DEF GhostTyped, OneMore
<1>f. /\ full.let = "none" /\ full.held = g.held /\ full.excused = g.excused
      /\ full.unearned = (g.unearned \/ told.count[p] < MaxRetry)
      /\ full.fails = [g.fails EXCEPT ![p] = <<>>] /\ full.count = [g.count EXCEPT ![p] = n]
  <2> HIDE DEF f, n
  <2> QED
    BY <1>0, <1>n, <1>t DEF GhostTyped
<1>y. /\ g.fails \in [Peers -> Samples(MaxRetry)] /\ g.count \in [Peers -> 0..MaxRetry]
      /\ g.held \in [Peers -> Nat] /\ g.excused \in BOOLEAN /\ g.unearned \in BOOLEAN
      /\ (\A q \in Peers : g.held[q] # 0 => g.held[q] > now)
      /\ MaxRetry \in Nat \ {0} /\ <<>> \in Samples(MaxRetry) /\ Len(<<>>) = 0
  BY <1>0, NoneAreSamples, GuardConsts DEF GhostTyped
<1>g. DOMAIN told = DOMAIN g /\ DOMAIN full = DOMAIN g
  OBVIOUS
<1>k. ASSUME f \in Samples(MaxRetry), n \in 0..MaxRetry PROVE GhostTyped(told) /\ GhostTyped(full)
  <2> HIDE DEF f, n
  <2>1. told = [g EXCEPT !.let = "none", !.fails = [g.fails EXCEPT ![p] = f],
                             !.count = [g.count EXCEPT ![p] = n]]
    BY <1>0, <1>n DEF GhostTyped, OneMore
  <2>2. full = [told EXCEPT !.unearned = g.unearned \/ told.count[p] < MaxRetry,
                            !.fails = [g.fails EXCEPT ![p] = <<>>]]
    BY <1>0, <1>t, <1>n, ZenonT(40) DEF GhostTyped
  <2>3. [g.fails EXCEPT ![p] = f] \in [Peers -> Samples(MaxRetry)]
        /\ [g.fails EXCEPT ![p] = <<>>] \in [Peers -> Samples(MaxRetry)]
        /\ [g.count EXCEPT ![p] = n] \in [Peers -> 0..MaxRetry]
    BY <1>k, <1>y
  <2> HIDE DEF told, full
  <2>4. GhostTyped(told)
    BY <1>0, <2>1, <2>3, <1>t DEF GhostTyped
  <2> QED
    BY <2>2, <2>3, <2>4, <1>f DEF GhostTyped
<1>c. \/ ~Over /\ svc' = [svc EXCEPT !["daemon"] = struck] /\ ghost' = told
      \/ Over /\ svc' = [svc EXCEPT !["daemon"] = ApplyBan(struck, p)] /\ ghost' = full
  BY DEF Strikes
<1> HIDE DEF Over, told, full, n, f
<1>6. ASSUME ~s.tripped, s.bans[p] = 0
      PROVE  /\ Looked("daemon", struck) /\ Live(struck.bans) = struck.bans /\ ~struck.tripped
             /\ n \in 0..MaxRetry /\ f \in Samples(MaxRetry)
             /\ ~g.excused => Len(struck.strikes[p]) <= n /\ Len(f) <= Len(struck.strikes[p])
             /\ \A h : Tells(h, g, p, f, n) => Accounted(struck, h)
  BY <1>0, <1>3, <1>4, <1>6, <1>n, StruckSound
<1>7. CASE ~Over /\ svc' = [svc EXCEPT !["daemon"] = struck] /\ ghost' = told
  <2>1. GhostTyped(told)
    BY <1>6, <1>7, <1>k
  <2>2. Accounted(struck, told)
    <3>1. CASE g.excused
      BY <1>t, <3>1 DEF Accounted
    <3>2. CASE ~g.excused
      <4>1. TableFull = "evict" => Len(told.fails[p]) < MaxRetry
        <5>1. told.fails[p] = f
          BY <1>t, <1>y
        <5>2. Len(f) \in Nat /\ Len(struck.strikes[p]) \in Nat
          <6>1. struck.strikes[p] \in Samples(MaxRetry)
            BY <1>6, <1>7 DEF Looked, ServiceSound, JailServices
          <6> QED
            BY <1>6, <1>7, <1>y, <6>1, SamplesAre
        <5> QED
          BY <1>6, <1>7, <1>r, <1>y, <3>2, <5>1, <5>2
      <4> QED
        BY <1>6, <1>7, <1>t, <4>1 DEF Tells
    <3> QED
      BY <3>1, <3>2
  <2>3. JailSound(svc, ghost)'
    BY <1>0, <1>6, <1>7, <2>1, <2>2, CallSound DEF Looked
  <2> QED
    BY <1>7, <1>t, <2>3 DEF BanHolds
<1>8. CASE Over /\ svc' = [svc EXCEPT !["daemon"] = ApplyBan(struck, p)]
           /\ ghost' = full
  <2>1. GhostTyped(full)
    BY <1>6, <1>8, <1>k
  <2>2. Accounted(struck, full)
    <3>1. CASE g.excused
      BY <1>f, <3>1 DEF Accounted
    <3>2. CASE ~g.excused
      <4>1. TableFull = "evict" => Len(full.fails[p]) < MaxRetry
        BY <1>f, <1>y
      <4>2. full.unearned = g.unearned
        <5>1. struck.strikes[p] \in Samples(MaxRetry)
          BY <1>6, <1>8 DEF Looked, ServiceSound, JailServices
        <5>2. Len(struck.strikes[p]) \in Nat
          BY <1>y, <5>1, SamplesAre
        <5>3. ~(told.count[p] < MaxRetry)
          BY <1>6, <1>8, <1>o, <1>t, <1>y, <3>2, <5>2, SMTT(20)
        <5> QED
          BY <1>f, <1>y, <5>3
      <4> QED
        BY <1>6, <1>8, <1>f, <4>1, <4>2 DEF Tells
    <3> QED
      BY <3>1, <3>2
  <2>3. full.fails[p] = <<>>
    BY <1>f, <1>y
  <2>4. PICK t : t = ApplyBan(struck, p)
    OBVIOUS
  <2>5. ServiceSound("daemon", t) /\ Accounted(t, full)
    BY <1>0, <1>6, <1>8, <2>2, <2>3, <2>4, ApplyBanSound
  <2>6. JailSound(svc, ghost)'
    BY <1>0, <1>8, <2>1, <2>4, <2>5, CallSound
  <2> QED
    BY <1>8, <1>f, <2>6 DEF BanHolds
<1> QED
  BY <1>7, <1>8, <1>c

\* NoteHandshake does.
LEMMA NoteHandshakeSound ==
  ASSUME GuardAssumption, JailSound(svc, ghost), NEW p \in Peers, NoteHandshake(p)
  PROVE  JailSound(svc, ghost)' /\ BanHolds'
<1>0. "daemon" \in Procs /\ FileSound /\ GhostTyped(ghost) /\ now' = now /\ banFile' = banFile
  BY ZenonT(40) DEF Procs, JailSound, NoteHandshake
<1>1. svc["daemon"].write = "none"
  BY ZenonT(40) DEF NoteHandshake, Free
<1>2. PICK s : s = Look(svc["daemon"])
  OBVIOUS
<1>3. \/ svc' = [svc EXCEPT !["daemon"] = s] /\ ghost' = [ghost EXCEPT !.let = "none"]
      \/ /\ ~s.tripped /\ s.bans[p] = 0
         /\ \E out \in Outs(s, p) : Strikes(s, Left(ghost, out), Struck(PushOut(s, out), p), p)
  BY <1>2, ZenonT(60) DEF NoteHandshake, Become, Strikes, Struck, Left
<1>4. CASE svc' = [svc EXCEPT !["daemon"] = s] /\ ghost' = [ghost EXCEPT !.let = "none"]
  BY <1>0, <1>1, <1>2, <1>4, NothingDone
<1>5. ASSUME NEW out, ~s.tripped, s.bans[p] = 0,
             NEW r, r = PushOut(s, out), NEW g, g = Left(ghost, out),
             NEW k, k = Struck(r, p), Strikes(s, g, k, p)
      PROVE  JailSound(svc, ghost)' /\ BanHolds'
  <2>1. Looked("daemon", s) /\ Live(s.bans) = s.bans /\ Accounted(s, ghost)
    BY <1>0, <1>1, <1>2, <1>5, LookIs
  <2>2. /\ Looked("daemon", r) /\ Live(r.bans) = r.bans /\ r.bans = s.bans /\ r.tripped = s.tripped
        /\ GhostTyped(g) /\ Accounted(r, g)
    BY <1>0, <1>5, <2>1, PushOutSound DEF Left
  <2>3. ~r.tripped /\ r.bans[p] = 0 /\ RoomForBan(r, p) = RoomForBan(s, p)
    BY <1>5, <2>2 DEF RoomForBan, Full
  <2>4. Strikes(r, g, k, p)
    BY <1>5, <2>3 DEF Strikes
  <2> QED
    BY <1>0, <1>5, <2>2, <2>3, <2>4, StrikeSound
<1> QED
  BY <1>3, <1>4, <1>5

\* Unban does, from either process.
LEMMA UnbanKeeps ==
  ASSUME GuardAssumption, JailSound(svc, ghost), NEW x \in Procs, NEW p \in Peers, Unban(x, p)
  PROVE  JailSound(svc, ghost)' /\ BanHolds'
<1> DEFINE s == Look(svc[x])
           t == [s EXCEPT !.bans[p] = 0, !.write = "unban", !.peer = p, !.prev = s.bans,
                          !.base = banFile.version]
           h == [ghost EXCEPT !.let = "none"]
<1>0. /\ FileSound /\ GhostTyped(ghost) /\ now' = now /\ banFile' = banFile /\ Accounted(svc["daemon"], ghost)
      /\ svc[x].write = "none" /\ h = [ghost EXCEPT !.let = "none"] /\ ghost' = h
      /\ t = [s EXCEPT !.bans[p] = 0, !.write = "unban", !.peer = p, !.prev = s.bans, !.base = banFile.version]
  BY DEF JailSound, Unban, Free
<1>1. \/ svc' = [svc EXCEPT ![x] = s]
      \/ ~s.tripped /\ s.bans[p] # 0 /\ svc' = [svc EXCEPT ![x] = t]
  BY DEF Unban, Become
<1>2. /\ ServiceSound(x, s) /\ (x = "daemon" => Accounted(s, ghost))
      /\ ~s.tripped => Looked(x, s) /\ Live(s.bans) = s.bans
  <2>1. s = Look(svc[x])
    OBVIOUS
  <2> HIDE DEF s
  <2> QED
    BY <1>0, <2>1, LookIs
<1> HIDE DEF s, t, h
<1>3. GhostTyped(h) /\ h.let = "none" /\ \A d : Accounted(d, ghost) => Accounted(d, h)
  BY <1>0, Telling
<1>4. PICK r : ServiceSound(x, r) /\ (x = "daemon" => Accounted(r, ghost)) /\ svc' = [svc EXCEPT ![x] = r]
  <2>1. CASE svc' = [svc EXCEPT ![x] = s]
    BY <1>2, <2>1 DEF Looked
  <2>2. CASE ~s.tripped /\ s.bans[p] # 0 /\ svc' = [svc EXCEPT ![x] = t]
    <3>1. ServiceSound(x, t) /\ (x = "daemon" => Accounted(t, ghost))
      BY <1>0, <1>2, <2>2, UnbanSound
    <3> QED
      BY <2>2, <3>1
  <2> QED
    BY <1>1, <2>1, <2>2
<1>5. JailSound(svc, ghost)'
  BY <1>0, <1>3, <1>4, CallSound
<1> QED
  BY <1>0, <1>3, <1>5 DEF BanHolds

\* A service of a process that has just begun, or begins anew.
LEMMA ServiceIs ==
  ASSUME GuardAssumption, NEW bans \in BanTables, NEW saw \in BOOLEAN, NEW seen \in Nat \cup {-1},
         NEW tripped \in BOOLEAN, NEW t, t = Service(bans, saw, seen, tripped)
  PROVE  /\ t \in JailServices /\ t.bans = bans /\ t.saw = saw /\ t.seen = seen /\ t.tripped = tripped
         /\ t.write = "none" /\ \A p \in Peers : t.strikes[p] = <<>>
<1>1. NoBans \in BanTables /\ <<>> \in Samples(MaxRetry) /\ <<>> \in Samples(RateLimit)
  BY NoBansIsTable, NoneAreSamples, GuardConsts
<1>2. NoSamples \in [Peers -> Samples(MaxRetry)] /\ NoSamples \in [Peers -> Samples(RateLimit)]
      /\ \A p \in Peers : NoSamples[p] = <<>>
  BY <1>1 DEF NoSamples
<1> QED
  BY <1>1, <1>2 DEF JailServices, Service

\* What a daemon that has just begun can be held to account for.
LEMMA BegunAccounted ==
  ASSUME GuardAssumption, FileSound, NEW t \in JailServices, t.write = "none", \A p \in Peers : t.strikes[p] = <<>>,
         banFile.state = "ok" => t.saw,
         NEW d, NEW g, GhostTyped(g), Accounted(d, g),
         NEW h, h.held = g.held, h.fails = NoSamples, h.excused = g.excused, h.unearned = g.unearned,
         \A p \in Peers : h.count[p] \in Nat
  PROVE  Accounted(t, h)
<1>1. SUFFICES ASSUME ~g.excused, NEW p \in Peers PROVE PeerSound(t, h, p)
  BY DEF Accounted
<1>2. PeerSound(d, g, p)
  BY <1>1 DEF Accounted
<1>3. h.fails[p] = <<>> /\ Len(<<>>) = 0 /\ Len(<<>>) < MaxRetry /\ h.count[p] \in Nat
  BY GuardConsts DEF NoSamples
<1>4. Covers(t.strikes[p], h.fails[p])
  BY <1>3 DEF Covers
<1>5. Len(t.strikes[p]) <= h.count[p]
  BY <1>3
<1> QED
  BY <1>2, <1>3, <1>4, <1>5 DEF PeerSound

\* A start reads the file; with none to be had, it begins with no bans.
LEMMA NewServiceSound ==
  ASSUME GuardAssumption, FileSound, NEW x \in Procs, NEW t,
         t = Configured \/ (banFile.state = "absent" /\ t = Service(NoBans, FALSE, -1, FALSE))
  PROVE  /\ ServiceSound(x, t) /\ t \in JailServices /\ t.write = "none"
         /\ (\A p \in Peers : t.strikes[p] = <<>>) /\ (banFile.state = "ok" => t.saw)
<1>0. NoBans \in BanTables /\ Live(banFile.bans) \in BanTables /\ Live(Live(banFile.bans)) = Live(banFile.bans)
      /\ banFile.version \in Nat
  BY NoBansIsTable, LiveIs DEF FileSound
<1>1. CASE banFile.state = "ok"
  <2>1. t = Service(Live(banFile.bans), TRUE, banFile.version, FALSE)
    BY <1>1 DEF Configured
  <2>2. /\ t \in JailServices /\ t.bans = Live(banFile.bans) /\ t.saw /\ t.seen = banFile.version
        /\ t.write = "none" /\ \A p \in Peers : t.strikes[p] = <<>>
    <3>1. PICK a, b \in BOOLEAN : a = TRUE /\ b = FALSE
      OBVIOUS
    <3>2. t = Service(Live(banFile.bans), a, banFile.version, b) /\ banFile.version \in Nat \cup {-1}
      BY <1>0, <2>1, <3>1
    <3>3. /\ t \in JailServices /\ t.bans = Live(banFile.bans) /\ t.saw = a /\ t.seen = banFile.version
          /\ t.write = "none" /\ \A p \in Peers : t.strikes[p] = <<>>
      BY <1>0, <3>2, ServiceIs
    <3> QED
      BY <3>1, <3>3
  <2> QED
    BY <1>0, <1>1, <2>2 DEF ServiceSound, Memory
<1>2. CASE banFile.state # "ok"
  <2>1. PICK tripped \in BOOLEAN : t = Service(NoBans, FALSE, -1, tripped)
    BY <1>2 DEF Configured, FileSound
  <2>2. /\ t \in JailServices /\ t.bans = NoBans /\ ~t.saw /\ t.seen = -1
        /\ t.write = "none" /\ \A p \in Peers : t.strikes[p] = <<>>
    <3>1. PICK a \in BOOLEAN : a = FALSE
      OBVIOUS
    <3>2. t = Service(NoBans, a, -1, tripped) /\ -1 \in Nat \cup {-1}
      BY <2>1, <3>1
    <3>3. /\ t \in JailServices /\ t.bans = NoBans /\ t.saw = a /\ t.seen = -1
          /\ t.write = "none" /\ \A p \in Peers : t.strikes[p] = <<>>
      BY <1>0, <3>2, ServiceIs, SMTT(20)
    <3> QED
      BY <3>1, <3>3
  <2> QED
    BY <1>0, <1>2, <2>2 DEF ServiceSound, UpToDate
<1> QED
  BY <1>1, <1>2

\* A restart does.
LEMMA RestartKeeps ==
  ASSUME GuardAssumption, JailSound(svc, ghost), NEW x \in Procs, Restart(x)
  PROVE  JailSound(svc, ghost)' /\ BanHolds'
<1>0. /\ FileSound /\ GhostTyped(ghost) /\ now' = now /\ banFile' = banFile /\ Accounted(svc["daemon"], ghost)
      /\ svc' = [svc EXCEPT ![x] = Configured]
      /\ ghost' = [ghost EXCEPT !.let = "none", !.fails = IF x = "daemon" THEN NoSamples ELSE @,
                                !.count = IF x = "daemon" THEN NoBans ELSE @]
  BY DEF JailSound, Restart, Become
<1>1. PICK t : t = Configured
  OBVIOUS
<1>2. /\ ServiceSound(x, t) /\ t \in JailServices /\ t.write = "none"
      /\ (\A p \in Peers : t.strikes[p] = <<>>) /\ (banFile.state = "ok" => t.saw)
  BY <1>0, <1>1, NewServiceSound
<1>3. PICK h : h = [ghost EXCEPT !.let = "none", !.fails = IF x = "daemon" THEN NoSamples ELSE @,
                                 !.count = IF x = "daemon" THEN NoBans ELSE @]
  OBVIOUS
<1>4. /\ h.held = ghost.held /\ h.excused = ghost.excused /\ h.unearned = ghost.unearned /\ h.let = "none"
      /\ h.fails = (IF x = "daemon" THEN NoSamples ELSE ghost.fails)
      /\ h.count = (IF x = "daemon" THEN NoBans ELSE ghost.count)
  BY <1>0, <1>3 DEF GhostTyped
<1>5. GhostTyped(h)
  <2>1. NoSamples \in [Peers -> Samples(MaxRetry)] /\ NoBans \in [Peers -> 0..MaxRetry]
    BY NoneAreSamples, GuardConsts DEF NoSamples, NoBans
  <2> QED
    BY <1>0, <1>3, <2>1 DEF GhostTyped
<1>6. CASE x = "daemon"
  <2>1. \A p \in Peers : h.count[p] \in Nat
    BY <1>4, <1>6 DEF NoBans
  <2>2. Accounted(t, h)
    BY <1>0, <1>2, <1>4, <1>6, <2>1, BegunAccounted
  <2> QED
    BY <1>0, <1>1, <1>2, <1>3, <1>4, <1>5, <1>6, <2>2, CallSound DEF BanHolds
<1>7. CASE x # "daemon"
  <2>1. Accounted(svc["daemon"], h)
    BY <1>0, <1>4, <1>7, SameAccount
  <2> QED
    BY <1>0, <1>1, <1>2, <1>3, <1>4, <1>5, <1>7, <2>1, CallSound, ZenonT(40) DEF BanHolds
<1> QED
  BY <1>6, <1>7

\* Without a good file no ban is held, and the account asks only for the strikes.
Tripped(s) == [s EXCEPT !.tripped = TRUE, !.seen = -1]

\* A reload that trips the service does.
LEMMA TripKeeps ==
  ASSUME GuardAssumption, FileSound, banFile.state # "ok", NEW x \in Procs, NEW s, ServiceSound(x, s),
         s.write = "none", NEW t, t = Tripped(s)
  PROVE  ServiceSound(x, t) /\ \A g : Accounted(s, g) => Accounted(t, g)
<1>0. s \in JailServices /\ banFile.version \in Nat
  BY DEF ServiceSound, FileSound
<1>1. /\ t \in JailServices /\ t.bans = s.bans /\ t.strikes = s.strikes /\ t.saw = s.saw /\ t.seen = -1
      /\ t.tripped /\ t.write = "none" /\ Rest(t) = Rest(s)
  BY <1>0 DEF JailServices, Rest, Tripped
<1>2. ServiceSound(x, t)
  BY <1>0, <1>1 DEF ServiceSound
<1>3. ASSUME NEW g, Accounted(s, g) PROVE Accounted(t, g)
  <2>1. \A p \in Peers : Lifted(t, p) = Lifted(s, p)
    BY <1>1 DEF Lifted
  <2>2. Memory(t) = Memory(s)
    BY <1>1 DEF Memory
  <2>3. \A p \in Peers : PeerSound(s, g, p) => PeerSound(t, g, p)
    BY <1>1, <2>1, <2>2 DEF PeerSound
  <2> QED
    BY <1>1, <1>3, <2>3 DEF Accounted
<1> QED
  BY <1>2, <1>3

\* Reload does, of any file or none.
LEMMA ReloadKeeps ==
  ASSUME GuardAssumption, JailSound(svc, ghost), NEW x \in Procs, Reload(x)
  PROVE  JailSound(svc, ghost)' /\ BanHolds'
<1> DEFINE s == svc[x]
           forget == x = "daemon" /\ banFile.state = "absent"
           h == [ghost EXCEPT !.let = "none", !.fails = IF forget THEN NoSamples ELSE @]
<1>0. /\ FileSound /\ GhostTyped(ghost) /\ now' = now /\ banFile' = banFile /\ Accounted(svc["daemon"], ghost)
      /\ ServiceSound(x, s) /\ s.write = "none" /\ s \in JailServices /\ ghost' = h
  BY DEF JailSound, Reload, Free, ServiceSound
<1>1. /\ h.held = ghost.held /\ h.excused = ghost.excused /\ h.unearned = ghost.unearned /\ h.let = "none"
      /\ h.fails = (IF forget THEN NoSamples ELSE ghost.fails) /\ h.count = ghost.count
  BY <1>0 DEF GhostTyped
<1>2. GhostTyped(h)
  <2>1. NoSamples \in [Peers -> Samples(MaxRetry)]
    BY NoneAreSamples, GuardConsts DEF NoSamples
  <2> QED
    BY <1>0, <2>1 DEF GhostTyped
<1>3. \/ banFile.state = "ok" /\ svc' = [svc EXCEPT ![x] = [Load(s) EXCEPT !.tripped = FALSE]]
      \/ /\ banFile.state = "bad" \/ (banFile.state = "absent" /\ s.saw)
         /\ svc' = [svc EXCEPT ![x] = [s EXCEPT !.tripped = TRUE, !.seen = -1]]
      \/ /\ banFile.state = "absent" /\ ~s.saw
         /\ svc' = [svc EXCEPT ![x] = [Service(NoBans, FALSE, -1, FALSE) EXCEPT !.swept = s.swept]]
  <2>1. banFile.state \in {"absent", "ok", "bad"}
    BY <1>0 DEF FileSound
  <2>2. CASE banFile.state = "ok"
    BY <2>2 DEF Reload, Become
  <2>3. CASE banFile.state = "bad"
    BY <2>3 DEF Reload, Become
  <2>4. CASE banFile.state = "absent" /\ s.saw
    BY <2>4 DEF Reload, Become
  <2>5. CASE banFile.state = "absent" /\ ~s.saw
    BY <2>5 DEF Reload, Become
  <2> QED
    BY <2>1, <2>2, <2>3, <2>4, <2>5
<1> HIDE DEF h
<1>4. ~forget => \A d : Accounted(d, ghost) => Accounted(d, h)
  BY <1>1, SameAccount
<1>5. x # "daemon" => Accounted(svc["daemon"], h)
  BY <1>0, <1>4
<1>6. ASSUME NEW t, ServiceSound(x, t), svc' = [svc EXCEPT ![x] = t], x = "daemon" => Accounted(t, h)
      PROVE  JailSound(svc, ghost)' /\ BanHolds'
  BY <1>0, <1>1, <1>2, <1>5, <1>6, CallSound DEF BanHolds
<1>7. CASE banFile.state = "ok" /\ svc' = [svc EXCEPT ![x] = [Load(s) EXCEPT !.tripped = FALSE]]
  <2>1. PICK l : l = Load(s)
    OBVIOUS
  <2>2. PICK t : t = [l EXCEPT !.tripped = FALSE]
    OBVIOUS
  <2>3. Looked(x, l) /\ l \in JailServices
    BY <1>0, <1>7, <2>1, LoadSound DEF Looked, ServiceSound
  <2>4. /\ t \in JailServices /\ t.bans = l.bans /\ t.strikes = l.strikes /\ t.saw = l.saw /\ t.seen = l.seen
        /\ ~t.tripped /\ t.write = "none" /\ Rest(t) = Rest(l)
    BY <2>2, <2>3 DEF JailServices, Rest, Looked
  <2>5. l.bans = Live(banFile.bans) /\ Live(Live(banFile.bans)) = Live(banFile.bans)
    BY <1>0, <2>1, LoadIs, LiveIs DEF FileSound
  <2>6. ServiceSound(x, t)
    BY <1>7, <2>3, <2>4, <2>5 DEF ServiceSound, Looked, UpToDate, Memory
  <2>7. x = "daemon" => Accounted(t, h)
    <3>1. x = "daemon" => Accounted(l, ghost)
      BY <1>0, <1>7, <2>1, LoadAccounted
    <3>2. x = "daemon" => Accounted(t, ghost)
      BY <2>4, <3>1, SameAccount
    <3> QED
      BY <1>4, <1>7, <3>2
  <2>8. svc' = [svc EXCEPT ![x] = t]
    BY <1>7, <2>1, <2>2
  <2> QED
    BY <1>6, <2>6, <2>7, <2>8
<1>8. CASE /\ banFile.state = "bad" \/ (banFile.state = "absent" /\ s.saw)
           /\ svc' = [svc EXCEPT ![x] = [s EXCEPT !.tripped = TRUE, !.seen = -1]]
  <2>1. PICK t : t = Tripped(s)
    OBVIOUS
  <2> HIDE DEF s
  <2>0. banFile.state # "ok"
    BY <1>8
  <2>2. ServiceSound(x, t) /\ \A g : Accounted(s, g) => Accounted(t, g)
    BY <1>0, <2>0, <2>1, TripKeeps
  <2>3. x = "daemon" => Accounted(s, h)
    <3>1. CASE ~forget
      BY <1>0, <1>4, <3>1 DEF s
    <3>2. CASE forget
      <4>1. Accounted(s, ghost) /\ banFile.state # "ok"
        BY <1>0, <3>2 DEF s
      <4>2. h.fails = NoSamples /\ Len(<<>>) = 0 /\ Len(<<>>) < MaxRetry
        BY <1>1, <3>2, GuardConsts
      <4>3. ASSUME NEW p \in Peers, PeerSound(s, ghost, p) PROVE PeerSound(s, h, p)
        <5>1. h.fails[p] = <<>>
          BY <4>2 DEF NoSamples
        <5>2. Covers(s.strikes[p], h.fails[p])
          BY <4>2, <5>1 DEF Covers
        <5> QED
          BY <1>1, <4>2, <4>3, <5>1, <5>2 DEF PeerSound
      <4> QED
        BY <1>1, <4>1, <4>3 DEF Accounted
    <3> QED
      BY <3>1, <3>2
  <2>4. svc' = [svc EXCEPT ![x] = t]
    BY <1>8, <2>1 DEF Tripped
  <2> QED
    BY <1>6, <2>2, <2>3, <2>4
<1>9. CASE /\ banFile.state = "absent" /\ ~s.saw
           /\ svc' = [svc EXCEPT ![x] = [Service(NoBans, FALSE, -1, FALSE) EXCEPT !.swept = s.swept]]
  <2>1. PICK l : l = Service(NoBans, FALSE, -1, FALSE)
    OBVIOUS
  <2>a. PICK t : t = [l EXCEPT !.swept = s.swept]
    OBVIOUS
  <2>b. /\ ServiceSound(x, l) /\ l \in JailServices /\ l.write = "none"
        /\ (\A p \in Peers : l.strikes[p] = <<>>) /\ (banFile.state = "ok" => l.saw)
    BY <1>0, <1>9, <2>1, NewServiceSound
  <2>c. /\ t \in JailServices /\ t.bans = l.bans /\ t.strikes = l.strikes /\ t.saw = l.saw /\ t.seen = l.seen
        /\ t.tripped = l.tripped /\ t.write = "none" /\ Rest(t) = Rest(l)
    BY <1>0, <2>a, <2>b DEF JailServices, Rest
  <2>2. /\ ServiceSound(x, t) /\ t \in JailServices /\ t.write = "none"
        /\ (\A p \in Peers : t.strikes[p] = <<>>) /\ (banFile.state = "ok" => t.saw)
    BY <2>b, <2>c DEF ServiceSound, UpToDate, Memory
  <2>3. x = "daemon" => Accounted(t, h)
    <3>1. \A p \in Peers : h.count[p] \in Nat
      BY <1>0, <1>1, GuardConsts DEF GhostTyped
    <3>2. x = "daemon" => h.fails = NoSamples
      BY <1>1, <1>9
    <3> QED
      BY <1>0, <1>1, <2>2, <3>1, <3>2, BegunAccounted
  <2>4. svc' = [svc EXCEPT ![x] = t]
    BY <1>9, <2>1, <2>a
  <2> QED
    BY <1>6, <2>2, <2>3, <2>4
<1> QED
  BY <1>3, <1>7, <1>8, <1>9

\* A write that fails does: a ban trips the service, a pardon is taken back.
LEMMA PersistFailsKeeps ==
  ASSUME GuardAssumption, JailSound(svc, ghost), NEW x \in Procs, PersistFails(x)
  PROVE  JailSound(svc, ghost)' /\ BanHolds'
<1> DEFINE s == svc[x]
           back == IF s.write = "unban" THEN s.prev ELSE s.bans
<1>0. /\ FileSound /\ GhostTyped(ghost) /\ now' = now /\ banFile' = banFile /\ Accounted(svc["daemon"], ghost)
      /\ ServiceSound(x, s) /\ s.write # "none" /\ s \in JailServices /\ Writing(s)
  BY DEF JailSound, PersistFails, Free, ServiceSound
<1>1. PICK t : /\ t = [s EXCEPT !.write = "none", !.peer = "none", !.prev = NoBans, !.base = -1,
                                !.bans = back, !.tripped = (s.write = "ban")]
               /\ svc' = [svc EXCEPT ![x] = t]
  <2>1. svc' = [svc EXCEPT ![x] = [s EXCEPT !.write = "none", !.peer = "none", !.prev = NoBans, !.base = -1,
                                            !.bans = IF s.write = "unban" THEN s.prev ELSE @,
                                            !.tripped = s.write = "ban"]]
    BY DEF PersistFails, Become
  <2> QED
    BY <2>1
<1>2. PICK h : /\ h = [ghost EXCEPT !.let = "none", !.excused = @ \/ (s.write = "ban" /\ Banned(s.prev) # {})]
               /\ ghost' = h
  BY DEF PersistFails
<1> HIDE DEF s
<1>3. /\ t \in JailServices /\ t.bans = back /\ t.strikes = s.strikes /\ t.saw = s.saw /\ t.seen = s.seen
      /\ t.tripped = (s.write = "ban") /\ t.write = "none"
  <2>1. back \in BanTables /\ NoBans \in BanTables
    BY <1>0, NoBansIsTable DEF JailServices
  <2> HIDE DEF back
  <2> QED
    BY <1>0, <1>1, <2>1 DEF JailServices
<1>4. /\ h.held = ghost.held /\ h.unearned = ghost.unearned /\ h.let = "none"
      /\ h.fails = ghost.fails /\ h.count = ghost.count
      /\ h.excused = (ghost.excused \/ (s.write = "ban" /\ Banned(s.prev) # {})) /\ GhostTyped(h)
  BY <1>0, <1>2 DEF GhostTyped
<1>5. ServiceSound(x, t)
  <2>1. CASE s.write = "unban"
    <3>1. Memory(t) = Memory(s) /\ UpToDate(t) = UpToDate(s) /\ ~t.tripped
      BY <1>3, <2>1 DEF Memory, UpToDate
    <3> QED
      BY <1>0, <1>3, <2>1, <3>1 DEF ServiceSound, Writing
  <2>2. CASE s.write = "ban"
    BY <1>0, <1>3, <2>2 DEF ServiceSound
  <2> QED
    BY <1>0, <2>1, <2>2 DEF JailServices
<1>6. CASE x = "daemon"
  <2>1. Accounted(t, h)
    <3>1. SUFFICES ASSUME ~h.excused, NEW p \in Peers PROVE PeerSound(t, h, p)
      BY <1>0, <1>3, <1>4, <1>6 DEF Accounted, s
    <3>2. PeerSound(s, ghost, p) /\ ~ghost.excused
      BY <1>0, <1>4, <1>6, <3>1 DEF Accounted, s
    <3>3. s.write = "ban" => s.prev[p] = 0
      BY <1>4, <3>1 DEF Banned
    <3>4. Memory(s) = s.prev /\ Memory(t) = t.bans
      BY <1>0, <1>3 DEF Memory
    <3>5. Memory(s)[p] # 0 => Memory(t)[p] = Memory(s)[p]
      BY <1>0, <1>3, <3>3, <3>4 DEF JailServices
    <3>6. s.bans[p] = 0 /\ s.prev[p] = 0 => t.bans[p] = 0
      BY <1>3
    <3>7. Live(banFile.bans)[p] # 0 => banFile.bans[p] > 0
      <4>1. banFile.bans[p] \in Nat /\ now \in Nat
        BY <1>0 DEF FileSound, BanTables
      <4>2. Live(banFile.bans)[p] = IF banFile.bans[p] > now THEN banFile.bans[p] ELSE 0
        BY <1>0, LiveIs DEF FileSound
      <4> QED
        BY <4>1, <4>2
    <3>8. Live(banFile.bans)[p] # 0 => Memory(t)[p] >= banFile.bans[p] \/ t.strikes[p] = <<>>
      <4>1. banFile.bans[p] \in Nat
        BY <1>0 DEF FileSound, BanTables
      <4> QED
        BY <1>3, <3>2, <3>5, <3>7, <4>1 DEF PeerSound
    <3>9. Lifted(s, p) => Lifted(t, p)
      BY <1>3, <3>5 DEF Lifted, UpToDate
    <3> QED
      BY <1>0, <1>3, <1>4, <3>2, <3>6, <3>8, <3>9 DEF PeerSound
  <2> QED
    BY <1>0, <1>1, <1>2, <1>4, <1>5, <1>6, <2>1, CallSound DEF BanHolds
<1>7. CASE x # "daemon"
  <2>1. s.write # "ban"
    BY <1>0, <1>7 DEF ServiceSound, Procs
  <2>2. h.excused = ghost.excused
    BY <1>4, <2>1, <1>0 DEF GhostTyped
  <2>3. Accounted(svc["daemon"], h)
    BY <1>0, <1>4, <2>2, SameAccount
  <2> QED
    BY <1>0, <1>1, <1>2, <1>4, <1>5, <1>7, <2>3, CallSound DEF BanHolds
<1> QED
  BY <1>6, <1>7

\* What the move of the file or of the clock leaves of another's service.
LEMMA TypesStand ==
  ASSUME now' = now, GuardAssumption
  PROVE  /\ \A cap : Samples(cap)' = Samples(cap)
         /\ BanTables' = BanTables /\ NoBans' = NoBans /\ JailServices' = JailServices
         /\ (\A b : Live(b)' = Live(b)) /\ (\A s, f : Covers(s, f)' = Covers(s, f))
         /\ (\A s : Memory(s)' = Memory(s)) /\ \A g : GhostTyped(g)' = GhostTyped(g)
<1>1. /\ \A cap : Samples(cap)' = Samples(cap)
      /\ \A b : Live(b)' = Live(b)
      /\ BanTables' = BanTables /\ NoBans' = NoBans
  BY DEF Samples, Live, BanTables, Banned, NoBans
<1>2. JailServices' = JailServices
  BY <1>1 DEF JailServices
<1>3. \A s : Memory(s)' = Memory(s)
  BY DEF Memory
<1>4. \A g : GhostTyped(g)' = GhostTyped(g)
  BY <1>1 DEF GhostTyped
<1>5. \A s, f : Covers(s, f)' = Covers(s, f)
  BY DEF Covers
<1> QED
  BY <1>1, <1>2, <1>3, <1>4, <1>5

\* A new version of the file is news to every service.
LEMMA FileMoves ==
  ASSUME GuardAssumption, now' = now, FileSound, NEW x, NEW s, ServiceSound(x, s),
         banFile'.version = banFile.version + 1
  PROVE  ServiceSound(x, s)' /\ ~UpToDate(s)'
<1>0. banFile.version \in Nat /\ s \in JailServices /\ s.seen \in Nat \cup {-1} /\ s.base \in Nat \cup {-1}
      /\ s.seen <= banFile.version
  BY DEF FileSound, ServiceSound, JailServices
<1>1. s.seen < banFile'.version /\ s.seen <= banFile'.version /\ ~(s.seen = banFile'.version)
  BY <1>0
<1>2. s.write # "none" => Writing(s)' /\ s.base # banFile'.version
  BY <1>0 DEF Writing, ServiceSound
<1>3. ~UpToDate(s)'
  BY <1>1 DEF UpToDate
<1>4. s \in JailServices'
  BY <1>0, TypesStand
<1>5. x = "console" => s.write # "ban" /\ (~s.saw => s.bans = NoBans' /\ s.write = "none")
  BY TypesStand DEF ServiceSound
<1> QED
  BY <1>1, <1>2, <1>3, <1>4, <1>5 DEF ServiceSound

\* Damage to the file does, and its removal.
LEMMA FileDamagedKeeps ==
  ASSUME GuardAssumption, JailSound(svc, ghost), NEW to \in {"bad", "absent"}, FileDamaged(to)
  PROVE  JailSound(svc, ghost)' /\ BanHolds'
<1> DEFINE d == svc["daemon"]
<1>0. /\ FileSound /\ GhostTyped(ghost) /\ now' = now /\ svc' = svc /\ Accounted(d, ghost)
      /\ banFile.state = "ok" /\ banFile' = [banFile EXCEPT !.state = to, !.version = @ + 1, !.bans = NoBans]
      /\ \A x \in Procs : ServiceSound(x, svc[x])
  BY DEF JailSound, FileDamaged
<1>1. banFile'.version = banFile.version + 1 /\ banFile'.state = to /\ banFile'.bans = NoBans
      /\ banFile' = [state |-> banFile'.state, bans |-> banFile'.bans, version |-> banFile'.version]
  BY <1>0 DEF FileSound
<1>2. PICK h : /\ ghost' = h /\ h = [ghost EXCEPT !.let = "none", !.held = NoBans]
  BY DEF FileDamaged
<1>3. /\ h.let = "none" /\ h.held = NoBans /\ h.fails = ghost.fails /\ h.count = ghost.count
      /\ h.excused = ghost.excused /\ h.unearned = ghost.unearned /\ GhostTyped(h)
  BY <1>0, <1>2 DEF GhostTyped, NoBans
<1>4. FileSound'
  <2>1. NoBans \in BanTables'
    BY <1>0, TypesStand, NoBansIsTable
  <2> QED
    BY <1>0, <1>1, <2>1, TypesStand DEF FileSound
<1>5. \A x \in Procs : ServiceSound(x, svc[x])'
  <2> SUFFICES ASSUME NEW x \in Procs PROVE ServiceSound(x, svc[x])'
    OBVIOUS
  <2>1. PICK s : s = svc[x]
    OBVIOUS
  <2>2. ServiceSound(x, s)'
    BY <1>0, <1>1, <2>1, FileMoves
  <2> QED
    BY <1>0, <2>1, <2>2 DEF ServiceSound, UpToDate, Writing, Memory, Live
<1>6. Accounted(d, ghost)'
  <2>1. SUFFICES ASSUME ~ghost.excused PROVE Accounted(d, ghost)'
    BY <1>0, <1>2, <1>3 DEF Accounted
  <2>2. ASSUME NEW p \in Peers PROVE PeerSound(d, ghost, p)'
    <3>1. PeerSound(d, ghost, p)
      BY <1>0, <2>1 DEF Accounted
    <3>2. (Live(banFile.bans)[p] = 0)' /\ d.saw
      BY <1>0, <1>1, <2>1 DEF Live, NoBans, FileSound, Accounted
    <3>3. Lifted(d, p)'
      BY <1>0, <1>1, <3>2 DEF Lifted
    <3>4. Covers(d.strikes[p], ghost.fails[p])'
      BY <1>0, <1>2, <1>3, <3>1, TypesStand DEF PeerSound, Covers
    <3> QED
      BY <1>0, <1>2, <1>3, <3>1, <3>2, <3>3, <3>4 DEF PeerSound, NoBans
  <2> QED
    BY <1>0, <1>1, <1>2, <1>3, <2>1, <2>2 DEF Accounted
<1>7. GhostTyped(ghost)'
  BY <1>0, <1>2, <1>3, TypesStand DEF GhostTyped
<1> QED
  BY <1>0, <1>2, <1>3, <1>4, <1>5, <1>6, <1>7 DEF JailSound, BanHolds

\* The clock does: bans end and strikes grow old for all alike.
LEMMA TickKeeps ==
  ASSUME GuardAssumption, JailSound(svc, ghost), Tick
  PROVE  JailSound(svc, ghost)' /\ BanHolds'
<1> DEFINE d == svc["daemon"]
           left == [p \in Peers |-> IF ghost.held[p] > now + 1 THEN ghost.held[p] ELSE 0]
<1>0. /\ FileSound /\ GhostTyped(ghost) /\ now' = now + 1 /\ svc' = svc /\ banFile' = banFile /\ Accounted(d, ghost)
      /\ (\A x \in Procs : ServiceSound(x, svc[x])) /\ now \in Nat \ {0} /\ now + 1 \in Nat \ {0}
  BY DEF JailSound, Tick, FileSound
<1>1. PICK h : ghost' = h /\ h = [ghost EXCEPT !.let = "none", !.held = left]
  <2>1. ghost' = [ghost EXCEPT !.let = "none",
                     !.held = [p \in Peers |-> IF @[p] > now + 1 THEN @[p] ELSE 0]]
    BY DEF Tick
  <2> QED
    BY <2>1
<1>l. left \in [Peers -> Nat] /\ \A p \in Peers : left[p] # 0 => left[p] = ghost.held[p] /\ left[p] > now'
  BY <1>0 DEF GhostTyped
<1> HIDE DEF left
<1>2. /\ h.let = "none" /\ h.held = left /\ h.fails = ghost.fails /\ h.count = ghost.count
      /\ h.excused = ghost.excused /\ h.unearned = ghost.unearned
  BY <1>0, <1>1 DEF GhostTyped
<1>3. /\ BanTables' = BanTables /\ NoBans' = NoBans /\ \A s : UpToDate(s)' = UpToDate(s) /\ Memory(s)' = Memory(s)
  BY <1>0 DEF BanTables, Banned, NoBans, UpToDate, Memory
<1>4. \A cap : \A w \in Samples(cap) : w \in Samples(cap)'
  <2> SUFFICES ASSUME NEW cap, NEW w \in Samples(cap) PROVE w \in Samples(cap)'
    OBVIOUS
  <2>1. w \in Seq(Nat) /\ Len(w) <= cap /\ (\A i \in 1..Len(w) : w[i] <= now)
        /\ \A i, j \in 1..Len(w) : i <= j => w[i] <= w[j]
    BY DEF Samples
  <2>2. \A i \in 1..Len(w) : w[i] <= now'
    <3>1. \A i \in 1..Len(w) : w[i] \in Nat
      BY <2>1, SMTT(20)
    <3> QED
      BY <1>0, <2>1, <3>1, SMTT(20)
  <2> QED
    BY <2>1, <2>2 DEF Samples
<1>5. \A s \in JailServices : s \in JailServices'
  BY <1>3, <1>4 DEF JailServices
<1>6. ASSUME NEW b \in BanTables, NEW p \in Peers
      PROVE  /\ Live(b)[p] = (IF b[p] > now THEN b[p] ELSE 0) /\ Live(b)'[p] = (IF b[p] > now + 1 THEN b[p] ELSE 0)
             /\ b[p] \in Nat
  BY <1>0 DEF Live, BanTables
<1>7. \A b, c \in BanTables : Live(b) = Live(c) => Live(b)' = Live(c)'
  <2> SUFFICES ASSUME NEW b \in BanTables, NEW c \in BanTables, Live(b) = Live(c) PROVE Live(b)' = Live(c)'
    OBVIOUS
  <2>1. ASSUME NEW p \in Peers PROVE Live(b)'[p] = Live(c)'[p]
    <3>1. Live(b)[p] = Live(c)[p]
      OBVIOUS
    <3> QED
      BY <1>0, <1>6, <3>1
  <2>2. Live(b)' = [p \in Peers |-> Live(b)'[p]] /\ Live(c)' = [p \in Peers |-> Live(c)'[p]]
    BY DEF Live
  <2> QED
    BY <2>1, <2>2
<1>8. ASSUME NEW x \in Procs PROVE ServiceSound(x, svc[x])'
  <2>1. PICK s : s = svc[x]
    OBVIOUS
  <2>2. ServiceSound(x, s) /\ s \in JailServices /\ Memory(s) \in BanTables /\ banFile.bans \in BanTables
    BY <1>0, <2>1 DEF ServiceSound, JailServices, Memory, FileSound
  <2>3. Writing(s)' = Writing(s)
    BY <1>0 DEF Writing
  <2>4. (Live(Memory(s)) = Live(banFile.bans)) => (Live(Memory(s)) = Live(banFile.bans))'
    <3>1. PICK b : b = Memory(s)
      OBVIOUS
    <3>2. PICK c : c = banFile.bans
      OBVIOUS
    <3>3. Live(b) = Live(c) => Live(b)' = Live(c)'
      BY <1>7, <2>2, <3>1, <3>2
    <3>4. Live(Memory(s))' = Live(b)' /\ Live(banFile.bans)' = Live(c)'
      BY <1>0, <1>3, <3>1, <3>2 DEF Live
    <3> QED
      BY <3>1, <3>2, <3>3, <3>4
  <2>5. ServiceSound(x, s)'
    BY <1>0, <1>3, <1>5, <2>2, <2>3, <2>4 DEF ServiceSound
  <2> QED
    BY <1>0, <2>1, <2>5
<1>9. FileSound'
  BY <1>0, <1>3 DEF FileSound
<1>10. GhostTyped(ghost)'
  BY <1>0, <1>1, <1>2, <1>4, <1>l DEF GhostTyped
<1>11. Accounted(d, ghost)'
  <2>1. SUFFICES ASSUME ~ghost.excused PROVE Accounted(d, ghost)'
    BY <1>0, <1>1, <1>2 DEF Accounted
  <2>2. ASSUME NEW p \in Peers PROVE PeerSound(d, ghost, p)'
    <3>1. PeerSound(d, ghost, p)
      BY <1>0, <2>1 DEF Accounted
    <3>2. Live(banFile.bans)[p] = (IF banFile.bans[p] > now THEN banFile.bans[p] ELSE 0)
          /\ Live(banFile.bans)'[p] = (IF banFile.bans[p] > now + 1 THEN banFile.bans[p] ELSE 0)
          /\ banFile.bans[p] \in Nat
      BY <1>0 DEF FileSound, Live, BanTables
    <3>3. Live(banFile.bans)'[p] # 0 => Live(banFile.bans)[p] # 0
      BY <1>0, <3>2
    <3>4. Lifted(d, p) => Lifted(d, p)'
      BY <1>0, <1>3, <3>3 DEF Lifted
    <3>5. Covers(d.strikes[p], ghost.fails[p])'
      <4>1. ghost.fails[p] \in Samples(MaxRetry)
        BY <1>0 DEF GhostTyped
      <4>2. \A i \in 0..(Len(ghost.fails[p]) - 1) :
              ghost.fails[p][Len(ghost.fails[p]) - i] > now' - FindTime
                => ghost.fails[p][Len(ghost.fails[p]) - i] > now - FindTime
        <5> SUFFICES ASSUME NEW i \in 0..(Len(ghost.fails[p]) - 1),
                            ghost.fails[p][Len(ghost.fails[p]) - i] > now' - FindTime
                     PROVE  ghost.fails[p][Len(ghost.fails[p]) - i] > now - FindTime
          OBVIOUS
        <5>1. PICK f : f = ghost.fails[p]
          OBVIOUS
        <5>2. f \in Seq(Nat) /\ Len(f) \in Nat /\ \A j \in 1..Len(f) : f[j] \in Nat
          BY <4>1, <5>1, SamplesAre, GuardConsts
        <5>3. Len(f) - i \in 1..Len(f)
          BY <5>1, <5>2
        <5>4. f[Len(f) - i] \in Nat
          BY <5>2, <5>3
        <5>5. \A a \in Nat : a > now' - FindTime => a > now - FindTime
          BY <1>0, GuardConsts
        <5> QED
          BY <5>1, <5>4, <5>5
      <4>3. Covers(d.strikes[p], ghost.fails[p])
        BY <3>1 DEF PeerSound
      <4> QED
        BY <1>0, <1>1, <1>2, <4>2, <4>3 DEF Covers
    <3>6. h.held[p] # 0 => banFile.bans[p] >= h.held[p]
      BY <1>2, <1>l, <3>1 DEF PeerSound
    <3>7. Memory(d)' = Memory(d) /\ svc' = svc /\ banFile' = banFile /\ ghost' = h
      BY <1>0, <1>1, <1>3
    <3> QED
      BY <1>2, <3>1, <3>3, <3>4, <3>5, <3>6, <3>7 DEF PeerSound
  <2> QED
    BY <1>0, <1>1, <1>2, <2>1, <2>2 DEF Accounted
<1> QED
  BY <1>0, <1>1, <1>2, <1>8, <1>9, <1>10, <1>11 DEF JailSound, BanHolds

\* A write that no other came before is of what the file held when it began.
LEMMA WriteIsOfTheFile ==
  ASSUME GuardAssumption, FileSound, NEW x, NEW s, ServiceSound(x, s), s.write # "none",
         s.base = banFile.version, NEW d, NEW g, GhostTyped(g), Accounted(d, g), ~g.excused, NEW p \in Peers
  PROVE  /\ banFile.state = "ok" => Live(s.prev)[p] = Live(banFile.bans)[p]
         /\ g.held[p] # 0 => s.prev[p] >= g.held[p] /\ s.prev[p] > now
<1>0. /\ s.prev \in BanTables /\ banFile.bans \in BanTables /\ now \in Nat /\ ~s.tripped /\ Memory(s) = s.prev
      /\ s.prev[p] \in Nat /\ banFile.bans[p] \in Nat /\ g.held[p] \in Nat
  BY DEF ServiceSound, JailServices, FileSound, BanTables, Memory, Writing, GhostTyped
<1>1. /\ Live(s.prev)[p] = (IF s.prev[p] > now THEN s.prev[p] ELSE 0)
      /\ Live(banFile.bans)[p] = IF banFile.bans[p] > now THEN banFile.bans[p] ELSE 0
  BY <1>0, LiveIs
<1>2. banFile.state = "ok" => Live(s.prev)[p] = Live(banFile.bans)[p]
  BY <1>0 DEF ServiceSound
<1>3. g.held[p] # 0 => g.held[p] > now /\ banFile.bans[p] >= g.held[p]
  BY DEF GhostTyped, Accounted, PeerSound
<1>4. banFile.state # "ok" => banFile.bans[p] = 0
  BY DEF FileSound, NoBans
<1> QED
  BY <1>0, <1>1, <1>2, <1>3, <1>4

\* The service after its write has landed.
Written(s) ==
    [s EXCEPT !.write = "none", !.peer = "none", !.prev = NoBans, !.base = -1,
              !.saw = TRUE, !.seen = banFile.version + 1,
              !.strikes[s.peer] = IF s.write = "unban" THEN <<>> ELSE @,
              !.rates[s.peer] = IF s.write = "unban" THEN <<>> ELSE @]

\* It is sound, has seen its own file, and a pardon cleared the peer.
LEMMA WrittenIs ==
  ASSUME GuardAssumption, FileSound, NEW x, NEW s, ServiceSound(x, s), s.write # "none",
         NEW t, t = Written(s)
  PROVE  /\ t \in JailServices /\ t.write = "none" /\ t.saw /\ t.seen = banFile.version + 1
         /\ t.bans = s.bans /\ t.tripped = s.tripped
         /\ \A p \in Peers : t.strikes[p] = IF p = s.peer /\ s.write = "unban" THEN <<>> ELSE s.strikes[p]
<1> DEFINE strikes == [s.strikes EXCEPT ![s.peer] = IF s.write = "unban" THEN <<>> ELSE @]
           rates == [s.rates EXCEPT ![s.peer] = IF s.write = "unban" THEN <<>> ELSE @]
<1>0. s \in JailServices /\ s.peer \in Peers /\ NoBans \in BanTables /\ banFile.version + 1 \in Nat
  BY NoBansIsTable DEF ServiceSound, Writing, FileSound
<1>1. t = [s EXCEPT !.write = "none", !.peer = "none", !.prev = NoBans, !.base = -1,
                    !.saw = TRUE, !.seen = banFile.version + 1, !.strikes = strikes, !.rates = rates]
  BY <1>0 DEF JailServices, Written
<1>2. s.strikes \in [Peers -> Samples(MaxRetry)] /\ s.rates \in [Peers -> Samples(RateLimit)]
      /\ <<>> \in Samples(MaxRetry) /\ <<>> \in Samples(RateLimit)
  BY <1>0, NoneAreSamples, GuardConsts DEF JailServices
<1>3. strikes \in [Peers -> Samples(MaxRetry)] /\ rates \in [Peers -> Samples(RateLimit)]
      /\ \A p \in Peers : strikes[p] = IF p = s.peer /\ s.write = "unban" THEN <<>> ELSE s.strikes[p]
  BY <1>0, <1>2
<1> HIDE DEF strikes, rates
<1>4. t \in JailServices
  <2>1. PICK a \in BOOLEAN, v \in Nat : a = TRUE /\ v = banFile.version + 1
    BY <1>0
  <2>2. t = [s EXCEPT !.write = "none", !.peer = "none", !.prev = NoBans, !.base = -1,
                      !.saw = a, !.seen = v, !.strikes = strikes, !.rates = rates]
    BY <1>1, <2>1
  <2>3. t = [bans |-> s.bans, strikes |-> strikes, rates |-> rates, swept |-> s.swept, saw |-> a, seen |-> v,
             tripped |-> s.tripped, write |-> "none", peer |-> "none", prev |-> NoBans, base |-> -1]
    BY <1>0, <2>2 DEF JailServices
  <2>4. s.bans \in BanTables /\ s.tripped \in BOOLEAN /\ s.swept \in Int
    BY <1>0 DEF JailServices
  <2> QED
    BY <1>0, <1>3, <2>3, <2>4 DEF JailServices
<1>5. /\ t.write = "none" /\ t.saw /\ t.seen = banFile.version + 1 /\ t.bans = s.bans
      /\ t.tripped = s.tripped /\ t.strikes = strikes
  BY <1>0, <1>1 DEF JailServices
<1> QED
  BY <1>3, <1>4, <1>5

\* What the operator is told of a write that lands.
LEMMA LandedIs ==
  ASSUME GuardAssumption, FileSound, NEW x \in Procs, GhostTyped(ghost), ServiceSound(x, svc[x]),
         svc[x].write # "none", NEW s, s = svc[x], NEW h, h = Landed(x)
  PROVE  /\ GhostTyped(h) /\ h.let = "none" /\ h.unearned = ghost.unearned
         /\ h.excused = (ghost.excused \/ s.base # banFile.version)
         /\ \A p \in Peers : h.held[p] = IF p = s.peer THEN Live(s.bans)[p]
                                         ELSE IF s.prev[p] # s.bans[p] THEN 0 ELSE ghost.held[p]
         /\ \A p \in Peers : h.fails[p] = IF p = s.peer /\ s.write = "unban" THEN <<>> ELSE ghost.fails[p]
         /\ \A p \in Peers : h.count[p] = IF p = s.peer /\ s.write = "unban" /\ Live(banFile.bans)[p] # 0
                                          THEN 0 ELSE ghost.count[p]
<1> DEFINE held == [p \in Peers |-> CASE p = s.peer -> Live(s.bans)[p]
                                      [] p # s.peer /\ s.prev[p] # s.bans[p] -> 0
                                      [] OTHER -> ghost.held[p]]
           fails == [ghost.fails EXCEPT ![s.peer] = IF s.write = "unban" THEN <<>> ELSE @]
           count == [ghost.count EXCEPT ![s.peer] =
                        IF s.write = "unban" /\ Live(banFile.bans)[s.peer] # 0 THEN 0 ELSE @]
           excused == ghost.excused \/ s.base # banFile.version
<1>0. s \in JailServices /\ s.peer \in Peers /\ s.bans \in BanTables /\ now \in Nat
      /\ ghost.fails \in [Peers -> Samples(MaxRetry)] /\ ghost.count \in [Peers -> 0..MaxRetry]
      /\ ghost.held \in [Peers -> Nat] /\ \A p \in Peers : ghost.held[p] # 0 => ghost.held[p] > now
  BY DEF ServiceSound, Writing, FileSound, GhostTyped, JailServices
<1>1. h = [ghost EXCEPT !.let = "none", !.excused = excused, !.held = held, !.fails = fails, !.count = count]
  BY <1>0 DEF Landed, GhostTyped
<1>2. \A p \in Peers : held[p] = IF p = s.peer THEN Live(s.bans)[p]
                                 ELSE IF s.prev[p] # s.bans[p] THEN 0 ELSE ghost.held[p]
  OBVIOUS
<1>3. held \in [Peers -> Nat] /\ \A p \in Peers : held[p] # 0 => held[p] > now
  <2>1. \A p \in Peers : Live(s.bans)[p] \in Nat /\ (Live(s.bans)[p] # 0 => Live(s.bans)[p] > now)
    <3>1. \A p \in Peers : s.bans[p] \in Nat
      BY <1>0 DEF BanTables
    <3>2. \A p \in Peers : Live(s.bans)[p] = IF s.bans[p] > now THEN s.bans[p] ELSE 0
      BY <1>0, LiveIs
    <3> QED
      BY <3>1, <3>2
  <2>2. \A p \in Peers : held[p] \in Nat /\ (held[p] # 0 => held[p] > now)
    <3> HIDE DEF held
    <3> QED
      BY <1>0, <1>2, <2>1
  <2> QED
    BY <2>2
<1>4. fails \in [Peers -> Samples(MaxRetry)]
      /\ \A p \in Peers : fails[p] = IF p = s.peer /\ s.write = "unban" THEN <<>> ELSE ghost.fails[p]
  <2>1. <<>> \in Samples(MaxRetry)
    BY NoneAreSamples, GuardConsts
  <2> QED
    BY <1>0, <2>1
<1>5. count \in [Peers -> 0..MaxRetry]
      /\ \A p \in Peers : count[p] = IF p = s.peer /\ s.write = "unban" /\ Live(banFile.bans)[p] # 0
                                     THEN 0 ELSE ghost.count[p]
  BY <1>0, GuardConsts
<1> HIDE DEF held, fails, count
<1>6. excused \in BOOLEAN
  BY DEF GhostTyped
<1>7. /\ h.let = "none" /\ h.unearned = ghost.unearned /\ h.excused = excused /\ h.held = held
      /\ h.fails = fails /\ h.count = count
  BY <1>1 DEF GhostTyped
<1>8. GhostTyped(h)
  <2> HIDE DEF excused
  <2> QED
    BY <1>1, <1>3, <1>4, <1>5, <1>6, <1>7 DEF GhostTyped
<1> QED
  BY <1>2, <1>4, <1>5, <1>7, <1>8

\* A write that lands keeps the jail sound: the file has what the writer has, and
\* the other process sees that it changed.
LEMMA PersistKeeps ==
  ASSUME GuardAssumption, JailSound(svc, ghost), NEW x \in Procs, Persist(x)
  PROVE  JailSound(svc, ghost)' /\ BanHolds'
<1> DEFINE d == svc["daemon"]
<1>f. PICK f : f = Live(svc[x].bans)
  OBVIOUS
<1>0. /\ FileSound /\ GhostTyped(ghost) /\ now' = now /\ Accounted(d, ghost)
      /\ DOMAIN svc = Procs /\ (\A y \in Procs : ServiceSound(y, svc[y])) /\ svc[x].write # "none"
      /\ banFile' = [state |-> "ok", bans |-> f, version |-> banFile.version + 1]
  BY <1>f DEF JailSound, Persist, Free
<1>1. banFile'.version = banFile.version + 1 /\ banFile'.state = "ok" /\ banFile'.bans = f
      /\ banFile' = [state |-> banFile'.state, bans |-> banFile'.bans, version |-> banFile'.version]
      /\ banFile.version + 1 \in Nat
  BY <1>0 DEF FileSound
<1>2. PICK s : s = svc[x]
  OBVIOUS
<1>3. PICK t : t = Written(s) /\ svc' = [svc EXCEPT ![x] = t]
  BY <1>2 DEF Persist, Become, Written
<1>4. PICK h : h = Landed(x) /\ ghost' = h
  BY DEF Persist
<1>5. /\ ServiceSound(x, s) /\ s \in JailServices /\ s.write # "none" /\ Writing(s) /\ s.bans \in BanTables
      /\ f = Live(s.bans) /\ f \in BanTables /\ Live(f) = f
      /\ \A p \in Peers : f[p] = IF s.bans[p] > now THEN s.bans[p] ELSE 0
  <2>1. ServiceSound(x, s) /\ s \in JailServices /\ s.write # "none" /\ Writing(s) /\ s.bans \in BanTables
        /\ f = Live(s.bans) /\ now \in Nat
    BY <1>0, <1>2, <1>f DEF ServiceSound, JailServices, FileSound
  <2> QED
    BY <2>1, LiveIs
<1>6. /\ t \in JailServices /\ t.write = "none" /\ t.saw /\ t.seen = banFile.version + 1
      /\ t.bans = s.bans /\ t.tripped = s.tripped
      /\ \A p \in Peers : t.strikes[p] = IF p = s.peer /\ s.write = "unban" THEN <<>> ELSE s.strikes[p]
  BY <1>0, <1>3, <1>5, WrittenIs
<1>7. /\ GhostTyped(h) /\ h.let = "none" /\ h.unearned = ghost.unearned
      /\ h.excused = (ghost.excused \/ s.base # banFile.version)
      /\ \A p \in Peers : h.held[p] = IF p = s.peer THEN Live(s.bans)[p]
                                      ELSE IF s.prev[p] # s.bans[p] THEN 0 ELSE ghost.held[p]
      /\ \A p \in Peers : h.fails[p] = IF p = s.peer /\ s.write = "unban" THEN <<>> ELSE ghost.fails[p]
      /\ \A p \in Peers : h.count[p] = IF p = s.peer /\ s.write = "unban" /\ Live(banFile.bans)[p] # 0
                                       THEN 0 ELSE ghost.count[p]
  BY <1>0, <1>2, <1>4, LandedIs
<1>8. FileSound'
  BY <1>0, <1>1, <1>5, TypesStand DEF FileSound
<1>9. GhostTyped(ghost)'
  BY <1>0, <1>4, <1>7, TypesStand DEF GhostTyped
<1>10. ASSUME NEW y \in Procs PROVE ServiceSound(y, svc[y])'
  <2>1. CASE y = x
    <3>1. svc'[y] = t
      BY <1>0, <1>3, <2>1
    <3>2. t \in JailServices'
      BY <1>0, <1>6, TypesStand
    <3>3. Live(f)' = f /\ Live(t.bans)' = f
      BY <1>0, <1>5, <1>6 DEF Live
    <3>4. (UpToDate(t) /\ Live(Memory(t)) = Live(banFile.bans))'
      BY <1>0, <1>1, <1>6, <3>3 DEF UpToDate, Memory, Live
    <3>5. ServiceSound(y, t)'
      BY <1>1, <1>6, <3>2, <3>4 DEF ServiceSound
    <3> QED
      BY <3>1, <3>5 DEF ServiceSound, UpToDate, Memory, Writing, Live
  <2>2. CASE y # x
    <3>1. PICK r : r = svc[y] /\ svc'[y] = r
      BY <1>0, <1>3, <2>2
    <3>2. ServiceSound(y, r)'
      BY <1>0, <1>1, <3>1, FileMoves
    <3> QED
      BY <3>1, <3>2 DEF ServiceSound, UpToDate, Memory, Writing, Live
  <2> QED
    BY <2>1, <2>2
<1>11. ASSUME ~h.excused, NEW p \in Peers
       PROVE  /\ ~ghost.excused /\ s.base = banFile.version /\ PeerSound(d, ghost, p)
              /\ banFile.state = "ok" => Live(s.prev)[p] = Live(banFile.bans)[p]
              /\ h.held[p] # 0 => f[p] >= h.held[p]
              /\ s.bans[p] \in Nat /\ f[p] = (IF s.bans[p] > now THEN s.bans[p] ELSE 0)
              /\ Live(f)'[p] = f[p]
  <2>1. ~ghost.excused /\ s.base = banFile.version
    BY <1>7, <1>11
  <2>2. PeerSound(d, ghost, p)
    BY <1>0, <2>1 DEF Accounted
  <2>3. /\ banFile.state = "ok" => Live(s.prev)[p] = Live(banFile.bans)[p]
        /\ ghost.held[p] # 0 => s.prev[p] >= ghost.held[p] /\ s.prev[p] > now
    BY <1>0, <1>5, <2>1, WriteIsOfTheFile
  <2>4. s.bans[p] \in Nat /\ f[p] = (IF s.bans[p] > now THEN s.bans[p] ELSE 0)
    BY <1>5 DEF BanTables
  <2>5. h.held[p] # 0 => f[p] >= h.held[p]
    <3>1. CASE p = s.peer
      BY <1>5, <1>7, <2>4, <3>1, <1>0, SMTT(20) DEF FileSound
    <3>2. CASE p # s.peer
      BY <1>7, <2>3, <2>4, <3>2
    <3> QED
      BY <3>1, <3>2
  <2>6. Live(f)'[p] = f[p]
    <3>1. Live(f)' = Live(f)
      BY <1>0 DEF Live
    <3> QED
      BY <1>5, <3>1
  <2> QED
    BY <2>1, <2>2, <2>3, <2>4, <2>5, <2>6
<1>12. PICK e : e = svc'["daemon"] /\ e = IF x = "daemon" THEN t ELSE d
  BY <1>0, <1>3 DEF Procs
<1>13. ASSUME ~h.excused, NEW p \in Peers, x = "daemon" PROVE PeerSound(e, h, p)'
  <2>1. /\ e = t /\ d = s /\ Memory(t) = t.bans /\ Len(<<>>) = 0 /\ h.count[p] \in 0..MaxRetry
        /\ \A q \in Peers : Len(s.strikes[q]) \in Nat
    <3>1. \A q \in Peers : s.strikes[q] \in Samples(MaxRetry)
      BY <1>5 DEF JailServices
    <3> QED
      BY <1>2, <1>6, <1>7, <1>12, <1>13, <3>1, SamplesAre, GuardConsts DEF Memory, GhostTyped
  <2>2. ~Lifted(s, p)
    BY <1>5, <1>11, <1>13 DEF Lifted, ServiceSound
  <2>3. Covers(t.strikes[p], h.fails[p])'
    <3>1. CASE p = s.peer /\ s.write = "unban"
      BY <1>7, <3>1, <2>1, SMTT(20) DEF Covers
    <3>2. CASE ~(p = s.peer /\ s.write = "unban")
      <4>1. PICK v, w : /\ v = t.strikes[p] /\ w = h.fails[p]
                        /\ v = s.strikes[p] /\ w = ghost.fails[p]
        BY <1>6, <1>7, <3>2
      <4>2. Covers(v, w)
        BY <1>11, <1>13, <2>1, <4>1 DEF PeerSound
      <4>3. Covers(v, w)'
        BY <1>0, <4>2 DEF Covers
      <4> QED
        BY <4>1, <4>3
    <3> QED
      BY <3>1, <3>2
  <2>4. h.fails[p] # <<>> => t.bans[p] = 0 /\ f[p] = 0
    <3>1. h.fails[p] # <<>> => ghost.fails[p] # <<>>
      BY <1>7
    <3>2. ghost.fails[p] # <<>> => s.bans[p] = 0
      BY <1>11, <1>13, <2>1 DEF PeerSound
    <3>3. s.bans[p] = 0 => f[p] = 0
      BY <1>11, <1>13
    <3> QED
      BY <1>6, <3>1, <3>2, <3>3
  <2>5. TableFull = "evict" => Len(h.fails[p]) < MaxRetry
    BY <1>7, <1>11, <1>13, <2>1, GuardConsts, SMTT(20) DEF PeerSound
  <2>6. Len(t.strikes[p]) <= h.count[p]
    <3>1. Len(s.strikes[p]) <= ghost.count[p]
      BY <1>11, <1>13, <2>1, <2>2 DEF PeerSound
    <3> QED
      BY <1>6, <1>7, <2>1, <3>1, SMTT(20)
  <2> QED
    BY <1>1, <1>6, <1>11, <1>13, <2>1, <2>3, <2>4, <2>5, <2>6, SMTT(20) DEF PeerSound
<1>14. ASSUME ~h.excused, NEW p \in Peers, x # "daemon" PROVE PeerSound(e, h, p)'
  <2>1. /\ e = d /\ x = "console" /\ PeerSound(e, ghost, p) /\ s.write = "unban" /\ banFile.state = "ok" /\ Len(<<>>) = 0
        /\ s.bans = [s.prev EXCEPT ![s.peer] = 0] /\ s.prev \in BanTables
    BY <1>5, <1>11, <1>12, <1>14 DEF Procs, ServiceSound, Writing, JailServices
  <2> HIDE DEF d
  <2>2. f[p] = IF p = s.peer THEN 0 ELSE Live(banFile.bans)[p]
    <3>1. Live(s.prev)[p] = (IF s.prev[p] > now THEN s.prev[p] ELSE 0) /\ now \in Nat
      BY <1>0, <2>1, LiveIs DEF FileSound
    <3>2. s.bans[p] = IF p = s.peer THEN 0 ELSE s.prev[p]
      BY <2>1 DEF BanTables
    <3> QED
      BY <1>11, <1>14, <2>1, <3>1, <3>2
  <2>3. /\ ServiceSound("daemon", e) /\ e.seen <= banFile.version /\ e.seen \in Nat \cup {-1}
        /\ e.write # "none" => e.base < banFile.version + 1
        /\ banFile.bans[p] \in Nat /\ banFile.version \in Nat
        /\ Live(banFile.bans)[p] = (IF banFile.bans[p] > now THEN banFile.bans[p] ELSE 0) /\ now \in Nat
    <3>1. ServiceSound("daemon", e)
      BY <1>0, <2>1 DEF Procs, d
    <3>2. banFile.bans[p] \in Nat /\ now \in Nat /\ banFile.version \in Nat
          /\ Live(banFile.bans)[p] = (IF banFile.bans[p] > now THEN banFile.bans[p] ELSE 0)
      BY <1>0, LiveIs DEF FileSound, BanTables
    <3>3. e.seen <= banFile.version /\ e.seen \in Nat \cup {-1} /\ e.base \in Nat \cup {-1}
          /\ (e.write # "none" => e.base <= banFile.version)
      BY <3>1 DEF ServiceSound, Writing, JailServices
    <3> QED
      BY <3>1, <3>2, <3>3
  <2>4. ~UpToDate(e)'
    <3>1. e.seen # banFile'.version
      BY <1>1, <2>3
    <3> QED
      BY <3>1 DEF UpToDate
  <2>5. f[p] = 0 /\ Memory(e)[p] # 0 => Lifted(e, p)'
    <3>1. Live(banFile.bans)'[p] = f[p]
      <4>1. Live(banFile.bans)' = Live(f)'
        BY <1>1 DEF Live
      <4> QED
        BY <1>11, <1>14, <4>1
    <3>2. e.write # "none" => e.base < banFile'.version
      BY <1>1, <2>3
    <3> QED
      BY <1>1, <2>4, <3>1, <3>2 DEF Lifted, Memory
  <2>6. Lifted(e, p) /\ f[p] = 0 => Lifted(e, p)'
    BY <2>1, <2>5 DEF Lifted
  <2>7. Lifted(e, p) => f[p] = 0
    BY <2>1, <2>2 DEF Lifted
  <2>8. Covers(e.strikes[p], h.fails[p])'
    <3>1. CASE p = s.peer
      BY <1>7, <3>1, <2>1, SMTT(20) DEF Covers
    <3>2. CASE p # s.peer
      <4>1. PICK v, w : v = e.strikes[p] /\ w = h.fails[p] /\ w = ghost.fails[p]
        BY <1>7, <3>2
      <4>2. Covers(v, w)
        BY <2>1, <4>1 DEF PeerSound
      <4>3. Covers(v, w)'
        BY <1>0, <4>2 DEF Covers
      <4> QED
        BY <4>1, <4>3
    <3> QED
      BY <3>1, <3>2
  <2>9. h.fails[p] # <<>> => e.bans[p] = 0 /\ f[p] = 0 /\ (e.write # "none" => e.prev[p] = 0)
    BY <1>7, <1>11, <1>14, <2>1, <2>2 DEF PeerSound
  <2>10. f[p] # 0 => Memory(e)[p] >= f[p] \/ e.strikes[p] = <<>>
    BY <2>1, <2>2, <2>3 DEF PeerSound
  <2>11. TableFull = "evict" => Len(h.fails[p]) < MaxRetry
    BY <1>7, <1>11, <1>14, <2>1, GuardConsts, SMTT(20) DEF PeerSound
  <2>12. Len(e.strikes[p]) <= h.count[p] \/ Lifted(e, p)'
    <3>1. CASE p = s.peer /\ Live(banFile.bans)[p] # 0
      <4>1. h.count[p] = 0 /\ f[p] = 0
        BY <1>7, <2>1, <2>2, <3>1
      <4>2. e.strikes[p] = <<>> \/ Memory(e)[p] >= banFile.bans[p]
        BY <2>1, <3>1 DEF PeerSound
      <4>3. Memory(e)[p] >= banFile.bans[p] => Memory(e)[p] # 0
        BY <2>3, <3>1
      <4> QED
        BY <2>1, <2>5, <4>1, <4>2, <4>3
    <3>2. CASE ~(p = s.peer /\ Live(banFile.bans)[p] # 0)
      <4>1. h.count[p] = ghost.count[p]
        BY <1>7, <3>2
      <4> QED
        BY <2>1, <2>6, <2>7, <4>1 DEF PeerSound
    <3> QED
      BY <3>1, <3>2
  <2>13. Memory(e)' = Memory(e)
    BY DEF Memory
  <2>14. Live(banFile.bans)'[p] = f[p] /\ (h.held[p] # 0 => banFile'.bans[p] >= h.held[p])
    <3>1. Live(banFile.bans)' = Live(f)'
      BY <1>1 DEF Live
    <3> QED
      BY <1>1, <1>11, <1>14, <3>1
  <2> QED
    BY <1>1, <2>8, <2>9, <2>10, <2>11, <2>12, <2>13, <2>14 DEF PeerSound
<1>15. Accounted(e, h)'
  <2>1. ~h.excused => ~h.unearned
    BY <1>0, <1>7 DEF Accounted
  <2>2. ~h.excused => e.saw
    <3>1. CASE x = "daemon"
      BY <1>6, <1>12, <3>1
    <3>2. CASE x # "daemon"
      BY <1>0, <1>5, <1>7, <1>12, <3>2 DEF Accounted, ServiceSound
    <3> QED
      BY <3>1, <3>2
  <2>3. ~h.excused => \A p \in Peers : PeerSound(e, h, p)'
    BY <1>13, <1>14
  <2> QED
    BY <2>1, <2>2, <2>3 DEF Accounted
<1>16. Accounted(svc["daemon"], ghost)'
  BY <1>4, <1>12, <1>15
<1>17. BanHolds'
  BY <1>4, <1>7 DEF BanHolds
<1>18. DOMAIN svc' = Procs
  BY <1>0, <1>3
<1> QED
  BY <1>8, <1>9, <1>10, <1>16, <1>17, <1>18 DEF JailSound

\* The jail begins sound.
LEMMA JailBegins ==
  ASSUME GuardAssumption, GuardInit
  PROVE  JailInv
<1>0. /\ now = 1 /\ faults = 0 /\ banFile = [state |-> "absent", bans |-> NoBans, version |-> 0]
      /\ svc = [x \in Procs |-> Service(NoBans, FALSE, -1, FALSE)]
      /\ ghost = [held |-> NoBans, fails |-> NoSamples, count |-> NoBans, excused |-> FALSE,
                  let |-> "none", unearned |-> FALSE]
  BY DEF GuardInit
<1>1. /\ NoBans \in BanTables /\ NoBans \in [Peers -> Nat] /\ (\A p \in Peers : NoBans[p] = 0)
      /\ (\A p \in Peers : NoSamples[p] = <<>>) /\ Len(<<>>) = 0 /\ "daemon" \in Procs
      /\ NoBans \in [Peers -> 0..MaxRetry] /\ NoSamples \in [Peers -> Samples(MaxRetry)]
  <2>1. <<>> \in Samples(MaxRetry)
    BY NoneAreSamples, GuardConsts
  <2> QED
    BY <2>1, NoBansIsTable, GuardConsts DEF NoBans, NoSamples, Procs
<1>2. FileSound
  BY <1>0, <1>1 DEF FileSound
<1>3. ASSUME NEW x \in Procs PROVE ServiceSound(x, svc[x])
  <2>1. PICK t : t = svc[x] /\ t = Service(NoBans, FALSE, -1, FALSE)
    BY <1>0
  <2>2. ServiceSound(x, t)
    BY <1>0, <1>2, <2>1, NewServiceSound
  <2> QED
    BY <2>1, <2>2
<1>4. GhostTyped(ghost)
  <2>1. PICK a \in BOOLEAN : a = FALSE
    OBVIOUS
  <2>2. ghost = [held |-> NoBans, fails |-> NoSamples, count |-> NoBans, excused |-> a,
                 let |-> "none", unearned |-> a]
    BY <1>0, <2>1
  <2> QED
    BY <1>1, <2>2 DEF GhostTyped
<1>5. Accounted(svc["daemon"], ghost)
  <2>1. PICK d : d = svc["daemon"] /\ \A p \in Peers : d.strikes[p] = <<>>
    <3>1. svc["daemon"] = Service(NoBans, FALSE, -1, FALSE)
      BY <1>0, <1>1
    <3> QED
      BY <1>1, <3>1 DEF Service
  <2>2. ~ghost.excused /\ ~ghost.unearned /\ banFile.state = "absent" /\ now \in Nat
    BY <1>0
  <2>3. ASSUME NEW p \in Peers PROVE PeerSound(d, ghost, p)
    <3>1. ghost.held[p] = 0 /\ ghost.fails[p] = <<>> /\ ghost.count[p] = 0 /\ banFile.bans[p] = 0
      BY <1>0, <1>1
    <3>2. Live(banFile.bans)[p] = 0
      BY <3>1, <2>2 DEF Live
    <3>3. Covers(d.strikes[p], ghost.fails[p])
      BY <1>1, <3>1 DEF Covers
    <3> QED
      BY <1>1, <2>1, <3>1, <3>2, <3>3, GuardConsts DEF PeerSound
  <2> QED
    BY <2>1, <2>2, <2>3 DEF Accounted
<1>6. JailTyped
  BY <1>0, GuardConsts DEF JailTyped
<1>7. BanHolds
  BY <1>0 DEF BanHolds
<1>8. DOMAIN svc = Procs
  BY <1>0
<1> QED
  BY <1>2, <1>3, <1>4, <1>5, <1>6, <1>7, <1>8 DEF JailInv, JailSound

\* The bounds of the model hold at every step.
LEMMA JailStaysTyped ==
  ASSUME GuardAssumption, JailInv, GuardNext
  PROVE  JailTyped'
<1>0. /\ JailTyped /\ banFile.version \in Nat /\ MaxWrites \in Nat /\ MaxFaults \in Nat /\ MaxClock \in Nat
      /\ banFile = [state |-> banFile.state, bans |-> banFile.bans, version |-> banFile.version]
  BY GuardConsts DEF JailInv, JailSound, FileSound
<1>1. CASE UNCHANGED <<now, banFile, faults>>
  BY <1>0, <1>1 DEF JailTyped
<1>2. CASE \E x \in Procs : Persist(x)
  <2>1. /\ now' = now /\ faults' = faults /\ banFile'.version = banFile.version + 1
        /\ banFile.version < MaxWrites
    BY <1>2 DEF Persist
  <2> QED
    BY <1>0, <2>1 DEF JailTyped
<1>3. CASE now' = now /\ banFile' = banFile /\ faults < MaxFaults /\ faults' = faults + 1
  BY <1>0, <1>3 DEF JailTyped
<1>4. CASE \E to \in {"bad", "absent"} : FileDamaged(to)
  <2>1. /\ now' = now /\ faults < MaxFaults /\ faults' = faults + 1 /\ banFile.state = "ok"
        /\ banFile'.version = banFile.version + 1 /\ banFile'.state # "ok"
    BY <1>0, <1>4 DEF FileDamaged
  <2> QED
    BY <1>0, <2>1 DEF JailTyped
<1>5. CASE Tick
  BY <1>0, <1>5 DEF JailTyped, Tick
<1>6. \A p \in Peers : Admit(p) \/ NoteHandshake(p) => UNCHANGED <<now, banFile, faults>>
  BY DEF Admit, NoteHandshake
<1>7. \A x \in Procs : Reload(x) => UNCHANGED <<now, banFile, faults>>
  BY DEF Reload
<1>9. \A x \in Procs, p \in Peers : Unban(x, p) => UNCHANGED <<now, banFile, faults>>
  BY DEF Unban
<1>8. \A x \in Procs : PersistFails(x) \/ Restart(x) =>
        now' = now /\ banFile' = banFile /\ faults < MaxFaults /\ faults' = faults + 1
  BY DEF PersistFails, Restart
<1> QED
  BY <1>1, <1>2, <1>3, <1>4, <1>5, <1>6, <1>7, <1>8, <1>9 DEF GuardNext

\* Every step keeps the invariant.
LEMMA JailStays ==
  ASSUME GuardAssumption, JailInv, [GuardNext]_guardVars
  PROVE  JailInv'
<1>0. JailTyped /\ JailSound(svc, ghost) /\ BanHolds
  BY DEF JailInv
<1>1. CASE GuardNext
  <2>1. JailTyped'
    BY <1>1, JailStaysTyped
  <2>2. JailSound(svc, ghost)' /\ BanHolds'
    <3>1. ASSUME NEW p \in Peers, Admit(p) PROVE JailSound(svc, ghost)' /\ BanHolds'
      BY <1>0, <3>1, AdmitSound
    <3>2. ASSUME NEW p \in Peers, NoteHandshake(p) PROVE JailSound(svc, ghost)' /\ BanHolds'
      BY <1>0, <3>2, NoteHandshakeSound
    <3>3. ASSUME NEW p \in Peers, NEW x \in Procs, Unban(x, p) PROVE JailSound(svc, ghost)' /\ BanHolds'
      BY <1>0, <3>3, UnbanKeeps
    <3>4. ASSUME NEW x \in Procs, Reload(x) PROVE JailSound(svc, ghost)' /\ BanHolds'
      BY <1>0, <3>4, ReloadKeeps
    <3>5. ASSUME NEW x \in Procs, Persist(x) PROVE JailSound(svc, ghost)' /\ BanHolds'
      BY <1>0, <3>5, PersistKeeps
    <3>6. ASSUME NEW x \in Procs, PersistFails(x) PROVE JailSound(svc, ghost)' /\ BanHolds'
      BY <1>0, <3>6, PersistFailsKeeps
    <3>7. ASSUME NEW x \in Procs, Restart(x) PROVE JailSound(svc, ghost)' /\ BanHolds'
      BY <1>0, <3>7, RestartKeeps
    <3>8. ASSUME NEW to \in {"bad", "absent"}, FileDamaged(to) PROVE JailSound(svc, ghost)' /\ BanHolds'
      BY <1>0, <3>8, FileDamagedKeeps
    <3>9. CASE Tick
      BY <1>0, <3>9, TickKeeps
    <3> QED
      BY <1>1, <3>1, <3>2, <3>3, <3>4, <3>5, <3>6, <3>7, <3>8, <3>9 DEF GuardNext
  <2> QED
    BY <2>1, <2>2 DEF JailInv
<1>2. CASE UNCHANGED guardVars
  <2>1. now' = now /\ banFile' = banFile /\ svc' = svc /\ faults' = faults /\ ghost' = ghost
    BY <1>2 DEF guardVars
  <2>2. JailTyped' /\ BanHolds'
    BY <1>0, <2>1 DEF JailTyped, BanHolds
  <2>3. FileSound' /\ GhostTyped(ghost)'
    BY <1>0, <2>1, TypesStand DEF JailSound, FileSound, GhostTyped
  <2>4. ASSUME NEW x \in Procs PROVE ServiceSound(x, svc[x])'
    BY <1>0, <2>1, TypesStand DEF JailSound, ServiceSound, UpToDate, Writing, Memory, Live
  <2>5. Accounted(svc["daemon"], ghost)'
    BY <1>0, <2>1 DEF JailSound, Accounted, PeerSound, Lifted, UpToDate, Covers, Memory, Live
  <2> QED
    BY <1>0, <2>1, <2>2, <2>3, <2>4, <2>5 DEF JailInv, JailSound
<1> QED
  BY <1>1, <1>2

\* The invariant has in it what the runs check.
LEMMA JailIsSafe ==
  ASSUME GuardAssumption, JailInv
  PROVE  GuardSafety
<1>0. /\ JailTyped /\ FileSound /\ GhostTyped(ghost) /\ BanHolds /\ now \in Nat
      /\ (\A x \in Procs : svc[x] \in JailServices) /\ Accounted(svc["daemon"], ghost)
  BY DEF JailInv, JailSound, FileSound, ServiceSound
<1>1. GuardTypeOK
  <2>1. ASSUME NEW x \in Procs
        PROVE  /\ svc[x].write \in {"none", "ban", "unban"} /\ Cardinality(Banned(svc[x].bans)) <= MaxEntries
               /\ \A p \in Peers : Len(svc[x].strikes[p]) <= MaxRetry
    <3>1. svc[x] \in JailServices
      BY <1>0
    <3>2. /\ svc[x].write \in {"none", "ban", "unban"} /\ svc[x].bans \in BanTables
          /\ \A p \in Peers : svc[x].strikes[p] \in Samples(MaxRetry)
      BY <3>1 DEF JailServices
    <3> QED
      BY <3>2 DEF BanTables, Samples
  <2> QED
    BY <1>0, <2>1 DEF JailTyped, GuardTypeOK
<1>2. RepeatOffender
  <2>1. SUFFICES ASSUME NEW p \in Peers, TableFull = "evict", ~ghost.excused
                 PROVE  Len(Within(ghost.fails[p], FindTime)) < MaxRetry
    BY DEF RepeatOffender
  <2>2. Len(ghost.fails[p]) < MaxRetry
    BY <1>0, <2>1 DEF Accounted, PeerSound
  <2>3. PICK w : w = ghost.fails[p] /\ w \in Samples(MaxRetry)
    BY <1>0 DEF GhostTyped
  <2>4. Len(Within(w, FindTime)) \in Nat /\ Len(Within(w, FindTime)) <= Len(w)
    BY <1>0, <2>3, WithinIs, GuardConsts
  <2>5. Len(w) \in Nat /\ MaxRetry \in Nat
    BY <2>3, SamplesAre, GuardConsts
  <2>6. \A a, b, c \in Nat : a <= b /\ b < c => a < c
    OBVIOUS
  <2>7. Len(Within(w, FindTime)) < MaxRetry
    BY <2>2, <2>3, <2>4, <2>5, <2>6
  <2> QED
    BY <2>3, <2>7
<1>3. PardonClears
  BY <1>0 DEF Accounted, PardonClears
<1> QED
  BY <1>0, <1>1, <1>2, <1>3 DEF GuardSafety

\* guard.go: a ban that reached the file keeps its peer out until it ends; MaxRetry
\* failures within FindTime never pass without a ban; a pardoned peer starts from
\* zero, whichever process pardoned it: of any number of peers, for every window,
\* threshold and table size.
THEOREM JailHolds == GuardSpec => []GuardSafety
<1>1. GuardInit => JailInv
  BY GuardAssumption, JailBegins
<1>2. JailInv /\ [GuardNext]_guardVars => JailInv'
  BY GuardAssumption, JailStays
<1>3. JailInv => GuardSafety
  BY GuardAssumption, JailIsSafe
<1> QED
  BY <1>1, <1>2, <1>3, PTL DEF GuardSpec
=============================================================================
