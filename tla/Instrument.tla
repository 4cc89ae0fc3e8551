----------------------------- MODULE Instrument -----------------------------
(***************************************************************************)
(* The instrumentation agent (internal/agent): an HTTP listener whose      *)
(* callers name a task of a local allowlist.  Each request is a goroutine: *)
(* it authenticates, looks the task up, asks the policy, takes one of a    *)
(* few slots, records the run, runs the virtual binary under a timeout and *)
(* answers.  Every outcome is recorded before the answer that reports it.  *)
(***************************************************************************)
EXTENDS Naturals, FiniteSets, TLC

CONSTANTS
    Inquiries, \* the requests that may come
    Tasks,     \* task names a request may carry
    Unknown,   \* the names among them that no allowlist holds
    TaskSlots, \* capacity of sem
    Limit      \* maxOutputBytes

ASSUME InstrumentAssumption ==
    Unknown \subseteq Tasks /\ TaskSlots \in Nat \ {0} /\ Limit \in Nat \ {0}

VARIABLES
    agent,      \* the server: "off", "up", "closing" (Shutdown waits) or "down"
    allow,      \* the allowlist the server was started with
    inquiry,    \* each request: where its handler is and what it carries
    free,       \* slots left in sem
    auditLines, \* the audit entries that were written, <<request, result>>
    tasksRun    \* history: requests whose virtual binary was dispatched

agentVars == <<agent, allow, inquiry, free, auditLines, tasksRun>>

NotAsked == [at |-> "none", task |-> "", verdict |-> "", held |-> FALSE, answer |-> 0,
              out |-> 0, written |-> 0, truncated |-> FALSE, done |-> FALSE]

InstrumentInit ==
    /\ agent = "off" /\ allow = {} /\ free = TaskSlots /\ auditLines = {} /\ tasksRun = {}
    /\ inquiry = [r \in Inquiries |-> NotAsked]

RequestAt(r, pc) == inquiry[r].at = pc
Under(r) == inquiry[r].at \notin {"none", "end"}

-----------------------------------------------------------------------------
(* StartAgent and Shutdown.                                                *)

\* LoadTasks: a missing file allows nothing, a malformed one refuses to start.
\* New refuses an empty token; a port that cannot be bound leaves the server off.
ServeAgent(tasks, tokenSet, bound) ==
    /\ agent = "off"
    /\ IF tokenSet /\ bound THEN agent' = "up" /\ allow' = tasks
       ELSE UNCHANGED <<agent, allow>>
    /\ UNCHANGED <<inquiry, free, auditLines, tasksRun>>

\* Shutdown closes the listener and waits for the requests under way, or gives up.
Shutdown ==
    /\ \/ agent = "up" /\ agent' = "closing"
       \/ agent = "closing" /\ agent' = "down"
    /\ UNCHANGED <<allow, inquiry, free, auditLines, tasksRun>>

-----------------------------------------------------------------------------
(* A request.                                                              *)

Finish(r, code) ==
    /\ inquiry' = [inquiry EXCEPT ![r].at = "end", ![r].answer = code, ![r].held = FALSE]
    /\ free' = IF inquiry[r].held THEN free + 1 ELSE free

\* audit: the entry is written and the handler goes on, or 503 ends it.
Audit(r, result, code) ==
    \/ auditLines' = auditLines \cup {<<r, result>>} /\ Finish(r, code)
    \/ UNCHANGED auditLines /\ Finish(r, 503)

\* authenticate, the size and the form of the body: 401, 413 and 400 are answered
\* without an entry. health, info and tasks end here too.
Arrive(r, task, refusal) ==
    /\ agent = "up" /\ RequestAt(r, "none")
    /\ IF refusal # 0
       THEN /\ inquiry' = [inquiry EXCEPT ![r].at = "end", ![r].answer = refusal]
       ELSE inquiry' = [inquiry EXCEPT ![r].at = "lookup", ![r].task = task]
    /\ UNCHANGED <<agent, allow, free, auditLines, tasksRun>>

\* The allowlist decides which task it is, then the policy, which may fail.
Decide(r, verdict) ==
    /\ RequestAt(r, "lookup")
    /\ IF inquiry[r].task \notin allow THEN Audit(r, "unknown-task", 404)
       ELSE IF verdict = "error" THEN Audit(r, "policy-error", 403)
       ELSE IF verdict = "deny" THEN Audit(r, "denied", 403)
       ELSE /\ inquiry' = [inquiry EXCEPT ![r].at = "slot", ![r].verdict = verdict]
            /\ UNCHANGED <<free, auditLines>>
    /\ UNCHANGED <<agent, allow, tasksRun>>

\* A virtual binary that does not exist is 500; no slot is 429.
TakeSlot(r, exists) ==
    /\ RequestAt(r, "slot")
    /\ IF ~exists THEN Audit(r, "unknown-vbin", 500)
       ELSE IF free = 0 THEN Audit(r, "busy", 429)
       ELSE /\ free' = free - 1
            /\ inquiry' = [inquiry EXCEPT ![r].at = "admit", ![r].held = TRUE]
            /\ UNCHANGED auditLines
    /\ UNCHANGED <<agent, allow, tasksRun>>

Admit(r) ==
    /\ RequestAt(r, "admit")
    /\ \/ /\ auditLines' = auditLines \cup {<<r, "allowed">>}
          /\ inquiry' = [inquiry EXCEPT ![r].at = "run"] /\ tasksRun' = tasksRun \cup {r}
          /\ UNCHANGED free
       \/ UNCHANGED <<auditLines, tasksRun>> /\ Finish(r, 503)
    /\ UNCHANGED <<agent, allow>>

Write(r, n) ==
    LET q == inquiry[r]  room == Limit - q.out IN
    /\ RequestAt(r, "run") /\ q.written + n <= Limit + 2
    /\ inquiry' = [inquiry EXCEPT ![r].out = q.out + (IF n > room THEN room ELSE n),
                                  ![r].truncated = (q.truncated \/ room = 0 \/ n > room),
                                  ![r].written = q.written + n]
    /\ UNCHANGED <<agent, allow, free, auditLines, tasksRun>>

\* The task timeout, or the caller going away: the run's context is done.
ExpireRequest(r) ==
    /\ RequestAt(r, "run") /\ ~inquiry[r].done
    /\ inquiry' = [inquiry EXCEPT ![r].done = TRUE]
    /\ UNCHANGED <<agent, allow, free, auditLines, tasksRun>>

\* The run returns: one that failed is recorded as such before it is answered. A
\* virtual binary may have succeeded although its context is done.
TaskReturn(r, failed) ==
    /\ RequestAt(r, "run")
    /\ IF failed THEN Audit(r, "ran-with-error", 200)
       ELSE UNCHANGED auditLines /\ Finish(r, 200)
    /\ UNCHANGED <<agent, allow, tasksRun>>

RequestStep(r) ==
    \/ \E verdict \in {"allow", "deny", "error"} : Decide(r, verdict)
    \/ \E exists \in BOOLEAN : TakeSlot(r, exists)
    \/ Admit(r)
    \/ \E failed \in BOOLEAN : TaskReturn(r, failed)

InstrumentNext ==
    \/ \E tasks \in SUBSET (Tasks \ Unknown), tokenSet, bound \in BOOLEAN : ServeAgent(tasks, tokenSet, bound)
    \/ Shutdown
    \/ \E r \in Inquiries :
        \/ \E task \in Tasks, refusal \in {0, 401, 413, 400} : Arrive(r, task, refusal)
        \/ RequestStep(r) \/ ExpireRequest(r)
        \/ \E n \in 0..2 : Write(r, n)

InstrumentSpec == InstrumentInit /\ [][InstrumentNext]_agentVars

-----------------------------------------------------------------------------
(* Properties.                                                             *)

\* What ran was of the allowlist, was let through by the policy and was on record
\* when it started; and whoever got an answer about a task has an entry with that
\* outcome, whatever failed in between.
OutcomesOnRecord ==
    /\ \A r \in tasksRun : <<r, "allowed">> \in auditLines /\ inquiry[r].task \in allow
    /\ \A r \in Inquiries : RequestAt(r, "end") =>
        LET a == inquiry[r].answer  Told(s) == \E x \in s : <<r, x>> \in auditLines IN
        /\ a = 404 => Told({"unknown-task"})
        /\ a = 403 => Told({"denied", "policy-error"})
        /\ a = 500 => Told({"unknown-vbin"})
        /\ a = 429 => Told({"busy"})
        /\ a = 200 => Told({"allowed"}) /\ r \in tasksRun

\* No slot is lost: the free ones and those of the requests that run are all there
\* are, so the agent that has nothing to do can take as many tasks as ever.
SlotsReturned ==
    /\ free + Cardinality({r \in Inquiries : RequestAt(r, "admit") \/ RequestAt(r, "run")}) = TaskSlots
    /\ (\A r \in Inquiries : ~Under(r)) => free = TaskSlots

\* Output that was cut is never shown as if it were whole.
TruncationTold ==
    \A r \in Inquiries :
        LET q == inquiry[r] IN q.out <= Limit /\ q.out <= q.written /\ (q.out < q.written => q.truncated)

\* Every request is answered, those of a server that is being shut down too.
RequestAnswered ==
    \A r \in Inquiries : RequestAt(r, "lookup") ~> RequestAt(r, "end")
=============================================================================
