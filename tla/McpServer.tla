----------------------------- MODULE McpServer ------------------------------
(***************************************************************************)
(* The MCP server (cmd/adssh-mcp): one process, one session, tools an AI   *)
(* agent calls over stdio.  The process is prepared in steps each of which *)
(* can fail; then calls are handled by goroutines that share one lock, are *)
(* held to an optional allowlist and to dry runs of destructive commands,  *)
(* pass the policy and record what they do.                                *)
(*                                                                         *)
(* The MCP library, the policy (AuthorizeCommandWithExtra, see Gate) and   *)
(* what a tool reaches are external.                                       *)
(***************************************************************************)
EXTENDS Naturals, Sequences, FiniteSets

CONSTANTS
    ToolCalls, \* the calls of the agent
    TailLimit, \* limit of an audit_log call
    MaxScan    \* bound: lines of the audit log that match the filter

ASSUME McpAssumption == TailLimit \in Nat \ {0} /\ MaxScan \in Nat

VARIABLES
    boot,       \* how far the process is; "exit0", "exit1", "exit2" when it ended
    agentBound, \* what it has set up: "session", "engine", "default", "forbid"
    permit,     \* the allowlist: the tools of the file, or AnyTool without one
    dryOnly,    \* destructive commands must be dry runs
    toolMu,     \* the call that holds the lock, or NoToolCall
    tool,       \* each call: its tool, class, dry run, and where its handler is
    mcpLog,     \* calls that are on record
    acted,      \* calls that did something
    decided     \* history: an approval was decided from a tool

mcpVars == <<boot, agentBound, permit, dryOnly, toolMu, tool, mcpLog, acted, decided>>

\* The tools by what their handlers do: record and act, act and record, only read.
ToolNames == {"eval_starlark", "run_shell", "audit_log", "admin_list"}
AnyTool == ToolNames
Classes == {"read", "mutable", "destructive"}
NoToolCall == "none"
NotCalled == [at |-> "none", name |-> "", class |-> "", dry |-> FALSE, decides |-> FALSE,
              lines |-> << >>, head |-> 0, seen |-> 0, answer |-> ""]

McpInit ==
    /\ boot = "host" /\ agentBound = {} /\ permit = AnyTool /\ dryOnly \in BOOLEAN
    /\ toolMu = NoToolCall /\ tool = [c \in ToolCalls |-> NotCalled]
    /\ mcpLog = {} /\ acted = {} /\ decided = FALSE

-----------------------------------------------------------------------------
(* The process.                                                            *)

\* prepareMCPProcess: the tools file is checked before the engine is built (2 when
\* it is missing or malformed, else 1), the session is registered last.
prepareMCPProcess(ok, tools) ==
    /\ boot \in {"host", "tools", "engine", "session"}
    /\ IF ~ok THEN boot' = (IF boot = "tools" THEN "exit2" ELSE "exit1") /\ UNCHANGED <<agentBound, permit>>
       ELSE /\ boot' = CASE boot = "host" -> "tools" [] boot = "tools" -> "engine"
                         [] boot = "engine" -> "session" [] OTHER -> "ready"
            /\ permit' = IF boot = "tools" THEN tools ELSE permit
            /\ agentBound' = CASE boot = "engine" -> agentBound \cup {"engine"}
                          [] boot = "session" -> agentBound \cup {"session"} [] OTHER -> agentBound
    /\ UNCHANGED <<dryOnly, toolMu, tool, mcpLog, acted, decided>>

\* registerGovernedAdminTools, in every build: decisions are forbidden first.
registerGovernedAdminTools == {"forbid"}

\* main: the engine becomes the default, the start is recorded and serveMCP
\* registers the tools. An entry that cannot be written ends the process, which
\* takes its session back first.
main(logged) ==
    /\ boot \in {"ready", "start", "serve"}
    /\ IF logged
       THEN /\ boot' = CASE boot = "ready" -> "start" [] boot = "start" -> "serve" [] OTHER -> "serving"
            /\ agentBound' = agentBound \cup (CASE boot = "ready" -> {"default"} [] boot = "start" -> {}
                                      [] OTHER -> registerGovernedAdminTools)
       ELSE boot' = "exit1" /\ agentBound' = agentBound \ {"session"}
    /\ UNCHANGED <<permit, dryOnly, toolMu, tool, mcpLog, acted, decided>>

StdioEnds(failed) ==
    /\ boot = "serving"
    /\ boot' = IF failed THEN "exit1" ELSE "exit0"
    /\ agentBound' = agentBound \ {"session"}
    /\ UNCHANGED <<permit, dryOnly, toolMu, tool, mcpLog, acted, decided>>

-----------------------------------------------------------------------------
(* A call.                                                                 *)

CallAt(c, pc) == boot = "serving" /\ tool[c].at = pc

\* What a tool is rated as; a shell command by its text (internal/risk).
classifyAgentRisk(name) ==
    CASE name = "eval_starlark" -> {"mutable"}
      [] name = "run_shell" -> {"read", "destructive"}
      [] OTHER -> {"read"}

\* The library starts a goroutine for a call. An argument may ask for a dry run.
CallTool(c, name, class, dry, decides) ==
    /\ CallAt(c, "none")
    /\ class \in classifyAgentRisk(name)
    /\ name \in {"audit_log", "admin_list"} => ~dry /\ ~decides
    /\ tool' = [tool EXCEPT ![c] = [NotCalled EXCEPT !.at = "lock", !.name = name, !.class = class,
                                    !.dry = dry, !.decides = decides]]
    /\ UNCHANGED <<boot, agentBound, permit, dryOnly, toolMu, mcpLog, acted, decided>>

\* serializedHandler: the handler runs under the lock, its deferred unlock ends it.
Lock(c) ==
    /\ CallAt(c, "lock") /\ toolMu = NoToolCall
    /\ toolMu' = c /\ tool' = [tool EXCEPT ![c].at = "gate"]
    /\ UNCHANGED <<boot, agentBound, permit, dryOnly, mcpLog, acted, decided>>

Reply(c, answer) ==
    /\ toolMu' = NoToolCall
    /\ tool' = [tool EXCEPT ![c].at = "end", ![c].answer = answer]

\* The allowlist of the tools file, bound when the process started.
agentToolEntitled(name) == name \in permit

policyGate(c, allowed) ==
    /\ CallAt(c, "gate")
    /\ IF \/ ~agentToolEntitled(tool[c].name)
          \/ dryOnly /\ tool[c].class = "destructive" /\ ~tool[c].dry
          \/ ~allowed
       THEN Reply(c, "refused")
       ELSE tool' = [tool EXCEPT ![c].at = "handler"] /\ UNCHANGED toolMu
    /\ UNCHANGED <<boot, agentBound, permit, dryOnly, mcpLog, acted, decided>>

\* eval_starlark, cloud_query, container_exec, list_sessions and audit_log record
\* first: an entry that cannot be written ends the call with nothing done.
RecordFirst(c, logged) ==
    /\ CallAt(c, "handler") /\ tool[c].name \in {"eval_starlark", "audit_log"}
    /\ IF ~logged THEN Reply(c, "error") /\ UNCHANGED mcpLog
       ELSE /\ mcpLog' = mcpLog \cup {c} /\ UNCHANGED toolMu
            /\ tool' = [tool EXCEPT ![c].at = IF tool[c].name = "audit_log" THEN "scan" ELSE "act"]
    /\ UNCHANGED <<boot, agentBound, permit, dryOnly, acted, decided>>

\* A decision reached from the code of a tool is refused once it is forbidden.
Decides(c) == decided' = (decided \/ (tool[c].decides /\ "forbid" \notin agentBound))

Act(c, ok) ==
    /\ CallAt(c, "act") /\ acted' = acted \cup {c} /\ Decides(c)
    /\ Reply(c, IF ok THEN "ok" ELSE "error")
    /\ UNCHANGED <<boot, agentBound, permit, dryOnly, mcpLog>>

\* handleRunShell: a dry run is recorded and reported. A command the parser or the
\* gate refuses runs nothing; one that runs has its own commands gated and recorded
\* by the interceptor, and is recorded itself when it is over.
handleRunShell(c, gated, logged) ==
    /\ CallAt(c, "handler") /\ tool[c].name = "run_shell"
    /\ LET runs == gated /\ ~tool[c].dry IN
       /\ acted' = IF runs THEN acted \cup {c} ELSE acted
       /\ IF runs THEN Decides(c) ELSE UNCHANGED decided
    /\ mcpLog' = IF logged THEN mcpLog \cup {c} ELSE mcpLog
    /\ Reply(c, IF (gated \/ tool[c].dry) /\ logged THEN "ok" ELSE "error")
    /\ UNCHANGED <<boot, agentBound, permit, dryOnly>>

\* The admin_* and identity_* tools: the engine must be bound, the session known.
handleAdmin(c, ok) ==
    /\ CallAt(c, "handler") /\ tool[c].name = "admin_list"
    /\ Reply(c, IF ok /\ {"engine", "session"} \subseteq agentBound THEN "ok" ELSE "error")
    /\ UNCHANGED <<boot, agentBound, permit, dryOnly, mcpLog, acted, decided>>

scanLine(c) ==
    LET t == tool[c]  n == t.seen + 1 IN
    /\ CallAt(c, "scan") /\ t.seen < MaxScan
    /\ tool' = [tool EXCEPT ![c].seen = n,
                  ![c].lines = IF Len(t.lines) < TailLimit THEN Append(t.lines, n)
                               ELSE [t.lines EXCEPT ![t.head + 1] = n],
                  ![c].head = IF Len(t.lines) < TailLimit THEN t.head ELSE (t.head + 1) % TailLimit]
    /\ UNCHANGED <<boot, agentBound, permit, dryOnly, toolMu, mcpLog, acted, decided>>

\* The end of the file: the ring is put in order. A line too long is an error.
handleAuditLog(c, ok) ==
    /\ CallAt(c, "scan") /\ acted' = acted \cup {c}
    /\ LET t == tool[c]
           tail == IF Len(t.lines) = TailLimit /\ t.head # 0
                   THEN SubSeq(t.lines, t.head + 1, TailLimit) \o SubSeq(t.lines, 1, t.head)
                   ELSE t.lines
       IN  tool' = [tool EXCEPT ![c].at = "end", ![c].lines = IF ok THEN tail ELSE << >>,
                                ![c].answer = IF ok THEN "ok" ELSE "error"]
    /\ toolMu' = NoToolCall
    /\ UNCHANGED <<boot, agentBound, permit, dryOnly, mcpLog, decided>>

ToolStep(c) ==
    \/ Lock(c)
    \/ \E b \in BOOLEAN : policyGate(c, b) \/ RecordFirst(c, b) \/ Act(c, b) \/ handleAdmin(c, b)
    \/ \E gated, logged \in BOOLEAN : handleRunShell(c, gated, logged)
    \/ scanLine(c)
    \/ \E ok \in BOOLEAN : handleAuditLog(c, ok)

McpNext ==
    \/ \E ok \in BOOLEAN, tools \in {AnyTool, {}, {"run_shell"}} : prepareMCPProcess(ok, tools)
    \/ \E b \in BOOLEAN : main(b) \/ StdioEnds(b)
    \/ \E c \in ToolCalls :
        \/ \E name \in ToolNames, class \in Classes, dry, decides \in BOOLEAN :
              CallTool(c, name, class, dry, decides)
        \/ ToolStep(c)

McpSpec == McpInit /\ [][McpNext]_mcpVars

-----------------------------------------------------------------------------
(* Properties.                                                             *)

\* An agent never decides an approval, and what its calls did is what the process
\* was set up for: the tool was on the allowlist, a destructive command ran only
\* where dry runs are not asked for, and a dry run did nothing.
AgentHeldBack ==
    /\ ~decided
    /\ \A c \in acted :
        LET t == tool[c] IN
        /\ t.name \in permit
        /\ t.class = "destructive" => ~dryOnly
        /\ t.name = "run_shell" => ~t.dry

\* A call that is answered with a result is on record, and so is one that acted,
\* except a shell command whose own entry failed; its answer says so.
ResultsOnRecord ==
    \A c \in ToolCalls :
        LET t == tool[c] IN
        /\ (t.at = "end" /\ t.answer = "ok" /\ t.name # "admin_list") => c \in mcpLog
        /\ (c \in acted /\ c \notin mcpLog) => t.name = "run_shell" /\ t.answer = "error"

\* The process is served only when all of it is set up, and leaves no session.
ProcessWhole ==
    /\ boot = "serving" => {"session", "engine", "default", "forbid"} \subseteq agentBound
    /\ boot \in {"exit0", "exit1", "exit2"} => "session" \notin agentBound
    /\ boot = "exit2" => "engine" \notin agentBound

\* audit_log returns the last lines that match, oldest first.
TailInOrder ==
    \A c \in ToolCalls :
        LET t == tool[c]  n == IF t.seen < TailLimit THEN t.seen ELSE TailLimit IN
        (t.at = "end" /\ t.name = "audit_log" /\ t.answer = "ok") =>
            t.lines = [i \in 1..n |-> t.seen - n + i]

\* Every call is answered while the server runs, whatever the calls before it met.
CallAnswered == \A c \in ToolCalls : CallAt(c, "lock") ~> (tool[c].at = "end" \/ boot # "serving")
=============================================================================
