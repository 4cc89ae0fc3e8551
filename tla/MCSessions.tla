----------------------------- MODULE MCSessions -----------------------------
(* What runs in and around sessions, as one instance for TLC: the listener *)
(* and its monitor connection, gateways, flights, the start of a process,  *)
(* the shell, its paste filter, children and batches, attach clients,      *)
(* mirrors, identities and the two agent servers. They share no state, so  *)
(* a behaviour is one of part and leaves the others where they begin.      *)
EXTENDS MCIdentity, Monitor, Listener, Gateway, Startup, Flight, Mirror,
        AttachClient, StarExec, Paste, Shell, ChildExec, Instrument, McpServer

VARIABLE part

sessionsVars == <<part, monitorVars, listenerVars, gatewayVars, startVars,
                  flightVars, identityVars, mirrorVars, clientVars, batchVars,
                  jobVars, expectVars, pasteVars, shellVars, childVars, agentVars,
                  mcpVars>>

\* A part that does not run is in one of its first states.
SessionsInit ==
    /\ part \in {"monitor", "listener", "gateway", "startup", "flight", "identity",
                 "mirror", "client", "batch", "job", "expect", "paste", "shell",
                 "child", "agent", "mcp"}
    /\ MonitorInit /\ ListenerInit /\ GatewayInit /\ StartupInit /\ FlightInit
    /\ IdentityInit /\ MirrorInit /\ ClientInit /\ BatchInit /\ JobInit
    /\ ExpectInit /\ PasteInit /\ ShellInit /\ ChildInit /\ InstrumentInit
    /\ McpInit
    /\ part # "gateway" => dns = CHOOSE ip \in IPs : TRUE
    /\ part # "startup" => want = [kind |-> "shell", mode |-> "repl", serve |-> FALSE, agent |-> FALSE,
                                   tty |-> TRUE]
    /\ part # "client" => ~rw
    /\ part # "child" => how = "pty"
    /\ part # "mcp" => ~dryOnly

\* One part runs, and the others stay as they are.
SessionsNext ==
    \/ /\ part = "monitor" /\ MonitorNext
       /\ UNCHANGED <<part, listenerVars, gatewayVars, startVars, flightVars,
                      identityVars, mirrorVars, clientVars, batchVars, jobVars,
                      expectVars, pasteVars, shellVars, childVars, agentVars,
                      mcpVars>>
    \/ /\ part = "listener" /\ ListenerNext
       /\ UNCHANGED <<part, monitorVars, gatewayVars, startVars, flightVars,
                      identityVars, mirrorVars, clientVars, batchVars, jobVars,
                      expectVars, pasteVars, shellVars, childVars, agentVars,
                      mcpVars>>
    \/ /\ part = "gateway" /\ GatewayNext
       /\ UNCHANGED <<part, monitorVars, listenerVars, startVars, flightVars,
                      identityVars, mirrorVars, clientVars, batchVars, jobVars,
                      expectVars, pasteVars, shellVars, childVars, agentVars,
                      mcpVars>>
    \/ /\ part = "startup" /\ StartupNext
       /\ UNCHANGED <<part, monitorVars, listenerVars, gatewayVars, flightVars,
                      identityVars, mirrorVars, clientVars, batchVars, jobVars,
                      expectVars, pasteVars, shellVars, childVars, agentVars,
                      mcpVars>>
    \/ /\ part = "flight" /\ FlightNext
       /\ UNCHANGED <<part, monitorVars, listenerVars, gatewayVars, startVars,
                      identityVars, mirrorVars, clientVars, batchVars, jobVars,
                      expectVars, pasteVars, shellVars, childVars, agentVars,
                      mcpVars>>
    \/ /\ part = "identity" /\ IdentityNext
       /\ UNCHANGED <<part, monitorVars, listenerVars, gatewayVars, startVars,
                      flightVars, mirrorVars, clientVars, batchVars, jobVars,
                      expectVars, pasteVars, shellVars, childVars, agentVars,
                      mcpVars>>
    \/ /\ part = "mirror" /\ MirrorNext
       /\ UNCHANGED <<part, monitorVars, listenerVars, gatewayVars, startVars,
                      flightVars, identityVars, clientVars, batchVars, jobVars,
                      expectVars, pasteVars, shellVars, childVars, agentVars,
                      mcpVars>>
    \/ /\ part = "client" /\ ClientNext
       /\ UNCHANGED <<part, monitorVars, listenerVars, gatewayVars, startVars,
                      flightVars, identityVars, mirrorVars, batchVars, jobVars,
                      expectVars, pasteVars, shellVars, childVars, agentVars,
                      mcpVars>>
    \/ /\ part = "batch" /\ BatchNext
       /\ UNCHANGED <<part, monitorVars, listenerVars, gatewayVars, startVars,
                      flightVars, identityVars, mirrorVars, clientVars, jobVars,
                      expectVars, pasteVars, shellVars, childVars, agentVars,
                      mcpVars>>
    \/ /\ part = "job" /\ JobNext
       /\ UNCHANGED <<part, monitorVars, listenerVars, gatewayVars, startVars,
                      flightVars, identityVars, mirrorVars, clientVars, batchVars,
                      expectVars, pasteVars, shellVars, childVars, agentVars,
                      mcpVars>>
    \/ /\ part = "expect" /\ ExpectNext
       /\ UNCHANGED <<part, monitorVars, listenerVars, gatewayVars, startVars,
                      flightVars, identityVars, mirrorVars, clientVars, batchVars,
                      jobVars, pasteVars, shellVars, childVars, agentVars, mcpVars>>
    \/ /\ part = "paste" /\ PasteNext
       /\ UNCHANGED <<part, monitorVars, listenerVars, gatewayVars, startVars,
                      flightVars, identityVars, mirrorVars, clientVars, batchVars,
                      jobVars, expectVars, shellVars, childVars, agentVars, mcpVars>>
    \/ /\ part = "shell" /\ ShellNext
       /\ UNCHANGED <<part, monitorVars, listenerVars, gatewayVars, startVars,
                      flightVars, identityVars, mirrorVars, clientVars, batchVars,
                      jobVars, expectVars, pasteVars, childVars, agentVars, mcpVars>>
    \/ /\ part = "child" /\ ChildNext
       /\ UNCHANGED <<part, monitorVars, listenerVars, gatewayVars, startVars,
                      flightVars, identityVars, mirrorVars, clientVars, batchVars,
                      jobVars, expectVars, pasteVars, shellVars, agentVars, mcpVars>>
    \/ /\ part = "agent" /\ InstrumentNext
       /\ UNCHANGED <<part, monitorVars, listenerVars, gatewayVars, startVars,
                      flightVars, identityVars, mirrorVars, clientVars, batchVars,
                      jobVars, expectVars, pasteVars, shellVars, childVars, mcpVars>>
    \/ /\ part = "mcp" /\ McpNext
       /\ UNCHANGED <<part, monitorVars, listenerVars, gatewayVars, startVars,
                      flightVars, identityVars, mirrorVars, clientVars, batchVars,
                      jobVars, expectVars, pasteVars, shellVars, childVars,
                      agentVars>>

SessionsSpec == SessionsInit /\ [][SessionsNext]_sessionsVars

-----------------------------------------------------------------------------
(* Properties of several parts.                                             *)

\* Nothing takes effect, runs or is answered as done without its entry in the
\* audit log, at each place that calls LogEvent and may get an error: a session
\* process, a gateway, an import or elevation, a script, a task, a tool call.
NothingUnrecorded ==
    /\ RunsOnRecord /\ ServesOnRecord /\ IdentityOnRecord /\ ChunksRecorded
    /\ OutcomesOnRecord /\ ResultsOnRecord

\* What is limited is counted exactly, on every way out of an operation: handshakes,
\* sessions of a connection and of a login name, forwarded connections, tasks.
PlacesExact ==
    /\ ListenerTypeOK /\ PreAuthExact /\ SlotsExact /\ ForwardSlotsExact
    /\ SlotsReturned

\* Access is what was granted, to whom and as long as it was granted: addresses of a
\* gateway, the gateways of a session that ended, mirror grants and their timers,
\* privileged roles of an identity.
AccessAsGranted ==
    /\ [](DialsGranted /\ GatewayEndsWithSession)
    /\ [](StreamsAsGranted /\ GrantEndsOnce) /\ GrantKeptItsTime
    /\ [](PrivilegeVouched /\ DeviceClearsEligible)

\* What is typed or pasted goes where it was meant to go, whole and in order: to the
\* attach while it lasts, to the child while it runs, to the editor otherwise, and a
\* newline of the clipboard to none of them.
InputKept ==
    /\ NoKeyStolen /\ SentAsAllowed
    /\ NoPastedNewline /\ HeldWhole /\ KeysKept
    /\ TerminalHandedBack

\* What was written runs, once and for its cause, and what is shown of it is all of
\* it: statements and branches of the shell, children, batches, expect, tasks and
\* the tail of the audit log.
RanAsWritten ==
    /\ RanGatedOnce /\ BranchForCause /\ PasteStops /\ PromptClean
    /\ StartedOnce /\ OutputWhole
    /\ ListComplete /\ CauseIsReal /\ ExpectConserves
    /\ TruncationTold /\ TailInOrder

\* A process runs code only when all of it is set up, and signals and clients change
\* nothing of that: its listener keeps its logins through hangups, an agent stays
\* held back, and what a client may set is fixed once its shell was accepted.
ProcessGoverned ==
    /\ [](RunsGoverned /\ ListenerHolds) /\ HangupSpares
    /\ [](AgentHeldBack /\ ProcessWhole)
    /\ EnvFrozen
=============================================================================
