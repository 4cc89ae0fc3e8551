----------------------------- MODULE MCProgress -----------------------------
(* What must happen in the end, in every part that waits for something, as *)
(* one instance for TLC of small bounds. The parts share no state here, so *)
(* a behaviour is one of part and leaves the others where they begin.      *)
EXTENDS MCIdentity, Monitor, Listener, Gateway, Grid, Startup, Flight, Attach,
        AuditChain, Mirror, AttachClient, StarExec, Paste, Shell,
        ChildExec, Instrument, McpServer, Runtime

VARIABLE part

progressVars == <<part, monitorVars, listenerVars, gatewayVars, gridVars, startVars,
                  flightVars, vars, chainVars, identityVars, mirrorVars, clientVars,
                  starVars, pasteVars, shellVars, childVars, agentVars, mcpVars, runtimeVars>>

\* One step.
OneBook == {<< << <<"a">> >> >>}

\* A part that does not run is in one of its first states.
ProgressInit ==
    /\ part \in {"monitor", "listener", "gateway", "grid", "startup", "flight",
                 "attach", "chain", "identity", "mirror", "client", "batch",
                 "paste", "shell", "child", "agent", "mcp", "runtime"}
    /\ MonitorInit /\ ListenerInit /\ GatewayInit /\ GridInit /\ StartupInit
    /\ FlightInit /\ Init /\ ChainInit /\ IdentityInit /\ MirrorInit
    /\ ClientInit /\ BatchInit /\ JobInit /\ ExpectInit /\ PasteInit /\ ShellInit /\ ChildInit
    /\ InstrumentInit /\ McpInit /\ RuntimeInit
    /\ part # "gateway" => dns = CHOOSE ip \in IPs : TRUE
    /\ part # "startup" => want = [kind |-> "shell", mode |-> "repl", serve |-> FALSE, agent |-> FALSE,
                                   tty |-> TRUE]
    /\ part # "client" => ~rw
    /\ part # "child" => how = "pty"
    /\ part # "mcp" => ~dryOnly

\* One part runs, and the others stay as they are.
ProgressNext ==
    \/ /\ part = "monitor" /\ MonitorNext
       /\ UNCHANGED <<part, listenerVars, gatewayVars, gridVars, startVars,
                      flightVars, vars, chainVars, identityVars, mirrorVars,
                      clientVars, starVars, pasteVars, shellVars, childVars,
                      agentVars, mcpVars, runtimeVars>>
    \/ /\ part = "listener" /\ ListenerNext
       /\ UNCHANGED <<part, monitorVars, gatewayVars, gridVars, startVars,
                      flightVars, vars, chainVars, identityVars, mirrorVars,
                      clientVars, starVars, pasteVars, shellVars, childVars,
                      agentVars, mcpVars, runtimeVars>>
    \/ /\ part = "gateway" /\ GatewayNext
       /\ UNCHANGED <<part, monitorVars, listenerVars, gridVars, startVars,
                      flightVars, vars, chainVars, identityVars, mirrorVars,
                      clientVars, starVars, pasteVars, shellVars, childVars,
                      agentVars, mcpVars, runtimeVars>>
    \/ /\ part = "grid" /\ GridNext
       /\ UNCHANGED <<part, monitorVars, listenerVars, gatewayVars, startVars,
                      flightVars, vars, chainVars, identityVars, mirrorVars,
                      clientVars, starVars, pasteVars, shellVars, childVars,
                      agentVars, mcpVars, runtimeVars>>
    \/ /\ part = "startup" /\ StartupNext
       /\ UNCHANGED <<part, monitorVars, listenerVars, gatewayVars, gridVars,
                      flightVars, vars, chainVars, identityVars, mirrorVars,
                      clientVars, starVars, pasteVars, shellVars, childVars,
                      agentVars, mcpVars, runtimeVars>>
    \/ /\ part = "flight" /\ FlightNext
       /\ UNCHANGED <<part, monitorVars, listenerVars, gatewayVars, gridVars,
                      startVars, vars, chainVars, identityVars, mirrorVars,
                      clientVars, starVars, pasteVars, shellVars, childVars,
                      agentVars, mcpVars, runtimeVars>>
    \/ /\ part = "attach" /\ Next
       /\ UNCHANGED <<part, monitorVars, listenerVars, gatewayVars, gridVars,
                      startVars, flightVars, chainVars, identityVars, mirrorVars,
                      clientVars, starVars, pasteVars, shellVars, childVars,
                      agentVars, mcpVars, runtimeVars>>
    \/ /\ part = "chain" /\ ChainNext
       /\ UNCHANGED <<part, monitorVars, listenerVars, gatewayVars, gridVars,
                      startVars, flightVars, vars, identityVars, mirrorVars,
                      clientVars, starVars, pasteVars, shellVars, childVars,
                      agentVars, mcpVars, runtimeVars>>
    \/ /\ part = "identity" /\ IdentityNext
       /\ UNCHANGED <<part, monitorVars, listenerVars, gatewayVars, gridVars,
                      startVars, flightVars, vars, chainVars, mirrorVars,
                      clientVars, starVars, pasteVars, shellVars, childVars,
                      agentVars, mcpVars, runtimeVars>>
    \/ /\ part = "mirror" /\ MirrorNext
       /\ UNCHANGED <<part, monitorVars, listenerVars, gatewayVars, gridVars,
                      startVars, flightVars, vars, chainVars, identityVars,
                      clientVars, starVars, pasteVars, shellVars, childVars,
                      agentVars, mcpVars, runtimeVars>>
    \/ /\ part = "client" /\ ClientNext
       /\ UNCHANGED <<part, monitorVars, listenerVars, gatewayVars, gridVars,
                      startVars, flightVars, vars, chainVars, identityVars,
                      mirrorVars, starVars, pasteVars, shellVars, childVars,
                      agentVars, mcpVars, runtimeVars>>
    \/ /\ part = "batch" /\ BatchNext
       /\ UNCHANGED <<part, jobVars, expectVars, monitorVars, listenerVars, gatewayVars, gridVars,
                      startVars, flightVars, vars, chainVars, identityVars,
                      mirrorVars, clientVars, pasteVars, shellVars, childVars,
                      agentVars, mcpVars, runtimeVars>>
    \/ /\ part = "paste" /\ PasteNext
       /\ UNCHANGED <<part, monitorVars, listenerVars, gatewayVars, gridVars,
                      startVars, flightVars, vars, chainVars, identityVars,
                      mirrorVars, clientVars, starVars, shellVars, childVars,
                      agentVars, mcpVars, runtimeVars>>
    \/ /\ part = "shell" /\ ShellNext
       /\ UNCHANGED <<part, monitorVars, listenerVars, gatewayVars, gridVars,
                      startVars, flightVars, vars, chainVars, identityVars,
                      mirrorVars, clientVars, starVars, pasteVars, childVars,
                      agentVars, mcpVars, runtimeVars>>
    \/ /\ part = "child" /\ ChildNext
       /\ UNCHANGED <<part, monitorVars, listenerVars, gatewayVars, gridVars,
                      startVars, flightVars, vars, chainVars, identityVars,
                      mirrorVars, clientVars, starVars, pasteVars, shellVars,
                      agentVars, mcpVars, runtimeVars>>
    \/ /\ part = "agent" /\ InstrumentNext
       /\ UNCHANGED <<part, monitorVars, listenerVars, gatewayVars, gridVars,
                      startVars, flightVars, vars, chainVars, identityVars,
                      mirrorVars, clientVars, starVars, pasteVars, shellVars,
                      childVars, mcpVars, runtimeVars>>
    \/ /\ part = "mcp" /\ McpNext
       /\ UNCHANGED <<part, monitorVars, listenerVars, gatewayVars, gridVars,
                      startVars, flightVars, vars, chainVars, identityVars,
                      mirrorVars, clientVars, starVars, pasteVars, shellVars,
                      childVars, agentVars, runtimeVars>>
    \/ /\ part = "runtime" /\ RuntimeNext
       /\ UNCHANGED <<part, monitorVars, listenerVars, gatewayVars, gridVars,
                      startVars, flightVars, vars, chainVars, identityVars,
                      mirrorVars, clientVars, starVars, pasteVars, shellVars,
                      childVars, agentVars, mcpVars>>

\* Every process, loop, goroutine, timer and handler of the part keeps running; no
\* user, client, control plane or peer has to do anything.
ProgressFairness ==
    /\ WF_monitorVars(part = "monitor" /\ ClientStep)
    /\ WF_monitorVars(part = "monitor" /\ CancelStep)
    /\ WF_monitorVars(part = "monitor" /\ LoopStep)
    /\ \A i \in Ids : /\ WF_monitorVars(part = "monitor" /\ RoutineStep(i))
                      /\ WF_monitorVars(part = "monitor" /\ CanceledGate(i))
    /\ \A k \in SessionChans : /\ WF_listenerVars(part = "listener" /\ SessionStep(k))
                               /\ WF_listenerVars(part = "listener" /\ HungUp(k))
    /\ \A g \in Gateways : WF_gatewayVars(part = "gateway" /\ ProxyStep(g))
    /\ \A o \in Ops : WF_gridVars(part = "grid" /\ DestroyStep(o))
    /\ WF_startVars(part = "startup" /\ StartStep)
    /\ \A t \in Threads : WF_flightVars(part = "flight" /\ ThreadStep(t))
    /\ \A h \in Handlers : WF_vars(part = "attach" /\ HandlerStep(h))
    /\ \A s \in Sessions : WF_vars(part = "attach" /\ EndSessionAttaches(s))
    /\ \A p \in Procs \ Hanging : WF_chainVars(part = "chain" /\ AppendStep(p))
    /\ \A j \in Jobs : WF_identityVars(part = "identity" /\ DeviceStep(j))
    /\ WF_mirrorVars(part = "mirror" /\ TimerStep) /\ WF_mirrorVars(part = "mirror" /\ MirrorTick)
    /\ WF_clientVars(part = "client" /\ KeyboardStep) /\ WF_clientVars(part = "client" /\ PumpStep)
    /\ WF_clientVars(part = "client" /\ CloseOnSignal)
    /\ WF_batchVars(part = "batch" /\ BatchStep)
    /\ WF_pasteVars(part = "paste" /\ FilterStep)
    /\ WF_shellVars(part = "shell" /\ ReplStep)
    /\ WF_childVars(part = "child" /\ RunStep) /\ WF_childVars(part = "child" /\ CopyStep)
    /\ WF_childVars(part = "child" /\ KeyStep) /\ WF_childVars(part = "child" /\ AfterFunc)
    /\ \A r \in Inquiries : WF_agentVars(part = "agent" /\ RequestStep(r))
    /\ \A c \in ToolCalls : WF_mcpVars(part = "mcp" /\ ToolStep(c))
    /\ WF_runtimeVars(part = "runtime" /\ LeaseStep) /\ WF_runtimeVars(part = "runtime" /\ ParStep)

ProgressSpec == ProgressInit /\ [][ProgressNext]_progressVars /\ ProgressFairness

-----------------------------------------------------------------------------
(* Properties of several parts.                                             *)

\* Every call returns, whatever fails, hangs or is canceled beside it: a round trip of
\* the monitor and its server, an append to the ledger, a request to the agent, a
\* tool call, a device login, the destruction of a worktree.
CallsEnd ==
    /\ CancelEndsCall /\ ServeEnds /\ AppendReturns
    /\ RequestAnswered /\ CallAnswered /\ DeviceEnds /\ DestroyEnds

\* What a session, a flight or a grant took is given back when it ends: the slots and
\* the process of a login, places of attaches, connections of a gateway, the session
\* of a flight, mirror grants.
PlacesGivenBack ==
    SessionEnds /\ PlacesReturned /\ StoppedDrops /\ SessionReleased /\ GrantGoes

\* Whoever waits at a terminal gets the prompt back: from an attach, a line, a paste
\* without an end, a child that left others behind, a batch, a lease whose time is up
\* and a canceled par; and a service that is told to stop, does.
PromptsComeBack ==
    /\ PromptReturns /\ LineReturns /\ PasteCloses /\ PromptComesBack /\ DeadlineKills
    /\ BatchReturns /\ RuntimeEnds /\ ServiceStops

\* With audit writes and connections that fail no attach streams unrecorded or ends
\* without its detach, and a ledger that is moved aside under running processes
\* leaves one that verifies.
RecordsKept == AttachOnRecord /\ LedgerVerifies
=============================================================================
