------------------------------ MODULE Gateway -------------------------------
(***************************************************************************)
(* Governed forwarding: gateways that a session starts                      *)
(* (security/vbin_gateway_ee.go, gateway_policy_ee.go,                      *)
(* gateway_evidence_ee.go) and the direct-tcpip channels of an SSH          *)
(* connection (internal/sys/ssh.go, handleDirectTCPIP).                     *)
(*                                                                         *)
(* All of them name one target; its address in the DNS may change at any    *)
(* time. Each gateway is started once and serves one connection.            *)
(***************************************************************************)
EXTENDS Integers, FiniteSets

CONSTANTS
    Gateways, \* gateways that may be started
    Owners,   \* sessions
    Forwards, \* direct-tcpip channels of one connection
    IPs,      \* addresses the target's name may have
    TCPSlots  \* maxDirectTCPPerConn

ASSUME GatewayAssumption == TCPSlots \in Nat \ {0} /\ "none" \notin IPs \cup Owners

VARIABLES
    dns,    \* the target's address
    owners, \* each session: "on", "left" the registry, or "gone" once its hooks ran
    gw,     \* each gateway and the call that starts it
    stop,   \* a gateway stop that has written its record
    proxy,  \* the connection a gateway serves
    fwd,    \* direct-tcpip channels
    slots,  \* of the connection's channels in use
    changed \* bound: the address changes once

gatewayVars == <<dns, owners, gw, stop, proxy, fwd, slots, changed>>

Step == [pc |-> "none", ip |-> "none", granted |-> "none", dialed |-> "none"]

GatewayInit ==
    /\ dns \in IPs /\ changed = FALSE
    /\ owners = [s \in Owners |-> "on"]
    /\ gw = [g \in Gateways |-> [pc |-> "none", owner |-> "none", ip |-> "none", granted |-> "none",
                                 open |-> FALSE, table |-> FALSE, cancelled |-> FALSE,
                                 logged |-> FALSE]]
    /\ stop = [g \in Gateways |-> FALSE]
    /\ proxy = [g \in Gateways |-> Step] /\ fwd = [d \in Forwards |-> Step]
    /\ slots = 0

DNSChanges ==
    /\ ~changed /\ changed' = TRUE
    /\ \E ip \in IPs \ {dns} : dns' = ip
    /\ UNCHANGED <<owners, gw, stop, proxy, fwd, slots>>

-----------------------------------------------------------------------------
\* gatewayStart.

Gw(g, r) == /\ gw' = [gw EXCEPT ![g] = r] /\ UNCHANGED <<dns, owners, stop, proxy, fwd, slots, changed>>

\* The arguments are sound and the target's name is resolved, once.
Start(g, s) ==
    /\ gw[g].pc = "none" /\ owners[s] = "on"
    /\ Gw(g, [gw[g] EXCEPT !.pc = "authorize", !.owner = s, !.ip = dns])

\* AuthorizeGateway: the policy sees the name and the address; both the command
\* and the decision must be on record. It grants or refuses.
Authorize(g) ==
    /\ gw[g].pc = "authorize"
    /\ \/ Gw(g, [gw[g] EXCEPT !.pc = "listen", !.granted = gw[g].ip])
       \/ Gw(g, [gw[g] EXCEPT !.pc = "over"])

\* net.Listen: clients may connect from here on, nobody accepts them yet.
Listen(g) ==
    /\ gw[g].pc = "listen"
    /\ \/ Gw(g, [gw[g] EXCEPT !.pc = "audit", !.open = TRUE])
       \/ Gw(g, [gw[g] EXCEPT !.pc = "over"])

\* GATEWAY_START, or the listener is closed again.
LogStart(g) ==
    /\ gw[g].pc = "audit"
    /\ \/ Gw(g, [gw[g] EXCEPT !.pc = "register", !.logged = TRUE])
       \/ Gw(g, [gw[g] EXCEPT !.pc = "over", !.open = FALSE, !.cancelled = TRUE])

RegisterGateway(g) ==
    /\ gw[g].pc = "register"
    /\ Gw(g, [gw[g] EXCEPT !.pc = "recheck", !.table = TRUE])

Stopped(r) == [r EXCEPT !.table = FALSE, !.open = FALSE, !.cancelled = TRUE]
Owned(s) == {g \in Gateways : gw[g].table /\ gw[g].owner = s}

\* The session may have ended since: stopOwnedGateways again, or serveGateway starts.
\* One that has left the registry is bound no longer, or its process is ending too.
Recheck(g) ==
    /\ gw[g].pc = "recheck"
    /\ \/ /\ owners[gw[g].owner] = "on" /\ Gw(g, [gw[g] EXCEPT !.pc = "serve"])
       \/ /\ owners[gw[g].owner] # "on"
          /\ gw' = [h \in Gateways |->
                       IF h = g THEN [Stopped(gw[g]) EXCEPT !.pc = "over"]
                       ELSE IF h \in Owned(gw[g].owner) THEN Stopped(gw[h]) ELSE gw[h]]
          /\ UNCHANGED <<dns, owners, stop, proxy, fwd, slots, changed>>

-----------------------------------------------------------------------------
\* The ways a gateway ends.

\* UnregisterSession: the session leaves the registry, then its hooks run.
SessionLeaves(s) ==
    /\ owners[s] = "on" /\ owners' = [owners EXCEPT ![s] = "left"]
    /\ UNCHANGED <<dns, gw, stop, proxy, fwd, slots, changed>>

\* stopOwnedGateways, as a hook: recorded if it can be.
StopOwned(s) ==
    /\ owners[s] = "left" /\ owners' = [owners EXCEPT ![s] = "gone"]
    /\ gw' = [g \in Gateways |-> IF g \in Owned(s) THEN Stopped(gw[g]) ELSE gw[g]]
    /\ UNCHANGED <<dns, stop, proxy, fwd, slots, changed>>

\* gatewayStop of the owner or an admin: found in the table and recorded, or
\* left running.
StopRecorded(g) ==
    /\ gw[g].table /\ ~stop[g] /\ stop' = [stop EXCEPT ![g] = TRUE]
    /\ UNCHANGED <<dns, owners, gw, proxy, fwd, slots, changed>>

\* The rest of gatewayStop; someone else may have stopped the gateway meanwhile.
StopGateway(g) ==
    /\ stop[g] /\ ~gw[g].cancelled /\ gw' = [gw EXCEPT ![g] = Stopped(gw[g])]
    /\ UNCHANGED <<dns, owners, stop, proxy, fwd, slots, changed>>

-----------------------------------------------------------------------------
\* serveGateway and proxyGatewayConnection.

\* A client is accepted while the listener is open.
Connect(g) ==
    /\ gw[g].pc = "serve" /\ gw[g].open /\ proxy[g].pc = "none"
    /\ proxy' = [proxy EXCEPT ![g].pc = "dial"]
    /\ UNCHANGED <<dns, owners, gw, stop, fwd, slots, changed>>

\* dialAddr is dialed; a failure is recorded as dial_failed.
ProxyDial(g) ==
    /\ proxy[g].pc = "dial"
    /\ \/ proxy' = [proxy EXCEPT ![g].pc = "copy", ![g].dialed = gw[g].ip]
       \/ proxy' = [proxy EXCEPT ![g].pc = "over"]
    /\ UNCHANGED <<dns, owners, gw, stop, fwd, slots, changed>>

\* The context is cancelled: both connections are closed, the copying ends and
\* the connection is recorded.
ProxyStops(g) ==
    /\ proxy[g].pc = "copy" /\ gw[g].cancelled
    /\ proxy' = [proxy EXCEPT ![g].pc = "over"]
    /\ UNCHANGED <<dns, owners, gw, stop, fwd, slots, changed>>

\* Client or target closes.
ProxyCloses(g) ==
    /\ proxy[g].pc = "copy" /\ ~gw[g].cancelled
    /\ proxy' = [proxy EXCEPT ![g].pc = "over"]
    /\ UNCHANGED <<dns, owners, gw, stop, fwd, slots, changed>>

-----------------------------------------------------------------------------
\* handleDirectTCPIP, on a goroutine per channel.

Fwd(d, r) == /\ fwd' = [fwd EXCEPT ![d] = r] /\ UNCHANGED <<dns, owners, gw, stop, proxy, changed>>

\* A slot of the connection and a name that resolves, or a refusal.
OpenForward(d) ==
    /\ fwd[d].pc = "none"
    /\ \/ /\ slots < TCPSlots /\ slots' = slots + 1
          /\ Fwd(d, [fwd[d] EXCEPT !.pc = "authorize", !.ip = dns])
       \/ slots' = slots /\ Fwd(d, [fwd[d] EXCEPT !.pc = "over"])

\* The authorizer is AuthorizeGateway.
AuthorizeForward(d) ==
    /\ fwd[d].pc = "authorize" /\ slots' = slots
    /\ Fwd(d, [fwd[d] EXCEPT !.pc = "dial", !.granted = fwd[d].ip])

\* gatewayDial connects to the address the policy saw.
DialForward(d) ==
    /\ fwd[d].pc = "dial" /\ slots' = slots
    /\ Fwd(d, [fwd[d] EXCEPT !.pc = "copy", !.dialed = fwd[d].ip])

\* A step is refused or fails, or the copying ends: the slot comes back.
EndForward(d) ==
    /\ fwd[d].pc \in {"authorize", "dial", "copy"} /\ slots' = slots - 1
    /\ Fwd(d, [fwd[d] EXCEPT !.pc = "over"])

GatewayStep(g) == Authorize(g) \/ Listen(g) \/ LogStart(g) \/ RegisterGateway(g) \/ Recheck(g)
ProxyStep(g) == ProxyDial(g) \/ ProxyStops(g)

GatewayNext ==
    \/ DNSChanges
    \/ \E g \in Gateways :
          \/ \E s \in Owners : Start(g, s)
          \/ GatewayStep(g) \/ StopRecorded(g) \/ StopGateway(g)
          \/ Connect(g) \/ ProxyStep(g) \/ ProxyCloses(g)
    \/ \E s \in Owners : SessionLeaves(s) \/ StopOwned(s)
    \/ \E d \in Forwards : OpenForward(d) \/ AuthorizeForward(d) \/ DialForward(d) \/ EndForward(d)

GatewaySpec == GatewayInit /\ [][GatewayNext]_gatewayVars

-----------------------------------------------------------------------------
\* Every connection goes to the address that the policy granted, whatever the
\* name resolves to by then (dialAddr, gatewayDial).
DialsGranted ==
    /\ \A g \in Gateways : proxy[g].dialed \in {"none", gw[g].granted}
    /\ \A d \in Forwards : fwd[d].dialed \in {"none", fwd[d].granted}

\* A gateway serves a client only once its start is on record.
ServesOnRecord == \A g \in Gateways : proxy[g].pc # "none" => gw[g].logged

\* When a session has ended and its hooks have run, no gateway of it listens,
\* other than one whose start is still on its way to the check that ends it.
GatewayEndsWithSession ==
    \A g \in Gateways :
        gw[g].open /\ owners[gw[g].owner] = "gone" => gw[g].pc \in {"audit", "register", "recheck"}

\* The connection's slots are those of the channels under way.
ForwardSlotsExact ==
    slots = Cardinality({d \in Forwards : fwd[d].pc \in {"authorize", "dial", "copy"}})

\* A stopped gateway drops the connection it serves.
StoppedDrops == \A g \in Gateways : (gw[g].cancelled /\ proxy[g].pc # "none") ~> (proxy[g].pc = "over")
=============================================================================
