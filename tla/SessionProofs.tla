---------------------------- MODULE SessionProofs ----------------------------
(***************************************************************************)
(* Machine-checked proofs about what runs in and around a session: about   *)
(* Gateway, Mirror, Startup, Identity, Instrument and McpServer, each for  *)
(* every value of its constants, and, with what SSHProofs shows of the     *)
(* listener, about the properties that several of these parts keep         *)
(* together (MCSessions).                                                  *)
(***************************************************************************)
EXTENDS MCSessions, SSHProofs

-----------------------------------------------------------------------------
(* Gateway.                                                                *)

GwFields == {"pc", "owner", "ip", "granted", "open", "table", "cancelled", "logged"}
StepFields == {"pc", "ip", "granted", "dialed"}

GatewayTyped ==
    /\ DOMAIN gw = Gateways /\ DOMAIN proxy = Gateways /\ DOMAIN stop = Gateways
    /\ \A g \in Gateways : DOMAIN gw[g] = GwFields /\ DOMAIN proxy[g] = StepFields
    /\ owners \in [Owners -> {"on", "left", "gone"}]

\* A gateway that listens belongs to a session and has its grant; once it is recorded it
\* is put into the table, where the end of its session finds it.
StartSound(r, os) ==
    /\ r.pc \in {"none", "authorize", "listen", "over"} => ~r.open
    /\ r.pc \in {"listen", "audit", "register", "recheck", "serve"} => r.granted = r.ip
    /\ r.pc \in {"register", "recheck", "serve"} => r.logged
    /\ r.pc # "none" => r.owner \in Owners
    /\ r.pc \in {"recheck", "serve"} /\ r.open => r.table
    /\ r.pc = "serve" /\ r.open => os[r.owner] # "gone"
    /\ r.pc \in {"none", "authorize", "listen", "audit", "register", "recheck", "serve", "over"}

\* The connection of a gateway that serves, to the address of its grant.
ProxySound(g) ==
    /\ proxy[g].pc # "none" => gw[g].pc = "serve"
    /\ proxy[g].pc \in {"none", "dial"} => proxy[g].dialed = "none"
    /\ proxy[g].dialed # "none" => proxy[g].dialed = gw[g].granted

GatewayInv ==
    /\ GatewayTyped
    /\ \A g \in Gateways : StartSound(gw[g], owners) /\ ProxySound(g)

LEMMA GatewayStart == GatewayInit => GatewayInv
BY DEF GatewayInit, GatewayInv, GatewayTyped, StartSound, ProxySound, GwFields, StepFields, Step

\* One gateway's record changes to r.
LEMMA GatewayMoves ==
  ASSUME GatewayInv, NEW g \in Gateways, NEW r, gw' = [gw EXCEPT ![g] = r], UNCHANGED <<owners, stop, proxy>>,
         DOMAIN r = GwFields, StartSound(r, owners), gw[g].pc = "serve" => r.pc = "serve" /\ r.granted = gw[g].granted
  PROVE  GatewayInv'
<1>1. gw'[g] = r /\ \A h \in Gateways : h # g => gw'[h] = gw[h]
  BY DEF GatewayInv, GatewayTyped
<1>2. GatewayTyped'
  BY <1>1 DEF GatewayInv, GatewayTyped
<1>3. \A h \in Gateways : StartSound(gw'[h], owners')
  BY <1>1 DEF GatewayInv, StartSound
<1>4. \A h \in Gateways : ProxySound(h)'
  BY <1>1 DEF GatewayInv, ProxySound, StartSound
<1> QED
  BY <1>2, <1>3, <1>4 DEF GatewayInv

\* Gateways are stopped, and no session goes back to where it was.
LEMMA GatewaysStop ==
  ASSUME GatewayInv, UNCHANGED <<stop, proxy>>, NEW S \in SUBSET Gateways, NEW O \in SUBSET Gateways,
         gw' = [h \in Gateways |-> IF h \in O THEN [Stopped(gw[h]) EXCEPT !.pc = "over"]
                                   ELSE IF h \in S THEN Stopped(gw[h]) ELSE gw[h]],
         \A h \in O : gw[h].pc = "recheck",
         owners' \in [Owners -> {"on", "left", "gone"}],
         \A s \in Owners : owners'[s] # owners[s] => Owned(s) \subseteq S /\ O = {}
  PROVE  GatewayInv'
<1>0. GatewayTyped /\ \A g \in Gateways : StartSound(gw[g], owners) /\ ProxySound(g)
  BY DEF GatewayInv
<1>1. ASSUME NEW h \in Gateways
      PROVE  /\ DOMAIN gw'[h] = GwFields
             /\ gw'[h].owner = gw[h].owner /\ gw'[h].ip = gw[h].ip
             /\ gw'[h].granted = gw[h].granted /\ gw'[h].logged = gw[h].logged
             /\ h \notin O => gw'[h].pc = gw[h].pc
             /\ h \in O => gw'[h].pc = "over" /\ ~gw'[h].open
             /\ h \in S => ~gw'[h].open
             /\ h \notin O /\ h \notin S => gw'[h] = gw[h]
  <2>1. DOMAIN gw[h] = GwFields
    BY <1>0 DEF GatewayTyped
  <2>2. CASE h \in O
    BY <2>1, <2>2 DEF Stopped, GwFields
  <2>3. CASE h \notin O /\ h \in S
    BY <2>1, <2>3 DEF Stopped, GwFields
  <2>4. CASE h \notin O /\ h \notin S
    BY <2>1, <2>4
  <2> QED
    BY <2>2, <2>3, <2>4
<1>2. GatewayTyped'
  BY <1>0, <1>1 DEF GatewayTyped
<1>3. ASSUME NEW h \in Gateways PROVE StartSound(gw'[h], owners')
  <2>0. StartSound(gw[h], owners)
    BY <1>0
  <2>1. CASE h \in O
    BY <1>1, <2>0, <2>1 DEF StartSound
  <2>2. CASE h \notin O /\ h \in S
    BY <1>1, <2>0, <2>2 DEF StartSound
  <2>3. CASE h \notin O /\ h \notin S
    <3>1. gw'[h] = gw[h]
      BY <1>1, <2>3
    <3>2. ASSUME gw[h].pc = "serve", gw[h].open PROVE owners'[gw[h].owner] = owners[gw[h].owner]
      <4>1. gw[h].table /\ gw[h].owner \in Owners
        BY <2>0, <3>2 DEF StartSound
      <4>2. h \in Owned(gw[h].owner)
        BY <4>1 DEF Owned
      <4> QED
        BY <2>3, <4>1, <4>2
    <3> QED
      BY <2>0, <3>1, <3>2 DEF StartSound
  <2> QED
    BY <2>1, <2>2, <2>3
<1>4. ASSUME NEW h \in Gateways PROVE ProxySound(h)'
  <2>1. ProxySound(h) /\ proxy' = proxy
    BY <1>0
  <2>2. proxy[h].pc # "none" => h \notin O
    BY <2>1 DEF ProxySound
  <2> QED
    BY <1>1, <2>1, <2>2 DEF ProxySound
<1> QED
  BY <1>2, <1>3, <1>4 DEF GatewayInv

\* The connection of one gateway changes to r.
LEMMA ProxyMoves ==
  ASSUME GatewayInv, NEW g \in Gateways, NEW r, proxy' = [proxy EXCEPT ![g] = r], UNCHANGED <<owners, gw, stop>>,
         DOMAIN r = StepFields, gw[g].pc = "serve",
         r.pc \in {"none", "dial"} => r.dialed = "none", r.dialed # "none" => r.dialed = gw[g].granted
  PROVE  GatewayInv'
<1>1. proxy'[g] = r /\ \A h \in Gateways : h # g => proxy'[h] = proxy[h]
  BY DEF GatewayInv, GatewayTyped
<1> QED
  BY <1>1 DEF GatewayInv, GatewayTyped, ProxySound, StartSound

\* The call that starts a gateway.
LEMMA StartMoves ==
  ASSUME GatewayInv, NEW g \in Gateways,
         (\E s \in Owners : Start(g, s)) \/ Authorize(g) \/ Listen(g) \/ LogStart(g) \/ RegisterGateway(g)
  PROVE  GatewayInv'
<1>0. DOMAIN gw[g] = GwFields /\ StartSound(gw[g], owners)
  BY DEF GatewayInv, GatewayTyped
<1>1. ASSUME NEW s \in Owners, Start(g, s) PROVE GatewayInv'
  <2> DEFINE r == [gw[g] EXCEPT !.pc = "authorize", !.owner = s, !.ip = dns]
  <2>1. DOMAIN r = GwFields /\ r.pc = "authorize" /\ r.owner = s /\ r.open = gw[g].open
    BY <1>0 DEF GwFields
  <2>2. gw[g].pc = "none" /\ ~gw[g].open /\ Gw(g, r)
    BY <1>0, <1>1 DEF Start, StartSound
  <2> HIDE DEF r
  <2>3. StartSound(r, owners)
    BY <2>1, <2>2 DEF StartSound
  <2>4. gw' = [gw EXCEPT ![g] = r] /\ UNCHANGED <<owners, stop, proxy>>
    BY <2>2 DEF Gw
  <2> QED
    BY <2>1, <2>2, <2>3, <2>4, GatewayMoves
\* A step to r that keeps the owner and the address.
<1>2. ASSUME NEW r, Gw(g, r), DOMAIN r = GwFields, r.owner = gw[g].owner, r.ip = gw[g].ip,
             gw[g].pc \notin {"none", "serve"}, StartSound(r, owners)
      PROVE  GatewayInv'
  <2>1. gw' = [gw EXCEPT ![g] = r] /\ UNCHANGED <<owners, stop, proxy>>
    BY <1>2 DEF Gw
  <2> QED
    BY <1>2, <2>1, GatewayMoves
<1>3. CASE Authorize(g)
  <2>1. gw[g].pc = "authorize" /\ ~gw[g].open /\ gw[g].owner \in Owners
    BY <1>0, <1>3 DEF Authorize, StartSound
  <2>2. CASE Gw(g, [gw[g] EXCEPT !.pc = "listen", !.granted = gw[g].ip])
    <3> DEFINE r == [gw[g] EXCEPT !.pc = "listen", !.granted = gw[g].ip]
    <3>1. DOMAIN r = GwFields /\ r.owner = gw[g].owner /\ r.ip = gw[g].ip /\ r.pc = "listen"
          /\ r.granted = gw[g].ip /\ r.open = gw[g].open
      BY <1>0 DEF GwFields
    <3>2. Gw(g, r)
      BY <2>2
    <3> HIDE DEF r
    <3> QED
      BY <1>2, <2>1, <3>1, <3>2 DEF StartSound
  <2>3. CASE Gw(g, [gw[g] EXCEPT !.pc = "over"])
    <3> DEFINE r == [gw[g] EXCEPT !.pc = "over"]
    <3>1. DOMAIN r = GwFields /\ r.owner = gw[g].owner /\ r.ip = gw[g].ip /\ r.pc = "over" /\ r.open = gw[g].open
      BY <1>0 DEF GwFields
    <3>2. Gw(g, r)
      BY <2>3
    <3> HIDE DEF r
    <3> QED
      BY <1>2, <2>1, <3>1, <3>2 DEF StartSound
  <2> QED
    BY <1>3, <2>2, <2>3 DEF Authorize
<1>4. CASE Listen(g)
  <2>1. gw[g].pc = "listen" /\ ~gw[g].open /\ gw[g].owner \in Owners /\ gw[g].granted = gw[g].ip
    BY <1>0, <1>4 DEF Listen, StartSound
  <2>2. CASE Gw(g, [gw[g] EXCEPT !.pc = "audit", !.open = TRUE])
    <3> DEFINE r == [gw[g] EXCEPT !.pc = "audit", !.open = TRUE]
    <3>1. DOMAIN r = GwFields /\ r.owner = gw[g].owner /\ r.ip = gw[g].ip /\ r.pc = "audit"
          /\ r.granted = gw[g].granted
      BY <1>0 DEF GwFields
    <3>2. Gw(g, r)
      BY <2>2
    <3> HIDE DEF r
    <3> QED
      BY <1>2, <2>1, <3>1, <3>2 DEF StartSound
  <2>3. CASE Gw(g, [gw[g] EXCEPT !.pc = "over"])
    <3> DEFINE r == [gw[g] EXCEPT !.pc = "over"]
    <3>1. DOMAIN r = GwFields /\ r.owner = gw[g].owner /\ r.ip = gw[g].ip /\ r.pc = "over" /\ r.open = gw[g].open
      BY <1>0 DEF GwFields
    <3>2. Gw(g, r)
      BY <2>3
    <3> HIDE DEF r
    <3> QED
      BY <1>2, <2>1, <3>1, <3>2 DEF StartSound
  <2> QED
    BY <1>4, <2>2, <2>3 DEF Listen
<1>5. CASE LogStart(g)
  <2>1. gw[g].pc = "audit" /\ gw[g].owner \in Owners /\ gw[g].granted = gw[g].ip
    BY <1>0, <1>5 DEF LogStart, StartSound
  <2>2. CASE Gw(g, [gw[g] EXCEPT !.pc = "register", !.logged = TRUE])
    <3> DEFINE r == [gw[g] EXCEPT !.pc = "register", !.logged = TRUE]
    <3>1. DOMAIN r = GwFields /\ r.owner = gw[g].owner /\ r.ip = gw[g].ip /\ r.pc = "register"
          /\ r.granted = gw[g].granted /\ r.logged
      BY <1>0 DEF GwFields
    <3>2. Gw(g, r)
      BY <2>2
    <3> HIDE DEF r
    <3> QED
      BY <1>2, <2>1, <3>1, <3>2 DEF StartSound
  <2>3. CASE Gw(g, [gw[g] EXCEPT !.pc = "over", !.open = FALSE, !.cancelled = TRUE])
    <3> DEFINE r == [gw[g] EXCEPT !.pc = "over", !.open = FALSE, !.cancelled = TRUE]
    <3>1. DOMAIN r = GwFields /\ r.owner = gw[g].owner /\ r.ip = gw[g].ip /\ r.pc = "over" /\ ~r.open
      BY <1>0 DEF GwFields
    <3>2. Gw(g, r)
      BY <2>3
    <3> HIDE DEF r
    <3> QED
      BY <1>2, <2>1, <3>1, <3>2 DEF StartSound
  <2> QED
    BY <1>5, <2>2, <2>3 DEF LogStart
<1>6. CASE RegisterGateway(g)
  <2> DEFINE r == [gw[g] EXCEPT !.pc = "recheck", !.table = TRUE]
  <2>1. gw[g].pc = "register" /\ gw[g].owner \in Owners /\ gw[g].granted = gw[g].ip /\ gw[g].logged
    BY <1>0, <1>6 DEF RegisterGateway, StartSound
  <2>2. DOMAIN r = GwFields /\ r.owner = gw[g].owner /\ r.ip = gw[g].ip /\ r.pc = "recheck"
        /\ r.granted = gw[g].granted /\ r.logged = gw[g].logged /\ r.table
    BY <1>0 DEF GwFields
  <2>3. Gw(g, r)
    BY <1>6 DEF RegisterGateway
  <2> HIDE DEF r
  <2> QED
    BY <1>2, <2>1, <2>2, <2>3 DEF StartSound
<1> QED
  BY <1>1, <1>3, <1>4, <1>5, <1>6

\* The check whether the session has ended meanwhile. A gateway that was stopped in the
\* table while its start went on is not open and serves nobody.
LEMMA RecheckMoves == ASSUME GatewayInv, NEW g \in Gateways, Recheck(g) PROVE GatewayInv'
<1>0. /\ DOMAIN gw[g] = GwFields /\ StartSound(gw[g], owners) /\ gw[g].pc = "recheck"
      /\ gw[g].owner \in Owners /\ gw[g].granted = gw[g].ip /\ gw[g].logged
  BY DEF GatewayInv, GatewayTyped, Recheck, StartSound
<1>1. CASE owners[gw[g].owner] = "on" /\ Gw(g, [gw[g] EXCEPT !.pc = "serve"])
  <2> DEFINE r == [gw[g] EXCEPT !.pc = "serve"]
  <2>1. /\ DOMAIN r = GwFields /\ r.pc = "serve" /\ r.owner = gw[g].owner /\ r.ip = gw[g].ip
        /\ r.granted = gw[g].granted /\ r.logged = gw[g].logged /\ r.open = gw[g].open /\ r.table = gw[g].table
    BY <1>0 DEF GwFields
  <2>2. gw' = [gw EXCEPT ![g] = r] /\ UNCHANGED <<owners, stop, proxy>>
    BY <1>1 DEF Gw
  <2> HIDE DEF r
  <2>3. StartSound(r, owners)
    BY <1>0, <1>1, <2>1 DEF StartSound
  <2> QED
    BY <1>0, <2>1, <2>2, <2>3, GatewayMoves
<1>2. CASE /\ owners[gw[g].owner] # "on"
           /\ gw' = [h \in Gateways |->
                        IF h = g THEN [Stopped(gw[g]) EXCEPT !.pc = "over"]
                        ELSE IF h \in Owned(gw[g].owner) THEN Stopped(gw[h]) ELSE gw[h]]
           /\ UNCHANGED <<dns, owners, stop, proxy, fwd, slots, changed>>
  <2> DEFINE S == Owned(gw[g].owner)  O == {g}
  <2>1. gw' = [h \in Gateways |-> IF h \in O THEN [Stopped(gw[h]) EXCEPT !.pc = "over"]
                                  ELSE IF h \in S THEN Stopped(gw[h]) ELSE gw[h]]
    BY <1>2
  <2>2. S \in SUBSET Gateways /\ O \in SUBSET Gateways
    BY DEF Owned
  <2>3. /\ UNCHANGED <<stop, proxy>> /\ owners' = owners /\ owners' \in [Owners -> {"on", "left", "gone"}]
        /\ \A h \in O : gw[h].pc = "recheck"
    BY <1>0, <1>2 DEF GatewayInv, GatewayTyped
  <2> HIDE DEF S, O
  <2> QED
    BY <2>1, <2>2, <2>3, GatewaysStop
<1> QED
  BY <1>1, <1>2 DEF Recheck

LEMMA GatewayKeeps == GatewayInv /\ [GatewayNext]_gatewayVars => GatewayInv'
<1> SUFFICES ASSUME GatewayInv, [GatewayNext]_gatewayVars PROVE GatewayInv'
  OBVIOUS
<1>0. GatewayTyped /\ \A g \in Gateways : StartSound(gw[g], owners) /\ ProxySound(g)
  BY DEF GatewayInv
<1>1. ASSUME UNCHANGED <<owners, gw, proxy>>, DOMAIN stop' = Gateways PROVE GatewayInv'
  BY <1>0, <1>1 DEF GatewayInv, GatewayTyped, StartSound, ProxySound
<1>2. CASE DNSChanges \/ UNCHANGED gatewayVars
  BY <1>0, <1>1, <1>2 DEF DNSChanges, gatewayVars, GatewayTyped
<1>3. ASSUME NEW g \in Gateways, StopRecorded(g) PROVE GatewayInv'
  BY <1>0, <1>1, <1>3 DEF StopRecorded, GatewayTyped
<1>4. ASSUME NEW d \in Forwards, OpenForward(d) \/ AuthorizeForward(d) \/ DialForward(d) \/ EndForward(d)
      PROVE  GatewayInv'
  <2>1. UNCHANGED <<owners, gw, proxy, stop>>
    BY <1>4 DEF OpenForward, AuthorizeForward, DialForward, EndForward, Fwd
  <2> QED
    BY <1>0, <1>1, <2>1 DEF GatewayTyped
<1>5. ASSUME NEW g \in Gateways, StopGateway(g) PROVE GatewayInv'
  <2> DEFINE r == Stopped(gw[g])
  <2>1. /\ DOMAIN r = GwFields /\ r.pc = gw[g].pc /\ r.owner = gw[g].owner /\ r.ip = gw[g].ip
        /\ r.granted = gw[g].granted /\ r.logged = gw[g].logged /\ ~r.open
    BY <1>0 DEF GatewayTyped, Stopped, GwFields
  <2>2. gw' = [gw EXCEPT ![g] = r] /\ UNCHANGED <<owners, stop, proxy>>
    BY <1>5 DEF StopGateway
  <2> HIDE DEF r
  <2>3. StartSound(r, owners)
    <3>1. StartSound(gw[g], owners)
      BY <1>0, <1>5
    <3> QED
      BY <2>1, <3>1 DEF StartSound
  <2> QED
    BY <2>1, <2>2, <2>3, GatewayMoves
<1>6. ASSUME NEW g \in Gateways, Connect(g) \/ ProxyStep(g) \/ ProxyCloses(g) PROVE GatewayInv'
  <2>0. DOMAIN proxy = Gateways /\ DOMAIN proxy[g] = StepFields /\ ProxySound(g) /\ UNCHANGED <<owners, gw, stop>>
    BY <1>0, <1>6 DEF GatewayTyped, Connect, ProxyStep, ProxyDial, ProxyStops, ProxyCloses
  <2>1. CASE Connect(g)
    <3> DEFINE r == [proxy[g] EXCEPT !.pc = "dial"]
    <3>1. DOMAIN r = StepFields /\ r.dialed = proxy[g].dialed
      BY <2>0 DEF StepFields
    <3>2. proxy' = [proxy EXCEPT ![g] = r] /\ gw[g].pc = "serve" /\ proxy[g].pc = "none"
      BY <2>1 DEF Connect
    <3> HIDE DEF r
    <3> QED
      BY <2>0, <3>1, <3>2, ProxyMoves DEF ProxySound
  <2>2. CASE ProxyDial(g) /\ proxy' = [proxy EXCEPT ![g].pc = "copy", ![g].dialed = gw[g].ip]
    <3> DEFINE r == [proxy[g] EXCEPT !.pc = "copy", !.dialed = gw[g].ip]
    <3>1. DOMAIN r = StepFields /\ r.dialed = gw[g].ip /\ r.pc = "copy"
      BY <2>0 DEF StepFields
    <3>2. proxy' = [proxy EXCEPT ![g] = r] /\ proxy[g].pc = "dial"
      BY <2>0, <2>2 DEF ProxyDial
    <3>3. gw[g].pc = "serve" /\ gw[g].granted = gw[g].ip
      BY <1>0, <2>0, <3>2 DEF ProxySound, StartSound
    <3> HIDE DEF r
    <3> QED
      BY <2>0, <3>1, <3>2, <3>3, ProxyMoves
  <2>3. CASE proxy' = [proxy EXCEPT ![g].pc = "over"] /\ proxy[g].pc \in {"dial", "copy"}
    <3> DEFINE r == [proxy[g] EXCEPT !.pc = "over"]
    <3>1. DOMAIN r = StepFields /\ r.dialed = proxy[g].dialed /\ r.pc = "over"
      BY <2>0 DEF StepFields
    <3>2. proxy' = [proxy EXCEPT ![g] = r] /\ gw[g].pc = "serve"
      BY <2>0, <2>3 DEF ProxySound
    <3> HIDE DEF r
    <3> QED
      BY <2>0, <3>1, <3>2, ProxyMoves DEF ProxySound
  <2> QED
    BY <1>6, <2>1, <2>2, <2>3 DEF ProxyStep, ProxyDial, ProxyStops, ProxyCloses
<1>7. ASSUME NEW s \in Owners, SessionLeaves(s) PROVE GatewayInv'
  <2>1. owners' \in [Owners -> {"on", "left", "gone"}] /\ \A t \in Owners : owners'[t] = "gone" => owners[t] = "gone"
    BY <1>0, <1>7 DEF SessionLeaves, GatewayTyped
  <2>2. UNCHANGED <<gw, proxy, stop>>
    BY <1>7 DEF SessionLeaves
  <2> QED
    BY <1>0, <2>1, <2>2 DEF GatewayInv, GatewayTyped, StartSound, ProxySound
<1>8. ASSUME NEW s \in Owners, StopOwned(s) PROVE GatewayInv'
  <2> DEFINE S == Owned(s)
  <2>1. gw' = [h \in Gateways |-> IF h \in {} THEN [Stopped(gw[h]) EXCEPT !.pc = "over"]
                                  ELSE IF h \in S THEN Stopped(gw[h]) ELSE gw[h]]
    BY <1>8 DEF StopOwned
  <2>2. S \in SUBSET Gateways
    BY DEF Owned
  <2>3. /\ UNCHANGED <<stop, proxy>> /\ owners' \in [Owners -> {"on", "left", "gone"}]
        /\ \A t \in Owners : owners'[t] # owners[t] => t = s
    BY <1>0, <1>8 DEF StopOwned, GatewayTyped
  <2>4. \A t \in Owners : owners'[t] # owners[t] => Owned(t) \subseteq S
    BY <2>3
  <2> HIDE DEF S
  <2> QED
    BY <2>1, <2>2, <2>3, <2>4, GatewaysStop
<1>9. ASSUME NEW g \in Gateways, (\E s \in Owners : Start(g, s)) \/ GatewayStep(g) PROVE GatewayInv'
  BY <1>9, StartMoves, RecheckMoves DEF GatewayStep
<1> QED
  BY <1>2, <1>3, <1>4, <1>5, <1>6, <1>7, <1>8, <1>9 DEF GatewayNext

\* The channels of one connection and the slots they hold.
Forwarding == {d \in Forwards : fwd[d].pc \in {"authorize", "dial", "copy"}}

ForwardInv ==
    /\ DOMAIN fwd = Forwards /\ \A d \in Forwards : DOMAIN fwd[d] = StepFields
    /\ \A d \in Forwards : /\ fwd[d].pc \in {"none", "authorize"} => fwd[d].dialed = "none"
                           /\ fwd[d].pc = "dial" => fwd[d].granted = fwd[d].ip
                           /\ fwd[d].dialed # "none" => fwd[d].dialed = fwd[d].granted
    /\ IsFiniteSet(Forwarding) /\ slots = Cardinality(Forwarding)

LEMMA ForwardStart == GatewayInit => ForwardInv
<1> SUFFICES ASSUME GatewayInit PROVE ForwardInv
  OBVIOUS
<1>1. fwd = [d \in Forwards |-> Step] /\ slots = 0
  BY DEF GatewayInit
<1>2. Forwarding = {}
  BY <1>1 DEF Forwarding, Step
<1>3. IsFiniteSet(Forwarding) /\ slots = Cardinality(Forwarding)
  BY <1>1, <1>2, FS_EmptySet
<1> QED
  BY <1>1, <1>3 DEF ForwardInv, Step, StepFields

LEMMA ForwardStep == ForwardInv /\ [GatewayNext]_gatewayVars => ForwardInv'
<1> SUFFICES ASSUME ForwardInv, [GatewayNext]_gatewayVars PROVE ForwardInv'
  OBVIOUS
<1>1. CASE UNCHANGED <<fwd, slots>>
  BY <1>1 DEF ForwardInv, Forwarding
\* One channel goes to r.
<1>2. ASSUME NEW d \in Forwards, NEW r, fwd' = [fwd EXCEPT ![d] = r], DOMAIN r = StepFields,
             r.pc \in {"none", "authorize"} => r.dialed = "none",
             r.pc = "dial" => r.granted = r.ip, r.dialed # "none" => r.dialed = r.granted,
             \/ /\ slots' = slots
                /\ fwd[d].pc \in {"authorize", "dial", "copy"} <=> r.pc \in {"authorize", "dial", "copy"}
             \/ /\ slots' = slots + 1 /\ fwd[d].pc \notin {"authorize", "dial", "copy"}
                /\ r.pc \in {"authorize", "dial", "copy"}
             \/ /\ slots' = slots - 1 /\ fwd[d].pc \in {"authorize", "dial", "copy"}
                /\ r.pc \notin {"authorize", "dial", "copy"}
      PROVE  ForwardInv'
  <2>1. fwd'[d] = r /\ DOMAIN fwd' = Forwards /\ \A e \in Forwards : e # d => fwd'[e] = fwd[e]
    BY <1>2 DEF ForwardInv
  <2>2. IsFiniteSet(Forwarding) /\ slots = Cardinality(Forwarding)
    BY DEF ForwardInv
  <2>3. IsFiniteSet(Forwarding') /\ slots' = Cardinality(Forwarding')
    <3>1. CASE /\ slots' = slots
               /\ fwd[d].pc \in {"authorize", "dial", "copy"} <=> r.pc \in {"authorize", "dial", "copy"}
      <4>1. Forwarding' = Forwarding
        BY <2>1, <3>1 DEF Forwarding
      <4> QED
        BY <2>2, <3>1, <4>1
    <3>2. CASE /\ slots' = slots + 1 /\ fwd[d].pc \notin {"authorize", "dial", "copy"}
               /\ r.pc \in {"authorize", "dial", "copy"}
      <4>1. Forwarding' = Forwarding \cup {d} /\ d \notin Forwarding
        BY <2>1, <3>2 DEF Forwarding
      <4> QED
        BY <2>2, <3>2, <4>1, FS_AddElement
    <3>3. CASE /\ slots' = slots - 1 /\ fwd[d].pc \in {"authorize", "dial", "copy"}
               /\ r.pc \notin {"authorize", "dial", "copy"}
      <4>1. Forwarding' = Forwarding \ {d} /\ d \in Forwarding
        BY <2>1, <3>3 DEF Forwarding
      <4> QED
        BY <2>2, <3>3, <4>1, FS_RemoveElement
    <3> QED
      BY <1>2, <3>1, <3>2, <3>3
  <2> QED
    BY <1>2, <2>1, <2>3 DEF ForwardInv
<1>3. ASSUME NEW d \in Forwards, OpenForward(d) \/ AuthorizeForward(d) \/ DialForward(d) \/ EndForward(d)
      PROVE  ForwardInv'
  <2>0. /\ DOMAIN fwd[d] = StepFields
        /\ fwd[d].pc \in {"none", "authorize"} => fwd[d].dialed = "none"
        /\ fwd[d].pc = "dial" => fwd[d].granted = fwd[d].ip
        /\ fwd[d].dialed # "none" => fwd[d].dialed = fwd[d].granted
    BY DEF ForwardInv
  <2>1. ASSUME fwd[d].pc = "none", slots' = slots + 1, Fwd(d, [fwd[d] EXCEPT !.pc = "authorize", !.ip = dns])
        PROVE  ForwardInv'
    <3> DEFINE r == [fwd[d] EXCEPT !.pc = "authorize", !.ip = dns]
    <3>1. DOMAIN r = StepFields /\ r.pc = "authorize" /\ r.dialed = fwd[d].dialed
      BY <2>0 DEF StepFields
    <3>2. fwd' = [fwd EXCEPT ![d] = r]
      BY <2>1 DEF Fwd
    <3> HIDE DEF r
    <3> QED
      BY <1>2, <2>0, <2>1, <3>1, <3>2
  <2>2. ASSUME fwd[d].pc = "authorize", slots' = slots,
               Fwd(d, [fwd[d] EXCEPT !.pc = "dial", !.granted = fwd[d].ip])
        PROVE  ForwardInv'
    <3> DEFINE r == [fwd[d] EXCEPT !.pc = "dial", !.granted = fwd[d].ip]
    <3>1. DOMAIN r = StepFields /\ r.pc = "dial" /\ r.dialed = fwd[d].dialed /\ r.granted = r.ip
      BY <2>0 DEF StepFields
    <3>2. fwd' = [fwd EXCEPT ![d] = r]
      BY <2>2 DEF Fwd
    <3> HIDE DEF r
    <3> QED
      BY <1>2, <2>0, <2>2, <3>1, <3>2
  <2>3. ASSUME fwd[d].pc = "dial", slots' = slots, Fwd(d, [fwd[d] EXCEPT !.pc = "copy", !.dialed = fwd[d].ip])
        PROVE  ForwardInv'
    <3> DEFINE r == [fwd[d] EXCEPT !.pc = "copy", !.dialed = fwd[d].ip]
    <3>1. DOMAIN r = StepFields /\ r.pc = "copy" /\ r.dialed = fwd[d].ip /\ r.granted = fwd[d].granted
      BY <2>0 DEF StepFields
    <3>2. fwd' = [fwd EXCEPT ![d] = r]
      BY <2>3 DEF Fwd
    <3> HIDE DEF r
    <3> QED
      BY <1>2, <2>0, <2>3, <3>1, <3>2
  <2>4. ASSUME Fwd(d, [fwd[d] EXCEPT !.pc = "over"]),
               \/ fwd[d].pc = "none" /\ slots' = slots
               \/ fwd[d].pc \in {"authorize", "dial", "copy"} /\ slots' = slots - 1
        PROVE  ForwardInv'
    <3> DEFINE r == [fwd[d] EXCEPT !.pc = "over"]
    <3>1. DOMAIN r = StepFields /\ r.pc = "over" /\ r.dialed = fwd[d].dialed /\ r.granted = fwd[d].granted
      BY <2>0 DEF StepFields
    <3>2. fwd' = [fwd EXCEPT ![d] = r]
      BY <2>4 DEF Fwd
    <3> HIDE DEF r
    <3> QED
      BY <1>2, <2>0, <2>4, <3>1, <3>2
  <2> QED
    BY <1>3, <2>1, <2>2, <2>3, <2>4 DEF OpenForward, AuthorizeForward, DialForward, EndForward
<1>4. ASSUME NEW g \in Gateways,
             \/ \E s \in Owners : Start(g, s)
             \/ GatewayStep(g) \/ StopRecorded(g) \/ StopGateway(g)
             \/ Connect(g) \/ ProxyStep(g) \/ ProxyCloses(g)
      PROVE  UNCHANGED <<fwd, slots>>
  BY <1>4 DEF Start, GatewayStep, Authorize, Listen, LogStart, RegisterGateway, Recheck, StopRecorded, StopGateway,
              Connect, ProxyStep, ProxyDial, ProxyStops, ProxyCloses, Gw
<1>5. CASE DNSChanges \/ (\E s \in Owners : SessionLeaves(s) \/ StopOwned(s)) \/ UNCHANGED gatewayVars
  BY <1>1, <1>5 DEF DNSChanges, SessionLeaves, StopOwned, gatewayVars
<1> QED
  BY <1>1, <1>3, <1>4, <1>5 DEF GatewayNext

\* Whatever the name of the target resolves to, and however sessions end around the start
\* and the stop of their gateways, for any number of them: connections go to the address
\* that was granted, after the start is on record, none outlives its session's hooks, and
\* the slots of a connection are those of its channels.
THEOREM GatewaysAreGoverned ==
    GatewaySpec => [](DialsGranted /\ ServesOnRecord /\ GatewayEndsWithSession /\ ForwardSlotsExact)
<1>1. GatewayInit => GatewayInv /\ ForwardInv
  BY GatewayStart, ForwardStart
<1>2. GatewayInv /\ ForwardInv /\ [GatewayNext]_gatewayVars => GatewayInv' /\ ForwardInv'
  BY GatewayKeeps, ForwardStep
<1>3. ASSUME GatewayInv, ForwardInv
      PROVE  DialsGranted /\ ServesOnRecord /\ GatewayEndsWithSession /\ ForwardSlotsExact
  <2>1. DialsGranted
    BY <1>3 DEF GatewayInv, ForwardInv, ProxySound, DialsGranted
  <2>2. ServesOnRecord
    BY <1>3 DEF GatewayInv, ProxySound, StartSound, ServesOnRecord
  <2>3. GatewayEndsWithSession
    BY <1>3 DEF GatewayInv, StartSound, GatewayEndsWithSession
  <2>4. ForwardSlotsExact
    BY <1>3 DEF ForwardInv, Forwarding, ForwardSlotsExact
  <2> QED
    BY <2>1, <2>2, <2>3, <2>4
<1> QED
  BY <1>1, <1>2, <1>3, PTL DEF GatewaySpec

-----------------------------------------------------------------------------
(* Mirror.                                                                 *)

OwnerNames == {"owner", "renamed"}
MirrorGrants == [user : Grantees, owner : OwnerNames, console : BOOLEAN, exp : Nat]
Streaming == {"log", "stream", "streaming"}

\* The grant that let the call r in is one of gs and gave what r uses.
LetIn(r, gs) ==
    /\ r.g \in 1..Len(gs) /\ gs[r.g].user = r.user /\ gs[r.g].owner = r.owner
    /\ r.console => gs[r.g].console

\* What a call knows where it is: what a share was asked, the grant that was found expired,
\* the grant that let an attach in, none for a privileged one.
MirrorCall(r, gs, now) ==
    \/ r = Ready
    \/ r \in [pc : {"share"}, user : Grantees, for : Lives, console : BOOLEAN, owner : OwnerNames]
    \/ r \in [pc : {"grant"}, user : Grantees, console : BOOLEAN, owner : OwnerNames]
    \/ r \in [pc : {"expired"}, g : Nat] /\ r.g \in 1..Len(gs) /\ now >= gs[r.g].exp
    \/ r \in [pc : Streaming, user : Grantees, console : BOOLEAN, g : {0}]
    \/ r \in [pc : Streaming, user : Grantees, console : BOOLEAN, owner : OwnerNames, g : Nat] /\ LetIn(r, gs)

MirrorTyped ==
    /\ target \in [registered : BOOLEAN, cleared : BOOLEAN, user : OwnerNames]
    /\ grants \in Seq(MirrorGrants) /\ mclk \in Nat
    /\ endings \in Seq(Nat) /\ Len(endings) = Len(grants)
    /\ table \in [Grantees -> Nat] /\ DOMAIN call = Shares \cup Attaches
    /\ timers \subseteq Made /\ fired \subseteq Made

\* A grant in the table is its user's and has not ended.
TableSound ==
    \A u \in Grantees : table[u] # 0 =>
        table[u] \in Made /\ grants[table[u]].user = u /\ endings[table[u]] = 0

MirrorInv ==
    /\ MirrorTyped /\ TableSound /\ GrantEndsOnce
    /\ \A g \in fired : Expired(g)
    /\ \A c \in Shares \cup Attaches : MirrorCall(call[c], grants, mclk)

LEMMA MirrorStart == MirrorInit => MirrorInv
BY DEF MirrorInit, MirrorInv, MirrorTyped, TableSound, GrantEndsOnce, MirrorCall, OwnerNames, Made

\* A grant and a passed time stay what they are.
LEMMA CallsKeep ==
  ASSUME NEW r, NEW gs \in Seq(MirrorGrants), NEW hs \in Seq(MirrorGrants), NEW now \in Nat, NEW later \in Nat,
         MirrorCall(r, gs, now), Len(gs) <= Len(hs), \A n \in 1..Len(gs) : hs[n] = gs[n], now <= later
  PROVE  MirrorCall(r, hs, later)
<1>1. CASE r \in [pc : {"expired"}, g : Nat] /\ r.g \in 1..Len(gs) /\ now >= gs[r.g].exp
  <2>1. gs[r.g] \in MirrorGrants
    BY <1>1
  <2>2. r.g \in 1..Len(hs) /\ later >= hs[r.g].exp
    BY <1>1, <2>1 DEF MirrorGrants
  <2> QED
    BY <1>1, <2>2 DEF MirrorCall
<1>2. CASE /\ r \in [pc : Streaming, user : Grantees, console : BOOLEAN, owner : OwnerNames, g : Nat]
           /\ LetIn(r, gs)
  <2>1. LetIn(r, hs)
    BY <1>2 DEF LetIn
  <2> QED
    BY <1>2, <2>1 DEF MirrorCall
<1> QED
  BY <1>1, <1>2 DEF MirrorCall

\* Call c goes on to r, and the table is left alone.
LEMMA CallMoves ==
  ASSUME MirrorInv, NEW c, NEW r, call' = [call EXCEPT ![c] = r], MirrorCall(r, grants, mclk),
         UNCHANGED <<target, table, grants, timers, fired, endings, mclk>>
  PROVE  MirrorInv'
<1>1. \A d \in Shares \cup Attaches : call'[d] = IF d = c THEN r ELSE call[d]
  BY DEF MirrorInv, MirrorTyped
<1>2. \A d \in Shares \cup Attaches : MirrorCall(call'[d], grants, mclk)
  BY <1>1 DEF MirrorInv
<1>3. MirrorTyped' /\ TableSound' /\ GrantEndsOnce' /\ \A g \in fired' : Expired(g)'
  BY DEF MirrorInv, MirrorTyped, TableSound, GrantEndsOnce, Made, Expired
<1> QED
  BY <1>2, <1>3 DEF MirrorInv

\* A grant that has expired is removed by its number, once.
LEMMA ExpiryKeeps ==
  ASSUME MirrorInv, NEW g \in Made, expireMirrorGrant(g), UNCHANGED <<target, grants, mclk>>,
         fired' \subseteq fired, DOMAIN call' = Shares \cup Attaches,
         \A c \in Shares \cup Attaches : MirrorCall(call'[c], grants, mclk)
  PROVE  MirrorInv'
<1>0. MirrorTyped /\ TableSound /\ GrantEndsOnce /\ \A h \in fired : Expired(h)
  BY DEF MirrorInv
<1>1. grants[g].user \in Grantees
  <2>1. grants[g] \in MirrorGrants
    BY <1>0 DEF MirrorTyped, Made
  <2> QED
    BY <2>1 DEF MirrorGrants
<1>2. CASE UNCHANGED <<table, endings, timers>>
  <2>1. MirrorTyped' /\ TableSound' /\ GrantEndsOnce' /\ \A h \in fired' : Expired(h)'
    BY <1>0, <1>2 DEF MirrorTyped, TableSound, GrantEndsOnce, Made, Expired
  <2> QED
    BY <2>1 DEF MirrorInv
<1>3. CASE /\ table[grants[g].user] = g /\ table' = [table EXCEPT ![grants[g].user] = 0]
           /\ endings' = [endings EXCEPT ![g] = @ + 1] /\ timers' = timers \ {g}
  <2>1. endings[g] = 0
    BY <1>0, <1>1, <1>3 DEF TableSound, Made
  <2>2. endings' \in Seq(Nat) /\ Len(endings') = Len(endings)
        /\ \A h \in Made : endings'[h] = IF h = g THEN 1 ELSE endings[h]
    BY <1>0, <1>3, <2>1 DEF MirrorTyped, Made
  <2>3. table' \in [Grantees -> Nat] /\ \A u \in Grantees : table'[u] = IF u = grants[g].user THEN 0 ELSE table[u]
    BY <1>0, <1>3 DEF MirrorTyped
  <2>4. MirrorTyped'
    BY <1>0, <1>3, <2>2, <2>3 DEF MirrorTyped, Made
  <2>5. TableSound'
    BY <1>0, <2>2, <2>3 DEF TableSound, Made
  <2>6. GrantEndsOnce'
    BY <1>0, <2>2 DEF GrantEndsOnce, Made
  <2>7. \A h \in fired' : Expired(h)'
    BY <1>0 DEF Expired
  <2> QED
    BY <2>4, <2>5, <2>6, <2>7 DEF MirrorInv
<1> QED
  BY <1>2, <1>3 DEF expireMirrorGrant

LEMMA ShareKeeps == ASSUME MirrorInv, NEW c \in Shares, ShareInstall(c) PROVE MirrorInv'
<1>0. MirrorTyped /\ TableSound /\ GrantEndsOnce /\ \A h \in fired : Expired(h)
  BY DEF MirrorInv
<1> DEFINE new == [user |-> call[c].user, owner |-> call[c].owner,
                   console |-> call[c].console, exp |-> mclk + call[c].for]
           n == Len(grants) + 1
<1>1. call[c].user \in Grantees /\ new \in MirrorGrants
  <2>1. call[c] \in [pc : {"share"}, user : Grantees, for : Lives, console : BOOLEAN, owner : OwnerNames]
    BY DEF MirrorInv, ShareInstall, MirrorCall, Ready, Streaming
  <2>2. call[c].for \in Nat /\ mclk \in Nat
    BY <1>0, <2>1, MirrorAssumption DEF MirrorTyped
  <2> QED
    BY <2>1, <2>2 DEF MirrorGrants
<1>2. /\ grants' = Append(grants, new) /\ table' = [table EXCEPT ![call[c].user] = n]
      /\ timers' = (timers \ {table[call[c].user]}) \cup {n} /\ endings' = Append(endings, 0)
      /\ call' = [call EXCEPT ![c] = Ready] /\ UNCHANGED <<target, fired, mclk>>
  BY DEF ShareInstall, Rearm, Return
<1> HIDE DEF new
<1>3. /\ grants' \in Seq(MirrorGrants) /\ Len(grants') = n /\ grants'[n] = new
      /\ \A h \in Made : grants'[h] = grants[h]
  BY <1>0, <1>1, <1>2 DEF MirrorTyped, Made
<1>4. /\ endings' \in Seq(Nat) /\ Len(endings') = n /\ endings'[n] = 0
      /\ \A h \in Made : endings'[h] = endings[h]
  BY <1>0, <1>2 DEF MirrorTyped, Made
<1>5. table' \in [Grantees -> Nat] /\ \A u \in Grantees : table'[u] = IF u = call[c].user THEN n ELSE table[u]
  <2>1. n \in Nat /\ table \in [Grantees -> Nat]
    BY <1>0 DEF MirrorTyped
  <2>2. table' = [table EXCEPT ![call[c].user] = n]
    BY <1>2
  <2> HIDE DEF n
  <2> QED
    BY <2>1, <2>2
<1>6. Made' = Made \cup {n} /\ n \notin Made /\ Len(grants) \in Nat
  BY <1>0, <1>3 DEF MirrorTyped, Made
<1>7. MirrorTyped'
  BY <1>0, <1>2, <1>3, <1>4, <1>5, <1>6 DEF MirrorTyped
<1>8. TableSound'
  <2>1. new.user = call[c].user
    BY DEF new
  <2> QED
    BY <1>0, <1>3, <1>4, <1>5, <1>6, <2>1 DEF TableSound
<1>9. GrantEndsOnce'
  BY <1>0, <1>4, <1>6 DEF GrantEndsOnce
<1>10. \A h \in fired' : Expired(h)'
  BY <1>0, <1>2, <1>3 DEF Expired, MirrorTyped
<1>11. ASSUME NEW d \in Shares \cup Attaches PROVE MirrorCall(call'[d], grants', mclk')
  <2>1. CASE d = c
    <3>1. call'[d] = Ready
      BY <1>0, <1>2, <2>1 DEF MirrorTyped
    <3> QED
      BY <3>1 DEF MirrorCall
  <2>2. CASE d # c
    <3>1. call'[d] = call[d] /\ MirrorCall(call[d], grants, mclk)
      BY <1>0, <1>2, <2>2 DEF MirrorTyped, MirrorInv
    <3>2. /\ grants \in Seq(MirrorGrants) /\ grants' \in Seq(MirrorGrants) /\ mclk \in Nat /\ mclk' = mclk
          /\ Len(grants) \in Nat /\ Len(grants) <= Len(grants')
          /\ \A h \in 1..Len(grants) : grants'[h] = grants[h]
      BY <1>0, <1>2, <1>3 DEF MirrorTyped, Made
    <3>3. mclk <= mclk'
      BY <3>2
    <3> QED
      BY <3>1, <3>2, <3>3, CallsKeep
  <2> QED
    BY <2>1, <2>2
<1> QED
  BY <1>7, <1>8, <1>9, <1>10, <1>11 DEF MirrorInv

LEMMA UnshareKeeps == ASSUME MirrorInv, NEW c \in Shares, unshareMirror(c) PROVE MirrorInv'
<1>0. MirrorTyped /\ TableSound /\ GrantEndsOnce /\ \A h \in fired : Expired(h)
  BY DEF MirrorInv
<1>1. PICK who \in (SUBSET Grantees) \ {{}} :
        LET revoked == {table[u] : u \in who} \ {0} IN
          /\ table' = [u \in Grantees |-> IF u \in who THEN 0 ELSE table[u]]
          /\ timers' = timers \ revoked
          /\ endings' = [g \in Made |-> endings[g] + (IF g \in revoked THEN 1 ELSE 0)]
          /\ UNCHANGED <<target, grants, fired, call, mclk>>
  BY Zenon DEF unshareMirror
<1> DEFINE revoked == {table[u] : u \in who} \ {0}
<1>2. ASSUME NEW g \in revoked PROVE g \in Made /\ endings[g] = 0 /\ \A u \in Grantees : table[u] = g => u \in who
  <2>1. PICK u \in who : g = table[u]
    OBVIOUS
  <2> QED
    BY <1>0, <2>1 DEF TableSound
<1>3. /\ table' = [u \in Grantees |-> IF u \in who THEN 0 ELSE table[u]] /\ timers' = timers \ revoked
      /\ endings' = [g \in Made |-> endings[g] + (IF g \in revoked THEN 1 ELSE 0)]
      /\ UNCHANGED <<target, grants, fired, call, mclk>>
  BY <1>1
<1>4. \A u \in who : table[u] # 0 => table[u] \in revoked
  OBVIOUS
<1> HIDE DEF revoked
<1>5. \A g \in Made : endings[g] \in Nat
  BY <1>0 DEF MirrorTyped, Made
<1>6. endings' \in [Made -> Nat]
  BY <1>3, <1>5
<1>7. endings' \in Seq(Nat) /\ Len(endings') = Len(grants)
  <2>1. Len(grants) \in Nat
    BY <1>0 DEF MirrorTyped
  <2>2. endings' \in [1..Len(grants) -> Nat]
    BY <1>6 DEF Made
  <2> QED
    BY <2>1, <2>2
<1>8. \A g \in Made : endings'[g] <= 1 /\ (g \notin revoked => endings'[g] = endings[g])
  BY <1>0, <1>2, <1>3, <1>5 DEF GrantEndsOnce
<1>9. MirrorTyped'
  BY <1>0, <1>3, <1>7 DEF MirrorTyped, Made
<1>10. TableSound'
  BY <1>0, <1>2, <1>3, <1>4, <1>8 DEF TableSound, Made
<1>11. GrantEndsOnce' /\ \A h \in fired' : Expired(h)'
  BY <1>0, <1>3, <1>8 DEF GrantEndsOnce, Made, Expired
<1>12. \A d \in Shares \cup Attaches : MirrorCall(call'[d], grants', mclk')
  BY <1>3 DEF MirrorInv
<1> QED
  BY <1>9, <1>10, <1>11, <1>12 DEF MirrorInv

LEMMA AttachKeeps ==
  ASSUME MirrorInv, NEW c \in Attaches,
         AttachLook(c) \/ AttachExpires(c) \/ AttachDecide(c) \/ AttachLog(c) \/ mirrorStream(c) \/ Detach(c)
  PROVE  MirrorInv'
<1>0. MirrorTyped /\ TableSound /\ MirrorCall(call[c], grants, mclk)
  BY DEF MirrorInv
<1> DEFINE Aside == UNCHANGED <<target, table, grants, timers, fired, endings, mclk>>
<1>r. ASSUME Aside, Return(c) PROVE MirrorInv'
  BY <1>r, CallMoves DEF Return, MirrorCall
<1>1. CASE AttachLook(c)
  <2>1. PICK u \in Grantees, console \in BOOLEAN, privileged \in BOOLEAN :
          call' = [call EXCEPT ![c] =
            IF privileged THEN [pc |-> "log", user |-> u, console |-> console, g |-> 0]
            ELSE [pc |-> "grant", user |-> u, console |-> console, owner |-> target.user]]
    BY <1>1, Zenon DEF AttachLook
  <2>2. Aside /\ target.user \in OwnerNames
    BY <1>0, <1>1 DEF AttachLook, MirrorTyped
  <2> DEFINE r == IF privileged THEN [pc |-> "log", user |-> u, console |-> console, g |-> 0]
                  ELSE [pc |-> "grant", user |-> u, console |-> console, owner |-> target.user]
  <2>3. MirrorCall(r, grants, mclk)
    <3>1. CASE privileged
      BY <3>1 DEF MirrorCall, Streaming
    <3>2. CASE ~privileged
      BY <2>2, <3>2 DEF MirrorCall
    <3> QED
      BY <3>1, <3>2
  <2> HIDE DEF r
  <2>4. call' = [call EXCEPT ![c] = r]
    BY <2>1 DEF r
  <2> QED
    BY <2>2, <2>3, <2>4, CallMoves
<1>2. CASE AttachExpires(c)
  <2>1. call[c].g \in Made
    BY <1>0, <1>2 DEF AttachExpires, MirrorCall, Ready, Streaming, Made
  <2>2. call' = [call EXCEPT ![c] = Ready] /\ expireMirrorGrant(call[c].g) /\ UNCHANGED <<target, grants, fired, mclk>>
    BY <1>2 DEF AttachExpires, Return
  <2>3. DOMAIN call' = Shares \cup Attaches /\ \A d \in Shares \cup Attaches : call'[d] = IF d = c THEN Ready ELSE call[d]
    BY <1>0, <2>2 DEF MirrorTyped
  <2>4. \A d \in Shares \cup Attaches : MirrorCall(call'[d], grants, mclk)
    <3>1. MirrorCall(Ready, grants, mclk)
      BY DEF MirrorCall
    <3> QED
      BY <2>3, <3>1 DEF MirrorInv
  <2> QED
    BY <2>1, <2>2, <2>3, <2>4, ExpiryKeeps
<1>3. CASE AttachDecide(c)
  <2> DEFINE g == table[call[c].user]
  <2>1. call[c] \in [pc : {"grant"}, user : Grantees, console : BOOLEAN, owner : OwnerNames] /\ Aside
    BY <1>0, <1>3 DEF AttachDecide, MirrorCall, Ready, Streaming
  <2>2. g \in Nat /\ (g # 0 => g \in Made /\ grants[g].user = call[c].user)
    BY <1>0, <2>1 DEF MirrorTyped, TableSound
  <2>3. CASE g # 0 /\ Expired(g) /\ call' = [call EXCEPT ![c] = [pc |-> "expired", g |-> g]]
    <3> DEFINE r == [pc |-> "expired", g |-> g]
    <3>1. MirrorCall(r, grants, mclk)
      BY <2>2, <2>3 DEF MirrorCall, Made, Expired
    <3>2. call' = [call EXCEPT ![c] = r]
      BY <2>3
    <3> HIDE DEF r
    <3> QED
      BY <2>1, <3>1, <3>2, CallMoves
  <2>4. CASE g # 0 /\ enterpriseMirrorPeerAccess(c, g)
             /\ call' = [call EXCEPT ![c] = [pc |-> "log", user |-> call[c].user,
                               console |-> call[c].console, owner |-> call[c].owner, g |-> g]]
    <3> DEFINE r == [pc |-> "log", user |-> call[c].user,
                     console |-> call[c].console, owner |-> call[c].owner, g |-> g]
    <3>1. LetIn(r, grants)
      BY <2>1, <2>2, <2>4 DEF LetIn, enterpriseMirrorPeerAccess, Made
    <3>2. MirrorCall(r, grants, mclk)
      BY <2>1, <2>2, <3>1 DEF MirrorCall, Streaming
    <3>3. call' = [call EXCEPT ![c] = r]
      BY <2>4
    <3> HIDE DEF r
    <3> QED
      BY <2>1, <3>2, <3>3, CallMoves
  <2>5. CASE Return(c)
    BY <1>r, <2>1, <2>5
  <2> QED
    BY <1>3, <2>3, <2>4, <2>5 DEF AttachDecide
\* A call that was let in goes from one stage to the next.
<1>4. ASSUME NEW to \in Streaming, call[c].pc \in Streaming, call' = [call EXCEPT ![c].pc = to], Aside
      PROVE  MirrorInv'
  <2> DEFINE r == [call[c] EXCEPT !.pc = to]
  <2>1. call' = [call EXCEPT ![c] = r]
    BY <1>0, <1>4 DEF MirrorTyped
  <2>2. MirrorCall(r, grants, mclk)
    <3>1. CASE call[c] \in [pc : Streaming, user : Grantees, console : BOOLEAN, g : {0}]
      BY <3>1, <1>4 DEF MirrorCall
    <3>2. CASE /\ call[c] \in [pc : Streaming, user : Grantees, console : BOOLEAN, owner : OwnerNames, g : Nat]
               /\ LetIn(call[c], grants)
      <4>1. /\ r \in [pc : Streaming, user : Grantees, console : BOOLEAN, owner : OwnerNames, g : Nat]
            /\ r.g = call[c].g /\ r.user = call[c].user /\ r.owner = call[c].owner
            /\ r.console = call[c].console
        BY <1>4, <3>2
      <4>2. LetIn(r, grants)
        BY <3>2, <4>1 DEF LetIn
      <4> QED
        BY <4>1, <4>2 DEF MirrorCall
    <3> QED
      BY <1>0, <1>4, <3>1, <3>2 DEF MirrorCall, Ready, Streaming
  <2> HIDE DEF r
  <2> QED
    BY <1>4, <2>1, <2>2, CallMoves
<1>5. CASE AttachLog(c)
  BY <1>r, <1>4, <1>5 DEF AttachLog, Streaming
<1>6. CASE mirrorStream(c)
  BY <1>r, <1>4, <1>6 DEF mirrorStream, Streaming
<1>7. CASE Detach(c)
  BY <1>r, <1>7 DEF Detach
<1> QED
  BY <1>1, <1>2, <1>3, <1>5, <1>6, <1>7

LEMMA MirrorStep == MirrorInv /\ [MirrorNext]_mirrorVars => MirrorInv'
<1> SUFFICES ASSUME MirrorInv, [MirrorNext]_mirrorVars PROVE MirrorInv'
  OBVIOUS
<1>0. /\ MirrorTyped /\ TableSound /\ GrantEndsOnce /\ \A h \in fired : Expired(h)
      /\ \A c \in Shares \cup Attaches : MirrorCall(call[c], grants, mclk)
  BY DEF MirrorInv
<1>1. ASSUME NEW c \in Shares, ShareChecked(c) PROVE MirrorInv'
  <2>1. PICK u \in Grantees, d \in Lives, console \in BOOLEAN :
          call' = [call EXCEPT ![c] =
            [pc |-> "share", user |-> u, for |-> d, console |-> console, owner |-> target.user]]
    BY <1>1, Zenon DEF ShareChecked
  <2> DEFINE r == [pc |-> "share", user |-> u, for |-> d, console |-> console, owner |-> target.user]
  <2>2. target.user \in OwnerNames /\ UNCHANGED <<target, table, grants, timers, fired, endings, mclk>>
    BY <1>0, <1>1 DEF ShareChecked, MirrorTyped
  <2>3. MirrorCall(r, grants, mclk)
    BY <2>2 DEF MirrorCall
  <2>4. call' = [call EXCEPT ![c] = r]
    BY <2>1
  <2> HIDE DEF r
  <2> QED
    BY <2>2, <2>3, <2>4, CallMoves
<1>2. ASSUME NEW g \in Made, TimerFires(g) PROVE MirrorInv'
  <2>1. MirrorTyped' /\ TableSound' /\ GrantEndsOnce' /\ \A h \in fired' : Expired(h)'
    BY <1>0, <1>2 DEF TimerFires, MirrorTyped, TableSound, GrantEndsOnce, Made, Expired
  <2>2. \A c \in Shares \cup Attaches : MirrorCall(call'[c], grants', mclk')
    BY <1>0, <1>2 DEF TimerFires
  <2> QED
    BY <2>1, <2>2 DEF MirrorInv
<1>3. ASSUME NEW g \in Made, TimerRuns(g) PROVE MirrorInv'
  <2>1. expireMirrorGrant(g) /\ fired' \subseteq fired /\ UNCHANGED <<target, grants, call, mclk>>
    BY <1>3 DEF TimerRuns
  <2> QED
    BY <1>0, <2>1, ExpiryKeeps DEF MirrorTyped
<1>4. CASE Rename \/ MirrorUnregister \/ UNCHANGED mirrorVars
  <2>1. UNCHANGED <<table, grants, timers, fired, call, endings, mclk>>
        /\ target' \in [registered : BOOLEAN, cleared : BOOLEAN, user : OwnerNames]
    BY <1>0, <1>4 DEF Rename, MirrorUnregister, mirrorVars, MirrorTyped, OwnerNames
  <2> QED
    BY <1>0, <2>1 DEF MirrorInv, MirrorTyped, TableSound, GrantEndsOnce, Made, Expired
<1>5. CASE clearMirrorGrants
  <2>1. /\ target' \in [registered : BOOLEAN, cleared : BOOLEAN, user : OwnerNames]
        /\ table' = [u \in Grantees |-> 0] /\ timers' \subseteq timers /\ UNCHANGED <<grants, fired, call, endings, mclk>>
    BY <1>0, <1>5 DEF clearMirrorGrants, MirrorTyped
  <2> QED
    BY <1>0, <2>1 DEF MirrorInv, MirrorTyped, TableSound, GrantEndsOnce, Made, Expired
<1>6. CASE MirrorTick
  <2>1. mclk' = mclk + 1 /\ UNCHANGED <<target, table, grants, timers, fired, call, endings>>
    BY <1>6 DEF MirrorTick
  <2>2. MirrorTyped' /\ TableSound' /\ GrantEndsOnce'
    BY <1>0, <2>1 DEF MirrorTyped, TableSound, GrantEndsOnce, Made
  <2>3. \A h \in fired' : Expired(h)'
    <3> SUFFICES ASSUME NEW h \in fired PROVE mclk + 1 >= grants[h].exp
      BY <2>1 DEF Expired
    <3>1. mclk >= grants[h].exp /\ grants[h] \in MirrorGrants /\ mclk \in Nat
      BY <1>0 DEF Expired, MirrorTyped, Made
    <3> QED
      BY <3>1 DEF MirrorGrants
  <2>4. \A c \in Shares \cup Attaches : MirrorCall(call'[c], grants', mclk')
    BY <1>0, <2>1, CallsKeep DEF MirrorTyped
  <2> QED
    BY <2>2, <2>3, <2>4 DEF MirrorInv
<1> QED
  BY <1>1, <1>2, <1>3, <1>4, <1>5, <1>6, ShareKeeps, UnshareKeeps, AttachKeeps DEF MirrorNext, TimerStep

\* What a step may take from the table, for the timer, an access, a share and the hook.
LEMMA GrantsKept ==
  ASSUME MirrorInv, MirrorNext, NEW g \in Installed, g \notin {table'[u] : u \in Grantees}
  PROVE  \/ Expired(g)
         \/ table'[grants[g].user] # 0
         \/ \E c \in Shares : unshareMirror(c)
         \/ clearMirrorGrants
<1>0. /\ MirrorTyped /\ TableSound /\ \A h \in fired : Expired(h)
      /\ \A c \in Shares \cup Attaches : MirrorCall(call[c], grants, mclk)
  BY DEF MirrorInv
<1>1. g \in Made /\ grants[g].user \in Grantees /\ table[grants[g].user] = g
  <2>1. PICK u \in Grantees : table[u] = g /\ g # 0
    BY DEF Installed
  <2> QED
    BY <1>0, <2>1 DEF TableSound
<1>2. table'[grants[g].user] # g
  BY <1>1
<1>3. ASSUME UNCHANGED table PROVE FALSE
  BY <1>1, <1>2, <1>3
\* The expiry of a grant h that has expired.
<1>4. ASSUME NEW h \in Made, Expired(h), expireMirrorGrant(h) PROVE Expired(g)
  <2>1. table' = [table EXCEPT ![grants[h].user] = 0] /\ table[grants[h].user] = h
    BY <1>3, <1>4 DEF expireMirrorGrant
  <2>2. grants[h].user = grants[g].user
    BY <1>0, <1>1, <1>2, <2>1 DEF MirrorTyped
  <2> QED
    BY <1>1, <1>4, <2>1, <2>2
<1>5. ASSUME NEW c \in Shares, ShareInstall(c) PROVE table'[grants[g].user] # 0
  <2>1. table' = [table EXCEPT ![call[c].user] = Len(grants) + 1] /\ Len(grants) \in Nat
    BY <1>0, <1>5 DEF ShareInstall, MirrorTyped
  <2>2. call[c].user = grants[g].user
    BY <1>0, <1>1, <1>2, <2>1 DEF MirrorTyped
  <2> QED
    BY <1>0, <1>1, <2>1, <2>2 DEF MirrorTyped
<1>6. ASSUME NEW h \in Made, TimerFires(h) \/ TimerRuns(h) PROVE Expired(g)
  BY <1>0, <1>3, <1>4, <1>6 DEF TimerFires, TimerRuns
<1>7. ASSUME NEW c \in Attaches, AttachExpires(c) PROVE Expired(g)
  <2>1. call[c].g \in Made /\ Expired(call[c].g)
    BY <1>0, <1>7 DEF AttachExpires, MirrorCall, Ready, Streaming, Made, Expired
  <2> QED
    BY <1>4, <1>7, <2>1 DEF AttachExpires
<1>8. CASE \/ \E c \in Shares : ShareChecked(c)
           \/ \E c \in Attaches : AttachLook(c) \/ AttachDecide(c) \/ AttachLog(c) \/ mirrorStream(c) \/ Detach(c)
           \/ Rename \/ MirrorUnregister \/ MirrorTick
  <2>1. UNCHANGED table
    BY <1>8 DEF ShareChecked, AttachLook, AttachDecide, AttachLog, mirrorStream, Detach, Rename,
                MirrorUnregister, MirrorTick
  <2> QED
    BY <1>3, <2>1
<1> QED
  BY <1>5, <1>6, <1>7, <1>8 DEF MirrorNext, TimerStep

\* For any number of grants, users, timers and calls: what streams was granted so by the
\* user the session then had, no grant ends twice, and none goes before its time unless
\* its owner or the session takes it.
THEOREM GrantsAreKept == MirrorSpec => [](StreamsAsGranted /\ GrantEndsOnce) /\ GrantKeptItsTime
<1>1. MirrorInit => MirrorInv
  BY MirrorStart
<1>2. MirrorInv /\ [MirrorNext]_mirrorVars => MirrorInv'
  BY MirrorStep
<1>3. MirrorInv => StreamsAsGranted /\ GrantEndsOnce
  BY DEF MirrorInv, StreamsAsGranted, MirrorCall, LetIn, Ready, Streaming
<1> DEFINE Kept == \A g \in Installed :
      g \notin {table'[u] : u \in Grantees} =>
        \/ Expired(g)
        \/ table'[grants[g].user] # 0
        \/ \E c \in Shares : unshareMirror(c)
        \/ clearMirrorGrants
<1>4. MirrorInv /\ [MirrorNext]_mirrorVars => [Kept]_mirrorVars
  BY GrantsKept
<1> HIDE DEF Kept
<1>5. MirrorSpec => [][Kept]_mirrorVars
  BY <1>1, <1>2, <1>4, PTL DEF MirrorSpec
<1>6. MirrorSpec => GrantKeptItsTime
  BY <1>5 DEF Kept, GrantKeptItsTime
<1> QED
  BY <1>1, <1>2, <1>3, <1>6, PTL DEF MirrorSpec

-----------------------------------------------------------------------------
(* Startup.                                                                *)

LoginNeeds == {"args", "nondumpable", "monitor", "ping", "gate", "register"}
EngineNeeds == {"host", "log", "engine", "default"}
ShellNeeds == EngineNeeds \cup {"identity"}
FullNeeds == ShellNeeds \cup {"record", "register"}

Wants == [kind : {"shell"}, mode : Modes, serve : BOOLEAN, agent : BOOLEAN, tty : BOOLEAN]
           \cup [kind : {"login"}, mode : {"repl"}, serve : {FALSE}, agent : {FALSE}, tty : {TRUE}]

\* The stages in which code of a user has run or runs, and those before.
FullStages == {"recover", "session", "profiles", "chunk", "serve", "hook", "admin", "agent", "repl",
               "service"}
FirstStages == {"host", "log", "flags", "engine", "default", "guard", "identity", "record", "register",
                "args", "nondumpable", "monitor", "ping", "gate", "bind", "sah"}

\* What a process that has come to stage s of its kind has behind it.
ShellBehind(s, got) ==
    /\ s \in {"log", "flags", "engine", "default", "guard", "identity", "record", "register", "bind", "sah"}
         => "host" \in got
    /\ s \in {"flags", "engine", "default", "guard", "identity", "record", "register", "bind", "sah"}
         => "log" \in got
    /\ s \in {"default", "guard", "identity", "record", "register", "bind", "sah"} => "engine" \in got
    /\ s \in {"guard", "identity", "record", "register", "bind", "sah"} => "default" \in got
    /\ s \in {"record", "register", "bind", "sah"} => "identity" \in got
    /\ s = "register" => "record" \in got
    /\ s = "sah" => "bind" \in got
    /\ s \in FullStages => FullNeeds \subseteq got
    /\ s \in FullStages \cup FirstStages \cup {"over", "exit"}
    /\ s \notin {"args", "nondumpable", "monitor", "ping", "gate"}

LoginBehind(s, got) ==
    /\ s \in {"nondumpable", "monitor", "ping", "gate", "register"} => "args" \in got
    /\ s \in {"monitor", "ping", "gate", "register"} => "nondumpable" \in got
    /\ s \in {"ping", "gate", "register"} => "monitor" \in got
    /\ s \in {"gate", "register"} => "ping" \in got
    /\ s = "register" => "gate" \in got
    /\ s \in {"profiles", "repl"} => LoginNeeds \subseteq got
    /\ s \in LoginNeeds \cup {"profiles", "repl", "exit"}

StartInv ==
    /\ want \in Wants /\ RunsGoverned /\ ListenerHolds
    /\ want.kind = "shell" => ShellBehind(stage, have)
    /\ want.kind = "login" => LoginBehind(stage, have)
    /\ stage \in FirstStages => ranCode = {}
    /\ stage \in FullStages => "sah" \notin ranCode
    /\ stage = "chunk" => want.mode \in {"command", "script"}
    /\ toggling # "" => stage \in {"repl", "exit"}
    /\ toggling = "disabled" => ~port
    /\ chunk \in [logged : Nat, run : Nat] /\ ChunksRecorded

LEMMA PlaceOf ==
  ASSUME NEW q, NEW i \in 1..Len(q), \A j \in 1..Len(q) : q[j] = q[i] => j = i
  PROVE  (CHOOSE j \in 1..Len(q) : q[j] = q[i]) = i
OBVIOUS

\* What main does after each of its first stages.
LEMMA ShellGoesOn ==
  ASSUME want.kind = "shell"
  PROVE  /\ After("host") = "log" /\ After("log") = "flags" /\ After("flags") = "engine"
         /\ After("engine") = "default" /\ After("default") = "guard" /\ After("guard") = "identity"
         /\ After("identity") = (IF want.mode = "sah" THEN "bind" ELSE "record")
         /\ After("record") = "register"
         /\ After("register") = (IF want.mode = "recover" THEN "recover" ELSE "session")
<1>1. /\ Len(ShellStages) = 7 /\ ShellStages[1] = "host" /\ ShellStages[2] = "log" /\ ShellStages[3] = "flags"
      /\ ShellStages[4] = "engine" /\ ShellStages[5] = "default" /\ ShellStages[6] = "guard"
      /\ ShellStages[7] = "identity"
  BY DEF ShellStages
<1>2. Len(LocalStages) = 2 /\ LocalStages[1] = "record" /\ LocalStages[2] = "register"
  BY DEF LocalStages
<1>3. \A i \in 1..7 : (CHOOSE j \in 1..Len(ShellStages) : ShellStages[j] = ShellStages[i]) = i
  <2> SUFFICES ASSUME NEW i \in 1..7
               PROVE (CHOOSE j \in 1..Len(ShellStages) : ShellStages[j] = ShellStages[i]) = i
    OBVIOUS
  <2>1. \A j \in 1..Len(ShellStages) : ShellStages[j] = ShellStages[i] => j = i
    BY <1>1
  <2> QED
    BY <1>1, <2>1, PlaceOf
<1>4. \A i \in 1..2 : (CHOOSE j \in 1..Len(LocalStages) : LocalStages[j] = LocalStages[i]) = i
  <2> SUFFICES ASSUME NEW i \in 1..2
               PROVE (CHOOSE j \in 1..Len(LocalStages) : LocalStages[j] = LocalStages[i]) = i
    OBVIOUS
  <2>1. \A j \in 1..Len(LocalStages) : LocalStages[j] = LocalStages[i] => j = i
    BY <1>2
  <2> QED
    BY <1>2, <2>1, PlaceOf
<1>5. /\ (CHOOSE j \in 1..Len(ShellStages) : ShellStages[j] = "host") = 1
      /\ (CHOOSE j \in 1..Len(ShellStages) : ShellStages[j] = "log") = 2
      /\ (CHOOSE j \in 1..Len(ShellStages) : ShellStages[j] = "flags") = 3
      /\ (CHOOSE j \in 1..Len(ShellStages) : ShellStages[j] = "engine") = 4
      /\ (CHOOSE j \in 1..Len(ShellStages) : ShellStages[j] = "default") = 5
      /\ (CHOOSE j \in 1..Len(ShellStages) : ShellStages[j] = "guard") = 6
      /\ (CHOOSE j \in 1..Len(ShellStages) : ShellStages[j] = "identity") = 7
  BY <1>1, <1>3
<1>6. /\ (CHOOSE j \in 1..Len(LocalStages) : LocalStages[j] = "record") = 1
      /\ (CHOOSE j \in 1..Len(LocalStages) : LocalStages[j] = "register") = 2
  BY <1>2, <1>4
<1>7. \A j \in 1..Len(ShellStages) : ShellStages[j] \notin {"record", "register"}
  BY <1>1
<1> QED
  BY <1>1, <1>2, <1>5, <1>6, <1>7 DEF After

\* What a session process does after each of its own.
LEMMA LoginGoesOn ==
  ASSUME want.kind = "login"
  PROVE  /\ After("args") = "nondumpable" /\ After("nondumpable") = "monitor" /\ After("monitor") = "ping"
         /\ After("ping") = "gate" /\ After("gate") = "register" /\ After("register") = "profiles"
<1>1. /\ Len(LoginStages) = 6 /\ LoginStages[1] = "args" /\ LoginStages[2] = "nondumpable"
      /\ LoginStages[3] = "monitor" /\ LoginStages[4] = "ping" /\ LoginStages[5] = "gate"
      /\ LoginStages[6] = "register"
  BY DEF LoginStages
<1>2. \A i \in 1..6 : (CHOOSE j \in 1..Len(LoginStages) : LoginStages[j] = LoginStages[i]) = i
  <2> SUFFICES ASSUME NEW i \in 1..6
               PROVE (CHOOSE j \in 1..Len(LoginStages) : LoginStages[j] = LoginStages[i]) = i
    OBVIOUS
  <2>1. \A j \in 1..Len(LoginStages) : LoginStages[j] = LoginStages[i] => j = i
    BY <1>1
  <2> QED
    BY <1>1, <2>1, PlaceOf
<1>3. /\ (CHOOSE j \in 1..Len(LoginStages) : LoginStages[j] = "args") = 1
      /\ (CHOOSE j \in 1..Len(LoginStages) : LoginStages[j] = "nondumpable") = 2
      /\ (CHOOSE j \in 1..Len(LoginStages) : LoginStages[j] = "monitor") = 3
      /\ (CHOOSE j \in 1..Len(LoginStages) : LoginStages[j] = "ping") = 4
      /\ (CHOOSE j \in 1..Len(LoginStages) : LoginStages[j] = "gate") = 5
      /\ (CHOOSE j \in 1..Len(LoginStages) : LoginStages[j] = "register") = 6
  BY <1>1, <1>2
<1> QED
  BY <1>1, <1>3 DEF After

LEMMA StartupStart == StartupInit => StartInv
<1> SUFFICES ASSUME StartupInit PROVE StartInv
  OBVIOUS
<1>1. /\ want \in Wants /\ ranCode = {} /\ ~port /\ toggling = "" /\ chunk = [logged |-> 0, run |-> 0]
      /\ want.kind = "shell" => stage = "host"
      /\ want.kind = "login" => stage = "args"
      /\ want.kind \in {"shell", "login"}
  BY DEF StartupInit, Wants
<1>2. /\ want.kind = "shell" => ShellBehind(stage, have)
      /\ want.kind = "login" => LoginBehind(stage, have)
  BY <1>1 DEF ShellBehind, LoginBehind, FirstStages, FullStages, LoginNeeds
<1>3. RunsGoverned /\ ListenerHolds
  BY <1>1 DEF RunsGoverned, ListenerHolds
<1>c. chunk = [logged |-> 0, run |-> 0]
  BY <1>1
<1>4. chunk \in [logged : Nat, run : Nat] /\ ChunksRecorded
  BY <1>c DEF ChunksRecorded
<1>5. stage = "chunk" => want.mode \in {"command", "script"}
  BY <1>1
<1> QED
  BY <1>1, <1>2, <1>3, <1>4, <1>5 DEF StartInv

\* A process goes on to stage next with what it got and ran.
LEMMA StageMoves ==
  ASSUME StartInv, NEW onto, NEW got, NEW runs, Go(onto, got, runs), stage \notin {"hook", "exit"},
         stage # "repl" \/ onto = "repl",
         want.kind = "shell" => ShellBehind(onto, have \cup got),
         want.kind = "login" => LoginBehind(onto, have \cup got),
         onto \in FirstStages => ranCode \cup runs = {},
         onto \in FullStages => "sah" \notin ranCode \cup runs,
         onto = "chunk" => want.mode \in {"command", "script"},
         RunsGoverned'
  PROVE  StartInv'
<1>1. /\ stage' = onto /\ have' = have \cup got /\ ranCode' = ranCode \cup runs
      /\ UNCHANGED <<want, code, chunk, port, hook, toggling, hup, login, termed, spent>>
  BY DEF Go
<1>2. stage # "exit" => ListenerHolds'
  BY <1>1 DEF StartInv, ListenerHolds
<1> QED
  BY <1>1, <1>2 DEF StartInv, ChunksRecorded


LEMMA StageKeeps == ASSUME StartInv, NEW ok \in BOOLEAN, Stage(ok) PROVE StartInv'
<1>0. want \in Wants /\ ranCode = {} /\ want.kind \in {"shell", "login"}
  BY DEF StartInv, Stage, FirstStages, Wants
<1>1. CASE ExitWith(Fatal(stage))
  BY <1>1 DEF StartInv, ExitWith, RunsGoverned, ListenerHolds, ShellBehind, LoginBehind, ChunksRecorded,
              FirstStages, FullStages
<1>2. ASSUME NEW got \in {{}, {stage}}, Go(After(stage), got, {}), stage # "guard" => got = {stage},
             want.kind = "shell", ShellBehind(stage, have)
      PROVE  StartInv'
  <2>1. stage \in {"host", "log", "flags", "engine", "default", "guard", "identity", "record", "register"}
    BY <1>2 DEF Stage, ShellBehind
  <2> DEFINE onto == After(stage)
  <2>2. /\ ShellBehind(onto, have \cup got) /\ onto \notin {"chunk", "exit", "profiles"}
    BY <1>2, <2>1, ShellGoesOn DEF ShellBehind, FirstStages, FullStages, FullNeeds, ShellNeeds, EngineNeeds
  <2>3. RunsGoverned'
    BY <1>0, <1>2 DEF Go, StartInv, RunsGoverned
  <2> HIDE DEF onto
  <2>4. Go(onto, got, {})
    BY <1>2 DEF onto
  <2> QED
    BY <1>0, <1>2, <2>1, <2>2, <2>3, <2>4, StageMoves
<1>3. ASSUME Go(After(stage), {stage}, {}), want.kind = "login", LoginBehind(stage, have) PROVE StartInv'
  <2>1. stage \in {"args", "nondumpable", "monitor", "ping", "gate", "register"}
    BY <1>3 DEF Stage, LoginBehind, LoginNeeds
  <2> DEFINE onto == After(stage)
  <2>2. LoginBehind(onto, have \cup {stage}) /\ onto \notin {"chunk", "exit"}
    BY <1>3, <2>1, LoginGoesOn DEF LoginBehind, LoginNeeds
  <2>3. RunsGoverned'
    BY <1>0, <1>3 DEF Go, StartInv, RunsGoverned
  <2> HIDE DEF onto
  <2>4. Go(onto, {stage}, {})
    BY <1>3 DEF onto
  <2> QED
    BY <1>0, <1>3, <2>1, <2>2, <2>3, <2>4, StageMoves
<1>4. Fatal(stage) = 0 => stage = "guard"
  BY DEF Fatal, Stage
<1>5. want.kind = "login" => stage # "guard"
  BY DEF StartInv, LoginBehind, LoginNeeds
<1> QED
  BY <1>0, <1>1, <1>2, <1>3, <1>4, <1>5 DEF Stage, StartInv

\* A process that ends, and one that was hung up, leaves what it had and ran.
LEMMA EndKeeps ==
  ASSUME StartInv, stage' \in {stage, "exit"}, port' => port,
         UNCHANGED <<want, have, ranCode, hook, toggling>>,
         chunk' \in [logged : Nat, run : Nat], ChunksRecorded'
  PROVE  StartInv'
<1>1. RunsGoverned' /\ ListenerHolds'
  BY DEF StartInv, RunsGoverned, ListenerHolds
<1>2. /\ want.kind = "shell" => ShellBehind("exit", have)
      /\ want.kind = "login" => LoginBehind("exit", have)
  BY DEF ShellBehind, LoginBehind, FullStages, FirstStages, LoginNeeds
<1> QED
  BY <1>1, <1>2 DEF StartInv, FirstStages, FullStages

LEMMA ModesKeep ==
  ASSUME StartInv,
         runRecover \/ ExecScript \/ Repl \/ \E ok \in BOOLEAN : RunSAH(ok) \/ OpenUser(ok) \/ StartAgent(ok)
  PROVE  StartInv'
<1>0. /\ want \in Wants /\ want.kind \in {"shell", "login"} /\ RunsGoverned
      /\ want.kind = "shell" => ShellBehind(stage, have)
      /\ want.kind = "login" => LoginBehind(stage, have)
  BY DEF StartInv, Wants
<1>e. ASSUME ExitWith(1) PROVE StartInv'
  BY <1>e, EndKeeps DEF ExitWith, StartInv, ChunksRecorded
<1>1. CASE runRecover
  <2>1. stage = "recover" /\ Go("over", {}, {"recover"}) /\ want.kind = "shell" /\ FullNeeds \subseteq have
    BY <1>0, <1>1 DEF runRecover, ShellBehind, LoginBehind, FullStages, LoginNeeds
  <2>2. ShellBehind("over", have \cup {}) /\ RunsGoverned'
    BY <1>0, <2>1 DEF ShellBehind, FirstStages, FullStages, FullNeeds, ShellNeeds, EngineNeeds, RunsGoverned, Go, StartInv
  <2> QED
    BY <2>1, <2>2, StageMoves DEF FirstStages, FullStages
<1>2. CASE ExecScript
  <2>1. stage = "chunk" /\ Go("over", {}, {"script"}) /\ want.kind = "shell" /\ FullNeeds \subseteq have
    BY <1>0, <1>2 DEF ExecScript, ShellBehind, LoginBehind, FullStages, LoginNeeds
  <2>2. ShellBehind("over", have \cup {}) /\ RunsGoverned'
    BY <1>0, <2>1 DEF ShellBehind, FirstStages, FullStages, FullNeeds, ShellNeeds, EngineNeeds, RunsGoverned, Go, StartInv
  <2> QED
    BY <2>1, <2>2, StageMoves DEF FirstStages, FullStages
<1>3. CASE Repl
  <2>1. stage = "repl" /\ Go("repl", {}, {"repl"}) /\ "sah" \notin ranCode
    BY <1>3 DEF Repl, StartInv, FullStages
  <2>2. /\ want.kind = "shell" => ShellBehind("repl", have \cup {}) /\ FullNeeds \subseteq have
        /\ want.kind = "login" => LoginBehind("repl", have \cup {}) /\ LoginNeeds \subseteq have
    BY <1>0, <2>1 DEF ShellBehind, LoginBehind, FullStages
  <2>3. RunsGoverned'
    BY <1>0, <2>1, <2>2 DEF FullNeeds, ShellNeeds, EngineNeeds, LoginNeeds, RunsGoverned, Go, StartInv
  <2> QED
    BY <2>1, <2>2, <2>3, StageMoves DEF FirstStages
<1>4. ASSUME NEW ok \in BOOLEAN, RunSAH(ok) PROVE StartInv'
  <2>1. want.kind = "shell" /\ ranCode = {} /\ stage \in {"bind", "sah"}
    BY <1>0, <1>4 DEF RunSAH, LoginBehind, LoginNeeds, StartInv, FirstStages
  <2>2. CASE stage = "bind" /\ Go("sah", {"bind"}, {})
    <3>1. ShellBehind("sah", have \cup {"bind"}) /\ RunsGoverned'
      BY <1>0, <2>1, <2>2 DEF ShellBehind, FirstStages, FullStages, RunsGoverned, Go, StartInv
    <3> QED
      BY <2>1, <2>2, <3>1, StageMoves DEF FirstStages, FullStages
  <2>3. CASE stage = "sah" /\ Go("over", {}, {"sah"})
    <3>1. ShellBehind("over", have \cup {}) /\ RunsGoverned'
      BY <1>0, <2>1, <2>3 DEF ShellBehind, FirstStages, FullStages, RunsGoverned, Go, StartInv
    <3> QED
      BY <2>1, <2>3, <3>1, StageMoves DEF FirstStages, FullStages
  <2> QED
    BY <1>4, <1>e, <2>2, <2>3 DEF RunSAH
<1>5. ASSUME NEW ok \in BOOLEAN, OpenUser(ok) PROVE StartInv'
  <2>1. CASE stage = "session" /\ Go("profiles", {"session"}, {})
    <3>1. want.kind = "shell" /\ ShellBehind("profiles", have \cup {"session"}) /\ "sah" \notin ranCode
      BY <1>0, <2>1 DEF ShellBehind, LoginBehind, LoginNeeds, FirstStages, FullStages, StartInv
    <3>2. RunsGoverned'
      BY <1>0, <2>1 DEF RunsGoverned, Go, StartInv
    <3> QED
      BY <2>1, <3>1, <3>2, StageMoves DEF FirstStages
  <2>2. CASE stage = "profiles"
    <3> DEFINE onto == IF want.kind = "login" THEN "repl" ELSE IF want.mode = "command" THEN "chunk"
                       ELSE IF want.serve THEN "serve" ELSE "agent"
    <3>1. Go(onto, {}, {"profiles"}) /\ "sah" \notin ranCode
      BY <1>5, <2>2 DEF OpenUser, StartInv, FullStages
    <3>2. /\ want.kind = "shell" => ShellBehind(onto, have \cup {}) /\ FullNeeds \subseteq have
          /\ want.kind = "login" => LoginBehind(onto, have \cup {}) /\ LoginNeeds \subseteq have
      BY <1>0, <2>2 DEF ShellBehind, LoginBehind, FullStages, FirstStages
    <3>3. RunsGoverned'
      BY <1>0, <3>1, <3>2 DEF FullNeeds, ShellNeeds, EngineNeeds, LoginNeeds, RunsGoverned, Go, StartInv
    <3>4. /\ onto \in {"repl", "chunk", "serve", "agent"}
          /\ onto = "chunk" => want.mode = "command"
      OBVIOUS
    <3> HIDE DEF onto
    <3> QED
      BY <2>2, <3>1, <3>2, <3>3, <3>4, StageMoves DEF FirstStages
  <2> QED
    BY <1>5, <1>e, <2>1, <2>2 DEF OpenUser
<1>6. ASSUME NEW ok \in BOOLEAN, StartAgent(ok) PROVE StartInv'
  <2> DEFINE onto == IF want.mode = "script" THEN "chunk" ELSE "repl"
             got == IF want.agent THEN {"agent"} ELSE {}
  <2>1. CASE Go(onto, got, {})
    <3>1. stage = "agent" /\ "sah" \notin ranCode
      BY <1>6 DEF StartAgent, StartInv, FullStages
    <3>2. /\ want.kind = "shell" /\ ShellBehind(onto, have \cup got)
      BY <1>0, <3>1 DEF ShellBehind, LoginBehind, LoginNeeds, FullStages, FirstStages
    <3>3. RunsGoverned'
      BY <1>0, <2>1 DEF RunsGoverned, Go, StartInv
    <3>4. /\ onto \in {"repl", "chunk"}
          /\ onto = "chunk" => want.mode = "script"
      OBVIOUS
    <3> HIDE DEF onto, got
    <3> QED
      BY <2>1, <3>1, <3>2, <3>3, <3>4, StageMoves DEF FirstStages
  <2> QED
    BY <1>6, <1>e, <2>1 DEF StartAgent
<1> QED
  BY <1>1, <1>2, <1>3, <1>4, <1>5, <1>6

LEMMA ChunkKeeps ==
  ASSUME StartInv, NEW noted \in BOOLEAN, NEW ok \in BOOLEAN, NEW last \in BOOLEAN, evalOnce(noted, ok, last)
  PROVE  StartInv'
<1>1. /\ stage = "chunk" /\ want.kind = "shell" /\ FullNeeds \subseteq have /\ "sah" \notin ranCode
      /\ want.mode \in {"command", "script"}
  BY DEF evalOnce, StartInv, ShellBehind, LoginBehind, LoginNeeds, FullStages, Wants
<1>2. /\ stage' \in {stage, "exit"} /\ ranCode' \in {ranCode, ranCode \cup {want.mode}}
      /\ UNCHANGED <<want, have, port, hook, toggling>>
  BY DEF evalOnce
<1>3. chunk' \in [logged : Nat, run : Nat] /\ ChunksRecorded'
  <2>1. chunk \in [logged : Nat, run : Nat] /\ chunk.run <= chunk.logged
    BY DEF StartInv, ChunksRecorded
  <2>2. chunk' = chunk \/ chunk' = [logged |-> chunk.logged + 1, run |-> chunk.run + 1]
    BY DEF evalOnce
  <2> QED
    BY <2>1, <2>2 DEF ChunksRecorded
<1>4. RunsGoverned' /\ ListenerHolds'
  BY <1>1, <1>2 DEF StartInv, RunsGoverned, ListenerHolds, FullNeeds, ShellNeeds, EngineNeeds
<1>5. ShellBehind("exit", have)
  BY DEF ShellBehind, FullStages, FirstStages
<1> QED
  BY <1>1, <1>2, <1>3, <1>4, <1>5 DEF StartInv, FirstStages

LEMMA ListenKeeps ==
  ASSUME StartInv,
         (\E ok \in BOOLEAN : Serve(ok)) \/ enableSSHWithHangup \/ disableSSHClearHangup
  PROVE  StartInv'
<1>0. /\ want \in Wants /\ RunsGoverned /\ ListenerHolds
      /\ want.kind = "shell" => ShellBehind(stage, have)
      /\ want.kind = "login" => LoginBehind(stage, have)
  BY DEF StartInv
<1>1. ASSUME NEW ok \in BOOLEAN, Serve(ok) PROVE StartInv'
  <2>e. ASSUME ExitWith(1) PROVE StartInv'
    BY <2>e, EndKeeps DEF ExitWith, StartInv, ChunksRecorded
  <2>1. /\ want.kind = "shell" /\ FullNeeds \subseteq have /\ "sah" \notin ranCode /\ toggling = ""
        /\ stage \in {"serve", "hook", "admin"}
    BY <1>0, <1>1 DEF Serve, ShellBehind, LoginBehind, LoginNeeds, FullStages, Wants, StartInv
  <2>2. ASSUME stage' \in {"hook", "admin"}, UNCHANGED <<want, have, ranCode, chunk, toggling>>,
               RunsGoverned', ListenerHolds'
        PROVE  StartInv'
    <3>1. ShellBehind(stage', have')
      BY <2>1, <2>2 DEF ShellBehind, FullStages, FirstStages
    <3> QED
      BY <2>1, <2>2, <3>1 DEF StartInv, FirstStages, ChunksRecorded
  <2>3. CASE stage = "admin" /\ ~ExitWith(1)
    <3> DEFINE onto == IF want.mode = "repl" /\ ~want.tty THEN "service" ELSE "agent"
    <3>1. Go(onto, {}, {})
      BY <1>1, <2>3 DEF Serve
    <3>2. ShellBehind(onto, have \cup {})
      BY <2>1 DEF ShellBehind, FullStages, FirstStages
    <3>3. RunsGoverned'
      BY <1>0, <3>1 DEF RunsGoverned, Go
    <3>4. onto \in {"service", "agent"}
      OBVIOUS
    <3> HIDE DEF onto
    <3> QED
      BY <2>1, <2>3, <3>1, <3>2, <3>3, <3>4, StageMoves DEF FirstStages
  <2>4. CASE stage = "serve" /\ ~ExitWith(1)
    <3>1. /\ port' = TRUE /\ stage' = "hook" /\ "guard" \in have
          /\ UNCHANGED <<want, code, have, ranCode, chunk, hook, toggling, hup, login, termed, spent>>
      BY <1>1, <2>4 DEF Serve
    <3>2. RunsGoverned' /\ ListenerHolds'
      BY <1>0, <3>1 DEF RunsGoverned, ListenerHolds
    <3> QED
      BY <2>2, <3>1, <3>2
  <2>5. CASE stage = "hook"
    <3>1. /\ hook' = "stop" /\ stage' = "admin"
          /\ UNCHANGED <<want, code, have, ranCode, chunk, port, toggling, hup, login, termed, spent>>
      BY <1>1, <2>5 DEF Serve
    <3>2. RunsGoverned' /\ ListenerHolds'
      BY <1>0, <3>1 DEF RunsGoverned, ListenerHolds
    <3> QED
      BY <2>2, <3>1, <3>2
  <2> QED
    BY <2>e, <2>1, <2>3, <2>4, <2>5
<1>2. CASE enableSSHWithHangup \/ disableSSHClearHangup
  <2>1. stage = "repl" /\ UNCHANGED <<want, stage, have, ranCode, chunk>>
    BY <1>2 DEF enableSSHWithHangup, disableSSHClearHangup, Same
  <2>2. (port' => port \/ "guard" \in have) /\ (toggling' = "disabled" => ~port')
    <3>1. port' => port \/ "guard" \in have
      BY <1>2, Zenon DEF enableSSHWithHangup, disableSSHClearHangup
    <3>2. toggling' = "disabled" => ~port'
      BY <1>2 DEF enableSSHWithHangup, disableSSHClearHangup
    <3> QED
      BY <3>1, <3>2
  <2>3. port' /\ toggling' = "" => hook' = "stop"
    <3>1. CASE enableSSHWithHangup
      BY <3>1 DEF enableSSHWithHangup
    <3>2. CASE disableSSHClearHangup
      <4>1. toggling = "disabled" => ~port
        BY DEF StartInv
      <4> QED
        BY <3>2, <4>1 DEF disableSSHClearHangup
    <3> QED
      BY <1>2, <3>1, <3>2
  <2>4. RunsGoverned' /\ ListenerHolds'
    BY <1>0, <2>1, <2>2, <2>3 DEF RunsGoverned, ListenerHolds
  <2> QED
    BY <2>1, <2>2, <2>4 DEF StartInv, ChunksRecorded
<1> QED
  BY <1>1, <1>2

LEMMA StartupStep == StartInv /\ [StartupNext]_startVars => StartInv'
<1> SUFFICES ASSUME StartInv, [StartupNext]_startVars PROVE StartInv'
  OBVIOUS
<1>0. chunk \in [logged : Nat, run : Nat] /\ ChunksRecorded
  BY DEF StartInv
<1>1. ASSUME NEW ended \in {0, 1}, HelpOrDoctor(ended) \/ ReplEnds(ended) PROVE StartInv'
  <2>1. stage' = "exit" /\ UNCHANGED <<want, have, ranCode, chunk, port, hook, toggling>>
    BY <1>1 DEF HelpOrDoctor, ReplEnds, ExitWith
  <2> QED
    BY <1>0, <2>1, EndKeeps DEF ChunksRecorded
<1>2. CASE Terminate
  BY <1>2, EndKeeps DEF Terminate, ExitWith, StartInv, ChunksRecorded
<1>3. CASE SendTerm
  BY <1>3, EndKeeps DEF SendTerm, StartInv, ChunksRecorded
<1>4. CASE Hangup
  BY <1>4, EndKeeps DEF Hangup, Same, StartInv, ChunksRecorded
<1>5. CASE handleHangup
  BY <1>5, EndKeeps DEF handleHangup, StartInv, ChunksRecorded
<1>6. ASSUME NEW l \in Logins, BindLogin(l) \/ (\E ok \in BOOLEAN : SpawnLogin(l, ok)) \/ EndLogin(l) PROVE StartInv'
  <2>1. UNCHANGED <<want, stage, have, ranCode, chunk, port, hook, toggling>>
    BY <1>6 DEF BindLogin, SpawnLogin, EndLogin, SetLogin
  <2> QED
    BY <1>0, <2>1, EndKeeps DEF ChunksRecorded
<1>7. CASE UNCHANGED startVars
  BY <1>7, EndKeeps DEF startVars, StartInv, ChunksRecorded
<1> QED
  BY <1>1, <1>2, <1>3, <1>4, <1>5, <1>6, <1>7, StageKeeps, ModesKeep, ChunkKeeps, ListenKeeps
     DEF StartupNext, StartStep

\* For every command line, any logins, toggles and hangups: a process runs code only when all
\* of it is set up, what it ran is on record, its settled listener outlives a hangup, and a
\* hangup whose action was the listener's ends neither the process nor a login.
THEOREM ProcessesAreSetUp == StartupSpec => [](RunsGoverned /\ ListenerHolds /\ ChunksRecorded) /\ HangupSpares
<1>1. StartupInit => StartInv
  BY StartupStart
<1>2. StartInv /\ [StartupNext]_startVars => StartInv'
  BY StartupStep
<1>3. StartInv => RunsGoverned /\ ListenerHolds /\ ChunksRecorded
  BY DEF StartInv
<1> DEFINE Spares == (hup = "stop" /\ hup' = "idle") => (stage' = stage /\ login' = login)
<1>4. [StartupNext]_startVars => [Spares]_startVars
  <2> SUFFICES ASSUME StartupNext, hup = "stop", hup' = "idle" PROVE stage' = stage /\ login' = login
    OBVIOUS
  <2>1. CASE handleHangup
    BY <2>1 DEF handleHangup
  <2>2. hup' = hup \/ handleHangup
    BY DEF StartupNext, StartStep, Stage, RunSAH, OpenUser, Serve, StartAgent, runRecover, Terminate, HelpOrDoctor,
           ReplEnds, evalOnce, ExecScript, Repl, SendTerm, enableSSHWithHangup, disableSSHClearHangup, Hangup,
           BindLogin, SpawnLogin, EndLogin, SetLogin, Go, ExitWith, Same
  <2> QED
    BY <2>1, <2>2
<1>5. StartupSpec => HangupSpares
  BY <1>4, PTL DEF StartupSpec, HangupSpares, Spares
<1> QED
  BY <1>1, <1>2, <1>3, <1>5, PTL DEF StartupSpec

-----------------------------------------------------------------------------
(* Identity.                                                               *)

IdentFields == {"user", "source", "principals", "provider", "eligible", "elevation"}
ImportFields == {"pc", "user", "provider", "principals", "eligible"}

\* A role that a recorded admin import made eligible; an elevation to a role that is recorded
\* and, for a privileged role, was eligible when it was asked for.
Named(role, jn) == \E r \in jn : r.what = "import" /\ role \in r.roles
Elevates(role, exp, jn) ==
    /\ role \in Privileged => Named(role, jn)
    /\ [what |-> "elevate", role |-> role, exp |-> exp] \in jn

\* What a command carries, and what of it is on record where it is.
Importing(d, jn) ==
    /\ DOMAIN d = ImportFields /\ d.pc \in {"import", "import_identity", "import_oidc", "import_source"}
    /\ d.principals \cap Privileged = {}
    /\ d.pc # "import" => [what |-> "import", user |-> d.user, roles |-> d.eligible] \in jn

DeviceLogin(d, jn) ==
    /\ DOMAIN d = {"pc", "user", "deadline", "interval"} /\ d.deadline \in Nat /\ d.interval \in Nat
    /\ d.pc \in {"poll", "sleep", "write", "device", "device_identity", "device_source", "device_oidc"}
    /\ d.pc \in {"device_identity", "device_source", "device_oidc"}
         => [what |-> "device", user |-> d.user] \in jn

Elevating(d, jn) ==
    /\ DOMAIN d = {"pc", "role", "exp"} /\ d.pc \in {"elevate", "activate"}
    /\ d.role \in Privileged => Named(d.role, jn)
    /\ d.pc = "activate" => [what |-> "elevate", role |-> d.role, exp |-> d.exp] \in jn

Granting(d) ==
    /\ DOMAIN d = {"pc", "role"} /\ d.pc \in {"grant", "grant_add", "ungrant", "grant_remove"}
    /\ d.role \notin Privileged

Signing(d, jn) ==
    /\ DOMAIN d = {"pc", "key"} /\ d.pc \in {"ca", "ca_private", "ca_public", "cert", "cert_write"}
    /\ d.pc \in {"ca_private", "ca_public"} => [what |-> "ca", key |-> d.key] \in jn
    /\ d.pc = "cert_write" => [what |-> "cert", key |-> d.key] \in jn

JobSound(d, jn) ==
    \/ d = NoDevice \/ d = [pc |-> "approver"]
    \/ Importing(d, jn) \/ DeviceLogin(d, jn) \/ Elevating(d, jn) \/ Granting(d) \/ Signing(d, jn)

IdentSound ==
    /\ DOMAIN ident = IdentFields /\ ident.principals \cap Privileged = {}
    /\ \A role \in ident.eligible \cap Privileged : Named(role, journal)
    /\ ident.elevation # NoElevation => Elevates(ident.elevation.role, ident.elevation.exp, journal)

IdentityInv ==
    /\ IdentSound /\ IdentityOnRecord /\ clk \in Nat
    /\ DOMAIN ca = {"private", "public", "cert"} /\ DOMAIN device = Jobs
    /\ \A j \in Jobs : JobSound(device[j], journal)
    /\ ident.source = "device_login" /\ ident.eligible # {}
         => \E j \in Jobs : device[j].pc \in {"import_source", "device_oidc"}

LEMMA IdentityStart == IdentityInit => IdentityInv
<1> SUFFICES ASSUME IdentityInit PROVE IdentityInv
  OBVIOUS
<1>1. /\ DOMAIN ident = IdentFields /\ ident.principals = {} /\ ident.eligible = {}
      /\ ident.elevation = NoElevation /\ ident.user = Registered
  BY DEF IdentityInit, IdentFields
<1>2. IdentSound
  BY <1>1 DEF IdentSound
<1>3. DOMAIN ca = {"private", "public", "cert"} /\ ca.private = 0 /\ ca.cert = 0
  BY DEF IdentityInit
<1>4. IdentityOnRecord
  BY <1>1, <1>3 DEF IdentityOnRecord
<1>5. DOMAIN device = Jobs /\ (\A j \in Jobs : JobSound(device[j], journal)) /\ clk \in Nat
  BY DEF IdentityInit, JobSound
<1> QED
  BY <1>1, <1>2, <1>3, <1>4, <1>5 DEF IdentityInv

\* The audit log only grows.
LEMMA RecordsStay ==
  ASSUME NEW d, NEW jn, NEW kn, jn \subseteq kn, JobSound(d, jn) PROVE JobSound(d, kn)
BY DEF JobSound, Importing, DeviceLogin, Elevating, Granting, Signing, Named

\* Job j goes on to r; the session, the log and the files are dealt with by the caller.
LEMMA JobMoves ==
  ASSUME IdentityInv, NEW j \in Jobs, NEW r, device' = [device EXCEPT ![j] = r], JobSound(r, journal'),
         journal \subseteq journal', clk' \in Nat, DOMAIN ca' = {"private", "public", "cert"},
         IdentSound', IdentityOnRecord',
         \/ ident' = ident /\ device[j].pc \notin {"import_source", "device_oidc"}
         \/ r.pc \in {"import_source", "device_oidc"}
         \/ ident'.source # "device_login" \/ ident'.eligible = {}
         \/ /\ ident'.source = ident.source /\ ident'.eligible = ident.eligible
            /\ device[j].pc \notin {"import_source", "device_oidc"}
  PROVE  IdentityInv'
<1>1. DOMAIN device' = Jobs /\ device'[j] = r /\ \A k \in Jobs : k # j => device'[k] = device[k]
  BY DEF IdentityInv
<1>2. \A k \in Jobs : JobSound(device'[k], journal')
  BY <1>1, RecordsStay DEF IdentityInv
<1>3. ident'.source = "device_login" /\ ident'.eligible # {}
        => \E k \in Jobs : device'[k].pc \in {"import_source", "device_oidc"}
  BY <1>1 DEF IdentityInv
<1> QED
  BY <1>1, <1>2, <1>3 DEF IdentityInv

\* The session and the files stay as they are while the log grows.
LEMMA SessionStays ==
  ASSUME IdentSound, IdentityOnRecord, UNCHANGED <<ident, ca>>, journal \subseteq journal'
  PROVE  IdentSound' /\ IdentityOnRecord'
BY DEF IdentSound, IdentityOnRecord, Elevates, Named

\* A command that begins, ends or goes on where nothing but its place and the log change.
LEMMA Advances ==
  ASSUME IdentityInv, NEW j \in Jobs, NEW r, device' = [device EXCEPT ![j] = r], JobSound(r, journal'),
         journal \subseteq journal', UNCHANGED <<ident, ca>>, clk' \in Nat,
         device[j].pc \notin {"import_source", "device_oidc"}
  PROVE  IdentityInv'
<1>1. IdentSound' /\ IdentityOnRecord'
  BY SessionStays DEF IdentityInv
<1>2. DOMAIN ca' = {"private", "public", "cert"}
  BY DEF IdentityInv
<1> QED
  BY <1>1, <1>2, JobMoves

LEMMA BeginKeeps ==
  ASSUME IdentityInv, NEW j \in Jobs, NEW r, Begin(j, r), JobSound(r, journal) PROVE IdentityInv'
<1>1. /\ device[j] = NoDevice /\ device' = [device EXCEPT ![j] = r]
      /\ UNCHANGED <<ident, journal, ca, clk>>
  BY DEF Begin
<1>2. device[j].pc \notin {"import_source", "device_oidc"} /\ clk \in Nat
  BY <1>1 DEF NoDevice, IdentityInv
<1> QED
  BY <1>1, <1>2, Advances

LEMMA BeginsKeep ==
  ASSUME IdentityInv, NEW j \in Jobs,
         identityOIDCImport(j) \/ DeviceStart(j) \/ elevateRequest(j) \/ grantRequest(j) \/ grantDrop(j)
           \/ identitySSHCAInit(j) \/ issueSSHCertificate(j) \/ ApproverSource(j)
  PROVE  IdentityInv'
<1>1. CASE identityOIDCImport(j)
  <2>1. PICK provider \in {"", "login", "admin"}, t \in Tokens :
          Begin(j, [pc |-> "import", user |-> t.user, provider |-> provider,
               principals |-> FilterUnprivileged(t.groups),
               eligible |-> IF provider = "admin" THEN PrivilegedEligible(t.groups) ELSE {}])
    BY <1>1, Zenon DEF identityOIDCImport
  <2> DEFINE r == [pc |-> "import", user |-> t.user, provider |-> provider,
               principals |-> FilterUnprivileged(t.groups),
               eligible |-> IF provider = "admin" THEN PrivilegedEligible(t.groups) ELSE {}]
  <2>2. DOMAIN r = ImportFields /\ r.pc = "import" /\ r.principals = FilterUnprivileged(t.groups)
    BY DEF ImportFields
  <2>3. FilterUnprivileged(t.groups) \cap Privileged = {}
    BY DEF FilterUnprivileged, IsPrivilegedRole
  <2>4. Begin(j, r)
    BY <2>1
  <2> HIDE DEF r
  <2>5. JobSound(r, journal)
    BY <2>2, <2>3 DEF JobSound, Importing
  <2> QED
    BY <2>4, <2>5, BeginKeeps
<1>2. CASE DeviceStart(j)
  <2>1. PICK user \in DeviceUsers, expires \in 1 .. DeviceTimeout :
          Begin(j, [pc |-> "poll", user |-> user, deadline |-> clk + expires, interval |-> 1])
    BY <1>2, Zenon DEF DeviceStart
  <2> DEFINE r == [pc |-> "poll", user |-> user, deadline |-> clk + expires, interval |-> 1]
  <2>2. Begin(j, r)
    BY <2>1
  <2>t. clk + expires \in Nat
    BY IdentityAssumption DEF IdentityInv
  <2>3. DeviceLogin(r, journal)
    BY <2>t DEF DeviceLogin
  <2> HIDE DEF r
  <2> QED
    BY <2>2, <2>3, BeginKeeps DEF JobSound
<1>3. CASE elevateRequest(j)
  <2>1. PICK role \in Privileged \cup Roles :
          /\ IsPrivilegedRole(role) => ident.provider = "admin" /\ role \in ident.eligible
          /\ Begin(j, [pc |-> "elevate", role |-> role, exp |-> clk + TTL])
    BY <1>3, Zenon DEF elevateRequest
  <2> DEFINE r == [pc |-> "elevate", role |-> role, exp |-> clk + TTL]
  <2>2. Begin(j, r)
    BY <2>1
  <2>3. Elevating(r, journal)
    BY <2>1 DEF Elevating, IsPrivilegedRole, IdentityInv, IdentSound
  <2> HIDE DEF r
  <2> QED
    BY <2>2, <2>3, BeginKeeps DEF JobSound
<1>4. CASE grantRequest(j) \/ grantDrop(j)
  <2>1. PICK role : /\ ~IsPrivilegedRole(role)
                    /\ Begin(j, [pc |-> "grant", role |-> role]) \/ Begin(j, [pc |-> "ungrant", role |-> role])
    BY <1>4, Zenon DEF grantRequest, grantDrop
  <2>2. Granting([pc |-> "grant", role |-> role]) /\ Granting([pc |-> "ungrant", role |-> role])
    BY <2>1 DEF Granting, IsPrivilegedRole
  <2>3. JobSound([pc |-> "grant", role |-> role], journal) /\ JobSound([pc |-> "ungrant", role |-> role], journal)
    BY <2>2 DEF JobSound
  <2> QED
    BY <2>1, <2>3, BeginKeeps
<1>5. CASE identitySSHCAInit(j) \/ issueSSHCertificate(j)
  <2>1. PICK key : Begin(j, [pc |-> "ca", key |-> key]) \/ Begin(j, [pc |-> "cert", key |-> key])
    BY <1>5, Zenon DEF identitySSHCAInit, issueSSHCertificate
  <2>2. Signing([pc |-> "ca", key |-> key], journal) /\ Signing([pc |-> "cert", key |-> key], journal)
    BY DEF Signing
  <2>3. JobSound([pc |-> "ca", key |-> key], journal) /\ JobSound([pc |-> "cert", key |-> key], journal)
    BY <2>2 DEF JobSound
  <2> QED
    BY <2>1, <2>3, BeginKeeps
<1>6. CASE ApproverSource(j)
  <2>1. JobSound([pc |-> "approver"], journal)
    BY DEF JobSound
  <2> QED
    BY <1>6, <2>1, BeginKeeps DEF ApproverSource
<1> QED
  BY <1>1, <1>2, <1>3, <1>4, <1>5, <1>6

\* A command goes from one place to the next.
LEMMA PlaceOnly ==
  ASSUME NEW j \in Jobs, DOMAIN device = Jobs, NEW to, JobGoes(j, to), "pc" \in DOMAIN device[j]
  PROVE  /\ device' = [device EXCEPT ![j] = [device[j] EXCEPT !.pc = to]]
         /\ DOMAIN [device[j] EXCEPT !.pc = to] = DOMAIN device[j]
         /\ [device[j] EXCEPT !.pc = to].pc = to
         /\ \A f \in DOMAIN device[j] : f # "pc" => [device[j] EXCEPT !.pc = to][f] = device[j][f]
BY DEF JobGoes

\* The write that comes first: it is on record, or the command is over.
LEMMA LogKeeps ==
  ASSUME IdentityInv, NEW j \in Jobs, NEW from, NEW to, NEW what, LogFirst(j, from, to, what),
         from \notin {"import_source", "device_oidc"},
         JobSound([device[j] EXCEPT !.pc = to], journal \cup {what}), "pc" \in DOMAIN device[j]
  PROVE  IdentityInv'
<1>0. DOMAIN device = Jobs /\ clk' = clk /\ clk \in Nat /\ device[j].pc = from /\ UNCHANGED <<ident, ca>>
  BY DEF IdentityInv, LogFirst
<1>1. CASE journal' = journal \cup {what} /\ JobGoes(j, to)
  <2> DEFINE r == [device[j] EXCEPT !.pc = to]
  <2>1. device' = [device EXCEPT ![j] = r]
    BY <1>0, <1>1, PlaceOnly
  <2>2. JobSound(r, journal') /\ journal \subseteq journal'
    BY <1>1
  <2> HIDE DEF r
  <2> QED
    BY <1>0, <2>1, <2>2, Advances
<1>2. CASE UNCHANGED journal /\ device' = [device EXCEPT ![j] = NoDevice]
  <2>1. JobSound(NoDevice, journal') /\ journal \subseteq journal'
    BY <1>2 DEF JobSound
  <2> QED
    BY <1>0, <1>2, <2>1, Advances
<1> QED
  BY <1>1, <1>2 DEF LogFirst

\* What a command is by where it is.
LEMMA KindOf ==
  ASSUME IdentityInv, NEW j \in Jobs
  PROVE  /\ device[j].pc \in {"import", "import_identity", "import_oidc", "import_source"}
              => Importing(device[j], journal)
         /\ device[j].pc \in {"poll", "sleep", "write", "device", "device_identity", "device_source", "device_oidc"}
              => DeviceLogin(device[j], journal)
         /\ device[j].pc \in {"elevate", "activate"} => Elevating(device[j], journal)
         /\ device[j].pc \in {"grant", "grant_add", "ungrant", "grant_remove"} => Granting(device[j])
         /\ device[j].pc \in {"ca", "ca_private", "ca_public", "cert", "cert_write"} => Signing(device[j], journal)
<1>1. JobSound(device[j], journal)
  BY DEF IdentityInv
<1>2. CASE device[j] = NoDevice \/ device[j] = [pc |-> "approver"]
  <2>1. device[j].pc \in {"idle", "approver"}
    BY <1>2 DEF NoDevice
  <2> QED
    BY <2>1
<1>3. CASE Importing(device[j], journal)
  BY <1>3 DEF Importing
<1>4. CASE DeviceLogin(device[j], journal)
  BY <1>4 DEF DeviceLogin
<1>5. CASE Elevating(device[j], journal)
  BY <1>5 DEF Elevating
<1>6. CASE Granting(device[j])
  BY <1>6 DEF Granting
<1>7. CASE Signing(device[j], journal)
  BY <1>7 DEF Signing
<1> QED
  BY <1>1, <1>2, <1>3, <1>4, <1>5, <1>6, <1>7 DEF JobSound

LEMMA LogsKeep ==
  ASSUME IdentityInv, NEW j \in Jobs,
         ImportLog(j) \/ ElevateLog(j) \/ GrantLog(j) \/ UngrantLog(j) \/ CALog(j) \/ CertLog(j)
  PROVE  IdentityInv'
<1>0. DOMAIN device = Jobs
  BY DEF IdentityInv
<1> DEFINE Going(to) == [device[j] EXCEPT !.pc = to]
<1>p. ASSUME NEW to, "pc" \in DOMAIN device[j]
      PROVE  /\ DOMAIN Going(to) = DOMAIN device[j] /\ Going(to).pc = to
             /\ \A f \in DOMAIN device[j] : f # "pc" => Going(to)[f] = device[j][f]
  BY <1>p
<1> HIDE DEF Going
<1>1. CASE ImportLog(j)
  <2> DEFINE what == [what |-> "import", user |-> device[j].user, roles |-> device[j].eligible]
  <2>1. Importing(device[j], journal) /\ LogFirst(j, "import", "import_identity", what)
    BY <1>1, KindOf DEF ImportLog, LogFirst
  <2> HIDE DEF what
  <2>2. "pc" \in DOMAIN device[j] /\ DOMAIN device[j] = ImportFields
    BY <2>1 DEF Importing, ImportFields
  <2>3. /\ DOMAIN Going("import_identity") = ImportFields /\ Going("import_identity").pc = "import_identity"
        /\ Going("import_identity").user = device[j].user /\ Going("import_identity").eligible = device[j].eligible
        /\ Going("import_identity").principals = device[j].principals
    BY <1>p, <2>2 DEF ImportFields
  <2>4. Importing(Going("import_identity"), journal \cup {what})
    BY <2>1, <2>3 DEF Importing, what
  <2>5. JobSound([device[j] EXCEPT !.pc = "import_identity"], journal \cup {what})
    BY <2>4 DEF JobSound, Going
  <2> QED
    BY <2>1, <2>2, <2>5, LogKeeps
<1>2. CASE ElevateLog(j)
  <2> DEFINE what == [what |-> "elevate", role |-> device[j].role, exp |-> device[j].exp]
  <2>1. Elevating(device[j], journal) /\ LogFirst(j, "elevate", "activate", what)
    BY <1>2, KindOf DEF ElevateLog, LogFirst
  <2> HIDE DEF what
  <2>2. "pc" \in DOMAIN device[j] /\ DOMAIN device[j] = {"pc", "role", "exp"}
    BY <2>1 DEF Elevating
  <2>3. /\ DOMAIN Going("activate") = {"pc", "role", "exp"} /\ Going("activate").pc = "activate"
        /\ Going("activate").role = device[j].role /\ Going("activate").exp = device[j].exp
    BY <1>p, <2>2
  <2>4. Elevating(Going("activate"), journal \cup {what})
    BY <2>1, <2>3 DEF Elevating, what, Named
  <2>5. JobSound([device[j] EXCEPT !.pc = "activate"], journal \cup {what})
    BY <2>4 DEF JobSound, Going
  <2> QED
    BY <2>1, <2>2, <2>5, LogKeeps
<1>3. CASE GrantLog(j) \/ UngrantLog(j)
  <2>1. PICK to \in {"grant_add", "grant_remove"} : \E what : \E from \in {"grant", "ungrant"} :
          LogFirst(j, from, to, what)
    BY <1>3 DEF GrantLog, UngrantLog
  <2>0. PICK what : \E from \in {"grant", "ungrant"} : LogFirst(j, from, to, what)
    BY <2>1
  <2>f. PICK from \in {"grant", "ungrant"} : LogFirst(j, from, to, what)
    BY <2>0
  <2>2. Granting(device[j]) /\ "pc" \in DOMAIN device[j]
    BY <2>f, KindOf DEF LogFirst, Granting
  <2>3. DOMAIN Going(to) = DOMAIN device[j] /\ Going(to).pc = to /\ Going(to).role = device[j].role
    BY <1>p, <2>2 DEF Granting
  <2>4. Granting(Going(to))
    BY <2>1, <2>2, <2>3 DEF Granting
  <2>5. JobSound([device[j] EXCEPT !.pc = to], journal \cup {what})
    BY <2>4 DEF JobSound, Going
  <2> QED
    BY <2>f, <2>2, <2>5, LogKeeps
<1>4. CASE CALog(j)
  <2> DEFINE what == [what |-> "ca", key |-> device[j].key]
  <2>1. Signing(device[j], journal) /\ LogFirst(j, "ca", "ca_private", what)
    BY <1>4, KindOf DEF CALog, LogFirst
  <2> HIDE DEF what
  <2>2. "pc" \in DOMAIN device[j] /\ DOMAIN device[j] = {"pc", "key"}
    BY <2>1 DEF Signing
  <2>3. DOMAIN Going("ca_private") = {"pc", "key"} /\ Going("ca_private").pc = "ca_private" /\ Going("ca_private").key = device[j].key
    BY <1>p, <2>2
  <2>4. Signing(Going("ca_private"), journal \cup {what})
    BY <2>1, <2>3 DEF Signing, what
  <2>5. JobSound([device[j] EXCEPT !.pc = "ca_private"], journal \cup {what})
    BY <2>4 DEF JobSound, Going
  <2> QED
    BY <2>1, <2>2, <2>5, LogKeeps
<1>5. CASE CertLog(j)
  <2> DEFINE what == [what |-> "cert", key |-> device[j].key]
  <2>1. Signing(device[j], journal) /\ LogFirst(j, "cert", "cert_write", what)
    BY <1>5, KindOf DEF CertLog, LogFirst
  <2> HIDE DEF what
  <2>2. "pc" \in DOMAIN device[j] /\ DOMAIN device[j] = {"pc", "key"}
    BY <2>1 DEF Signing
  <2>3. DOMAIN Going("cert_write") = {"pc", "key"} /\ Going("cert_write").pc = "cert_write" /\ Going("cert_write").key = device[j].key
    BY <1>p, <2>2
  <2>4. Signing(Going("cert_write"), journal \cup {what})
    BY <2>1, <2>3 DEF Signing, what
  <2>5. JobSound([device[j] EXCEPT !.pc = "cert_write"], journal \cup {what})
    BY <2>4 DEF JobSound, Going
  <2> QED
    BY <2>1, <2>2, <2>5, LogKeeps
<1> QED
  BY <1>1, <1>2, <1>3, <1>4, <1>5


\* A command that is over.
LEMMA Over == JobSound(NoDevice, journal) /\ NoDevice.pc = "idle"
BY DEF JobSound, NoDevice

LEMMA ImportsKeep ==
  ASSUME IdentityInv, NEW j \in Jobs, ImportIdentity(j) \/ ImportOIDC(j) \/ ImportSource(j) PROVE IdentityInv'
<1>0. /\ DOMAIN device = Jobs /\ IdentSound /\ IdentityOnRecord
      /\ UNCHANGED <<journal, ca, clk>> /\ clk \in Nat /\ DOMAIN ca = {"private", "public", "cert"}
  BY DEF IdentityInv, ImportIdentity, ImportOIDC, ImportSource, OnSession
<1> DEFINE d == device[j]
<1>1. /\ Importing(d, journal) /\ [what |-> "import", user |-> d.user, roles |-> d.eligible] \in journal
      /\ "pc" \in DOMAIN d /\ DOMAIN d = ImportFields
  BY KindOf DEF ImportIdentity, ImportOIDC, ImportSource, OnSession, Importing, ImportFields
<1>2. ASSUME NEW to \in {"import_oidc", "import_source"}, JobGoes(j, to)
      PROVE  \E r : device' = [device EXCEPT ![j] = r] /\ JobSound(r, journal') /\ r.pc = to
  <2> DEFINE r == [device[j] EXCEPT !.pc = to]
  <2>1. device' = [device EXCEPT ![j] = r] /\ DOMAIN r = ImportFields /\ r.pc = to
        /\ r.user = d.user /\ r.eligible = d.eligible /\ r.principals = d.principals
    BY <1>0, <1>1, <1>2, PlaceOnly DEF ImportFields
  <2> HIDE DEF r
  <2>2. Importing(r, journal')
    BY <1>0, <1>1, <2>1 DEF Importing
  <2>3. JobSound(r, journal')
    BY <2>2 DEF JobSound
  <2> QED
    BY <2>1, <2>3
<1>3. CASE ImportIdentity(j)
  <2>1. /\ ident' = [ident EXCEPT !.user = d.user, !.principals = d.principals, !.source = "asserted"]
        /\ JobGoes(j, "import_oidc")
    BY <1>3 DEF ImportIdentity, IdentitySet, OnSession
  <2>2. /\ DOMAIN ident' = IdentFields /\ ident'.user = d.user /\ ident'.principals = d.principals
        /\ ident'.source = "asserted" /\ ident'.eligible = ident.eligible /\ ident'.elevation = ident.elevation
    BY <1>0, <2>1 DEF IdentSound, IdentFields
  <2>3. IdentSound'
    BY <1>0, <1>1, <2>2 DEF IdentSound, Importing
  <2>4. IdentityOnRecord'
    <3> DEFINE rec == [what |-> "import", user |-> d.user, roles |-> d.eligible]
    <3>1. rec.what = "import" /\ rec.user = d.user /\ rec \in journal
      BY <1>1
    <3> QED
      BY <1>0, <2>2, <3>1 DEF IdentityOnRecord
  <2>5. PICK r : device' = [device EXCEPT ![j] = r] /\ JobSound(r, journal') /\ r.pc = "import_oidc"
    BY <1>2, <2>1
  <2> QED
    BY <1>0, <2>2, <2>3, <2>4, <2>5, JobMoves
<1>4. CASE ImportOIDC(j)
  <2>1. ident' = [ident EXCEPT !.provider = d.provider, !.eligible = d.eligible] /\ JobGoes(j, "import_source")
    BY <1>4 DEF ImportOIDC, SetOIDC, OnSession
  <2>2. /\ DOMAIN ident' = IdentFields /\ ident'.user = ident.user /\ ident'.principals = ident.principals
        /\ ident'.eligible = d.eligible /\ ident'.elevation = ident.elevation
    BY <1>0, <2>1 DEF IdentSound, IdentFields
  <2>3. \A role \in d.eligible : Named(role, journal)
    <3> DEFINE rec == [what |-> "import", user |-> d.user, roles |-> d.eligible]
    <3>1. rec.what = "import" /\ rec.roles = d.eligible /\ rec \in journal
      BY <1>1
    <3> QED
      BY <3>1 DEF Named
  <2>4. IdentSound'
    BY <1>0, <2>2, <2>3 DEF IdentSound
  <2>5. IdentityOnRecord'
    BY <1>0, <2>2 DEF IdentityOnRecord
  <2>6. PICK r : device' = [device EXCEPT ![j] = r] /\ JobSound(r, journal') /\ r.pc = "import_source"
    BY <1>2, <2>1
  <2> QED
    BY <1>0, <2>4, <2>5, <2>6, JobMoves
<1>5. CASE ImportSource(j)
  <2>1. ident' = [ident EXCEPT !.source = "oidc_verified"] /\ device' = [device EXCEPT ![j] = NoDevice]
    BY <1>5 DEF ImportSource, IdentitySourceSet, OnSession
  <2>2. /\ DOMAIN ident' = IdentFields /\ ident'.user = ident.user /\ ident'.principals = ident.principals
        /\ ident'.source = "oidc_verified" /\ ident'.eligible = ident.eligible /\ ident'.elevation = ident.elevation
    BY <1>0, <2>1 DEF IdentSound, IdentFields
  <2>3. IdentSound' /\ IdentityOnRecord'
    BY <1>0, <2>2 DEF IdentSound, IdentityOnRecord
  <2>4. JobSound(NoDevice, journal')
    BY <1>0, Over
  <2> QED
    BY <1>0, <2>1, <2>2, <2>3, <2>4, JobMoves
<1> QED
  BY <1>3, <1>4, <1>5

LEMMA DevicesKeep ==
  ASSUME IdentityInv, NEW j \in Jobs, DeviceStep(j) PROVE IdentityInv'
<1>0. /\ DOMAIN device = Jobs /\ IdentSound /\ IdentityOnRecord /\ clk \in Nat
      /\ DOMAIN ca = {"private", "public", "cert"} /\ UNCHANGED ca
  BY DEF IdentityInv, DeviceStep, DevicePoll, deviceSleep, writeDeviceToken, DeviceLog, DeviceIdentity, DeviceSource,
         DeviceOIDC, OnSession
<1> DEFINE d == device[j]
           Fields == {"pc", "user", "deadline", "interval"}
           Timed(r) == DOMAIN r = Fields /\ r.deadline \in Nat /\ r.interval \in Nat
<1>1. DeviceLogin(d, journal) /\ Timed(d) /\ "pc" \in DOMAIN d
  <2>1. d.pc \in {"poll", "sleep", "write", "device", "device_identity", "device_source", "device_oidc"}
    BY DEF DeviceStep, DevicePoll, deviceSleep, writeDeviceToken, DeviceLog, DeviceIdentity, DeviceSource,
           DeviceOIDC, OnSession
  <2> QED
    BY <2>1, KindOf DEF DeviceLogin
\* The places where nothing is on record yet.
<1>2. ASSUME NEW r, Timed(r), r.pc \in {"poll", "sleep", "write", "device"} PROVE JobSound(r, journal)
  <2>1. DeviceLogin(r, journal)
    BY <1>2 DEF DeviceLogin
  <2> QED
    BY <2>1 DEF JobSound
<1>3. ASSUME NEW r, Timed(r) \/ r = NoDevice, r.pc \in {"poll", "sleep", "write", "device", "idle"},
             r = NoDevice \/ r.pc # "idle",
             device' = [device EXCEPT ![j] = r], UNCHANGED <<ident, journal>>, clk' \in Nat,
             d.pc \in {"poll", "sleep", "write", "device"}
      PROVE  IdentityInv'
  <2>1. JobSound(r, journal')
    BY <1>2, <1>3, Over
  <2> QED
    BY <1>0, <1>3, <2>1, Advances
<1>o. ASSUME device' = [device EXCEPT ![j] = NoDevice], UNCHANGED <<ident, journal>>, clk' \in Nat,
             d.pc \in {"poll", "sleep", "write", "device"}
      PROVE  IdentityInv'
  BY <1>o, <1>3, Over
<1>g. ASSUME NEW to \in {"poll", "sleep", "write", "device"}, JobGoes(j, to),
             UNCHANGED <<ident, journal>>, clk' \in Nat, d.pc \in {"poll", "sleep", "write", "device"}
      PROVE  IdentityInv'
  <2> DEFINE r == [device[j] EXCEPT !.pc = to]
  <2>1. device' = [device EXCEPT ![j] = r] /\ Timed(r) /\ r.pc = to
    BY <1>0, <1>1, <1>g, PlaceOnly
  <2> HIDE DEF r, Timed
  <2> QED
    BY <1>3, <1>g, <2>1
<1>4. CASE DevicePoll(j)
  <2>1. d.pc = "poll" /\ UNCHANGED <<ident, journal, clk>> /\ clk' \in Nat
    BY <1>0, <1>4 DEF DevicePoll
  <2>2. ASSUME NEW slower \in {0, 1},
               device' = [device EXCEPT ![j] = [device[j] EXCEPT !.pc = "sleep",
                            !.interval = IF device[j].interval + slower > DeviceTimeout THEN device[j].interval
                                         ELSE device[j].interval + slower]]
        PROVE  IdentityInv'
    <3> DEFINE r == [device[j] EXCEPT !.pc = "sleep",
                       !.interval = IF device[j].interval + slower > DeviceTimeout THEN device[j].interval
                                    ELSE device[j].interval + slower]
    <3>0. device' = [device EXCEPT ![j] = r]
      BY <1>0, <2>2
    <3>1. DOMAIN r = DOMAIN d /\ r.pc = "sleep" /\ r.deadline = d.deadline
          /\ r.interval = IF d.interval + slower > DeviceTimeout THEN d.interval ELSE d.interval + slower
      BY <1>1
    <3>2. Timed(r)
      BY <1>1, <3>1
    <3> HIDE DEF r, Timed
    <3> QED
      BY <1>3, <2>1, <3>0, <3>1, <3>2
  <2>3. CASE device' = [device EXCEPT ![j] = NoDevice]
    BY <1>o, <2>1, <2>3
  <2>4. CASE device' = [device EXCEPT ![j].pc = "write"]
    BY <1>g, <2>1, <2>4 DEF JobGoes
  <2> QED
    BY <1>4, <2>2, <2>3, <2>4 DEF DevicePoll
<1>5. CASE deviceSleep(j)
  <2>1. d.pc = "sleep" /\ UNCHANGED <<ident, journal>>
    BY <1>5 DEF deviceSleep
  <2>2. CASE UNCHANGED clk /\ device' = [device EXCEPT ![j] = NoDevice]
    BY <1>0, <1>o, <2>1, <2>2
  <2>3. CASE /\ clk' = clk + (IF device[j].interval > device[j].deadline - clk
                         THEN device[j].deadline - clk ELSE device[j].interval)
             /\ clk < device[j].deadline /\ JobGoes(j, "poll")
    <3>1. clk' \in Nat
      BY <1>0, <1>1, <2>3
    <3> QED
      BY <1>g, <2>1, <2>3, <3>1
  <2> QED
    BY <1>5, <2>2, <2>3 DEF deviceSleep
<1>6. CASE writeDeviceToken(j)
  <2>1. d.pc = "write" /\ UNCHANGED <<ident, journal, clk>> /\ clk' \in Nat
    BY <1>0, <1>6 DEF writeDeviceToken
  <2> QED
    BY <1>6, <1>o, <1>g, <2>1 DEF writeDeviceToken
\* A record first, then the session.
<1>r. ASSUME NEW to \in {"device_identity", "device_source", "device_oidc"}, JobGoes(j, to),
             [what |-> "device", user |-> d.user] \in journal'
      PROVE  \E r : device' = [device EXCEPT ![j] = r] /\ JobSound(r, journal') /\ r.pc = to
  <2> DEFINE r == [device[j] EXCEPT !.pc = to]
  <2>1. device' = [device EXCEPT ![j] = r] /\ Timed(r) /\ r.pc = to /\ r.user = d.user
    BY <1>0, <1>1, <1>r, PlaceOnly
  <2> HIDE DEF r
  <2>2. DeviceLogin(r, journal')
    BY <1>r, <2>1 DEF DeviceLogin
  <2> QED
    BY <2>1, <2>2 DEF JobSound
<1>7. CASE DeviceLog(j)
  <2>1. d.pc = "device" /\ UNCHANGED <<ident, clk>> /\ clk' \in Nat
    BY <1>0, <1>7 DEF DeviceLog
  <2>2. CASE journal' = journal \cup {[what |-> "device", user |-> device[j].user]} /\ JobGoes(j, "device_identity")
    <3>1. PICK r : device' = [device EXCEPT ![j] = r] /\ JobSound(r, journal') /\ r.pc = "device_identity"
      BY <1>r, <2>2
    <3> QED
      BY <1>0, <2>1, <2>2, <3>1, Advances
  <2>3. CASE device' = [device EXCEPT ![j] = NoDevice] /\ UNCHANGED journal
    BY <1>o, <2>1, <2>3
  <2> QED
    BY <1>7, <2>2, <2>3 DEF DeviceLog
<1>8. CASE DeviceIdentity(j) \/ DeviceSource(j) \/ DeviceOIDC(j)
  <2>1. UNCHANGED <<journal, clk>> /\ clk' \in Nat
    BY <1>0, <1>8 DEF DeviceIdentity, DeviceSource, DeviceOIDC, OnSession
  <2>2. [what |-> "device", user |-> d.user] \in journal'
    BY <1>1, <1>8, <2>1 DEF DeviceIdentity, DeviceSource, DeviceOIDC, OnSession, DeviceLogin
  <2>3. CASE DeviceIdentity(j)
    <3>1. /\ ident' = [ident EXCEPT !.user = d.user, !.principals = {}, !.source = "asserted"]
          /\ JobGoes(j, "device_source")
      BY <2>3 DEF DeviceIdentity, IdentitySet, OnSession
    <3>2. /\ DOMAIN ident' = IdentFields /\ ident'.user = d.user /\ ident'.principals = {}
          /\ ident'.source = "asserted" /\ ident'.eligible = ident.eligible /\ ident'.elevation = ident.elevation
      BY <1>0, <3>1 DEF IdentSound, IdentFields
    <3>3. IdentSound'
      BY <1>0, <2>1, <3>2 DEF IdentSound
    <3>4. IdentityOnRecord'
      <4> DEFINE rec == [what |-> "device", user |-> d.user]
      <4>1. rec.what = "device" /\ rec.user = d.user /\ rec \in journal'
        BY <2>2
      <4> QED
        BY <1>0, <2>1, <3>2, <4>1 DEF IdentityOnRecord
    <3>5. PICK r : device' = [device EXCEPT ![j] = r] /\ JobSound(r, journal') /\ r.pc = "device_source"
      BY <1>r, <2>2, <3>1
    <3> QED
      BY <1>0, <2>1, <3>2, <3>3, <3>4, <3>5, JobMoves
  <2>4. CASE DeviceSource(j)
    <3>1. ident' = [ident EXCEPT !.source = "device_login"] /\ JobGoes(j, "device_oidc")
      BY <2>4 DEF DeviceSource, IdentitySourceSet, OnSession
    <3>2. /\ DOMAIN ident' = IdentFields /\ ident'.user = ident.user /\ ident'.principals = ident.principals
          /\ ident'.eligible = ident.eligible /\ ident'.elevation = ident.elevation
      BY <1>0, <3>1 DEF IdentSound, IdentFields
    <3>3. IdentSound' /\ IdentityOnRecord'
      BY <1>0, <2>1, <3>2 DEF IdentSound, IdentityOnRecord
    <3>4. PICK r : device' = [device EXCEPT ![j] = r] /\ JobSound(r, journal') /\ r.pc = "device_oidc"
      BY <1>r, <2>2, <3>1
    <3> QED
      BY <1>0, <2>1, <3>3, <3>4, JobMoves
  <2>5. CASE DeviceOIDC(j)
    <3>1. ident' = [ident EXCEPT !.provider = "", !.eligible = {}] /\ device' = [device EXCEPT ![j] = NoDevice]
      BY <2>5 DEF DeviceOIDC, SetOIDC, OnSession
    <3>2. /\ DOMAIN ident' = IdentFields /\ ident'.user = ident.user /\ ident'.principals = ident.principals
          /\ ident'.eligible = {} /\ ident'.elevation = ident.elevation
      BY <1>0, <3>1 DEF IdentSound, IdentFields
    <3>3. IdentSound' /\ IdentityOnRecord'
      BY <1>0, <2>1, <3>2 DEF IdentSound, IdentityOnRecord
    <3>4. JobSound(NoDevice, journal')
      BY <2>1, Over
    <3> QED
      BY <1>0, <2>1, <3>1, <3>2, <3>3, <3>4, JobMoves
  <2> QED
    BY <1>8, <2>3, <2>4, <2>5
<1> QED
  BY <1>4, <1>5, <1>6, <1>7, <1>8 DEF DeviceStep

\* An elevation that is on record, and the principals without a privileged role.
LEMMA RolesKeep ==
  ASSUME IdentityInv, NEW j \in Jobs, ActivateElevation(j) \/ AddPrincipal(j) \/ RemovePrincipal(j)
  PROVE  IdentityInv'
<1>0. /\ DOMAIN device = Jobs /\ IdentSound /\ IdentityOnRecord /\ clk' \in Nat
      /\ DOMAIN ca = {"private", "public", "cert"} /\ UNCHANGED <<journal, ca>>
      /\ device[j].pc \in {"activate", "grant_add", "grant_remove"}
      /\ device' = [device EXCEPT ![j] = NoDevice]
  BY DEF IdentityInv, ActivateElevation, AddPrincipal, RemovePrincipal, OnSession
<1>1. JobSound(NoDevice, journal')
  BY <1>0, Over
<1>2. CASE ActivateElevation(j)
  <2> DEFINE e == [role |-> device[j].role, exp |-> device[j].exp]
  <2>1. Elevating(device[j], journal) /\ device[j].pc = "activate" /\ ident' = [ident EXCEPT !.elevation = e]
    BY <1>2, KindOf DEF ActivateElevation, OnSession
  <2>2. /\ DOMAIN ident' = IdentFields /\ ident'.user = ident.user /\ ident'.principals = ident.principals
        /\ ident'.source = ident.source /\ ident'.eligible = ident.eligible /\ ident'.elevation = e
    BY <1>0, <2>1 DEF IdentSound, IdentFields
  <2>3. e.role = device[j].role /\ e.exp = device[j].exp
    OBVIOUS
  <2> HIDE DEF e
  <2>4. Elevates(e.role, e.exp, journal)
    BY <2>1, <2>3 DEF Elevating, Elevates
  <2>5. IdentSound'
    BY <1>0, <2>2, <2>3, <2>4 DEF IdentSound
  <2>6. IdentityOnRecord'
    BY <1>0, <2>2 DEF IdentityOnRecord
  <2> QED
    BY <1>0, <1>1, <2>2, <2>5, <2>6, JobMoves
<1>3. CASE AddPrincipal(j) \/ RemovePrincipal(j)
  <2>1. Granting(device[j])
    BY <1>3, KindOf DEF AddPrincipal, RemovePrincipal, OnSession
  <2>2. PICK ps : ident' = [ident EXCEPT !.principals = ps] /\ ps \cap Privileged = {}
    <3>1. CASE AddPrincipal(j)
      <4> DEFINE more == ident.principals \cup {device[j].role}
      <4>1. more \cap Privileged = {}
        BY <1>0, <2>1 DEF Granting, IdentSound
      <4>2. ident' = [ident EXCEPT !.principals = more]
        BY <3>1 DEF AddPrincipal
      <4> QED
        BY <4>1, <4>2
    <3>2. CASE RemovePrincipal(j)
      <4> DEFINE fewer == ident.principals \ {device[j].role}
      <4>1. fewer \cap Privileged = {}
        BY <1>0 DEF IdentSound
      <4>2. ident' = [ident EXCEPT !.principals = fewer]
        BY <3>2 DEF RemovePrincipal
      <4> QED
        BY <4>1, <4>2
    <3> QED
      BY <1>3, <3>1, <3>2
  <2>3. /\ DOMAIN ident' = IdentFields /\ ident'.user = ident.user /\ ident'.principals = ps
        /\ ident'.source = ident.source /\ ident'.eligible = ident.eligible /\ ident'.elevation = ident.elevation
    BY <1>0, <2>2 DEF IdentSound, IdentFields
  <2>4. IdentSound' /\ IdentityOnRecord'
    BY <1>0, <2>2, <2>3 DEF IdentSound, IdentityOnRecord
  <2> QED
    BY <1>0, <1>1, <2>3, <2>4, JobMoves
<1> QED
  BY <1>2, <1>3

LEMMA FilesKeep ==
  ASSUME IdentityInv, NEW j \in Jobs, CAPrivate(j) \/ CAPublic(j) \/ CertWrite(j) \/ ApproverUser(j)
  PROVE  IdentityInv'
<1>0. /\ DOMAIN device = Jobs /\ IdentSound /\ IdentityOnRecord /\ clk' \in Nat
      /\ DOMAIN ca = {"private", "public", "cert"} /\ UNCHANGED <<ident, journal>>
      /\ device[j].pc \in {"ca_private", "ca_public", "cert_write", "approver"}
  BY DEF IdentityInv, CAPrivate, CAPublic, CertWrite, ApproverUser
<1> DEFINE d == device[j]
<1>1. ASSUME IdentityOnRecord', DOMAIN ca' = {"private", "public", "cert"},
             NEW r, device' = [device EXCEPT ![j] = r], JobSound(r, journal')
      PROVE  IdentityInv'
  <2>1. IdentSound'
    BY <1>0 DEF IdentSound
  <2> QED
    BY <1>0, <1>1, <2>1, JobMoves
<1>2. JobSound(NoDevice, journal')
  BY <1>0, Over
<1>3. CASE ApproverUser(j)
  <2>1. IdentityOnRecord' /\ UNCHANGED ca /\ device' = [device EXCEPT ![j] = NoDevice]
    BY <1>0, <1>3 DEF ApproverUser, IdentityOnRecord
  <2> QED
    BY <1>0, <1>1, <1>2, <2>1
<1>4. CASE CAPrivate(j)
  <2>1. Signing(d, journal) /\ d.pc = "ca_private" /\ DOMAIN d = {"pc", "key"}
    BY <1>4, KindOf DEF CAPrivate, Signing
  <2>2. CASE ca' = [ca EXCEPT !.private = device[j].key] /\ JobGoes(j, "ca_public")
    <3>1. DOMAIN ca' = {"private", "public", "cert"} /\ ca'.private = d.key /\ ca'.cert = ca.cert
      BY <1>0, <2>2
    <3>2. IdentityOnRecord'
      BY <1>0, <2>1, <3>1 DEF IdentityOnRecord, Signing
    <3> DEFINE r == [device[j] EXCEPT !.pc = "ca_public"]
    <3>3. device' = [device EXCEPT ![j] = r] /\ DOMAIN r = {"pc", "key"} /\ r.pc = "ca_public" /\ r.key = d.key
      BY <1>0, <2>1, <2>2, PlaceOnly
    <3> HIDE DEF r
    <3>4. Signing(r, journal')
      BY <1>0, <2>1, <3>3 DEF Signing
    <3>5. JobSound(r, journal')
      BY <3>4 DEF JobSound
    <3> QED
      BY <1>1, <3>1, <3>2, <3>3, <3>5
  <2>3. CASE UNCHANGED ca /\ device' = [device EXCEPT ![j] = NoDevice]
    <3>1. IdentityOnRecord'
      BY <1>0, <2>3 DEF IdentityOnRecord
    <3> QED
      BY <1>0, <1>1, <1>2, <2>3, <3>1
  <2> QED
    BY <1>4, <2>2, <2>3 DEF CAPrivate
<1>5. CASE CAPublic(j) \/ CertWrite(j)
  <2>1. Signing(d, journal) /\ device' = [device EXCEPT ![j] = NoDevice]
    BY <1>5, KindOf DEF CAPublic, CertWrite
  <2>2. /\ DOMAIN ca' = {"private", "public", "cert"} /\ ca'.private = ca.private
        /\ ca'.cert = ca.cert \/ (ca'.cert = d.key /\ d.pc = "cert_write")
    BY <1>0, <1>5 DEF CAPublic, CertWrite
  <2>3. IdentityOnRecord'
    BY <1>0, <2>1, <2>2 DEF IdentityOnRecord, Signing
  <2> QED
    BY <1>1, <1>2, <2>1, <2>2, <2>3
<1> QED
  BY <1>3, <1>4, <1>5

LEMMA IdentityStep == IdentityInv /\ [IdentityNext]_identityVars => IdentityInv'
<1> SUFFICES ASSUME IdentityInv, [IdentityNext]_identityVars PROVE IdentityInv'
  OBVIOUS
<1>0. IdentSound /\ IdentityOnRecord
  BY DEF IdentityInv
\* Where only the elevation, the log and the time change.
<1>1. ASSUME UNCHANGED <<device, ca>>, clk' \in Nat, journal \subseteq journal', IdentSound',
             ident'.user = ident.user, ident'.source = ident.source, ident'.eligible = ident.eligible
      PROVE  IdentityInv'
  <2>1. IdentityOnRecord'
    BY <1>0, <1>1 DEF IdentityOnRecord
  <2> QED
    BY <1>1, <2>1, RecordsStay DEF IdentityInv
<1>2. ASSUME ident' = [ident EXCEPT !.elevation = NoElevation], journal \subseteq journal', UNCHANGED <<device, ca, clk>>
      PROVE  IdentityInv'
  <2>1. /\ DOMAIN ident' = IdentFields /\ ident'.user = ident.user /\ ident'.principals = ident.principals
        /\ ident'.source = ident.source /\ ident'.eligible = ident.eligible /\ ident'.elevation = NoElevation
    BY <1>0, <1>2 DEF IdentSound, IdentFields
  <2>2. IdentSound'
    BY <1>0, <1>2, <2>1 DEF IdentSound, Named
  <2> QED
    BY <1>1, <1>2, <2>1, <2>2 DEF IdentityInv
<1>3. ASSUME NEW j \in Jobs, elevateDrop(j) PROVE IdentityInv'
  <2>1. /\ ident' = [ident EXCEPT !.elevation = NoElevation] /\ journal \subseteq journal'
        /\ UNCHANGED <<device, ca, clk>>
    BY <1>3 DEF elevateDrop
  <2> QED
    BY <1>2, <2>1
<1>4. CASE ReadElevation
  <2>1. /\ ident' = [ident EXCEPT !.elevation = NoElevation] /\ journal \subseteq journal'
        /\ UNCHANGED <<device, ca, clk>>
    BY <1>4 DEF ReadElevation
  <2> QED
    BY <1>2, <2>1
<1>5. CASE IdentityTick \/ UNCHANGED identityVars
  <2>1. UNCHANGED <<ident, device, journal, ca>> /\ clk' \in Nat
    BY <1>5 DEF IdentityTick, identityVars, IdentityInv
  <2>2. IdentSound'
    BY <1>0, <2>1 DEF IdentSound
  <2> QED
    BY <1>1, <2>1, <2>2
<1> QED
  BY <1>3, <1>4, <1>5, BeginsKeep, LogsKeep, ImportsKeep, DevicesKeep, RolesKeep, FilesKeep
     DEF IdentityNext, JobStep

\* For any jobs and tokens, any order of their calls on the session, the log and the files,
\* and any of those failing: a privileged role is vouched for by an import and an unexpired
\* elevation on record, a settled device login has none it may ask for, and no name, key or
\* certificate is without its record.
THEOREM RolesAreVouched == IdentitySpec => [](PrivilegeVouched /\ DeviceClearsEligible /\ IdentityOnRecord)
<1>1. IdentityInit => IdentityInv
  BY IdentityStart
<1>2. IdentityInv /\ [IdentityNext]_identityVars => IdentityInv'
  BY IdentityStep
<1>3. IdentityInv => PrivilegeVouched
  <2> SUFFICES ASSUME IdentityInv, NEW role \in PolicyGroups \cap Privileged
               PROVE  /\ \E r \in journal : r.what = "import" /\ role \in r.roles
                      /\ \E r \in journal : r.what = "elevate" /\ r.role = role /\ clk < r.exp
    BY DEF PrivilegeVouched
  <2>1. IdentSound /\ clk \in Nat
    BY DEF IdentityInv
  <2>2. role \in activeElevation
    BY <2>1 DEF PolicyGroups, IdentSound
  <2>3. clk < ident.elevation.exp /\ role = ident.elevation.role
    BY <2>2 DEF activeElevation
  <2>4. ident.elevation # NoElevation
    BY <2>1, <2>3 DEF NoElevation
  <2>5. Elevates(ident.elevation.role, ident.elevation.exp, journal)
    BY <2>1, <2>4 DEF IdentSound
  <2> DEFINE rec == [what |-> "elevate", role |-> role, exp |-> ident.elevation.exp]
  <2>6. rec \in journal /\ rec.what = "elevate" /\ rec.role = role /\ clk < rec.exp
    BY <2>3, <2>5 DEF Elevates
  <2>7. Named(role, journal)
    BY <2>3, <2>5 DEF Elevates
  <2> QED
    BY <2>6, <2>7 DEF Named
<1>4. IdentityInv => DeviceClearsEligible
  BY DEF IdentityInv, DeviceClearsEligible, NoDevice
<1>5. IdentityInv => IdentityOnRecord
  BY DEF IdentityInv
<1> QED
  BY <1>1, <1>2, <1>3, <1>4, <1>5, PTL DEF IdentitySpec

-----------------------------------------------------------------------------
(* McpServer.                                                              *)

ToolFields == {"at", "name", "class", "dry", "decides", "lines", "head", "seen", "answer"}
Boots == {"host", "tools", "engine", "session", "ready", "start", "serve", "serving",
          "exit0", "exit1", "exit2"}

\* What the process has set up when it has come to b.
BootSound(b, cap) ==
    /\ b \in Boots
    /\ b \in {"host", "tools", "engine"} => cap = {}
    /\ b = "session" => cap = {"engine"}
    /\ b = "ready" => cap = {"engine", "session"}
    /\ b \in {"start", "serve"} => cap = {"engine", "session", "default"}
    /\ b = "serving" => {"session", "engine", "default", "forbid"} \subseteq cap
    /\ b \in {"exit0", "exit1", "exit2"} => "session" \notin cap
    /\ b = "exit2" => "engine" \notin cap

\* A call: rated by its tool, on the allowlist and held to dry runs when its handler runs, and
\* recorded first where its tool does so.
CallSound(c) ==
    LET t == tool[c] IN
    /\ DOMAIN t = ToolFields
    /\ t.at \in {"none", "lock", "gate", "handler", "scan", "act", "end"}
    /\ t.at # "none" => t.class \in classifyAgentRisk(t.name)
    /\ t.at \in {"handler", "scan", "act"} =>
         t.name \in permit /\ (t.class = "destructive" /\ dryOnly => t.dry)
    /\ t.at = "act" => t.name = "eval_starlark"
    /\ t.at = "scan" => t.name = "audit_log"
    /\ t.at \in {"scan", "act"} => c \in mcpLog
    /\ c \in acted => t.at = "end"
    /\ boot \notin {"serving", "exit0", "exit1", "exit2"} => t.at = "none"

McpInv ==
    /\ DOMAIN tool = ToolCalls /\ BootSound(boot, agentBound) /\ acted \subseteq ToolCalls
    /\ \A c \in ToolCalls : CallSound(c)
    /\ AgentHeldBack /\ ResultsOnRecord

LEMMA McpStart == McpInit => McpInv
<1> SUFFICES ASSUME McpInit PROVE McpInv
  OBVIOUS
<1>1. NotCalled.at = "none" /\ DOMAIN NotCalled = ToolFields
  BY DEF NotCalled, ToolFields
<1>2. \A c \in ToolCalls : tool[c] = NotCalled
  BY DEF McpInit
<1>3. DOMAIN tool = ToolCalls /\ BootSound(boot, agentBound) /\ acted = {} /\ ~decided
  BY DEF McpInit, BootSound, Boots
<1>4. \A c \in ToolCalls : CallSound(c)
  BY <1>1, <1>2, <1>3 DEF CallSound
<1> QED
  BY <1>1, <1>2, <1>3, <1>4 DEF McpInv, AgentHeldBack, ResultsOnRecord

\* A step of the process moves no call; the allowlist is bound before there is any.
LEMMA BootKeeps ==
  ASSUME McpInv,
         (\E ok \in BOOLEAN, tools \in {AnyTool, {}, {"run_shell"}} : prepareMCPProcess(ok, tools))
           \/ \E b \in BOOLEAN : main(b) \/ StdioEnds(b)
  PROVE  McpInv'
<1>0. DOMAIN tool = ToolCalls /\ BootSound(boot, agentBound) /\ acted \subseteq ToolCalls
      /\ (\A c \in ToolCalls : CallSound(c)) /\ AgentHeldBack /\ ResultsOnRecord
  BY DEF McpInv
<1>1. UNCHANGED <<dryOnly, tool, mcpLog, acted, decided>>
  BY DEF prepareMCPProcess, main, StdioEnds
<1>2. boot \notin {"exit0", "exit1", "exit2"} /\ (boot = "serving" => boot' \in {"exit0", "exit1"} /\ permit' = permit)
  BY DEF prepareMCPProcess, main, StdioEnds
<1>3. BootSound(boot', agentBound')
  <2>1. ASSUME NEW ok \in BOOLEAN, NEW tools \in {AnyTool, {}, {"run_shell"}}, prepareMCPProcess(ok, tools)
        PROVE  BootSound(boot', agentBound')
    <3>1. CASE ~ok
      BY <1>0, <2>1, <3>1 DEF prepareMCPProcess, BootSound, Boots
    <3>2. CASE ok /\ boot \in {"host", "tools"}
      BY <1>0, <2>1, <3>2 DEF prepareMCPProcess, BootSound, Boots
    <3>3. CASE ok /\ boot = "engine"
      BY <1>0, <2>1, <3>3 DEF prepareMCPProcess, BootSound, Boots
    <3>4. CASE ok /\ boot = "session"
      BY <1>0, <2>1, <3>4 DEF prepareMCPProcess, BootSound, Boots
    <3> QED
      BY <2>1, <3>1, <3>2, <3>3, <3>4 DEF prepareMCPProcess
  <2>2. ASSUME NEW b \in BOOLEAN, main(b) PROVE BootSound(boot', agentBound')
    <3>1. CASE ~b
      BY <1>0, <2>2, <3>1 DEF main, BootSound, Boots
    <3>2. CASE b /\ boot = "ready"
      BY <1>0, <2>2, <3>2 DEF main, BootSound, Boots
    <3>3. CASE b /\ boot = "start"
      BY <1>0, <2>2, <3>3 DEF main, BootSound, Boots
    <3>4. CASE b /\ boot = "serve"
      BY <1>0, <2>2, <3>4 DEF main, BootSound, Boots, registerGovernedAdminTools
    <3> QED
      BY <2>2, <3>1, <3>2, <3>3, <3>4 DEF main
  <2>3. ASSUME NEW b \in BOOLEAN, StdioEnds(b) PROVE BootSound(boot', agentBound')
    BY <1>0, <2>3 DEF StdioEnds, BootSound, Boots
  <2> QED
    BY <2>1, <2>2, <2>3
<1>4. CASE boot = "serving"
  <2>1. \A c \in ToolCalls : CallSound(c)'
    BY <1>0, <1>1, <1>2, <1>4 DEF CallSound
  <2>2. AgentHeldBack' /\ ResultsOnRecord'
    BY <1>0, <1>1, <1>2, <1>4 DEF AgentHeldBack, ResultsOnRecord
  <2> QED
    BY <1>0, <1>1, <1>3, <2>1, <2>2 DEF McpInv
<1>5. CASE boot # "serving"
  <2>1. \A c \in ToolCalls : tool[c].at = "none" /\ c \notin acted
    BY <1>0, <1>2, <1>5 DEF CallSound
  <2>2. \A c \in ToolCalls : CallSound(c)'
    BY <1>0, <1>1, <2>1 DEF CallSound
  <2>3. AgentHeldBack' /\ ResultsOnRecord'
    BY <1>0, <1>1, <2>1 DEF AgentHeldBack, ResultsOnRecord
  <2> QED
    BY <1>0, <1>1, <1>3, <2>2, <2>3 DEF McpInv
<1> QED
  BY <1>4, <1>5

\* Call c goes on to r.
LEMMA ToolMoves ==
  ASSUME McpInv, NEW c \in ToolCalls, boot = "serving", UNCHANGED <<boot, agentBound, permit, dryOnly>>,
         c \notin acted, NEW r, tool' = [tool EXCEPT ![c] = r], mcpLog \subseteq mcpLog',
         mcpLog' \subseteq mcpLog \cup {c}, acted' \subseteq acted \cup {c}, acted \subseteq acted', ~decided',
         CallSound(c)', c \in acted' => r.name \in permit /\ (r.class = "destructive" => ~dryOnly)
                                        /\ (r.name = "run_shell" => ~r.dry),
         (r.at = "end" /\ r.answer = "ok" /\ r.name # "admin_list") => c \in mcpLog',
         (c \in acted' /\ c \notin mcpLog') => r.name = "run_shell" /\ r.answer = "error"
  PROVE  McpInv'
<1>0. DOMAIN tool = ToolCalls /\ BootSound(boot, agentBound) /\ acted \subseteq ToolCalls
      /\ (\A d \in ToolCalls : CallSound(d)) /\ AgentHeldBack /\ ResultsOnRecord
  BY DEF McpInv
<1>1. DOMAIN tool' = ToolCalls /\ tool'[c] = r /\ \A d \in ToolCalls : d # c => tool'[d] = tool[d]
  BY <1>0
<1>2. \A d \in ToolCalls : d # c => CallSound(d)'
  BY <1>0, <1>1 DEF CallSound
<1>3. AgentHeldBack'
  BY <1>0, <1>1 DEF AgentHeldBack
<1>4. ResultsOnRecord'
  BY <1>0, <1>1 DEF ResultsOnRecord
<1> QED
  BY <1>0, <1>1, <1>2, <1>3, <1>4 DEF McpInv

\* A call under way has done nothing yet, and its fields are what they were but where it is,
\* what it found and what it answers.
LEMMA CallKeeps ==
  ASSUME McpInv, NEW c \in ToolCalls, boot = "serving", tool[c].at \in {"lock", "gate", "handler", "scan", "act"},
         UNCHANGED <<boot, agentBound, permit, dryOnly>>, NEW r, tool' = [tool EXCEPT ![c] = r],
         DOMAIN r = ToolFields, r.name = tool[c].name, r.class = tool[c].class, r.dry = tool[c].dry,
         r.at \in {"gate", "handler", "scan", "act", "end"},
         mcpLog \subseteq mcpLog', mcpLog' \subseteq mcpLog \cup {c},
         acted' \in {acted, acted \cup {c}}, ~decided',
         r.at \in {"handler", "scan", "act"} =>
           r.name \in permit /\ (r.class = "destructive" /\ dryOnly => r.dry),
         r.at = "act" => r.name = "eval_starlark" /\ c \in mcpLog',
         r.at = "scan" => r.name = "audit_log" /\ c \in mcpLog',
         c \in acted' => r.at = "end" /\ r.name \in permit /\ (r.class = "destructive" => ~dryOnly)
                         /\ (r.name = "run_shell" => ~r.dry),
         (r.at = "end" /\ r.answer = "ok" /\ r.name # "admin_list") => c \in mcpLog',
         (c \in acted' /\ c \notin mcpLog') => r.name = "run_shell" /\ r.answer = "error"
  PROVE  McpInv'
<1>1. CallSound(c) /\ DOMAIN tool = ToolCalls
  BY DEF McpInv
<1>2. c \notin acted /\ tool[c].class \in classifyAgentRisk(tool[c].name)
  BY <1>1 DEF CallSound
<1>3. tool'[c] = r
  BY <1>1
<1>4. CallSound(c)'
  BY <1>1, <1>2, <1>3 DEF CallSound
<1> QED
  BY <1>1, <1>2, <1>4, ToolMoves

LEMMA CallStarts ==
  ASSUME McpInv, NEW c \in ToolCalls, NEW name \in ToolNames, NEW class \in Classes, NEW dry \in BOOLEAN,
         NEW decides \in BOOLEAN, CallTool(c, name, class, dry, decides)
  PROVE  McpInv'
<1> DEFINE r == [NotCalled EXCEPT !.at = "lock", !.name = name, !.class = class, !.dry = dry, !.decides = decides]
<1>1. /\ boot = "serving" /\ tool[c].at = "none" /\ class \in classifyAgentRisk(name) /\ tool' = [tool EXCEPT ![c] = r]
      /\ UNCHANGED <<boot, agentBound, permit, dryOnly, toolMu, mcpLog, acted, decided>>
  BY DEF CallTool, CallAt
<1>2. DOMAIN r = ToolFields /\ r.at = "lock" /\ r.name = name /\ r.class = class
  BY DEF NotCalled, ToolFields
<1> HIDE DEF r
<1>3. CallSound(c) /\ DOMAIN tool = ToolCalls /\ ~decided
  BY DEF McpInv, AgentHeldBack
<1>4. c \notin acted
  BY <1>1, <1>3 DEF CallSound
<1>5. tool'[c] = r
  BY <1>1, <1>3
<1>6. CallSound(c)'
  BY <1>1, <1>2, <1>4, <1>5 DEF CallSound
<1> QED
  BY <1>1, <1>2, <1>3, <1>4, <1>6, ToolMoves

LEMMA ToolStepKeeps == ASSUME McpInv, NEW c \in ToolCalls, ToolStep(c) PROVE McpInv'
<1> DEFINE t == tool[c]
           Becomes(r) == /\ DOMAIN r = ToolFields /\ r.name = t.name /\ r.class = t.class /\ r.dry = t.dry
                         /\ tool' = [tool EXCEPT ![c] = r]
<1>0. /\ CallSound(c) /\ DOMAIN tool = ToolCalls /\ ~decided /\ BootSound(boot, agentBound) /\ DOMAIN t = ToolFields
  BY DEF McpInv, AgentHeldBack, CallSound
<1>a. ASSUME NEW to, tool' = [tool EXCEPT ![c].at = to] PROVE \E r : r.at = to /\ Becomes(r)
  <2> DEFINE r == [tool[c] EXCEPT !.at = to]
  <2>1. r.at = to /\ Becomes(r)
    BY <1>0, <1>a DEF ToolFields
  <2> QED
    BY <2>1
<1>b. ASSUME NEW answer, Reply(c, answer) PROVE \E r : r.at = "end" /\ r.answer = answer /\ Becomes(r)
  <2> DEFINE r == [tool[c] EXCEPT !.at = "end", !.answer = answer]
  <2>1. r.at = "end" /\ r.answer = answer /\ Becomes(r)
    BY <1>0, <1>b DEF ToolFields, Reply
  <2> QED
    BY <2>1
<1>1. CASE Lock(c)
  <2>1. /\ CallAt(c, "lock") /\ tool' = [tool EXCEPT ![c].at = "gate"]
        /\ UNCHANGED <<boot, agentBound, permit, dryOnly, mcpLog, acted, decided>>
    BY <1>1 DEF Lock
  <2>2. c \notin acted /\ boot = "serving" /\ t.at = "lock"
    BY <1>0, <2>1 DEF CallSound, CallAt
  <2>3. PICK r : r.at = "gate" /\ Becomes(r)
    BY <1>a, <2>1
  <2> QED
    BY <1>0, <2>1, <2>2, <2>3, CallKeeps
<1>2. ASSUME NEW allowed \in BOOLEAN, policyGate(c, allowed) PROVE McpInv'
  <2>1. CallAt(c, "gate") /\ UNCHANGED <<boot, agentBound, permit, dryOnly, mcpLog, acted, decided>>
    BY <1>2 DEF policyGate
  <2>2. c \notin acted /\ boot = "serving" /\ t.at = "gate"
    BY <1>0, <2>1 DEF CallSound, CallAt
  <2>3. CASE Reply(c, "refused")
    <3>1. PICK r : r.at = "end" /\ r.answer = "refused" /\ Becomes(r)
      BY <1>b, <2>3
    <3> QED
      BY <1>0, <2>1, <2>2, <3>1, CallKeeps
  <2>4. CASE ~Reply(c, "refused")
    <3>1. tool' = [tool EXCEPT ![c].at = "handler"] /\ t.name \in permit /\ (t.class = "destructive" /\ dryOnly => t.dry)
      BY <1>2, <2>4 DEF policyGate, agentToolEntitled
    <3>2. PICK r : r.at = "handler" /\ Becomes(r)
      BY <1>a, <3>1
    <3> QED
      BY <1>0, <2>1, <2>2, <3>1, <3>2, CallKeeps
  <2> QED
    BY <2>3, <2>4
<1>3. ASSUME NEW noted \in BOOLEAN, RecordFirst(c, noted) PROVE McpInv'
  <2>1. /\ CallAt(c, "handler") /\ t.name \in {"eval_starlark", "audit_log"}
        /\ UNCHANGED <<boot, agentBound, permit, dryOnly, acted, decided>>
    BY <1>3 DEF RecordFirst
  <2>2. /\ c \notin acted /\ t.name \in permit /\ (t.class = "destructive" /\ dryOnly => t.dry)
        /\ boot = "serving" /\ t.at = "handler"
    BY <1>0, <2>1 DEF CallSound, CallAt
  <2>3. CASE ~noted
    <3>1. PICK r : r.at = "end" /\ r.answer = "error" /\ Becomes(r)
      BY <1>3, <1>b, <2>3 DEF RecordFirst
    <3>2. UNCHANGED mcpLog
      BY <1>3, <2>3 DEF RecordFirst
    <3> QED
      BY <1>0, <2>1, <2>2, <3>1, <3>2, CallKeeps
  <2>4. CASE noted
    <3> DEFINE to == IF tool[c].name = "audit_log" THEN "scan" ELSE "act"
    <3>1. mcpLog' = mcpLog \cup {c} /\ tool' = [tool EXCEPT ![c].at = to]
      BY <1>3, <2>4 DEF RecordFirst
    <3>2. PICK r : r.at = to /\ Becomes(r)
      BY <1>a, <3>1
    <3>3. (to = "scan" /\ t.name = "audit_log") \/ (to = "act" /\ t.name = "eval_starlark")
      BY <2>1
    <3> HIDE DEF to
    <3>4. c \notin acted' /\ c \in mcpLog' /\ mcpLog \subseteq mcpLog'
      BY <2>1, <2>2, <3>1
    <3> QED
      BY <1>0, <2>1, <2>2, <3>1, <3>2, <3>3, <3>4, CallKeeps
  <2> QED
    BY <2>3, <2>4
<1>f. ASSUME boot = "serving", Decides(c) PROVE ~decided'
  BY <1>0, <1>f DEF Decides, BootSound
<1>4. ASSUME NEW ok \in BOOLEAN, Act(c, ok) PROVE McpInv'
  <2>1. /\ CallAt(c, "act") /\ acted' = acted \cup {c} /\ Reply(c, IF ok THEN "ok" ELSE "error") /\ Decides(c)
        /\ UNCHANGED <<boot, agentBound, permit, dryOnly, mcpLog>>
    BY <1>4 DEF Act
  <2>2. /\ c \in mcpLog /\ t.name = "eval_starlark" /\ t.name \in permit /\ boot = "serving" /\ t.at = "act"
        /\ c \in mcpLog'
    BY <1>0, <2>1 DEF CallSound, CallAt
  <2>3. t.class # "destructive" /\ ~decided'
    BY <1>0, <1>f, <2>1, <2>2 DEF CallSound, classifyAgentRisk
  <2>4. PICK r : r.at = "end" /\ Becomes(r)
    BY <1>b, <2>1
  <2> QED
    BY <2>1, <2>2, <2>3, <2>4, CallKeeps
<1>5. ASSUME NEW gated \in BOOLEAN, NEW noted \in BOOLEAN, handleRunShell(c, gated, noted) PROVE McpInv'
  <2> DEFINE answer == IF (gated \/ tool[c].dry) /\ noted THEN "ok" ELSE "error"
  <2>1. /\ CallAt(c, "handler") /\ t.name = "run_shell" /\ Reply(c, answer)
        /\ UNCHANGED <<boot, agentBound, permit, dryOnly>>
        /\ mcpLog' = IF noted THEN mcpLog \cup {c} ELSE mcpLog
        /\ acted' = IF gated /\ ~tool[c].dry THEN acted \cup {c} ELSE acted
        /\ IF gated /\ ~tool[c].dry THEN Decides(c) ELSE UNCHANGED decided
    BY <1>5 DEF handleRunShell
  <2>2. /\ c \notin acted /\ t.name \in permit /\ (t.class = "destructive" /\ dryOnly => t.dry)
        /\ boot = "serving" /\ t.at = "handler"
    BY <1>0, <2>1 DEF CallSound, CallAt
  <2>3. ~decided'
    BY <1>0, <1>f, <2>1, <2>2
  <2>4. PICK r : r.at = "end" /\ r.answer = answer /\ Becomes(r)
    BY <1>b, <2>1
  <2>5. answer \in {"ok", "error"} /\ (answer = "ok" => noted) /\ (~noted => answer = "error")
    OBVIOUS
  <2> HIDE DEF answer
  <2>6. c \in acted' => ~t.dry
    BY <2>1, <2>2
  <2>7. acted' \in {acted, acted \cup {c}} /\ mcpLog \subseteq mcpLog' /\ mcpLog' \subseteq mcpLog \cup {c}
    BY <2>1
  <2>8. noted => c \in mcpLog'
    BY <2>1
  <2>9. r.name = "run_shell" /\ r.name \in permit /\ (c \in acted' => (r.class = "destructive" => ~dryOnly) /\ ~r.dry)
    BY <2>1, <2>2, <2>4, <2>6
  <2>10. (r.answer = "ok" => c \in mcpLog') /\ (c \notin mcpLog' => r.answer = "error")
    BY <2>4, <2>5, <2>8
  <2> QED
    BY <2>1, <2>2, <2>3, <2>4, <2>7, <2>9, <2>10, CallKeeps
<1>6. ASSUME NEW ok \in BOOLEAN, handleAdmin(c, ok) PROVE McpInv'
  <2>1. /\ CallAt(c, "handler") /\ t.name = "admin_list"
        /\ UNCHANGED <<boot, agentBound, permit, dryOnly, mcpLog, acted, decided>>
        /\ \E answer : Reply(c, answer)
    BY <1>6 DEF handleAdmin
  <2>2. c \notin acted /\ boot = "serving" /\ t.at = "handler"
    BY <1>0, <2>1 DEF CallSound, CallAt
  <2>3. PICK r : r.at = "end" /\ Becomes(r)
    BY <1>b, <2>1
  <2> QED
    BY <1>0, <2>1, <2>2, <2>3, CallKeeps
<1>7. CASE scanLine(c)
  <2>1. /\ CallAt(c, "scan") /\ UNCHANGED <<boot, agentBound, permit, dryOnly, toolMu, mcpLog, acted, decided>>
        /\ \E rows, head : tool' = [tool EXCEPT ![c].seen = tool[c].seen + 1, ![c].lines = rows, ![c].head = head]
    BY <1>7 DEF scanLine
  <2>2. PICK rows, head :
          tool' = [tool EXCEPT ![c].seen = tool[c].seen + 1, ![c].lines = rows, ![c].head = head]
    BY <2>1
  <2> DEFINE r == [tool[c] EXCEPT !.seen = tool[c].seen + 1, !.lines = rows, !.head = head]
  <2>3. Becomes(r) /\ r.at = t.at
    BY <1>0, <2>2 DEF ToolFields
  <2> HIDE DEF r
  <2>5. /\ t.at = "scan" /\ c \notin acted /\ c \in mcpLog /\ t.name = "audit_log" /\ t.name \in permit
        /\ (t.class = "destructive" /\ dryOnly => t.dry) /\ boot = "serving"
    BY <1>0, <2>1 DEF CallSound, CallAt
  <2>6. /\ r.at = "scan" /\ r.name = "audit_log" /\ r.name \in permit /\ (r.class = "destructive" /\ dryOnly => r.dry)
        /\ DOMAIN r = ToolFields /\ r.class = t.class /\ r.dry = t.dry /\ tool' = [tool EXCEPT ![c] = r]
    BY <2>3, <2>5
  <2>7. c \notin acted' /\ c \in mcpLog' /\ ~decided' /\ mcpLog' = mcpLog /\ acted' = acted
    BY <1>0, <2>1, <2>5
  <2> QED
    BY <2>1, <2>5, <2>6, <2>7, CallKeeps
<1>8. ASSUME NEW ok \in BOOLEAN, handleAuditLog(c, ok) PROVE McpInv'
  <2>1. /\ CallAt(c, "scan") /\ acted' = acted \cup {c} /\ UNCHANGED <<boot, agentBound, permit, dryOnly, mcpLog, decided>>
        /\ \E rows : tool' = [tool EXCEPT ![c].at = "end", ![c].lines = rows, ![c].answer = IF ok THEN "ok" ELSE "error"]
    BY <1>8 DEF handleAuditLog
  <2>2. PICK rows :
          tool' = [tool EXCEPT ![c].at = "end", ![c].lines = rows, ![c].answer = IF ok THEN "ok" ELSE "error"]
    BY <2>1
  <2> DEFINE r == [tool[c] EXCEPT !.at = "end", !.lines = rows, !.answer = IF ok THEN "ok" ELSE "error"]
  <2>3. Becomes(r) /\ r.at = "end"
    BY <1>0, <2>2 DEF ToolFields
  <2> HIDE DEF r
  <2>5. c \in mcpLog /\ t.name = "audit_log" /\ t.name \in permit /\ boot = "serving" /\ t.at = "scan"
    BY <1>0, <2>1 DEF CallSound, CallAt
  <2>6. t.class # "destructive"
    BY <1>0, <2>5 DEF CallSound, classifyAgentRisk
  <2> QED
    BY <1>0, <2>1, <2>3, <2>5, <2>6, CallKeeps
<1> QED
  BY <1>1, <1>2, <1>3, <1>4, <1>5, <1>6, <1>7, <1>8 DEF ToolStep

LEMMA McpKeeps == McpInv /\ [McpNext]_mcpVars => McpInv'
<1> SUFFICES ASSUME McpInv, [McpNext]_mcpVars PROVE McpInv'
  OBVIOUS
<1>1. CASE UNCHANGED mcpVars
  BY <1>1 DEF mcpVars, McpInv, CallSound, AgentHeldBack, ResultsOnRecord
<1> QED
  BY <1>1, BootKeeps, CallStarts, ToolStepKeeps DEF McpNext

\* For any number of calls in any order, any policy and any entry that fails: an agent decides
\* nothing and does only what its process was set up for, what is answered or done is on
\* record, and the process serves with all of it set up.
THEOREM AgentsAreHeldBack == McpSpec => [](AgentHeldBack /\ ResultsOnRecord /\ ProcessWhole)
<1>1. McpInv => AgentHeldBack /\ ResultsOnRecord /\ ProcessWhole
  BY DEF McpInv, ProcessWhole, BootSound
<1> QED
  BY McpStart, McpKeeps, <1>1, PTL DEF McpSpec

-----------------------------------------------------------------------------
(* McpServer: the tail of the audit log, kept in a ring.                   *)

\* What a ring of the last lines holds when it has seen some: in order until it is full,
\* then the newest of them up to the head and the oldest from there.
Ring(rows, head, seen) ==
    /\ rows \in Seq(Nat) /\ seen \in Nat /\ head \in 0 .. TailLimit - 1
    /\ seen < TailLimit => head = 0 /\ Len(rows) = seen /\ \A i \in 1 .. seen : rows[i] = i
    /\ seen >= TailLimit => /\ Len(rows) = TailLimit
                            /\ \A i \in 1 .. TailLimit :
                                 rows[i] = IF i <= head THEN seen - head + i ELSE seen - head - TailLimit + i

Newest(seen) == IF seen < TailLimit THEN seen ELSE TailLimit
InOrder(rows, seen) == rows = [i \in 1 .. Newest(seen) |-> seen - Newest(seen) + i]

RingSound(t) ==
    /\ t.at \in {"lock", "gate", "handler"} => t.lines = << >> /\ t.head = 0 /\ t.seen = 0
    /\ t.at = "scan" => Ring(t.lines, t.head, t.seen)
    /\ t.at = "end" /\ t.name = "audit_log" /\ t.answer = "ok" => InOrder(t.lines, t.seen)

TailInv == McpInv /\ \A c \in ToolCalls : RingSound(tool[c])

LEMMA RingBegins == Ring(<< >>, 0, 0)
BY McpAssumption DEF Ring

LEMMA RingTurns ==
  ASSUME NEW rows, NEW head, NEW seen, Ring(rows, head, seen)
  PROVE  Ring(IF Len(rows) < TailLimit THEN Append(rows, seen + 1) ELSE [rows EXCEPT ![head + 1] = seen + 1],
              IF Len(rows) < TailLimit THEN head ELSE (head + 1) % TailLimit, seen + 1)
<1>0. TailLimit \in Nat /\ TailLimit > 0 /\ rows \in Seq(Nat) /\ seen \in Nat /\ head \in 0 .. TailLimit - 1
  BY McpAssumption DEF Ring
<1>1. CASE seen < TailLimit
  <2>1. head = 0 /\ Len(rows) = seen /\ \A i \in 1 .. seen : rows[i] = i
    BY <1>1 DEF Ring
  <2>2. PICK q : q = Append(rows, seen + 1)
    OBVIOUS
  <2>3. q \in Seq(Nat) /\ Len(q) = seen + 1 /\ \A i \in 1 .. seen + 1 : q[i] = IF i = seen + 1 THEN seen + 1 ELSE rows[i]
    BY <1>0, <2>1, <2>2
  <2>4. \A i \in 1 .. seen + 1 : q[i] = i
    <3> SUFFICES ASSUME NEW i \in 1 .. seen + 1, i # seen + 1 PROVE q[i] = i
      BY <2>3
    <3>1. i \in 1 .. seen
      BY <1>0
    <3> QED
      BY <2>1, <2>3, <3>1
  <2>5. seen + 1 >= TailLimit => seen + 1 = TailLimit
    BY <1>0, <1>1
  <2>6. Ring(q, head, seen + 1)
    <3>1. CASE seen + 1 < TailLimit
      BY <1>0, <2>1, <2>3, <2>4, <3>1 DEF Ring
    <3>2. CASE ~(seen + 1 < TailLimit)
      <4>1. seen + 1 = TailLimit
        BY <1>0, <2>5, <3>2
      <4>2. \A i \in 1 .. TailLimit : ~(i <= head) /\ seen + 1 - head - TailLimit + i = i
        BY <1>0, <2>1, <4>1
      <4>3. \A i \in 1 .. TailLimit : q[i] = IF i <= head THEN seen + 1 - head + i ELSE seen + 1 - head - TailLimit + i
        BY <2>4, <4>1, <4>2
      <4> QED
        BY <1>0, <2>1, <2>3, <3>2, <4>1, <4>3 DEF Ring
    <3> QED
      BY <3>1, <3>2
  <2> QED
    BY <1>1, <2>1, <2>2, <2>6
<1>2. CASE ~(seen < TailLimit)
  <2>1. /\ Len(rows) = TailLimit
        /\ \A i \in 1 .. TailLimit : rows[i] = IF i <= head THEN seen - head + i ELSE seen - head - TailLimit + i
    BY <1>0, <1>2 DEF Ring
  <2>2. PICK q : q = [rows EXCEPT ![head + 1] = seen + 1]
    OBVIOUS
  <2>3. /\ q \in Seq(Nat) /\ Len(q) = TailLimit
        /\ \A i \in 1 .. TailLimit : q[i] = IF i = head + 1 THEN seen + 1 ELSE rows[i]
    BY <1>0, <2>1, <2>2
  <2>4. PICK h : h = (head + 1) % TailLimit
    OBVIOUS
  <2>5. h = IF head + 1 < TailLimit THEN head + 1 ELSE 0
    <3>1. CASE head + 1 < TailLimit
      BY <1>0, <2>4, <3>1
    <3>2. CASE head + 1 = TailLimit
      BY <1>0, <2>4, <3>2
    <3> QED
      BY <1>0, <3>1, <3>2
  <2>6. \A i \in 1 .. TailLimit : q[i] = IF i <= h THEN seen + 1 - h + i ELSE seen + 1 - h - TailLimit + i
    <3> SUFFICES ASSUME NEW i \in 1 .. TailLimit
                 PROVE  q[i] = IF i <= h THEN seen + 1 - h + i ELSE seen + 1 - h - TailLimit + i
      OBVIOUS
    <3>1. /\ q[i] = IF i = head + 1 THEN seen + 1 ELSE rows[i]
          /\ rows[i] = IF i <= head THEN seen - head + i ELSE seen - head - TailLimit + i
      BY <2>1, <2>3
    <3> QED
      BY <1>0, <2>5, <3>1
  <2>7. Ring(q, h, seen + 1)
    BY <1>0, <1>2, <2>3, <2>5, <2>6 DEF Ring
  <2> QED
    BY <1>0, <2>1, <2>2, <2>4, <2>7
<1> QED
  BY <1>1, <1>2

\* Put in order, the ring is the last lines, oldest first.
LEMMA RingUnrolls ==
  ASSUME NEW rows, NEW head, NEW seen, Ring(rows, head, seen)
  PROVE  InOrder(IF Len(rows) = TailLimit /\ head # 0
                 THEN SubSeq(rows, head + 1, TailLimit) \o SubSeq(rows, 1, head) ELSE rows, seen)
<1>0. TailLimit \in Nat /\ TailLimit > 0 /\ rows \in Seq(Nat) /\ seen \in Nat /\ head \in 0 .. TailLimit - 1
  BY McpAssumption DEF Ring
<1>1. CASE seen < TailLimit
  <2>1. head = 0 /\ Len(rows) = seen /\ \A i \in 1 .. seen : rows[i] = i
    BY <1>1 DEF Ring
  <2>2. rows = [i \in 1 .. seen |-> seen - seen + i]
    BY <1>0, <2>1
  <2> QED
    BY <1>1, <2>1, <2>2 DEF InOrder, Newest
<1>2. CASE ~(seen < TailLimit)
  <2>1. /\ Len(rows) = TailLimit
        /\ \A i \in 1 .. TailLimit : rows[i] = IF i <= head THEN seen - head + i ELSE seen - head - TailLimit + i
    BY <1>0, <1>2 DEF Ring
  <2>2. CASE head = 0
    <3>1. \A i \in 1 .. TailLimit : rows[i] = seen - TailLimit + i
      BY <1>0, <2>1, <2>2
    <3>2. rows = [i \in 1 .. TailLimit |-> seen - TailLimit + i]
      BY <1>0, <2>1, <3>1
    <3> QED
      BY <1>2, <2>2, <3>2 DEF InOrder, Newest
  <2>3. CASE head # 0
    <3>1. PICK p : p = SubSeq(rows, head + 1, TailLimit)
      OBVIOUS
    <3>2. PICK q : q = SubSeq(rows, 1, head)
      OBVIOUS
    <3>3. p \in Seq(Nat) /\ Len(p) = TailLimit - head /\ \A i \in 1 .. TailLimit - head : p[i] = rows[head + i]
      BY <1>0, <2>1, <2>3, <3>1
    <3>4. q \in Seq(Nat) /\ Len(q) = head /\ \A i \in 1 .. head : q[i] = rows[i]
      BY <1>0, <2>1, <2>3, <3>2
    <3>5. PICK u : u = p \o q
      OBVIOUS
    <3>6. /\ u \in Seq(Nat) /\ Len(u) = Len(p) + Len(q)
          /\ \A i \in 1 .. Len(p) + Len(q) : u[i] = IF i <= Len(p) THEN p[i] ELSE q[i - Len(p)]
      BY <3>3, <3>4, <3>5, ConcatProperties
    <3>7. Len(u) = TailLimit
      BY <1>0, <3>3, <3>4, <3>6
    <3>8. \A i \in 1 .. TailLimit : u[i] = seen - TailLimit + i
      <4> SUFFICES ASSUME NEW i \in 1 .. TailLimit PROVE u[i] = seen - TailLimit + i
        OBVIOUS
      <4>1. u[i] = IF i <= TailLimit - head THEN p[i] ELSE q[i - (TailLimit - head)]
        BY <1>0, <3>3, <3>4, <3>6
      <4>2. CASE i <= TailLimit - head
        <5>1. head + i \in 1 .. TailLimit /\ ~(head + i <= head) /\ i \in 1 .. TailLimit - head
          BY <1>0, <4>2
        <5>2. rows[head + i] = seen - head - TailLimit + (head + i)
          BY <2>1, <5>1
        <5> QED
          BY <1>0, <3>3, <4>1, <4>2, <5>1, <5>2
      <4>3. CASE ~(i <= TailLimit - head)
        <5>1. i - (TailLimit - head) \in 1 .. head /\ i - (TailLimit - head) \in 1 .. TailLimit
          BY <1>0, <4>3
        <5>2. rows[i - (TailLimit - head)] = seen - head + (i - (TailLimit - head))
          BY <1>0, <2>1, <5>1
        <5> QED
          BY <1>0, <3>4, <4>1, <4>3, <5>1, <5>2
      <4> QED
        BY <4>2, <4>3
    <3>9. u = [i \in 1 .. TailLimit |-> seen - TailLimit + i]
      BY <1>0, <3>6, <3>7, <3>8
    <3> QED
      BY <1>2, <2>1, <2>3, <3>1, <3>2, <3>5, <3>9 DEF InOrder, Newest
  <2> QED
    BY <2>2, <2>3
<1> QED
  BY <1>1, <1>2

\* The other steps of a call leave its ring alone, and only a read log answers with one.
LEMMA RingKeeps ==
  ASSUME McpInv, NEW c \in ToolCalls, ToolStep(c), RingSound(tool[c]) PROVE RingSound(tool'[c])
<1> DEFINE t == tool[c]
<1>0. CallSound(c) /\ DOMAIN tool = ToolCalls /\ DOMAIN t = ToolFields
  BY DEF McpInv, CallSound
<1>a. ASSUME NEW to, tool' = [tool EXCEPT ![c].at = to]
      PROVE  /\ tool'[c].at = to /\ tool'[c].name = t.name /\ tool'[c].lines = t.lines /\ tool'[c].head = t.head
             /\ tool'[c].seen = t.seen
  BY <1>0, <1>a DEF ToolFields
<1>b. ASSUME NEW answer, Reply(c, answer)
      PROVE  tool'[c].at = "end" /\ tool'[c].name = t.name /\ tool'[c].answer = answer
  <2>1. tool' = [tool EXCEPT ![c] = [tool[c] EXCEPT !.at = "end", !.answer = answer]]
    BY <1>b DEF Reply
  <2> QED
    BY <1>0, <2>1 DEF ToolFields
<1>1. CASE Lock(c)
  <2>1. tool' = [tool EXCEPT ![c].at = "gate"] /\ t.at = "lock"
    BY <1>1 DEF Lock, CallAt
  <2> QED
    BY <1>a, <2>1 DEF RingSound
<1>2. ASSUME NEW allowed \in BOOLEAN, policyGate(c, allowed) PROVE RingSound(tool'[c])
  <2>1. (tool' = [tool EXCEPT ![c].at = "handler"] \/ Reply(c, "refused")) /\ t.at = "gate"
    BY <1>2 DEF policyGate, CallAt
  <2>2. CASE tool' = [tool EXCEPT ![c].at = "handler"]
    BY <1>a, <2>1, <2>2 DEF RingSound
  <2>3. CASE Reply(c, "refused")
    BY <1>b, <2>3 DEF RingSound
  <2> QED
    BY <2>1, <2>2, <2>3
<1>3. ASSUME NEW noted \in BOOLEAN, RecordFirst(c, noted) PROVE RingSound(tool'[c])
  <2>1. t.at = "handler" /\ (Reply(c, "error") \/ \E to \in {"scan", "act"} : tool' = [tool EXCEPT ![c].at = to])
    BY <1>3 DEF RecordFirst, CallAt
  <2>2. CASE Reply(c, "error")
    BY <1>b, <2>2 DEF RingSound
  <2>3. ASSUME NEW to \in {"scan", "act"}, tool' = [tool EXCEPT ![c].at = to] PROVE RingSound(tool'[c])
    BY <1>a, <2>1, <2>3, RingBegins DEF RingSound
  <2> QED
    BY <2>1, <2>2, <2>3
<1>4. ASSUME t.name # "audit_log", \E answer : Reply(c, answer) PROVE RingSound(tool'[c])
  <2>1. PICK answer : Reply(c, answer)
    BY <1>4
  <2> QED
    BY <1>b, <1>4, <2>1 DEF RingSound
<1>5. ASSUME NEW ok \in BOOLEAN, Act(c, ok) PROVE RingSound(tool'[c])
  <2>1. t.at = "act" /\ \E answer : Reply(c, answer)
    BY <1>5 DEF Act, CallAt
  <2>2. t.name # "audit_log"
    BY <1>0, <2>1 DEF CallSound
  <2> QED
    BY <1>4, <2>1, <2>2
<1>6. ASSUME NEW gated \in BOOLEAN, NEW noted \in BOOLEAN, handleRunShell(c, gated, noted) PROVE RingSound(tool'[c])
  BY <1>4, <1>6 DEF handleRunShell
<1>7. ASSUME NEW ok \in BOOLEAN, handleAdmin(c, ok) PROVE RingSound(tool'[c])
  BY <1>4, <1>7 DEF handleAdmin
<1>8. CASE scanLine(c)
  <2> DEFINE rows == IF Len(t.lines) < TailLimit THEN Append(t.lines, t.seen + 1)
                     ELSE [t.lines EXCEPT ![t.head + 1] = t.seen + 1]
             head == IF Len(t.lines) < TailLimit THEN t.head ELSE (t.head + 1) % TailLimit
  <2>1. /\ t.at = "scan"
        /\ tool' = [tool EXCEPT ![c].seen = t.seen + 1, ![c].lines = rows, ![c].head = head]
    BY <1>8 DEF scanLine, CallAt
  <2>2. Ring(t.lines, t.head, t.seen)
    BY <2>1 DEF RingSound
  <2>3. Ring(rows, head, t.seen + 1)
    BY <2>2, RingTurns
  <2> HIDE DEF rows, head
  <2>4. tool' = [tool EXCEPT ![c] = [tool[c] EXCEPT !.seen = t.seen + 1, !.lines = rows, !.head = head]]
    BY <2>1
  <2>5. /\ tool'[c].at = "scan" /\ tool'[c].seen = t.seen + 1 /\ tool'[c].lines = rows /\ tool'[c].head = head
    BY <1>0, <2>1, <2>4 DEF ToolFields
  <2> QED
    BY <2>3, <2>5 DEF RingSound
<1>9. ASSUME NEW ok \in BOOLEAN, handleAuditLog(c, ok) PROVE RingSound(tool'[c])
  <2> DEFINE tail == IF Len(t.lines) = TailLimit /\ t.head # 0
                     THEN SubSeq(t.lines, t.head + 1, TailLimit) \o SubSeq(t.lines, 1, t.head) ELSE t.lines
             rows == IF ok THEN tail ELSE << >>
             answer == IF ok THEN "ok" ELSE "error"
  <2>1. t.at = "scan" /\ tool' = [tool EXCEPT ![c].at = "end", ![c].lines = rows, ![c].answer = answer]
    BY <1>9 DEF handleAuditLog, CallAt
  <2>2. InOrder(tail, t.seen)
    BY <2>1, RingUnrolls DEF RingSound
  <2>3. answer = "ok" => InOrder(rows, t.seen)
    BY <2>2
  <2> HIDE DEF rows, answer
  <2>4. tool' = [tool EXCEPT ![c] = [tool[c] EXCEPT !.at = "end", !.lines = rows, !.answer = answer]]
    BY <2>1
  <2>5. tool'[c].at = "end" /\ tool'[c].seen = t.seen /\ tool'[c].lines = rows /\ tool'[c].answer = answer
    BY <1>0, <2>4 DEF ToolFields
  <2> QED
    BY <2>3, <2>5 DEF RingSound
<1> QED
  BY <1>1, <1>2, <1>3, <1>5, <1>6, <1>7, <1>8, <1>9 DEF ToolStep

\* For any limit and any number of lines that match: a call of audit_log that is answered
\* returns the last of them, oldest first.
THEOREM TailsAreInOrder == McpSpec => []TailInOrder
<1>1. McpInit => TailInv
  <2> SUFFICES ASSUME McpInit PROVE TailInv
    OBVIOUS
  <2>1. \A c \in ToolCalls : tool[c].at = "none"
    BY DEF McpInit, NotCalled
  <2> QED
    BY <2>1, McpStart DEF TailInv, RingSound
<1>2. TailInv /\ [McpNext]_mcpVars => TailInv'
  <2> SUFFICES ASSUME TailInv, [McpNext]_mcpVars PROVE TailInv'
    OBVIOUS
  <2>0. McpInv /\ McpInv' /\ DOMAIN tool = ToolCalls
    BY McpKeeps DEF TailInv, McpInv
  <2>1. CASE tool' = tool
    BY <2>0, <2>1 DEF TailInv, RingSound
  <2>2. ASSUME NEW c \in ToolCalls, RingSound(tool'[c]), \A d \in ToolCalls : d # c => tool'[d] = tool[d] PROVE TailInv'
    BY <2>0, <2>2 DEF TailInv
  <2>3. ASSUME NEW c \in ToolCalls, NEW name \in ToolNames, NEW class \in Classes, NEW dry \in BOOLEAN,
               NEW decides \in BOOLEAN, CallTool(c, name, class, dry, decides)
        PROVE  TailInv'
    <3> DEFINE r == [NotCalled EXCEPT !.at = "lock", !.name = name, !.class = class, !.dry = dry, !.decides = decides]
    <3>1. tool' = [tool EXCEPT ![c] = r]
      BY <2>3 DEF CallTool
    <3>2. r.at = "lock" /\ r.lines = << >> /\ r.head = 0 /\ r.seen = 0
      BY DEF NotCalled
    <3> HIDE DEF r
    <3>3. tool'[c] = r /\ \A d \in ToolCalls : d # c => tool'[d] = tool[d]
      BY <2>0, <3>1
    <3>4. RingSound(tool'[c])
      BY <3>2, <3>3 DEF RingSound
    <3> QED
      BY <2>2, <3>3, <3>4
  <2>4. ASSUME NEW c \in ToolCalls, ToolStep(c) PROVE TailInv'
    <3>1. RingSound(tool'[c])
      BY <2>0, <2>4, RingKeeps DEF TailInv
    <3>2. \A d \in ToolCalls : d # c => tool'[d] = tool[d]
      BY <2>0, <2>4 DEF ToolStep, Lock, policyGate, RecordFirst, Act, handleAdmin, handleRunShell, scanLine,
         handleAuditLog, Reply
    <3> QED
      BY <2>2, <3>1, <3>2
  <2>5. ASSUME NEW ok \in BOOLEAN, NEW tools \in {AnyTool, {}, {"run_shell"}}, prepareMCPProcess(ok, tools) PROVE tool' = tool
    BY <2>5 DEF prepareMCPProcess
  <2>6. ASSUME NEW b \in BOOLEAN, main(b) \/ StdioEnds(b) PROVE tool' = tool
    BY <2>6 DEF main, StdioEnds
  <2>7. CASE UNCHANGED mcpVars
    BY <2>1, <2>7 DEF mcpVars
  <2> QED
    BY <2>1, <2>3, <2>4, <2>5, <2>6, <2>7 DEF McpNext
<1>3. TailInv => TailInOrder
  BY DEF TailInv, RingSound, TailInOrder, InOrder, Newest
<1> QED
  BY <1>1, <1>2, <1>3, PTL DEF McpSpec

-----------------------------------------------------------------------------
(* Instrument.                                                             *)

AskFields == {"at", "task", "verdict", "held", "answer", "out", "written", "truncated", "done"}
Holding == {r \in Inquiries : RequestAt(r, "admit") \/ RequestAt(r, "run")}

\* The answer of r has its entry.
Accounted(r, answer) ==
    /\ answer = 404 => <<r, "unknown-task">> \in auditLines
    /\ answer = 403 => <<r, "denied">> \in auditLines \/ <<r, "policy-error">> \in auditLines
    /\ answer = 500 => <<r, "unknown-vbin">> \in auditLines
    /\ answer = 429 => <<r, "busy">> \in auditLines
    /\ answer = 200 => <<r, "allowed">> \in auditLines /\ r \in tasksRun

\* A request holds its slot from the time it took it to its end, and runs an allowed task that
\* is on record; what it wrote is cut at the limit, and then said to be.
RequestSound(r) ==
    LET q == inquiry[r] IN
    /\ DOMAIN q = AskFields /\ q.at \in {"none", "lookup", "slot", "admit", "run", "end"}
    /\ q.held => q.at \in {"admit", "run"}
    /\ q.at \in {"admit", "run"} => q.held
    /\ q.at \in {"slot", "admit", "run"} => q.task \in allow
    /\ q.at = "run" => r \in tasksRun
    /\ r \in tasksRun => q.at \in {"run", "end"} /\ q.task \in allow /\ <<r, "allowed">> \in auditLines
    /\ q.at = "end" => Accounted(r, q.answer)
    /\ q.out \in Nat /\ q.written \in Nat /\ q.out <= Limit /\ q.out <= q.written
    /\ q.out < q.written => q.truncated
    /\ agent = "off" => q.at = "none"

SlotsSound ==
    free \in Nat /\ IsFiniteSet(Holding) /\ free + Cardinality(Holding) = TaskSlots

InstrumentInv ==
    /\ DOMAIN inquiry = Inquiries /\ tasksRun \subseteq Inquiries
    /\ \A r \in Inquiries : RequestSound(r)
    /\ SlotsSound

LEMMA InstrumentStart == InstrumentInit => InstrumentInv
<1> SUFFICES ASSUME InstrumentInit PROVE InstrumentInv
  OBVIOUS
<1>1. DOMAIN inquiry = Inquiries /\ tasksRun = {} /\ free = TaskSlots
  BY DEF InstrumentInit
<1>2. /\ DOMAIN NotAsked = AskFields /\ NotAsked.at = "none" /\ ~NotAsked.held /\ NotAsked.out = 0 /\ NotAsked.written = 0
  BY DEF NotAsked, AskFields
<1>3. \A r \in Inquiries : inquiry[r] = NotAsked
  BY DEF InstrumentInit
<1>4. \A r \in Inquiries : RequestSound(r)
  BY <1>1, <1>2, <1>3, InstrumentAssumption DEF RequestSound
<1>5. Holding = {}
  BY <1>2, <1>3 DEF Holding, RequestAt
<1>6. SlotsSound
  BY <1>1, <1>5, FS_EmptySet, InstrumentAssumption DEF SlotsSound
<1> QED
  BY <1>1, <1>4, <1>6 DEF InstrumentInv

\* A slot is taken, given back, or neither.
LEMMA SlotsMove ==
  ASSUME InstrumentInv, NEW r \in Inquiries, NEW q, inquiry' = [inquiry EXCEPT ![r] = q],
         \/ /\ free' = free
            /\ inquiry[r].at \in {"admit", "run"} => q.at \in {"admit", "run"}
            /\ q.at \in {"admit", "run"} => inquiry[r].at \in {"admit", "run"}
         \/ /\ free' = free - 1 /\ free # 0
            /\ inquiry[r].at \notin {"admit", "run"} /\ q.at \in {"admit", "run"}
         \/ /\ free' = free + 1
            /\ inquiry[r].at \in {"admit", "run"} /\ q.at \notin {"admit", "run"}
  PROVE  SlotsSound'
<1>1. \A s \in Inquiries : inquiry'[s] = IF s = r THEN q ELSE inquiry[s]
  BY DEF InstrumentInv
<1>2. free \in Nat /\ IsFiniteSet(Holding) /\ free + Cardinality(Holding) = TaskSlots /\ Cardinality(Holding) \in Nat
  BY FS_CardinalityType DEF InstrumentInv, SlotsSound
<1>3. CASE Holding' = Holding /\ free' = free
  BY <1>2, <1>3 DEF SlotsSound
<1>4. CASE Holding' = Holding \cup {r} /\ r \notin Holding /\ free' = free - 1 /\ free # 0
  <2>1. IsFiniteSet(Holding') /\ Cardinality(Holding') = Cardinality(Holding) + 1
    BY <1>2, <1>4, FS_AddElement
  <2> QED
    BY <1>2, <1>4, <2>1 DEF SlotsSound
<1>5. CASE Holding' = Holding \ {r} /\ r \in Holding /\ free' = free + 1
  <2>1. IsFiniteSet(Holding') /\ Cardinality(Holding') = Cardinality(Holding) - 1
    BY <1>2, <1>5, FS_RemoveElement
  <2> QED
    BY <1>2, <1>5, <2>1 DEF SlotsSound
<1> QED
  BY <1>1, <1>3, <1>4, <1>5 DEF Holding, RequestAt

\* Request r goes on to q.
LEMMA RequestMoves ==
  ASSUME InstrumentInv, NEW r \in Inquiries, NEW q, inquiry' = [inquiry EXCEPT ![r] = q],
         UNCHANGED <<agent, allow>>, auditLines \subseteq auditLines',
         tasksRun \subseteq tasksRun', tasksRun' \subseteq tasksRun \cup {r}, RequestSound(r)', SlotsSound'
  PROVE  InstrumentInv'
<1>1. DOMAIN inquiry' = Inquiries /\ \A s \in Inquiries : s # r => inquiry'[s] = inquiry[s]
  BY DEF InstrumentInv
<1>2. \A s \in Inquiries : s # r => RequestSound(s)'
  <2> SUFFICES ASSUME NEW s \in Inquiries, s # r PROVE RequestSound(s)'
    OBVIOUS
  <2>1. RequestSound(s) /\ inquiry'[s] = inquiry[s] /\ (s \in tasksRun' => s \in tasksRun)
    BY <1>1 DEF InstrumentInv
  <2>2. \A a : Accounted(s, a) => Accounted(s, a)'
    BY DEF Accounted
  <2> QED
    BY <2>1, <2>2 DEF RequestSound
<1> QED
  BY <1>1, <1>2 DEF InstrumentInv

\* A request ends with an answer that has its entry, and gives its slot back.
LEMMA FinishKeeps ==
  ASSUME InstrumentInv, NEW r \in Inquiries, NEW answer, Finish(r, answer),
         inquiry[r].at \in {"lookup", "slot", "admit", "run"},
         UNCHANGED <<agent, allow, tasksRun>>, auditLines \subseteq auditLines', Accounted(r, answer)'
  PROVE  InstrumentInv'
<1> DEFINE q == [inquiry[r] EXCEPT !.at = "end", !.answer = answer, !.held = FALSE]
           p == inquiry[r]
<1>0. RequestSound(r) /\ DOMAIN inquiry = Inquiries /\ DOMAIN p = AskFields
  BY DEF InstrumentInv, RequestSound
<1>1. inquiry' = [inquiry EXCEPT ![r] = q]
  BY <1>0 DEF Finish, AskFields
<1>2. /\ DOMAIN q = AskFields /\ q.at = "end" /\ q.answer = answer /\ ~q.held /\ q.task = p.task
      /\ q.out = p.out /\ q.written = p.written /\ q.truncated = p.truncated
  BY <1>0 DEF AskFields
<1> HIDE DEF q
<1>3. RequestSound(r)'
  BY <1>0, <1>1, <1>2 DEF RequestSound
<1>4. (p.at \in {"admit", "run"} => free' = free + 1) /\ (p.at \notin {"admit", "run"} => free' = free)
  BY <1>0 DEF RequestSound, Finish
<1>5. SlotsSound'
  BY <1>1, <1>2, <1>4, SlotsMove
<1> QED
  BY <1>1, <1>3, <1>5, RequestMoves

LEMMA AuditKeeps ==
  ASSUME InstrumentInv, NEW r \in Inquiries, NEW result, NEW answer, Audit(r, result, answer),
         inquiry[r].at \in {"lookup", "slot", "admit", "run"}, UNCHANGED <<agent, allow, tasksRun>>,
         <<r, result>> \in auditLines' => Accounted(r, answer)'
  PROVE  InstrumentInv'
<1>1. CASE auditLines' = auditLines \cup {<<r, result>>} /\ Finish(r, answer)
  BY <1>1, FinishKeeps
<1>2. CASE UNCHANGED auditLines /\ Finish(r, 503)
  <2>1. Accounted(r, 503)'
    BY DEF Accounted
  <2> QED
    BY <1>2, <2>1, FinishKeeps
<1> QED
  BY <1>1, <1>2 DEF Audit

LEMMA ArriveKeeps ==
  ASSUME InstrumentInv, NEW r \in Inquiries, NEW task \in Tasks, NEW refusal \in {0, 401, 413, 400},
         Arrive(r, task, refusal)
  PROVE  InstrumentInv'
<1> DEFINE p == inquiry[r]
<1>a. RequestSound(r) /\ DOMAIN inquiry = Inquiries
  BY DEF InstrumentInv
<1>b. DOMAIN p = AskFields
  BY <1>a DEF RequestSound
<1>c. /\ agent = "up" /\ p.at = "none" /\ UNCHANGED <<agent, allow, free, auditLines, tasksRun>>
      /\ refusal # 0 => inquiry' = [inquiry EXCEPT ![r].at = "end", ![r].answer = refusal]
      /\ refusal = 0 => inquiry' = [inquiry EXCEPT ![r].at = "lookup", ![r].task = task]
  BY DEF Arrive, RequestAt
<1>0. /\ RequestSound(r) /\ DOMAIN inquiry = Inquiries /\ DOMAIN p = AskFields
      /\ agent = "up" /\ p.at = "none" /\ UNCHANGED <<agent, allow, free, auditLines, tasksRun>>
  BY <1>a, <1>b, <1>c
<1>1. CASE refusal # 0
  <2> DEFINE q == [inquiry[r] EXCEPT !.at = "end", !.answer = refusal]
  <2>1. inquiry' = [inquiry EXCEPT ![r] = q]
    <3>1. inquiry' = [inquiry EXCEPT ![r].at = "end", ![r].answer = refusal]
      BY <1>1, <1>c
    <3> QED
      BY <1>0, <3>1 DEF AskFields
  <2>2. /\ DOMAIN q = AskFields /\ q.at = "end" /\ q.answer = refusal /\ q.held = p.held /\ q.task = p.task
        /\ q.out = p.out /\ q.written = p.written /\ q.truncated = p.truncated
    BY <1>0 DEF AskFields
  <2>3. Accounted(r, refusal)'
    BY <1>1 DEF Accounted
  <2> HIDE DEF q
  <2>4. inquiry'[r] = q
    BY <1>0, <2>1
  <2>5. RequestSound(r)'
    BY <1>0, <2>2, <2>3, <2>4 DEF RequestSound
  <2>6. SlotsSound'
    BY <1>0, <2>1, <2>2, SlotsMove
  <2> QED
    BY <1>0, <2>1, <2>5, <2>6, RequestMoves
<1>2. CASE refusal = 0
  <2> DEFINE q == [inquiry[r] EXCEPT !.at = "lookup", !.task = task]
  <2>1. inquiry' = [inquiry EXCEPT ![r] = q]
    BY <1>0, <1>2, <1>c DEF AskFields
  <2>2. /\ DOMAIN q = AskFields /\ q.at = "lookup" /\ q.held = p.held
        /\ q.out = p.out /\ q.written = p.written /\ q.truncated = p.truncated
    BY <1>0 DEF AskFields
  <2> HIDE DEF q
  <2>4. inquiry'[r] = q
    BY <1>0, <2>1
  <2>5. RequestSound(r)'
    BY <1>0, <2>2, <2>4 DEF RequestSound
  <2>6. SlotsSound'
    BY <1>0, <2>1, <2>2, SlotsMove
  <2> QED
    BY <1>0, <2>1, <2>5, <2>6, RequestMoves
<1> QED
  BY <1>1, <1>2

LEMMA DecideKeeps ==
  ASSUME InstrumentInv, NEW r \in Inquiries, NEW verdict \in {"allow", "deny", "error"}, Decide(r, verdict)
  PROVE  InstrumentInv'
<1> DEFINE p == inquiry[r]
<1>a. RequestSound(r) /\ DOMAIN inquiry = Inquiries
  BY DEF InstrumentInv
<1>b. DOMAIN p = AskFields
  BY <1>a DEF RequestSound
<1>c. p.at = "lookup" /\ UNCHANGED <<agent, allow, tasksRun>>
  BY DEF Decide, RequestAt
<1>0. /\ RequestSound(r) /\ DOMAIN inquiry = Inquiries /\ DOMAIN p = AskFields
      /\ p.at = "lookup" /\ UNCHANGED <<agent, allow, tasksRun>>
  BY <1>a, <1>b, <1>c
<1>1. CASE Audit(r, "unknown-task", 404)
  <2>1. <<r, "unknown-task">> \in auditLines' => Accounted(r, 404)'
    BY DEF Accounted
  <2> QED
    BY <1>0, <1>1, <2>1, AuditKeeps
<1>2. CASE Audit(r, "policy-error", 403)
  <2>1. <<r, "policy-error">> \in auditLines' => Accounted(r, 403)'
    BY DEF Accounted
  <2> QED
    BY <1>0, <1>2, <2>1, AuditKeeps
<1>3. CASE Audit(r, "denied", 403)
  <2>1. <<r, "denied">> \in auditLines' => Accounted(r, 403)'
    BY DEF Accounted
  <2> QED
    BY <1>0, <1>3, <2>1, AuditKeeps
<1>4. CASE /\ p.task \in allow /\ UNCHANGED <<free, auditLines>>
           /\ inquiry' = [inquiry EXCEPT ![r].at = "slot", ![r].verdict = verdict]
  <2> DEFINE q == [inquiry[r] EXCEPT !.at = "slot", !.verdict = verdict]
  <2>1. inquiry' = [inquiry EXCEPT ![r] = q]
    BY <1>0, <1>4 DEF AskFields
  <2>2. /\ DOMAIN q = AskFields /\ q.at = "slot" /\ q.held = p.held /\ q.task = p.task
        /\ q.out = p.out /\ q.written = p.written /\ q.truncated = p.truncated
    BY <1>0 DEF AskFields
  <2> HIDE DEF q
  <2>4. inquiry'[r] = q
    BY <1>0, <2>1
  <2>5. RequestSound(r)'
    BY <1>0, <1>4, <2>2, <2>4 DEF RequestSound
  <2>6. SlotsSound'
    BY <1>0, <1>4, <2>1, <2>2, SlotsMove
  <2> QED
    BY <1>0, <1>4, <2>1, <2>5, <2>6, RequestMoves
<1> QED
  BY <1>1, <1>2, <1>3, <1>4 DEF Decide

LEMMA TakeKeeps ==
  ASSUME InstrumentInv, NEW r \in Inquiries, NEW exists \in BOOLEAN, TakeSlot(r, exists) PROVE InstrumentInv'
<1> DEFINE p == inquiry[r]
<1>a. RequestSound(r) /\ DOMAIN inquiry = Inquiries
  BY DEF InstrumentInv
<1>b. DOMAIN p = AskFields
  BY <1>a DEF RequestSound
<1>c. p.at = "slot" /\ UNCHANGED <<agent, allow, tasksRun>>
  BY DEF TakeSlot, RequestAt
<1>0. /\ RequestSound(r) /\ DOMAIN inquiry = Inquiries /\ DOMAIN p = AskFields
      /\ p.at = "slot" /\ UNCHANGED <<agent, allow, tasksRun>>
  BY <1>a, <1>b, <1>c
<1>1. CASE Audit(r, "unknown-vbin", 500)
  <2>1. <<r, "unknown-vbin">> \in auditLines' => Accounted(r, 500)'
    BY DEF Accounted
  <2> QED
    BY <1>0, <1>1, <2>1, AuditKeeps
<1>2. CASE Audit(r, "busy", 429)
  <2>1. <<r, "busy">> \in auditLines' => Accounted(r, 429)'
    BY DEF Accounted
  <2> QED
    BY <1>0, <1>2, <2>1, AuditKeeps
<1>3. CASE /\ free # 0 /\ free' = free - 1 /\ UNCHANGED auditLines
           /\ inquiry' = [inquiry EXCEPT ![r].at = "admit", ![r].held = TRUE]
  <2> DEFINE q == [inquiry[r] EXCEPT !.at = "admit", !.held = TRUE]
  <2>1. inquiry' = [inquiry EXCEPT ![r] = q]
    BY <1>0, <1>3 DEF AskFields
  <2>2. /\ DOMAIN q = AskFields /\ q.at = "admit" /\ q.held /\ q.task = p.task
        /\ q.out = p.out /\ q.written = p.written /\ q.truncated = p.truncated
    BY <1>0 DEF AskFields
  <2> HIDE DEF q
  <2>4. inquiry'[r] = q
    BY <1>0, <2>1
  <2>5. RequestSound(r)'
    BY <1>0, <1>3, <2>2, <2>4 DEF RequestSound
  <2>6. SlotsSound'
    BY <1>0, <1>3, <2>1, <2>2, SlotsMove
  <2> QED
    BY <1>0, <1>3, <2>1, <2>5, <2>6, RequestMoves
<1> QED
  BY <1>1, <1>2, <1>3 DEF TakeSlot

LEMMA AdmitKeeps == ASSUME InstrumentInv, NEW r \in Inquiries, Admit(r) PROVE InstrumentInv'
<1> DEFINE p == inquiry[r]
<1>0. /\ RequestSound(r) /\ DOMAIN inquiry = Inquiries /\ DOMAIN p = AskFields
      /\ p.at = "admit" /\ UNCHANGED <<agent, allow>>
  BY DEF InstrumentInv, RequestSound, Admit, RequestAt
<1>1. CASE UNCHANGED <<auditLines, tasksRun>> /\ Finish(r, 503)
  <2>1. Accounted(r, 503)'
    BY DEF Accounted
  <2> QED
    BY <1>0, <1>1, <2>1, FinishKeeps
<1>2. CASE /\ auditLines' = auditLines \cup {<<r, "allowed">>} /\ UNCHANGED free
           /\ inquiry' = [inquiry EXCEPT ![r].at = "run"] /\ tasksRun' = tasksRun \cup {r}
  <2> DEFINE q == [inquiry[r] EXCEPT !.at = "run"]
  <2>1. inquiry' = [inquiry EXCEPT ![r] = q]
    BY <1>0, <1>2 DEF AskFields
  <2>2. /\ DOMAIN q = AskFields /\ q.at = "run" /\ q.held = p.held /\ q.task = p.task
        /\ q.out = p.out /\ q.written = p.written /\ q.truncated = p.truncated
    BY <1>0 DEF AskFields
  <2> HIDE DEF q
  <2>4. inquiry'[r] = q
    BY <1>0, <2>1
  <2>5. RequestSound(r)'
    BY <1>0, <1>2, <2>2, <2>4 DEF RequestSound
  <2>6. SlotsSound'
    BY <1>0, <1>2, <2>1, <2>2, SlotsMove
  <2> QED
    BY <1>0, <1>2, <2>1, <2>5, <2>6, RequestMoves
<1> QED
  BY <1>1, <1>2 DEF Admit

LEMMA RunKeeps ==
  ASSUME InstrumentInv, NEW r \in Inquiries,
         ExpireRequest(r) \/ (\E n \in 0..2 : Write(r, n)) \/ (\E bad \in BOOLEAN : TaskReturn(r, bad))
  PROVE  InstrumentInv'
<1> DEFINE p == inquiry[r]
<1>0. /\ RequestSound(r) /\ DOMAIN inquiry = Inquiries /\ DOMAIN p = AskFields
      /\ p.at = "run" /\ UNCHANGED <<agent, allow, tasksRun>>
  BY DEF InstrumentInv, RequestSound, ExpireRequest, Write, TaskReturn, RequestAt
<1>1. CASE ExpireRequest(r)
  <2> DEFINE q == [inquiry[r] EXCEPT !.done = TRUE]
  <2>1. inquiry' = [inquiry EXCEPT ![r] = q] /\ UNCHANGED <<free, auditLines>>
    BY <1>0, <1>1 DEF AskFields, ExpireRequest
  <2>2. /\ DOMAIN q = AskFields /\ q.at = "run" /\ q.held = p.held /\ q.task = p.task
        /\ q.out = p.out /\ q.written = p.written /\ q.truncated = p.truncated
    BY <1>0 DEF AskFields
  <2> HIDE DEF q
  <2>4. inquiry'[r] = q
    BY <1>0, <2>1
  <2>5. RequestSound(r)'
    BY <1>0, <2>1, <2>2, <2>4 DEF RequestSound
  <2>6. SlotsSound'
    BY <1>0, <2>1, <2>2, SlotsMove
  <2> QED
    BY <1>0, <2>1, <2>5, <2>6, RequestMoves
<1>2. ASSUME NEW n \in 0..2, Write(r, n) PROVE InstrumentInv'
  <2> DEFINE room == Limit - p.out
             kept == p.out + (IF n > room THEN room ELSE n)
             cut == p.truncated \/ room = 0 \/ n > room
             q == [inquiry[r] EXCEPT !.out = kept, !.truncated = cut, !.written = p.written + n]
  <2>1. inquiry' = [inquiry EXCEPT ![r] = q] /\ UNCHANGED <<free, auditLines>>
    BY <1>0, <1>2 DEF AskFields, Write
  <2>2. /\ DOMAIN q = AskFields /\ q.at = "run" /\ q.held = p.held /\ q.task = p.task
        /\ q.out = kept /\ q.written = p.written + n /\ q.truncated = cut
    BY <1>0 DEF AskFields
  <2>3. /\ kept \in Nat /\ p.written + n \in Nat /\ kept <= Limit /\ kept <= p.written + n
        /\ kept < p.written + n => cut
    <3>1. p.out \in Nat /\ p.written \in Nat /\ p.out <= Limit /\ p.out <= p.written /\ Limit \in Nat
          /\ (p.out < p.written => p.truncated)
      BY <1>0, InstrumentAssumption DEF RequestSound
    <3>2. CASE n > room
      BY <3>1, <3>2
    <3>3. CASE ~(n > room)
      BY <3>1, <3>3
    <3> QED
      BY <3>2, <3>3
  <2> HIDE DEF q, kept, cut, room
  <2>4. inquiry'[r] = q
    BY <1>0, <2>1
  <2>5. RequestSound(r)'
    BY <1>0, <2>1, <2>2, <2>3, <2>4 DEF RequestSound
  <2>6. SlotsSound'
    BY <1>0, <2>1, <2>2, SlotsMove
  <2> QED
    BY <1>0, <2>1, <2>5, <2>6, RequestMoves
<1>3. ASSUME NEW bad \in BOOLEAN, TaskReturn(r, bad) PROVE InstrumentInv'
  <2>0. r \in tasksRun /\ <<r, "allowed">> \in auditLines
    BY <1>0 DEF RequestSound
  <2>1. CASE Audit(r, "ran-with-error", 200)
    <3>1. auditLines \subseteq auditLines'
      BY <2>1 DEF Audit
    <3>2. Accounted(r, 200)'
      BY <1>0, <2>0, <3>1 DEF Accounted
    <3> QED
      BY <1>0, <2>1, <3>2, AuditKeeps
  <2>2. CASE UNCHANGED auditLines /\ Finish(r, 200)
    <3>1. Accounted(r, 200)'
      BY <1>0, <2>0, <2>2 DEF Accounted
    <3> QED
      BY <1>0, <2>2, <3>1, FinishKeeps
  <2> QED
    BY <1>3, <2>1, <2>2 DEF TaskReturn
<1> QED
  BY <1>1, <1>2, <1>3

\* For any number of requests and slots, any allowlist and any entry that fails: what ran and
\* what was answered is on record, no slot is lost, and output that was cut says so.
THEOREM TasksAreOnRecord == InstrumentSpec => [](OutcomesOnRecord /\ SlotsReturned /\ TruncationTold)
<1>1. InstrumentInit => InstrumentInv
  BY InstrumentStart
<1>2. InstrumentInv /\ [InstrumentNext]_agentVars => InstrumentInv'
  <2> SUFFICES ASSUME InstrumentInv, [InstrumentNext]_agentVars PROVE InstrumentInv'
    OBVIOUS
  <2>1. ASSUME UNCHANGED <<inquiry, free, auditLines, tasksRun>>,
               agent' = "off" => agent = "off", allow' = allow \/ agent = "off"
        PROVE  InstrumentInv'
    <3>1. \A r \in Inquiries : RequestSound(r)'
      <4> SUFFICES ASSUME NEW r \in Inquiries PROVE RequestSound(r)'
        OBVIOUS
      <4>1. RequestSound(r)
        BY DEF InstrumentInv
      <4>2. \A a : Accounted(r, a) => Accounted(r, a)'
        BY <2>1 DEF Accounted
      <4>3. CASE agent = "off"
        BY <2>1, <4>1, <4>3 DEF RequestSound
      <4>4. CASE allow' = allow
        BY <2>1, <4>1, <4>2, <4>4 DEF RequestSound
      <4> QED
        BY <2>1, <4>3, <4>4
    <3>2. SlotsSound'
      BY <2>1 DEF InstrumentInv, SlotsSound, Holding, RequestAt
    <3> QED
      BY <2>1, <3>1, <3>2 DEF InstrumentInv
  <2>2. CASE Shutdown
    BY <2>1, <2>2 DEF Shutdown
  <2>3. ASSUME NEW tasks \in SUBSET (Tasks \ Unknown), NEW tokenSet \in BOOLEAN, NEW portFree \in BOOLEAN,
               ServeAgent(tasks, tokenSet, portFree)
        PROVE  InstrumentInv'
    BY <2>1, <2>3 DEF ServeAgent
  <2>4. CASE UNCHANGED agentVars
    BY <2>1, <2>4 DEF agentVars
  <2> QED
    BY <2>2, <2>3, <2>4, ArriveKeeps, DecideKeeps, TakeKeeps, AdmitKeeps, RunKeeps DEF InstrumentNext, RequestStep
<1>3. InstrumentInv => OutcomesOnRecord
  <2> SUFFICES ASSUME InstrumentInv PROVE OutcomesOnRecord
    OBVIOUS
  <2>1. \A r \in tasksRun : <<r, "allowed">> \in auditLines /\ inquiry[r].task \in allow
    BY DEF InstrumentInv, RequestSound
  <2>2. \A r \in Inquiries : RequestAt(r, "end") => Accounted(r, inquiry[r].answer)
    BY DEF InstrumentInv, RequestSound, RequestAt
  <2> QED
    BY <2>1, <2>2 DEF OutcomesOnRecord, Accounted
<1>4. InstrumentInv => SlotsReturned
  <2> SUFFICES ASSUME InstrumentInv PROVE SlotsReturned
    OBVIOUS
  <2>1. free \in Nat /\ free + Cardinality(Holding) = TaskSlots
    BY DEF InstrumentInv, SlotsSound
  <2>2. ASSUME \A r \in Inquiries : ~Under(r) PROVE free = TaskSlots
    <3>1. Holding = {}
      BY <2>2 DEF Holding, Under, RequestAt
    <3> QED
      BY <2>1, <3>1, FS_EmptySet
  <2> QED
    BY <2>1, <2>2 DEF SlotsReturned, Holding
<1>5. InstrumentInv => TruncationTold
  BY DEF InstrumentInv, RequestSound, TruncationTold
<1> QED
  BY <1>1, <1>2, <1>3, <1>4, <1>5, PTL DEF InstrumentSpec

-----------------------------------------------------------------------------
(* AttachClient.                                                           *)

\* The goroutine of a view never has keys to send, and the one that has sent the detach
\* sends no more.
ReaderSound ==
    /\ reader \in {"read", "send", "before", "closing", "detach", "done"}
    /\ ~rw => reader \notin {"send", "before"}
    /\ (\E i \in DOMAIN keysSent : keysSent[i] = "detach") => reader \in {"detach", "done"}

\* What pump waits for has happened once it has returned, and nothing starts the goroutine anew.
LoopSound ==
    /\ loop \in {"restore", "over"} => reader = "done"
    /\ loop = "over" => ~raw
    /\ stolen = 0

ClientInv == ReaderSound /\ LoopSound /\ SentAsAllowed /\ keysSent \in Seq({"in", "detach", "close", "resize"})

\* A frame that is written keeps to what a view may send, and to what may follow a detach.
LEMMA FrameSent ==
    ASSUME ClientInv, NEW f \in {"in", "detach", "close", "resize"},
           keysSent' = Append(keysSent, f), UNCHANGED rw,
           ~rw => f \in {"close", "detach"},
           f = "in" => reader \notin {"detach", "done"},
           f = "detach" => reader' \in {"detach", "done"},
           reader \in {"detach", "done"} => reader' \in {"detach", "done"}
    PROVE  /\ SentAsAllowed' /\ keysSent' \in Seq({"in", "detach", "close", "resize"})
           /\ (\E i \in DOMAIN keysSent' : keysSent'[i] = "detach") => reader' \in {"detach", "done"}
<1>0. keysSent \in Seq({"in", "detach", "close", "resize"}) /\ SentAsAllowed /\ ReaderSound
  BY DEF ClientInv
<1>1. /\ Len(keysSent') = Len(keysSent) + 1 /\ DOMAIN keysSent' = 1 .. Len(keysSent) + 1 /\ Len(keysSent) \in Nat
      /\ DOMAIN keysSent = 1 .. Len(keysSent)
      /\ \A i \in 1 .. Len(keysSent) : keysSent'[i] = keysSent[i]
      /\ keysSent'[Len(keysSent) + 1] = f
      /\ keysSent' \in Seq({"in", "detach", "close", "resize"})
  BY <1>0
<1>2. (\E i \in DOMAIN keysSent' : keysSent'[i] = "detach") => reader' \in {"detach", "done"}
  BY <1>0, <1>1 DEF ReaderSound
<1>3. ASSUME ~rw', NEW i \in DOMAIN keysSent' PROVE keysSent'[i] \in {"close", "detach"}
  BY <1>0, <1>1, <1>3 DEF SentAsAllowed
<1>4. ASSUME NEW i \in DOMAIN keysSent', NEW j \in DOMAIN keysSent', i < j, keysSent'[i] = "detach"
      PROVE  keysSent'[j] # "in"
  <2>1. i \in 1 .. Len(keysSent) /\ keysSent[i] = "detach"
    BY <1>1, <1>4
  <2>2. CASE j \in 1 .. Len(keysSent)
    BY <1>0, <1>1, <2>1, <2>2, <1>4 DEF SentAsAllowed
  <2>3. CASE j = Len(keysSent) + 1
    <3>1. reader \in {"detach", "done"}
      BY <1>0, <1>1, <2>1 DEF ReaderSound
    <3> QED
      BY <1>1, <2>3, <3>1
  <2> QED
    BY <1>1, <2>2, <2>3
<1> QED
  BY <1>1, <1>2, <1>3, <1>4 DEF SentAsAllowed

LEMMA ClientKeeps == ClientInv /\ [ClientNext]_clientVars => ClientInv'
<1> SUFFICES ASSUME ClientInv, [ClientNext]_clientVars PROVE ClientInv'
  OBVIOUS
<1>0. ReaderSound /\ LoopSound
  BY DEF ClientInv
<1>1. ASSUME UNCHANGED <<rw, keysSent>>, ReaderSound', LoopSound'
      PROVE  ClientInv'
  BY <1>1 DEF ClientInv, SentAsAllowed
<1>2. CASE UNCHANGED <<rw, keysSent, reader, loop, raw, stolen>>
  BY <1>0, <1>1, <1>2 DEF ReaderSound, LoopSound
<1>3. CASE Type \/ ServerSends \/ ServerStalls \/ ServerHangsUp \/ Signal \/ CloseOnSignal \/ ReaderTakes
           \/ LoopTakes \/ UNCHANGED clientVars
  BY <1>2, <1>3 DEF Type, ServerSends, ServerStalls, ServerHangsUp, Signal, CloseOnSignal, ReaderTakes,
                    LoopTakes, clientVars
<1>4. CASE ReadKeys
  BY <1>0, <1>1, <1>4 DEF ReadKeys, AfterKeys, ReaderSound, LoopSound
<1>5. CASE ReadInterrupted \/ CtrlBracket
  BY <1>0, <1>1, <1>5 DEF ReadInterrupted, CtrlBracket, ReaderSound, LoopSound
<1>6. CASE ReadFrame \/ ReadEnds \/ StopIn \/ PumpReturns \/ Restore
  BY <1>0, <1>1, <1>6 DEF ReadFrame, ReadEnds, StopIn, PumpReturns, Restore, ReaderSound, LoopSound
<1>7. CASE ReaderSent
  <2>1. PICK f : f = IF reader = "closing" THEN "detach" ELSE "in"
    OBVIOUS
  <2>2. /\ reader \in {"send", "before", "closing"} /\ UNCHANGED <<rw, loop, raw, stolen>>
        /\ reader' = IF reader = "send" THEN (IF link.open THEN "read" ELSE "done")
                     ELSE IF reader = "before" THEN "closing" ELSE "detach"
        /\ keysSent' = Append(keysSent, f) \/ UNCHANGED keysSent
    BY <1>7, <2>1 DEF ReaderSent, WriteEnds
  <2>3. LoopSound' /\ reader' \in {"read", "done", "closing", "detach"}
    BY <1>0, <2>2 DEF LoopSound
  <2>4. CASE UNCHANGED keysSent
    BY <1>0, <1>1, <2>2, <2>3, <2>4 DEF ReaderSound
  <2>5. CASE keysSent' = Append(keysSent, f)
    <3>1. /\ f \in {"in", "detach", "close", "resize"} /\ (~rw => f \in {"close", "detach"})
          /\ (f = "in" => reader \notin {"detach", "done"}) /\ (f = "detach" => reader' \in {"detach", "done"})
      BY <1>0, <2>1, <2>2 DEF ReaderSound
    <3> QED
      BY <2>2, <2>3, <2>5, <3>1, FrameSent DEF ClientInv, ReaderSound
  <2> QED
    BY <2>2, <2>4, <2>5
<1>8. CASE LoopSent
  <2>1. /\ UNCHANGED <<rw, reader, raw, stolen>> /\ loop' = "stop"
        /\ keysSent' = Append(keysSent, "close") \/ UNCHANGED keysSent
    BY <1>8 DEF LoopSent, WriteEnds
  <2>2. LoopSound'
    BY <1>0, <2>1 DEF LoopSound
  <2>3. CASE UNCHANGED keysSent
    BY <1>0, <1>1, <2>1, <2>2, <2>3 DEF ReaderSound
  <2>4. CASE keysSent' = Append(keysSent, "close")
    BY <1>0, <2>1, <2>2, <2>4, FrameSent DEF ClientInv, ReaderSound
  <2> QED
    BY <2>1, <2>3, <2>4
<1>9. CASE SendSize
  <2>1. /\ rw /\ UNCHANGED <<rw, reader, raw, stolen, loop>> /\ keysSent' = Append(keysSent, "resize")
    BY <1>9 DEF SendSize
  <2>2. LoopSound'
    BY <1>0, <2>1 DEF LoopSound
  <2> QED
    BY <1>0, <2>1, <2>2, FrameSent DEF ClientInv, ReaderSound
<1> QED
  BY <1>3, <1>4, <1>5, <1>6, <1>7, <1>8, <1>9 DEF ClientNext

\* For any number of keys, frames, stalls and signals: when the terminal is put back nobody
\* reads it for the attach any more, a view sends no key, and none follows a detach.
THEOREM KeysStayTheirs == ClientSpec => [](NoKeyStolen /\ SentAsAllowed)
<1>1. ClientInit => ClientInv
  <2> SUFFICES ASSUME ClientInit PROVE ClientInv
    OBVIOUS
  <2>1. keysSent = << >> /\ DOMAIN keysSent = {} /\ keysSent \in Seq({"in", "detach", "close", "resize"})
    BY DEF ClientInit
  <2> QED
    BY <2>1 DEF ClientInit, ClientInv, ReaderSound, LoopSound, SentAsAllowed
<1>2. ClientInv => NoKeyStolen /\ SentAsAllowed
  BY DEF ClientInv, LoopSound, NoKeyStolen
<1> QED
  BY <1>1, <1>2, ClientKeeps, PTL DEF ClientSpec

-----------------------------------------------------------------------------
(* The parts together. The parts of MCSessions share no state, and a       *)
(* behaviour of it is a behaviour of each: a step of one leaves the others *)
(* where they are. So what was shown of each part holds in the whole.      *)

LEMMA PartsBegin ==
  SessionsInit => /\ ListenerInit /\ GatewayInit /\ StartupInit /\ IdentityInit /\ MirrorInit
                  /\ InstrumentInit /\ McpInit /\ BatchInit /\ ExpectInit /\ ShellInit /\ ChildInit
  BY DEF SessionsInit

LEMMA PartsStep ==
  [SessionsNext]_sessionsVars => /\ [ListenerNext]_listenerVars /\ [GatewayNext]_gatewayVars
                                 /\ [StartupNext]_startVars /\ [IdentityNext]_identityVars
                                 /\ [MirrorNext]_mirrorVars /\ [InstrumentNext]_agentVars
                                 /\ [McpNext]_mcpVars /\ [BatchNext]_batchVars
                                 /\ [ExpectNext]_expectVars /\ [ShellNext]_shellVars
                                 /\ [ChildNext]_childVars
<1>1. [SessionsNext]_sessionsVars => [ListenerNext]_listenerVars
  BY DEF SessionsNext, sessionsVars
<1>2. [SessionsNext]_sessionsVars => [GatewayNext]_gatewayVars
  BY DEF SessionsNext, sessionsVars
<1>3. [SessionsNext]_sessionsVars => [StartupNext]_startVars
  BY DEF SessionsNext, sessionsVars
<1>4. [SessionsNext]_sessionsVars => [IdentityNext]_identityVars
  BY DEF SessionsNext, sessionsVars
<1>5. [SessionsNext]_sessionsVars => [MirrorNext]_mirrorVars
  BY DEF SessionsNext, sessionsVars
<1>6. [SessionsNext]_sessionsVars => [InstrumentNext]_agentVars
  BY DEF SessionsNext, sessionsVars
<1>7. [SessionsNext]_sessionsVars => [McpNext]_mcpVars
  BY DEF SessionsNext, sessionsVars
<1>8. [SessionsNext]_sessionsVars => [BatchNext]_batchVars
  BY DEF SessionsNext, sessionsVars
<1>9. [SessionsNext]_sessionsVars => [ExpectNext]_expectVars
  BY DEF SessionsNext, sessionsVars
<1>10. [SessionsNext]_sessionsVars => [ShellNext]_shellVars
  BY DEF SessionsNext, sessionsVars
<1>11. [SessionsNext]_sessionsVars => [ChildNext]_childVars
  BY DEF SessionsNext, sessionsVars
<1> QED
  BY <1>1, <1>2, <1>3, <1>4, <1>5, <1>6, <1>7, <1>8, <1>9, <1>10, <1>11

LEMMA PartsRun ==
  SessionsSpec => /\ ListenerSpec /\ GatewaySpec /\ StartupSpec /\ IdentitySpec /\ MirrorSpec
                  /\ InstrumentSpec /\ McpSpec /\ ShellSpec /\ ChildSpec
                  /\ BatchInit /\ [][BatchNext]_batchVars
                  /\ ExpectInit /\ [][ExpectNext]_expectVars
  BY PartsBegin, PartsStep, PTL
     DEF SessionsSpec, ListenerSpec, GatewaySpec, StartupSpec, IdentitySpec, MirrorSpec,
         InstrumentSpec, McpSpec, ShellSpec, ChildSpec

\* Addresses that a gateway dials were granted, and it ends with its session; a mirror
\* streams for a grant that is there and holds for its time; a privileged role was
\* vouched for by a provider: for every number of users, calls, gateways and grants.
THEOREM AccessIsAsGranted == SessionsSpec => AccessAsGranted
  BY PartsRun, GatewaysAreGoverned, GrantsAreKept, RolesAreVouched, PTL DEF AccessAsGranted

\* A process runs code only when all of it is set up; its listener keeps its logins
\* through hangups, an agent stays held back, and the environment of an accepted shell
\* stays as it was accepted: for every number of logins, requests and tool calls.
THEOREM ProcessesAreGoverned == SessionsSpec => ProcessGoverned
  BY PartsRun, ProcessesAreSetUp, AgentsAreHeldBack, EnvStaysFrozen, PTL DEF ProcessGoverned

\* The counters of handshakes, of the sessions of a connection and of a login name, of
\* forwarded connections and of tasks are what is there to count, on every way out of
\* every operation: for every number of connections, channels and requests.
THEOREM PlacesAreExact == SessionsSpec => []PlacesExact
  BY PartsRun, SlotsAreExact, GatewaysAreGoverned, TasksAreOnRecord, PTL DEF PlacesExact

\* Nothing takes effect, runs or is answered as done without its entry, at each of the
\* places that call LogEvent and go on only when it returned: a session process, a
\* gateway, an import, elevation or certificate, a script, a task and a tool call.
THEOREM NothingGoesUnrecorded == SessionsSpec => []NothingUnrecorded
  BY PartsRun, ProcessesAreOnRecord, GatewaysAreGoverned, RolesAreVouched, ProcessesAreSetUp,
     TasksAreOnRecord, AgentsAreHeldBack, PTL DEF NothingUnrecorded

\* What was written runs gated, once and for its cause, a child is started once and hands
\* the terminal's output over whole, a batch returns a list only of commands that all ran,
\* expect loses nothing, cut output says so, and a tail is the last lines in order: for
\* every line, child, batch, task and call.
THEOREM LinesAndChildrenRunAsWritten == SessionsSpec => []RanAsWritten
  BY PartsRun, LinesRunAsWritten, ChildrenAreContained, BatchesAreWhole, ExpectLosesNothing,
     TasksAreOnRecord, TailsAreInOrder, PTL DEF RanAsWritten
=============================================================================
