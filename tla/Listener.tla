------------------------------ MODULE Listener ------------------------------
(***************************************************************************)
(* The SSH listener (internal/sys/ssh.go, ssh_spawn.go): connections with   *)
(* their handshakes, session channels with their processes.              *)
(* Every connection has a goroutine that takes channels one by   *)
(* one; every session has a goroutine of its own, one that reads the       *)
(* client's requests and one that hangs the terminal up when they end.     *)
(*                                                                         *)
(* Connections here belong to one login name. A channel that was refused   *)
(* or has ended stays so; its number is not used again.                    *)
(***************************************************************************)
EXTENDS Integers, FiniteSets

CONSTANTS
    Conns,        \* connections
    SessionChans, \* session channels
    PreAuth,      \* capacity of preAuthSlots
    PerConn,      \* maxSessionsPerConn
    PerUser,      \* maxSessionsPerUser
    SessionCap    \* ADSSH_MAX_SESSIONS

ASSUME ListenerAssumption ==
    /\ {PreAuth, PerConn, PerUser, SessionCap} \subseteq Nat \ {0}
    /\ "none" \notin Conns

VARIABLES
    listening,  \* sshListener is set
    conn,       \* each connection's control state
    preAuth,    \* handshakes that hold a pre-auth slot
    chan,       \* session channels: pc, conn, requests open, shell asked for, env, process
    connSlots,  \* sessionSlots in use on each connection
    userSlots,  \* userSessions of the login name
    registered, \* globalSessions
    logged      \* logins and session starts in the audit chain

listenerVars == <<listening, conn, preAuth, chan, connSlots, userSlots, registered,
                  logged>>

ListenerInit ==
    /\ listening = TRUE
    /\ conn = [c \in Conns |-> "none"] /\ preAuth = 0
    /\ chan = [k \in SessionChans |-> [pc |-> "none", conn |-> "none", open |-> TRUE,
                                       shell |-> FALSE, env |-> FALSE, master |-> FALSE]]
    /\ connSlots = [c \in Conns |-> 0] /\ userSlots = 0 /\ registered = {}
    /\ logged = {}

chans == <<chan, connSlots, userSlots, registered>>

-----------------------------------------------------------------------------
\* Connections: handleSSHConnection up to its channel loop.

\* preAuthSlots has room.
PreAuthFree == preAuth < PreAuth

\* serveSSH accepts; the guard has let the peer in. Without a pre-auth slot the
\* connection is closed at once.
Accept(c) ==
    /\ listening /\ conn[c] = "none"
    /\ \/ /\ PreAuthFree
          /\ preAuth' = preAuth + 1 /\ conn' = [conn EXCEPT ![c] = "handshake"]
       \/ /\ ~PreAuthFree
          /\ conn' = [conn EXCEPT ![c] = "closed"] /\ UNCHANGED preAuth
    /\ UNCHANGED <<listening, chans, logged>>

\* handshake: the slot comes back on every return; the deadline ends a silent peer.
Handshake(c) ==
    /\ conn[c] = "handshake"
    /\ preAuth' = preAuth - 1
    /\ \E to \in {"audit", "closed"} : conn' = [conn EXCEPT ![c] = to]
    /\ UNCHANGED <<listening, chans, logged>>

\* SSH_LOGIN_OK is written, or the connection is closed; bad principals close it too.
AuditLogin(c) ==
    /\ conn[c] = "audit"
    /\ \/ /\ logged' = logged \cup {<<"login", c>>}
          /\ \E to \in {"open", "closed"} : conn' = [conn EXCEPT ![c] = to]
       \/ conn' = [conn EXCEPT ![c] = "closed"] /\ UNCHANGED logged
    /\ UNCHANGED <<listening, preAuth, chans>>

\* The connection drops: the request streams of its channels end with it.
ConnDrops(c) ==
    /\ conn[c] = "open"
    /\ conn' = [conn EXCEPT ![c] = "closed"]
    /\ chan' = [k \in SessionChans |-> IF chan[k].conn = c THEN [chan[k] EXCEPT !.open = FALSE]
                                       ELSE chan[k]]
    /\ UNCHANGED <<listening, preAuth, connSlots, userSlots, registered, logged>>

\* StopAcceptingSSH and DisableSSH: what runs is left alone.
StopAccepting ==
    /\ listening
    /\ listening' = FALSE
    /\ UNCHANGED <<conn, preAuth, chans, logged>>

-----------------------------------------------------------------------------
\* Session channels.

At(k, pc) == chan[k].pc = pc
Goto(k, pc) == chan' = [chan EXCEPT ![k].pc = pc]

\* release, once per channel: the user's slot and the connection's.
Release(k) ==
    /\ userSlots' = userSlots - 1
    /\ connSlots' = [connSlots EXCEPT ![chan[k].conn] = @ - 1]

\* trySlot on the connection and acquireUserSession.
SlotsLeft(c) == connSlots[c] < PerConn /\ userSlots < PerUser

\* A session channel is asked for: both slots are taken, or it is refused.
OpenSession(c, k) ==
    /\ conn[c] = "open" /\ At(k, "none")
    /\ \A j \in SessionChans : chan[j].conn = c => chan[j].pc # "setup"
    /\ \/ /\ SlotsLeft(c)
          /\ connSlots' = [connSlots EXCEPT ![c] = @ + 1] /\ userSlots' = userSlots + 1
          /\ chan' = [chan EXCEPT ![k].pc = "setup", ![k].conn = c]
       \/ /\ ~SlotsLeft(c)
          /\ Goto(k, "over") /\ UNCHANGED <<connSlots, userSlots>>
    /\ UNCHANGED <<listening, conn, preAuth, registered, logged>>

\* The failure paths of serveSessionChannel without release.
SetupFails_Leaks(k) ==
    /\ At(k, "setup") /\ Goto(k, "over")
    /\ UNCHANGED <<listening, conn, preAuth, connSlots, userSlots, registered, logged>>

\* The login does not resolve, Accept or the terminal fails, or the session cap
\* is reached: the slots are released.
SetupFails(k) ==
    /\ At(k, "setup") /\ Goto(k, "over") /\ Release(k)
    /\ UNCHANGED <<listening, conn, preAuth, registered, logged>>

\* The session is registered, and its goroutines start.
Register(k) ==
    /\ At(k, "setup") /\ Cardinality(registered) < SessionCap
    /\ registered' = registered \cup {k}
    /\ chan' = [chan EXCEPT ![k].pc = "wait", ![k].master = TRUE]
    /\ UNCHANGED <<listening, conn, preAuth, connSlots, userSlots, logged>>

Serving(k) == chan[k].pc \in {"wait", "audit", "start", "running", "drain", "close"}

\* The shell request starts the session, once; a second one is refused.
RequestShell(k) ==
    /\ Serving(k) /\ chan[k].open /\ ~chan[k].shell
    /\ chan' = [chan EXCEPT ![k].shell = TRUE]
    /\ UNCHANGED <<listening, conn, preAuth, connSlots, userSlots, registered, logged>>

\* env and the terminal of a pty-req: they reach the session only before shell.
RequestEnv(k) ==
    /\ Serving(k) /\ chan[k].open /\ ~chan[k].env /\ ~chan[k].shell
    /\ chan' = [chan EXCEPT ![k].env = TRUE]
    /\ UNCHANGED <<listening, conn, preAuth, connSlots, userSlots, registered, logged>>

\* The client closes the channel; its request stream ends.
ClientCloses(k) ==
    /\ Serving(k) /\ chan[k].open
    /\ chan' = [chan EXCEPT ![k].open = FALSE]
    /\ UNCHANGED <<listening, conn, preAuth, connSlots, userSlots, registered, logged>>

\* The session goroutine waits for shell or for the end of the requests; a
\* shell that came before the end still counts.
AwaitShell(k) ==
    /\ At(k, "wait")
    /\ \/ chan[k].shell /\ Goto(k, "audit")
       \/ ~chan[k].shell /\ ~chan[k].open /\ Goto(k, "close")
    /\ UNCHANGED <<listening, conn, preAuth, connSlots, userSlots, registered, logged>>

\* SSH_SESSION_START is written, or the session does not start.
AuditStart(k) ==
    /\ At(k, "audit")
    /\ \/ Goto(k, "start") /\ logged' = logged \cup {<<"start", k>>}
       \/ Goto(k, "close") /\ UNCHANGED logged
    /\ UNCHANGED <<listening, conn, preAuth, connSlots, userSlots, registered>>

\* SpawnSSHSession: the process runs if the session is still registered and
\* could be prepared.
Spawn(k) ==
    /\ At(k, "start")
    /\ \/ k \in registered /\ Goto(k, "running")
       \/ Goto(k, "drain")
    /\ UNCHANGED <<listening, conn, preAuth, connSlots, userSlots, registered, logged>>

\* The requests ended: the terminal's master is closed and the process hung up.
HangUp(k) ==
    /\ chan[k].pc \in {"start", "running", "drain"} /\ ~chan[k].open /\ chan[k].master
    /\ chan' = [chan EXCEPT ![k].master = FALSE]
    /\ UNCHANGED <<listening, conn, preAuth, connSlots, userSlots, registered, logged>>

\* The session process exits: by itself, or because its terminal was hung up.
ProcessExits(k) ==
    /\ At(k, "running") /\ Goto(k, "drain")
    /\ UNCHANGED <<listening, conn, preAuth, connSlots, userSlots, registered, logged>>

\* The last output has gone out or sessionDrainTimeout has passed, the exit
\* status is sent, and SSH_SESSION_END is written if it can be.
EndSession(k) ==
    /\ At(k, "drain") /\ Goto(k, "close")
    /\ UNCHANGED <<listening, conn, preAuth, connSlots, userSlots, registered, logged>>

\* The deferred calls: the session is unregistered, its terminal and channel
\* closed, and last its slots are released.
CloseSession(k) ==
    /\ \/ /\ At(k, "close")
          /\ chan' = [chan EXCEPT ![k].pc = "release", ![k].master = FALSE, ![k].open = FALSE]
          /\ registered' = registered \ {k} /\ UNCHANGED <<userSlots, connSlots>>
       \/ /\ At(k, "release") /\ Goto(k, "over")
          /\ Release(k) /\ UNCHANGED registered
    /\ UNCHANGED <<listening, conn, preAuth, logged>>

SessionStep(k) ==
    \/ AwaitShell(k) \/ AuditStart(k) \/ Spawn(k) \/ HangUp(k) \/ EndSession(k)
    \/ CloseSession(k)
HungUp(k) == ~chan[k].master /\ ProcessExits(k)

ListenerNext ==
    \/ \E c \in Conns : Accept(c) \/ Handshake(c) \/ AuditLogin(c) \/ ConnDrops(c)
    \/ StopAccepting
    \/ \E c \in Conns, k \in SessionChans : OpenSession(c, k)
    \/ \E k \in SessionChans :
          \/ SetupFails(k) \/ Register(k) \/ RequestShell(k) \/ RequestEnv(k) \/ ClientCloses(k)
          \/ SessionStep(k) \/ ProcessExits(k)

ListenerSpec == ListenerInit /\ [][ListenerNext]_listenerVars

-----------------------------------------------------------------------------
ListenerTypeOK ==
    /\ preAuth \in 0..PreAuth /\ userSlots \in Nat
    /\ \A c \in Conns : conn[c] \in {"none", "handshake", "audit", "open", "closed"}
                        /\ connSlots[c] \in Nat
    /\ \A k \in SessionChans : chan[k].pc \in {"none", "setup", "wait", "audit", "start",
                                   "running", "drain", "close", "release", "over"}
    /\ registered \subseteq SessionChans

\* The pre-auth slots are exactly the handshakes under way, so a failed or
\* silent peer never uses one up (handshake).
PreAuthExact == preAuth = Cardinality({c \in Conns : conn[c] = "handshake"})

\* Every session slot is held by a channel that is being set up or served, of
\* its connection and of the login name, and the caps hold across connections.
SlotsExact ==
    LET Holding == {k \in SessionChans : chan[k].pc \notin {"none", "over"}} IN
    /\ userSlots = Cardinality(Holding) /\ userSlots <= PerUser
    /\ \A c \in Conns :
          /\ connSlots[c] = Cardinality({k \in Holding : chan[k].conn = c})
          /\ connSlots[c] <= PerConn

\* A session process runs only after SSH_LOGIN_OK of its connection and its own
\* SSH_SESSION_START were written.
RunsOnRecord ==
    \A k \in SessionChans :
        chan[k].pc \in {"start", "running"} => {<<"start", k>>, <<"login", chan[k].conn>>} \subseteq logged

\* What a client may set is fixed once its shell was accepted: the process that
\* starts later never sees a value sent in between.
EnvFrozen == [][\A k \in SessionChans : chan[k].shell => chan'[k].env = chan[k].env]_listenerVars

\* When the client has gone, its session process is hung up, the session is
\* unregistered and its slots are free again.
SessionEnds == \A k \in SessionChans : (Serving(k) /\ ~chan[k].open) ~> (chan[k].pc = "over")
=============================================================================
