------------------------------- MODULE Mirror -------------------------------
(***************************************************************************)
(* Mirror sharing: the grants by which the owner of a session lets another  *)
(* user view or type into it (security/mirror.go, mirror_attach.go,         *)
(* mirror_share_ee.go). A grant is a pointer in a table under a lock, with  *)
(* a timer; share, unshare, the timer, the lazy expiry of an access and the *)
(* unregister hook of the session all reach for it.                         *)
(***************************************************************************)
EXTENDS Naturals, Sequences, FiniteSets

CONSTANTS
  Grantees,  \* users a session may be shared with
  Shares,    \* concurrent share and unshare calls of the owner's shell
  Attaches,  \* concurrent view and console calls of others
  Lives,     \* durations a share may ask for, at most maxMirrorShare
  MaxGrants, \* bound: grants of a behaviour, numbered in order
  MaxClk     \* bound: the clock

ASSUME MirrorAssumption ==
  /\ Lives \subseteq Nat \ {0}
  /\ MaxGrants \in Nat /\ MaxClk \in Nat

VARIABLES
  target,  \* the shared session: registered?, terminated?, hooks run?, its user
  table,   \* mirrorGrants of the session: number of the grant of a user, or 0
  grants,  \* the grants ever made
  timers,  \* grants whose timer has not been stopped and has not fired
  fired,   \* grants whose timer function runs but does not have the lock yet
  call,    \* where each call is
  endings, \* MIRROR_UNSHARE and MIRROR_SHARE_EXPIRED of each grant, counted
  mclk     \* the clock

mirrorVars == <<target, table, grants, timers, fired, call, endings, mclk>>

Ready == [pc |-> "ready"]
Made == 1 .. Len(grants)
Installed == {table[u] : u \in Grantees} \ {0}
Expired(g) == mclk >= grants[g].exp

Return(c) == call' = [call EXCEPT ![c] = Ready]

-----------------------------------------------------------------------------
(* mirror share: the session is looked up before the lock is taken, and the *)
(* grant is installed before its audit event.                               *)

ShareChecked(c) == \E u \in Grantees, d \in Lives, console \in BOOLEAN :
  /\ call[c] = Ready /\ target.registered
  /\ call' = [call EXCEPT ![c] =
       [pc |-> "share", user |-> u, for |-> d, console |-> console, owner |-> target.user]]
  /\ UNCHANGED <<target, table, grants, timers, fired, endings, mclk>>

Rearm(old, new) == (timers \ {old}) \cup {new}

\* Under mirrorGrantsMu; the timer of the grant it replaces is stopped.
ShareInstall(c) ==
  /\ call[c].pc = "share"
  /\ Len(grants) < MaxGrants /\ mclk + call[c].for <= MaxClk
  /\ LET g == Len(grants) + 1 IN
       /\ grants' = Append(grants, [user |-> call[c].user, owner |-> call[c].owner,
                                  console |-> call[c].console, exp |-> mclk + call[c].for])
       /\ table' = [table EXCEPT ![call[c].user] = g]
       /\ timers' = Rearm(table[call[c].user], g)
       /\ endings' = Append(endings, 0)
       /\ Return(c)
  /\ UNCHANGED <<target, fired, mclk>>

-----------------------------------------------------------------------------
(* mirror unshare, of one user or of all                                    *)

unshareMirror(c) == \E who \in (SUBSET Grantees) \ {{}} :
  /\ call[c] = Ready
  /\ Cardinality(who) = 1 \/ who = Grantees
  /\ LET revoked == {table[u] : u \in who} \ {0} IN
       /\ revoked # {}
       /\ table' = [u \in Grantees |-> IF u \in who THEN 0 ELSE table[u]]
       /\ timers' = timers \ revoked
       /\ endings' = [g \in Made |-> endings[g] + (IF g \in revoked THEN 1 ELSE 0)]
  /\ UNCHANGED <<target, grants, fired, call, mclk>>

-----------------------------------------------------------------------------
(* Expiry: by the timer, or by an access that finds the grant expired.      *)

TimerFires(g) ==
  /\ g \in timers /\ Expired(g)
  /\ timers' = timers \ {g} /\ fired' = fired \cup {g}
  /\ UNCHANGED <<target, table, grants, call, endings, mclk>>

\* Removes whatever grant the user has now.
expireMirrorGrant_ByUser(g) ==
  IF table[grants[g].user] # 0
  THEN /\ table' = [table EXCEPT ![grants[g].user] = 0]
       /\ endings' = [endings EXCEPT ![table[grants[g].user]] = @ + 1]
       /\ timers' = timers \ {g}
  ELSE UNCHANGED <<table, endings, timers>>

expireMirrorGrant(g) ==
  IF table[grants[g].user] = g
  THEN /\ table' = [table EXCEPT ![grants[g].user] = 0]
       /\ endings' = [endings EXCEPT ![g] = @ + 1]
       /\ timers' = timers \ {g}
  ELSE UNCHANGED <<table, endings, timers>>

TimerRuns(g) ==
  /\ g \in fired
  /\ fired' = fired \ {g}
  /\ expireMirrorGrant(g)
  /\ UNCHANGED <<target, grants, call, mclk>>

-----------------------------------------------------------------------------
(* mirror view and console                                                  *)

\* mirrorAccess up to the grant: the session exists and belongs to someone
\* else, whose name is read here. A privileged caller needs no grant.
AttachLook(c) == \E u \in Grantees, console, privileged \in BOOLEAN :
  /\ call[c] = Ready /\ target.registered
  /\ call' = [call EXCEPT ![c] =
       IF privileged THEN [pc |-> "log", user |-> u, console |-> console, g |-> 0]
       ELSE [pc |-> "grant", user |-> u, console |-> console, owner |-> target.user]]
  /\ UNCHANGED <<target, table, grants, timers, fired, endings, mclk>>

\* liveMirrorGrant let go of the lock before it expires the grant.
AttachExpires(c) ==
  /\ call[c].pc = "expired"
  /\ expireMirrorGrant(call[c].g) /\ Return(c)
  /\ UNCHANGED <<target, grants, fired, mclk>>

enterpriseMirrorPeerAccess(c, g) ==
  /\ grants[g].owner = call[c].owner
  /\ call[c].console => grants[g].console

AttachDecide(c) ==
  /\ call[c].pc = "grant"
  /\ LET g == table[call[c].user]
     IN CASE g = 0 -> Return(c)
          [] g # 0 /\ Expired(g) -> call' = [call EXCEPT ![c] = [pc |-> "expired", g |-> g]]
          [] OTHER -> IF enterpriseMirrorPeerAccess(c, g)
                      THEN call' = [call EXCEPT ![c] = [pc |-> "log", user |-> call[c].user,
                               console |-> call[c].console, owner |-> call[c].owner, g |-> g]]
                      ELSE Return(c)
  /\ UNCHANGED <<target, table, grants, timers, fired, endings, mclk>>

\* The audit event, then the session is looked up again.
AttachLog(c) ==
  /\ call[c].pc = "log"
  /\ (call' = [call EXCEPT ![c].pc = "stream"] \/ Return(c))
  /\ UNCHANGED <<target, table, grants, timers, fired, endings, mclk>>

\* The stream goes on until its own context ends: neither expiry nor the end of
\* the session stops it.
mirrorStream(c) ==
  /\ call[c].pc = "stream"
  /\ IF target.registered THEN call' = [call EXCEPT ![c].pc = "streaming"] ELSE Return(c)
  /\ UNCHANGED <<target, table, grants, timers, fired, endings, mclk>>

Detach(c) ==
  /\ call[c].pc = "streaming" /\ Return(c)
  /\ UNCHANGED <<target, table, grants, timers, fired, endings, mclk>>

-----------------------------------------------------------------------------
(* The session: renamed, killed, unregistered, its hook run.                *)

Rename ==
  /\ target.registered /\ target.user = "owner"
  /\ target' = [target EXCEPT !.user = "renamed"]
  /\ UNCHANGED <<table, grants, timers, fired, call, endings, mclk>>

MirrorUnregister ==
  /\ target.registered
  /\ target' = [target EXCEPT !.registered = FALSE]
  /\ UNCHANGED <<table, grants, timers, fired, call, endings, mclk>>

clearMirrorGrants ==
  /\ ~target.registered /\ ~target.cleared
  /\ target' = [target EXCEPT !.cleared = TRUE]
  /\ table' = [u \in Grantees |-> 0]
  /\ timers' = timers \ Installed
  /\ UNCHANGED <<grants, fired, call, endings, mclk>>

MirrorTick ==
  /\ mclk < MaxClk /\ mclk' = mclk + 1
  /\ UNCHANGED <<target, table, grants, timers, fired, call, endings>>

-----------------------------------------------------------------------------
MirrorInit ==
  /\ target = [registered |-> TRUE, cleared |-> FALSE, user |-> "owner"]
  /\ table = [u \in Grantees |-> 0]
  /\ grants = <<>> /\ endings = <<>> /\ timers = {} /\ fired = {}
  /\ call = [c \in Shares \cup Attaches |-> Ready]
  /\ mclk = 0

TimerStep == \E g \in Made : TimerFires(g) \/ TimerRuns(g)

MirrorNext ==
  \/ TimerStep
  \/ \E c \in Shares : ShareChecked(c) \/ ShareInstall(c) \/ unshareMirror(c)
  \/ \E c \in Attaches :
       \/ AttachLook(c) \/ AttachExpires(c) \/ AttachDecide(c) \/ AttachLog(c)
       \/ mirrorStream(c) \/ Detach(c)
  \/ Rename \/ MirrorUnregister \/ clearMirrorGrants \/ MirrorTick

MirrorSpec == MirrorInit /\ [][MirrorNext]_mirrorVars

-----------------------------------------------------------------------------
(* Properties.                                                              *)

\* A grant leaves the table early only when its owner takes it back or replaces
\* it or the session ends: a timer of an earlier grant to the same user that had
\* fired already when that grant was replaced never removes the new one
\* (expireMirrorGrant compares the grant, not the name).
GrantKeptItsTime == [][\A g \in Installed :
  g \notin {table'[u] : u \in Grantees} =>
    \/ Expired(g)
    \/ table'[grants[g].user] # 0
    \/ \E c \in Shares : unshareMirror(c)
    \/ clearMirrorGrants]_mirrorVars

\* The audit log never ends a grant twice: the timer, an access that finds the
\* grant expired and an unshare race for it and only one of them records it.
GrantEndsOnce == \A g \in Made : endings[g] <= 1

\* Who streams without privilege was granted that mode by the user the session
\* had when the access was decided, and a view grant never became a console.
StreamsAsGranted == \A c \in Attaches : call[c].pc = "streaming" /\ call[c].g # 0 =>
  LET g == grants[call[c].g] IN
  /\ g.user = call[c].user /\ g.owner = call[c].owner
  /\ call[c].console => g.console

\* Every grant comes to its end, one that was installed after the session had
\* ended and its hook had run included: its timer removes it.
GrantGoes == \A u \in Grantees : table[u] # 0 ~> table[u] = 0
=============================================================================
