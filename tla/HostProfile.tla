----------------------------- MODULE HostProfile -----------------------------
(***************************************************************************)
(* The signed host profile and the commands that act on the host            *)
(* (security/vbin_host_ee.go, vbin_do_ee.go, vbin_unit_ee.go,                *)
(* recovery_ee.go, quarantine_ee.go). Three files hold the state: the        *)
(* installed profile, the one before it, and an unsigned overlay that may    *)
(* only narrow. No lock orders the shells that change them, and every step   *)
(* may be the last of its process.                                           *)
(***************************************************************************)
EXTENDS Naturals

CONSTANTS
  HostShells, \* concurrent host, do and unit commands
  Hashes,     \* values of policy_hash and admin_keys_hash together
  HostUsers,  \* entries of the lists (users, listeners, packages, sysctls, units)
  MaxSigners, \* keys of ADSSH_HOST_PROFILE_KEYS: distinct signers a profile may have
  Candidates, \* the files host commit is given
  MaxHostCmds, \* bound: commands of a behaviour
  MaxHostActs \* bound: do and unit are among the first so many of them

ASSUME HostAssumption == MaxHostCmds \in Nat /\ MaxHostActs \in Nat /\ MaxSigners \in Nat

VARIABLES
  inst,       \* ADSSH_HOST_PROFILE
  prev,       \* ADSSH_HOST_PROFILE_PREV
  narrow,     \* ADSSH_HOST_PROFILE_NARROW
  quarantine, \* is the quarantine file there?
  cmd,        \* where each command is
  hostCmds,   \* commands started
  recorded,   \* profiles of HOST_PROFILE and HOST_PROFILE_NARROW events
  events,     \* commands of DO and UNIT events
  acted,      \* commands a child process was started for
  removed,    \* has a failed chmod removed a file?
  ever        \* has a profile ever been installed?

profileVars == <<inst, prev, narrow, quarantine, cmd, hostCmds, recorded, events, acted, removed, ever>>
NoFile == [absent |-> TRUE]
\* verifySignedPayload: every signature verifies under a known key, and no key counts twice.
verifySignedPayload == 1 .. MaxSigners
Signed == [hash : Hashes, users : SUBSET HostUsers, kids : verifySignedPayload]
Unsigned == [hash : Hashes, users : SUBSET HostUsers, kids : {0}]
Resting == [pc |-> "rest"]

Leave(o) == cmd' = [cmd EXCEPT ![o] = Resting]

\* A command enters Run; help, usage and agents go no further.
EnterCmd(o, c) ==
  /\ cmd[o] = Resting /\ hostCmds < MaxHostCmds
  /\ hostCmds' = hostCmds + 1
  /\ cmd' = [cmd EXCEPT ![o] = c]

-----------------------------------------------------------------------------
(* host commit                                                              *)

needsTwo(installed, p) == installed # NoFile /\ installed.hash # p.hash

narrowOf(overlay, p) == overlay.hash = p.hash /\ overlay.users \subseteq p.users

\* The candidate and the installed profile are read, and the candidate is judged by both.
hostCommit(o) == \E p \in Candidates \cap (Signed \cup Unsigned) :
  /\ ~quarantine
  /\ IF p \in Signed
     THEN ~(needsTwo(inst, p) /\ p.kids < 2)
     ELSE inst # NoFile /\ narrowOf(p, inst)
  /\ EnterCmd(o, [pc |-> "log", profile |-> p,
               then |-> IF p \in Unsigned THEN "overlay" ELSE IF inst # NoFile THEN "keep" ELSE "write"])
  /\ UNCHANGED <<inst, prev, narrow, quarantine, recorded, events, acted, removed, ever>>

\* AuthorizeCommand allows it and LogEvent records it, before any file changes.
HostLogged(o) ==
  /\ cmd[o].pc = "log"
  /\ recorded' = recorded \cup {cmd[o].profile}
  /\ cmd' = [cmd EXCEPT ![o].pc = cmd[o].then]
  /\ UNCHANGED <<inst, prev, narrow, quarantine, hostCmds, events, acted, removed, ever>>

\* The old profile is removed, not renamed.
CommitKeep_Removes(o) ==
  /\ cmd[o].pc = "keep" /\ inst # NoFile
  /\ inst' = NoFile
  /\ cmd' = [cmd EXCEPT ![o].pc = "write"]
  /\ UNCHANGED <<prev, narrow, quarantine, hostCmds, recorded, events, acted, removed, ever>>

\* The installed profile, whichever it is by now, becomes the previous one.
CommitKeep(o) ==
  /\ cmd[o].pc = "keep" /\ inst # NoFile
  /\ prev' = inst /\ inst' = NoFile
  /\ cmd' = [cmd EXCEPT ![o].pc = "write"]
  /\ UNCHANGED <<narrow, quarantine, hostCmds, recorded, events, acted, removed, ever>>

\* writePrivate of the profile: a temporary file is renamed over the path, and
\* the path is removed when its mode cannot be set.
writePrivate(o) ==
  /\ cmd[o].pc = "write"
  /\ \/ inst' = cmd[o].profile /\ ever' = TRUE /\ UNCHANGED removed
     \/ inst' = NoFile /\ removed' = TRUE /\ UNCHANGED ever
  /\ Leave(o)
  /\ UNCHANGED <<prev, narrow, quarantine, hostCmds, recorded, events, acted>>

commitNarrow(o) ==
  /\ cmd[o].pc = "overlay"
  /\ \/ narrow' = cmd[o].profile /\ UNCHANGED removed
     \/ narrow' = NoFile /\ removed' = TRUE
  /\ Leave(o)
  /\ UNCHANGED <<inst, prev, quarantine, hostCmds, recorded, events, acted, ever>>

\* The process dies, a check or the policy refuses, the audit log or a file
\* system call fails: the command ends where it is and undoes nothing.
Abandon(o) ==
  /\ cmd[o] # Resting
  /\ Leave(o)
  /\ UNCHANGED <<inst, prev, narrow, quarantine, hostCmds, recorded, events, acted, removed, ever>>

-----------------------------------------------------------------------------
(* host rollback, drift, status and verify                                  *)

hostRollback(o) ==
  /\ ~quarantine /\ prev \in Signed
  /\ EnterCmd(o, [pc |-> "log", profile |-> prev, then |-> "write"])
  /\ UNCHANGED <<inst, prev, narrow, quarantine, recorded, events, acted, removed, ever>>

\* The installed profile is read; without one drift only refuses.
hostDrift(o) ==
  /\ inst \in Signed
  /\ EnterCmd(o, [pc |-> "apply", profile |-> inst, read |-> inst])
  /\ UNCHANGED <<inst, prev, narrow, quarantine, recorded, events, acted, removed, ever>>

\* The overlay is read later, and only one that narrows the profile just read is used.
applyNarrow(o) ==
  /\ cmd[o].pc = "apply"
  /\ narrow # NoFile => narrowOf(narrow, cmd[o].read)
  /\ cmd' = [cmd EXCEPT ![o] = [pc |-> "log", then |-> "show", read |-> @.read,
                                profile |-> IF narrow = NoFile THEN @.read ELSE narrow]]
  /\ UNCHANGED <<inst, prev, narrow, quarantine, hostCmds, recorded, events, acted, removed, ever>>

\* host verify has no overlay: it reads, records and prints.
hostVerify(o) ==
  /\ inst \in Signed
  /\ EnterCmd(o, [pc |-> "log", profile |-> inst, read |-> inst, then |-> "show"])
  /\ UNCHANGED <<inst, prev, narrow, quarantine, recorded, events, acted, removed, ever>>

formatProfile(o) ==
  /\ cmd[o].pc = "show" /\ Leave(o)
  /\ UNCHANGED <<inst, prev, narrow, quarantine, hostCmds, recorded, events, acted, removed, ever>>

-----------------------------------------------------------------------------
(* Quarantine, the recovery menu, do and unit. The menu runs its verbs in a  *)
(* context that refuses what quarantine refuses.                             *)

Quarantine ==
  /\ ~quarantine /\ quarantine' = TRUE
  /\ UNCHANGED <<inst, prev, narrow, cmd, hostCmds, recorded, events, acted, removed, ever>>

\* A signed lift envelope removes the file.
LiftQuarantine ==
  /\ quarantine /\ quarantine' = FALSE
  /\ UNCHANGED <<inst, prev, narrow, cmd, hostCmds, recorded, events, acted, removed, ever>>

unitObserveAllowed(verb) == verb \in {"read", "restart-agent"}

\* do refuses in recovery and quarantine before it looks the session up.
RunDo(o, menu) ==
  /\ ~menu /\ ~quarantine /\ hostCmds < MaxHostActs
  /\ EnterCmd(o, [pc |-> "event", verb |-> "do", menu |-> menu])
  /\ UNCHANGED <<inst, prev, narrow, quarantine, recorded, events, acted, removed, ever>>

RunUnit(o, menu) == \E verb \in {"read", "restart-agent", "restart", "stop"} :
  /\ menu \/ quarantine => unitObserveAllowed(verb)
  /\ hostCmds < MaxHostActs
  /\ EnterCmd(o, [pc |-> "event", verb |-> verb, menu |-> menu])
  /\ UNCHANGED <<inst, prev, narrow, quarantine, recorded, events, acted, removed, ever>>

\* The menu opens when the chain is on and takes RECOVERY_OPEN; of its verbs
\* network, disk and journal only read, and restart is a unit command.
RunRecovery(o) == RunUnit(o, TRUE) /\ cmd'[o].verb \in {"read", "restart-agent", "restart"}

\* DO and UNIT are recorded first; do is then authorized with the child's argv.
ActLogged(o) ==
  /\ cmd[o].pc = "event"
  /\ events' = events \cup {cmd[o].verb}
  /\ cmd' = [cmd EXCEPT ![o].pc = "act"]
  /\ UNCHANGED <<inst, prev, narrow, quarantine, hostCmds, recorded, acted, removed, ever>>

ActRuns(o) ==
  /\ cmd[o].pc = "act"
  /\ acted' = acted \cup {[verb |-> cmd[o].verb, menu |-> cmd[o].menu]}
  /\ Leave(o)
  /\ UNCHANGED <<inst, prev, narrow, quarantine, hostCmds, recorded, events, removed, ever>>

-----------------------------------------------------------------------------
\* A host with the profile of an earlier commit, or without one.
HostInit ==
  /\ inst \in {p \in Signed : p.users = HostUsers /\ p.kids = 1} \cup {NoFile} /\ prev = NoFile /\ narrow = NoFile
  /\ quarantine = FALSE
  /\ cmd = [o \in HostShells |-> Resting]
  /\ hostCmds = 0
  /\ recorded = {inst} \ {NoFile} /\ events = {} /\ acted = {}
  /\ removed = FALSE /\ ever = (inst # NoFile)

HostNext ==
  \/ \E o \in HostShells :
       \/ hostCommit(o) \/ HostLogged(o) \/ CommitKeep(o) \/ writePrivate(o) \/ commitNarrow(o)
       \/ hostRollback(o) \/ hostDrift(o) \/ applyNarrow(o) \/ hostVerify(o) \/ formatProfile(o)
       \/ RunDo(o, FALSE) \/ RunUnit(o, FALSE) \/ RunRecovery(o) \/ ActLogged(o) \/ ActRuns(o)
       \/ Abandon(o)
  \/ Quarantine \/ LiftQuarantine

HostSpec == HostInit /\ [][HostNext]_profileVars

-----------------------------------------------------------------------------
(* Properties                                                               *)

\* Whatever shells race or die, the installed and the previous profile are
\* signed, and the record of each was written before the file (hostCommit and
\* hostRollback log first; rollback takes what a commit put aside).
ProfilesOnRecord ==
  \A f \in {inst, prev} \ {NoFile} : f \in Signed /\ f \in recorded

\* What drift and status print never allows more than the signed profile they
\* read: an overlay committed against an older profile is refused, not applied
\* (applyNarrow compares again).
DriftNeverWidens ==
  \A o \in HostShells : cmd[o].pc = "show" =>
    cmd[o].read \in Signed /\ narrowOf(cmd[o].profile, cmd[o].read)

\* Once a profile was installed, a shell that dies or fails between the rename
\* of the old profile and the write of the new one leaves a profile to roll
\* back to; only a failed chmod takes one away.
ProfileSurvives == ever /\ ~removed => inst # NoFile \/ prev # NoFile

\* No child process of do or unit is started without its event, and the
\* recovery menu starts none but readers and the restart of the agent unit.
ActedAsRecorded ==
  \A a \in acted : a.verb \in events /\ (a.menu => a.verb \in {"read", "restart-agent"})

\* Host profiles, overlays and recovery actions stay signed, recorded and
\* recoverable, whatever shells race, fail or die.
HostSafety == ProfilesOnRecord /\ DriftNeverWidens /\ ProfileSurvives /\ ActedAsRecorded
==============================================================================
