----------------------------- MODULE ChildExec ------------------------------
(***************************************************************************)
(* The run of one external command that the gate has passed: on a pseudo     *)
(* terminal (internal/repl/pty_exec.go) or by the innermost exec handler     *)
(* (security/session_exec.go), there plainly or, for a run without a         *)
(* terminal, in a process group of its own. The child, and a process that it *)
(* leaves behind, do as they like. Output and keys are counted.              *)
(***************************************************************************)
EXTENDS Naturals

CONSTANTS
  MaxOut,   \* bound: writes of the child and of what it left behind
  MaxTyped, \* bound: keys typed while it runs and after
  PipeRoom  \* keys that the pseudo terminal holds for a child that does not read

ASSUME ChildAssumption == {MaxOut, MaxTyped, PipeRoom} \subseteq Nat

VARIABLES
  how,        \* "pty", "plain" or "group"
  hpc,        \* where the handler is
  mode,       \* of the terminal: "cooked" or "raw"
  child,      \* "none", "up" or "down"
  kid,        \* a process it left: "none", "in" its group, "left" the group, or "gone"
  ctx,        \* the context of the run: "live" or "done"
  killer,     \* what the function after the context has done: "none", "armed", "asked", "killed"
  master,     \* of the pseudo terminal: "none", "pollable", "blocking", "shut" or "closed"
  copier,     \* copies the output: "off", "on" or "done"
  pump,       \* copies the keys: "off", or where it is, or "done"
  stopInput,  \* the flag that stops the pump
  hold,       \* keys in the pump's buffer
  inbuf,      \* keys in the pseudo terminal that nobody read
  tty,        \* keys in the terminal that nobody took
  typed,      \* bound
  wrote,      \* what was written to the output
  shown,      \* what of it reached the session
  ttyExpired, \* was the output given up?
  starts,     \* processes started for this command
  refused     \* could its identity or limits not be set?

ioVars == <<master, copier, pump, stopInput, hold, inbuf, tty, typed, wrote, shown, ttyExpired>>
procVars == <<child, kid, ctx, killer, starts, refused>>
childVars == <<how, hpc, mode, procVars, ioVars>>

Held == child = "up" \/ kid \in {"in", "left"} \* somebody has the output open

-----------------------------------------------------------------------------
(* The handlers                                                             *)

\* Not on the path: status 127. The pseudo terminal does not fall back here.
LookPath ==
  /\ hpc = "look"
  /\ hpc' \in {"prepare", "out"}
  /\ UNCHANGED <<how, mode, procVars, ioVars>>

PrepareChild ==
  /\ hpc = "prepare"
  /\ \E bad \in BOOLEAN :
       /\ refused' = (refused \/ bad)
       /\ hpc' = IF bad THEN "out" ELSE IF how = "pty" THEN "raw" ELSE "start"
  /\ UNCHANGED <<how, mode, child, kid, ctx, killer, starts, ioVars>>

\* No raw mode: nothing is started, and the next handler runs the command.
MakeRaw ==
  /\ hpc = "raw"
  /\ \/ mode' = "raw" /\ hpc' = "start" /\ UNCHANGED how
     \/ how' = "plain" /\ hpc' = "look" /\ UNCHANGED mode
  /\ UNCHANGED <<procVars, ioVars>>

\* The goroutines start with the child. If there is no child the terminal is put
\* back and the next handler runs the command; without one, the command ends.
StartChild ==
  /\ hpc = "start"
  /\ \/ /\ child' = "up" /\ starts' = starts + 1 /\ hpc' = "wait" /\ copier' = "on"
        /\ killer' = IF ctx = "done" THEN "armed" ELSE killer
        /\ IF how = "pty"
           THEN master' \in {"pollable", "blocking"} /\ pump' = "check"
           ELSE UNCHANGED <<master, pump>>
        /\ UNCHANGED <<how, mode>>
     \/ /\ IF how = "pty" THEN how' = "plain" /\ hpc' = "look" ELSE hpc' = "out" /\ UNCHANGED how
        /\ mode' = "cooked"
        /\ UNCHANGED <<child, killer, starts, copier, master, pump>>
  /\ UNCHANGED <<kid, ctx, refused, stopInput, hold, inbuf, tty, typed, wrote, shown, ttyExpired>>

\* cmd.Wait: off the pseudo terminal it also waits for the copy of the output, in a
\* group only for so long, and then closes the pipe.
Wait ==
  /\ hpc = "wait" /\ child = "down"
  /\ IF how = "pty"
     THEN hpc' = "drain" /\ stopInput' = TRUE /\ UNCHANGED <<copier, ttyExpired>>
     ELSE /\ copier = "done" \/ how = "group"
          /\ hpc' = "out" /\ copier' = "done" /\ ttyExpired' = (copier # "done")
          /\ UNCHANGED stopInput
  /\ UNCHANGED <<how, mode, procVars, master, pump, hold, inbuf, tty, typed, wrote, shown>>

\* Or ptyDrainTimeout passed. Then the master is closed.
DrainOutput ==
  /\ hpc = "drain"
  /\ hpc' = "join" /\ ttyExpired' = (copier # "done")
  /\ master' = IF master = "pollable" THEN "closed" ELSE "shut"
  /\ UNCHANGED <<how, mode, procVars, copier, pump, stopInput, hold, inbuf, tty, typed, wrote, shown>>

Join ==
  /\ hpc = "join" /\ copier = "done" /\ pump = "done"
  /\ hpc' = "out" /\ mode' = "cooked"
  /\ UNCHANGED <<how, procVars, ioVars>>

\* The context is done: a group is killed as one; a child on the pseudo terminal is
\* killed; any other is interrupted, and killed when it is still there later. Once
\* begun it is not stopped by the return of the handler.
AfterFunc ==
  /\ killer \in {"armed", "asked"}
  /\ killer' = IF how = "plain" /\ killer = "armed" THEN "asked" ELSE "killed"
  /\ child' \in IF killer' = "killed" THEN {"down"} ELSE {child, "down"}
  /\ kid' = IF how = "group" /\ kid = "in" THEN "gone" ELSE kid
  /\ UNCHANGED <<how, hpc, mode, ctx, starts, refused, ioVars>>

-----------------------------------------------------------------------------
(* The goroutines                                                           *)

Copy ==
  /\ copier = "on" /\ shown < wrote /\ master # "closed"
  /\ shown' = shown + 1
  /\ UNCHANGED <<how, hpc, mode, procVars, master, copier, pump, stopInput, hold, inbuf, tty, typed, wrote, ttyExpired>>

\* At the end of the output, or when a pollable master was closed under it.
CopyEnds ==
  /\ copier = "on" /\ \/ shown = wrote /\ ~Held
                      \/ master = "closed"
  /\ copier' = "done"
  /\ UNCHANGED <<how, hpc, mode, procVars, master, pump, stopInput, hold, inbuf, tty, typed, wrote, shown, ttyExpired>>

PumpTo(p) == pump' = p /\ UNCHANGED <<how, hpc, mode, procVars, master, copier, stopInput, typed, wrote, shown, ttyExpired>>

\* poll returns with keys, or after a while without; the flag is looked at before
\* and after it.
pumpTerminalInput ==
  \/ pump = "check" /\ PumpTo(IF stopInput THEN "done" ELSE "poll") /\ UNCHANGED <<hold, inbuf, tty>>
  \/ pump = "poll" /\ PumpTo(IF tty > 0 /\ ~stopInput THEN "read" ELSE "check") /\ UNCHANGED <<hold, inbuf, tty>>
  \/ /\ pump = "read" /\ PumpTo("write")
     /\ hold' = tty /\ tty' = 0 /\ UNCHANGED inbuf

PumpWrite ==
  \/ /\ pump \in {"write", "blocked"} /\ master \in {"pollable", "blocking"} /\ inbuf + hold <= PipeRoom
     /\ PumpTo("check") /\ inbuf' = inbuf + hold /\ hold' = 0 /\ UNCHANGED tty
  \/ /\ pump = "write" /\ master \in {"pollable", "blocking"} /\ inbuf + hold > PipeRoom
     /\ PumpTo("blocked") /\ UNCHANGED <<hold, inbuf, tty>>
  \/ /\ \/ pump = "write" /\ master \in {"closed", "shut"}
        \/ pump = "blocked" /\ master = "closed"
     /\ PumpTo("done") /\ UNCHANGED <<hold, inbuf, tty>>

-----------------------------------------------------------------------------
(* Outside: the child, the operator, the owner of the run                   *)

ChildWrites ==
  /\ Held /\ wrote < MaxOut /\ master # "closed" /\ ~(how # "pty" /\ ttyExpired)
  /\ wrote' = wrote + 1
  /\ UNCHANGED <<how, hpc, mode, procVars, master, copier, pump, stopInput, hold, inbuf, tty, typed, shown, ttyExpired>>

ChildReads ==
  /\ child = "up" /\ inbuf > 0 /\ inbuf' = 0
  /\ UNCHANGED <<how, hpc, mode, procVars, master, copier, pump, stopInput, hold, tty, typed, wrote, shown, ttyExpired>>

ChildForks ==
  /\ child = "up" /\ kid = "none" /\ kid' \in {"in", "left"}
  /\ UNCHANGED <<how, hpc, mode, child, ctx, killer, starts, refused, ioVars>>

ChildExits ==
  /\ \/ child = "up" /\ child' = "down" /\ UNCHANGED kid
     \/ kid \in {"in", "left"} /\ kid' = "gone" /\ UNCHANGED child
  /\ UNCHANGED <<how, hpc, mode, ctx, killer, starts, refused, ioVars>>

ContextDone ==
  /\ ctx = "live" /\ ctx' = "done"
  /\ killer' = IF hpc = "wait" THEN "armed" ELSE killer
  /\ UNCHANGED <<how, hpc, mode, child, kid, starts, refused, ioVars>>

TypeKey ==
  /\ typed < MaxTyped /\ typed' = typed + 1 /\ tty' = tty + 1
  /\ UNCHANGED <<how, hpc, mode, procVars, master, copier, pump, stopInput, hold, inbuf, wrote, shown, ttyExpired>>

-----------------------------------------------------------------------------
ChildInit ==
  /\ how \in {"pty", "plain", "group"} /\ hpc = "look" /\ mode = "cooked"
  /\ child = "none" /\ kid = "none" /\ ctx = "live" /\ killer = "none" /\ starts = 0 /\ refused = FALSE
  /\ master = "none" /\ copier = "off" /\ pump = "off" /\ stopInput = FALSE /\ hold = 0 /\ inbuf = 0
  /\ tty = 0 /\ typed = 0 /\ wrote = 0 /\ shown = 0 /\ ttyExpired = FALSE

RunStep == LookPath \/ PrepareChild \/ MakeRaw \/ StartChild \/ Wait \/ DrainOutput \/ Join
CopyStep == Copy \/ CopyEnds
KeyStep == pumpTerminalInput \/ PumpWrite
ChildNext ==
  \/ RunStep \/ AfterFunc \/ CopyStep \/ KeyStep
  \/ ChildWrites \/ ChildReads \/ ChildForks \/ ChildExits \/ ContextDone \/ TypeKey

ChildSpec == ChildInit /\ [][ChildNext]_childVars

-----------------------------------------------------------------------------
(* Properties                                                               *)

\* A command is started once, whichever handler runs it and whatever failed
\* before; one whose identity or limits could not be set is not started at all.
StartedOnce == starts <= 1 /\ (refused => starts = 0)

\* When the handler returns the terminal is as it was, and no goroutine of the
\* command is left that would take the operator's next keys or write to the session.
TerminalHandedBack ==
  hpc = "out" => /\ mode = "cooked"
                 /\ pump \in {"off", "done"} /\ copier \in {"off", "done"}

\* What reached the session is what was written, unless a process that was left
\* behind kept the output open past the time it is given.
OutputWhole == hpc = "out" /\ ~ttyExpired /\ kid \notin {"in", "left"} => shown = wrote

\* A run in a group that is past its deadline leaves no process of the group, and
\* returns; on a pseudo terminal that can be polled the prompt comes back after
\* the child, whatever it left behind.
DeadlineKills == (how = "group" /\ hpc = "wait" /\ ctx = "done") ~> (hpc = "out" /\ kid # "in")
PromptComesBack == (how = "pty" /\ hpc = "wait" /\ child = "down" /\ master = "pollable") ~> hpc = "out"
=============================================================================
