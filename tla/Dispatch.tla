------------------------------ MODULE Dispatch ------------------------------
(***************************************************************************)
(* The way of one command through the handlers of a session                  *)
(* (security/interceptor.go, openhandler.go and the session process's side   *)
(* of ssh_monitor.go): the call handler that gates it, and the exec handler  *)
(* that finds out what it is and does it. A background job takes the same    *)
(* way on a goroutine of its own. "exec", and "command" for a name that is   *)
(* not a builtin, hand their argument straight to the exec handler: the gate *)
(* has seen the wrapper only. So it is with the exec handler's own "time",   *)
(* which a quoted name or a wrapper reaches.                                 *)
(***************************************************************************)
EXTENDS Naturals

CONSTANTS
  Shells,    \* the goroutines that run commands of the session: "fg" and background jobs
  Values,    \* what is assigned
  MaxIssued, \* bound: commands
  Unset      \* a name without a value

ASSUME DispatchAssumption == "fg" \in Shells /\ "none" \notin Shells /\ MaxIssued \in Nat /\ Unset \notin Values

Kinds == {"set", "alias", "read",             \* builtins that write the globals
          "listened", "refused", "vbin",      \* vbins: run by the listener, refused over SSH, others
          "custom", "path", "plain",          \* a Starlark command, a name with a slash, any other
          "net", "fd", "file"}                \* redirections
EnvNames == {"VAR", "SESSION_ID"}
Reserved == {"SESSION_ID"}                       \* reservedSessionName

VARIABLES
  place,      \* "local", or "ssh": a session process that has a listener
  restricted, \* is the shell restricted?
  remoteRun,  \* did the session process install its Run?
  listed,     \* is the session registered?
  todo,       \* of each shell: its command
  spc,        \* of each shell: where it is
  writer,     \* who holds globalsMu for writing
  copying,    \* does the session thread copy the globals?
  globals,    \* the session's Starlark globals
  overlay,    \* the environment of the session
  environ,    \* the environment of the process
  issued,     \* bound
  passed,     \* of each shell: what gate its command passed: "none", "local" or "listener"
  effects     \* what was done, for whom, and under which gate

shellsVars == <<todo, spc, passed>>
envVars == <<globals, overlay, environ>>
dispatchVars == <<place, restricted, remoteRun, listed, shellsVars, writer, copying, envVars, issued, effects>>

NoCmd == [wrap |-> "no", kind |-> "none", var |-> "VAR", val |-> Unset]
Own == "s"                                    \* the fixed id of the session

\* The fixed id, not the one in the globals.
gateSessionID == Own

SpcTo(j, p) == spc' = [spc EXCEPT ![j] = p]
\* The command of j is done with this effect.
Effect(j, what) ==
  /\ SpcTo(j, "idle")
  /\ effects' = effects \cup {[what |-> what, kind |-> todo[j].kind, as |-> gateSessionID, gate |-> passed[j]]}

-----------------------------------------------------------------------------
Issue(j) == \E w \in {"no", "exec", "time"}, k \in Kinds, n \in EnvNames, v \in Values :
  /\ spc[j] = "idle" /\ issued < MaxIssued /\ (j = "fg" => ~copying)
  /\ k \in {"net", "fd", "file"} => w = "no"
  /\ k \notin {"set", "read"} => n = "VAR"
  /\ w = "time" => k \in {"listened", "vbin", "path", "plain"}
  /\ todo' = [todo EXCEPT ![j] = [wrap |-> w, kind |-> k, var |-> n, val |-> v]]
  /\ SpcTo(j, "call") /\ issued' = issued + 1
  /\ passed' = [passed EXCEPT ![j] = "none"]
  /\ UNCHANGED <<place, restricted, remoteRun, listed, writer, copying, envVars, effects>>

\* No local gate in front of a command that the listener runs, and gates. A builtin
\* of the interpreter reaches the exec handler behind a wrapper only.
callHandler(j) ==
  /\ spc[j] = "call" /\ todo[j].kind \notin {"net", "fd", "file"}
  /\ \/ SpcTo(j, "idle") /\ UNCHANGED passed
     \/ LET remote == place = "ssh" /\ todo[j].wrap = "no" /\ todo[j].kind = "listened"
            native == todo[j].kind \in {"set", "alias", "read"} /\ todo[j].wrap = "no" IN
          /\ passed' = [passed EXCEPT ![j] = IF remote THEN "none" ELSE "local"]
          /\ SpcTo(j, IF native THEN "idle" ELSE "exec")
  /\ UNCHANGED <<place, restricted, remoteRun, listed, todo, writer, copying, envVars, issued, effects>>

\* The open handler: no descriptor from 3 up, no network in a restricted shell, and
\* a network device passes the gate like a command.
openHandler(j) ==
  /\ spc[j] = "call" /\ todo[j].kind \in {"net", "fd", "file"}
  /\ \/ SpcTo(j, "idle") /\ UNCHANGED <<passed, effects>>
     \/ /\ todo[j].kind = "net" /\ ~restricted
        /\ passed' = [passed EXCEPT ![j] = "local"]
        /\ SpcTo(j, "idle")
        /\ effects' = effects \cup {[what |-> "dial", kind |-> "net", as |-> gateSessionID, gate |-> "local"]}
  /\ UNCHANGED <<place, restricted, remoteRun, listed, todo, writer, copying, envVars, issued>>

\* In the exec handler, the name that it looks up is one of these.
Names(j, kinds) == spc[j] = "exec" /\ todo[j].wrap # "time" /\ todo[j].kind \in kinds

\* assignProcessOrSessionEnv: the overlay of a registered session. The session has an
\* id, so the process is never written.
assignEnv(j) ==
  /\ listed
  /\ overlay' = [overlay EXCEPT ![todo[j].var] = todo[j].val]
  /\ UNCHANGED environ

\* Under the lock: refused, or the environment and then the global.
applySetAssignment(j) ==
  /\ Names(j, {"set"}) /\ writer = "none" /\ ~copying
  /\ \/ todo[j].var \notin Reserved /\ writer' = j /\ SpcTo(j, "global") /\ assignEnv(j)
     \/ SpcTo(j, "idle") /\ (todo[j].var \in Reserved \/ ~listed) /\ UNCHANGED <<writer, overlay, environ>>
  /\ UNCHANGED <<place, restricted, remoteRun, listed, todo, passed, copying, globals, issued, effects>>

\* The lock is not taken for the global.
readBuiltin_Unlocked(j) ==
  /\ \/ Names(j, {"read"}) /\ writer = "none" /\ SpcTo(j, "line") /\ UNCHANGED <<writer, overlay, environ>>
     \/ spc[j] = "line" /\ SpcTo(j, "global") /\ todo[j].var \notin Reserved /\ assignEnv(j) /\ UNCHANGED writer
     \/ spc[j] = "line" /\ SpcTo(j, "idle") /\ UNCHANGED <<writer, overlay, environ>>
  /\ UNCHANGED <<place, restricted, remoteRun, listed, todo, passed, copying, globals, issued, effects>>

\* read waits for its line without the lock, writes the environment without it, and
\* takes it for the global.
readBuiltin(j) ==
  /\ \/ Names(j, {"read"}) /\ writer = "none" /\ SpcTo(j, "line") /\ UNCHANGED <<writer, overlay, environ>>
     \/ spc[j] = "line" /\ SpcTo(j, "lock") /\ todo[j].var \notin Reserved /\ assignEnv(j) /\ UNCHANGED writer
     \/ spc[j] = "line" /\ SpcTo(j, "idle") /\ UNCHANGED <<writer, overlay, environ>>
     \/ /\ spc[j] = "lock" /\ writer = "none" /\ ~copying
        /\ writer' = j /\ SpcTo(j, "global") /\ UNCHANGED <<overlay, environ>>
  /\ UNCHANGED <<place, restricted, remoteRun, listed, todo, passed, copying, globals, issued, effects>>

\* alias, unalias and set -x write a dict of the globals under the lock.
aliasBuiltin(j) ==
  /\ Names(j, {"alias"}) /\ writer = "none" /\ ~copying
  /\ writer' = j /\ SpcTo(j, "global")
  /\ UNCHANGED <<place, restricted, remoteRun, listed, todo, passed, copying, envVars, issued, effects>>

WriteGlobal(j) ==
  /\ spc[j] = "global" /\ SpcTo(j, "idle")
  /\ writer' = IF writer = j THEN "none" ELSE writer
  /\ globals' = IF todo[j].kind = "alias" THEN globals ELSE [globals EXCEPT ![todo[j].var] = todo[j].val]
  /\ UNCHANGED <<place, restricted, remoteRun, listed, todo, passed, copying, overlay, environ, issued, effects>>

\* The listener gates what it runs; without a Run installed it is refused.
runInListener(j) ==
  /\ place = "ssh" /\ Names(j, {"listened"}) /\ writer = "none"
  /\ \/ SpcTo(j, "idle") /\ UNCHANGED <<passed, effects>>
     \/ /\ remoteRun /\ passed' = [passed EXCEPT ![j] = "listener"]
        /\ SpcTo(j, "idle")
        /\ effects' = effects \cup {[what |-> "run", kind |-> todo[j].kind, as |-> Own, gate |-> "listener"]}
  /\ UNCHANGED <<place, restricted, remoteRun, listed, todo, writer, copying, envVars, issued>>

\* A vbin that is refused over SSH is refused here too: "command NAME" came without
\* the gate seeing NAME.
dispatchVBin(j) ==
  /\ writer = "none"
  /\ Names(j, {"vbin", "refused"}) \/ (Names(j, {"listened"}) /\ place = "local")
  /\ IF place = "ssh" /\ todo[j].kind = "refused"
     THEN SpcTo(j, "idle") /\ UNCHANGED effects
     ELSE Effect(j, "vbin")
  /\ UNCHANGED <<place, restricted, remoteRun, listed, todo, passed, writer, copying, envVars, issued>>

customCommand(j) ==
  /\ Names(j, {"custom"}) /\ writer = "none"
  /\ Effect(j, "custom")
  /\ UNCHANGED <<place, restricted, remoteRun, listed, todo, passed, writer, copying, envVars, issued>>

\* time starts its argument as a child process, whatever it names: a vbin or a custom
\* command is not looked up, and a slash is not looked at. ("command" passes itself on
\* as the child's name: a plain one.)
timeBuiltin(j) ==
  /\ spc[j] = "exec" /\ todo[j].wrap = "time" /\ writer = "none"
  /\ Effect(j, "timed")
  /\ UNCHANGED <<place, restricted, remoteRun, listed, todo, passed, writer, copying, envVars, issued>>

\* Any other name is a child process; in a restricted shell no name has a slash.
nextHandler(j) ==
  /\ Names(j, {"path", "plain"}) /\ writer = "none"
  /\ IF restricted /\ todo[j].kind = "path" THEN SpcTo(j, "idle") /\ UNCHANGED effects ELSE Effect(j, "child")
  /\ UNCHANGED <<place, restricted, remoteRun, listed, todo, passed, writer, copying, envVars, issued>>

-----------------------------------------------------------------------------
\* The session thread copies the globals for sys.parallel.
ReadGlobals ==
  /\ IF copying THEN copying' = FALSE
     ELSE spc["fg"] = "idle" /\ writer = "none" /\ copying' = TRUE
  /\ UNCHANGED <<place, restricted, remoteRun, listed, shellsVars, writer, envVars, issued, effects>>

\* Starlark code puts another id into the globals by a way that is not checked.
GlobalMoves ==
  /\ spc["fg"] = "idle" /\ ~copying /\ globals["SESSION_ID"] = Own
  /\ globals' = [globals EXCEPT !["SESSION_ID"] = "other"]
  /\ UNCHANGED <<place, restricted, remoteRun, listed, shellsVars, writer, copying, overlay, environ, issued, effects>>

SessionGoes ==
  /\ listed /\ listed' = FALSE
  /\ UNCHANGED <<place, restricted, remoteRun, shellsVars, writer, copying, envVars, issued, effects>>

-----------------------------------------------------------------------------
DispatchInit ==
  /\ place \in {"local", "ssh"} /\ restricted \in BOOLEAN /\ remoteRun \in BOOLEAN /\ listed = TRUE
  /\ todo = [j \in Shells |-> NoCmd] /\ spc = [j \in Shells |-> "idle"] /\ passed = [j \in Shells |-> "none"]
  /\ writer = "none" /\ copying = FALSE /\ issued = 0 /\ effects = {}
  /\ globals = [n \in EnvNames |-> IF n = "SESSION_ID" THEN Own ELSE Unset]
  /\ overlay = [n \in EnvNames |-> Unset] /\ environ = [n \in EnvNames |-> Unset]

ShellStep(j) ==
  \/ callHandler(j) \/ openHandler(j) \/ applySetAssignment(j) \/ readBuiltin(j) \/ aliasBuiltin(j)
  \/ WriteGlobal(j) \/ runInListener(j) \/ dispatchVBin(j) \/ customCommand(j) \/ timeBuiltin(j) \/ nextHandler(j)
DispatchNext == (\E j \in Shells : Issue(j) \/ ShellStep(j)) \/ ReadGlobals \/ GlobalMoves \/ SessionGoes

DispatchSpec == DispatchInit /\ [][DispatchNext]_dispatchVars

-----------------------------------------------------------------------------
(* Properties                                                               *)

\* Whatever was done was done under a gate, and for the session it belongs to,
\* though Starlark code may have changed the id that the globals show.
DoneForOwner == \A e \in effects : e.as = Own /\ e.gate # "none"

\* In the process of an SSH session no vbin runs that belongs to the listener or is
\* refused there, by whatever wrapper its name arrives.
ListenerKeepsItsVBins ==
  place = "ssh" => \A e \in effects : e.what = "vbin" => e.kind = "vbin"

\* A restricted shell dials nothing, and runs a path in one way only: as the argument
\* of the exec handler's "time", which goes past the check of its name.
RestrictedHolds ==
  restricted => \A e \in effects : e.what # "dial" /\ (e.kind = "path" => e.what = "timed")

\* A session never writes the environment of the process it shares with others, nor
\* a reserved name anywhere.
EnvironStays ==
  /\ \A n \in EnvNames : environ[n] = Unset
  /\ \A n \in Reserved : overlay[n] = Unset /\ globals[n] \in {Own, "other"}

\* While the session thread copies the globals, no builtin of a background job
\* writes them.
CopyUndisturbed == copying => \A j \in Shells : spc[j] # "global"

\* How a command line reaches what it names (callHandler, execHandler, the builtins
\* and assignments): for its own session, within what its process may do, and
\* without disturbing the one that copies the globals.
DispatchSafety ==
  /\ DoneForOwner /\ ListenerKeepsItsVBins /\ RestrictedHolds /\ EnvironStays
  /\ CopyUndisturbed
=============================================================================
