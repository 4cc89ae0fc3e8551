------------------------------ MODULE Startup -------------------------------
(***************************************************************************)
(* How a process comes up (main.go, ssh_session.go): a chain of stages     *)
(* each of which ends the process when it fails, the command line's modes, *)
(* the SSH listener with its logins, and what SIGHUP and SIGTERM do.       *)
(*                                                                         *)
(* A process is the shell (kind "shell") or the session process of an SSH  *)
(* login (kind "login"), which is gated by the monitor of its listener.    *)
(* SIGHUP is delivered by a goroutine of its own, which reads the action   *)
(* under a lock and runs it after; enable_ssh and disable_ssh change the   *)
(* listener first and the action after.                                    *)
(***************************************************************************)
EXTENDS Naturals, Sequences, FiniteSets

CONSTANTS
    Logins,      \* SSH logins the listener may take
    MaxScripted, \* bound: chunks of a script
    MaxHups,     \* bound: hangups
    MaxToggles   \* bound: calls of enable_ssh and disable_ssh

ASSUME StartupAssumption == {MaxScripted, MaxHups, MaxToggles} \subseteq Nat

VARIABLES
    want,     \* what the command line asks for
    stage,    \* the stage the process is in; "exit" when it ended
    code,     \* its exit status
    have,     \* stages that succeeded
    ranCode,  \* code that was run: "profiles", "command", "script", "repl", "sah", "recover"
    chunk,    \* the chunks of -c or a script: how many were recorded, run; a chunk under way
    port,     \* the SSH listener is open
    hook,     \* hangupHook: "default" or "stop"
    toggling, \* enable_ssh or disable_ssh between its two steps: "", "enabled", "disabled"
    hup,      \* the hangup goroutine: "idle", or the action it read
    login,    \* each SSH login: "none", "bound", "running", "ended"
    termed,   \* SIGTERM was sent
    spent     \* hangups and toggles so far

startVars == <<want, stage, code, have, ranCode, chunk, port, hook, toggling, hup, login, termed, spent>>

Modes == {"sah", "recover", "command", "script", "repl"}

ShellStages == <<"host", "log", "flags", "engine", "default", "guard", "identity">>
LocalStages == <<"record", "register">>
LoginStages == <<"args", "nondumpable", "monitor", "ping", "gate", "register">>

StartupInit ==
    /\ want \in [kind : {"shell"}, mode : Modes, serve : BOOLEAN, agent : BOOLEAN, tty : BOOLEAN]
            \cup [kind : {"login"}, mode : {"repl"}, serve : {FALSE}, agent : {FALSE}, tty : {TRUE}]
    /\ stage = (IF want.kind = "shell" THEN "host" ELSE "args")
    /\ code = 0 /\ have = {} /\ ranCode = {} /\ port = FALSE /\ hook = "default"
    /\ chunk = [logged |-> 0, run |-> 0] /\ toggling = "" /\ hup = "idle"
    /\ login = [l \in Logins |-> "none"] /\ termed = FALSE
    /\ spent = [hups |-> 0, toggles |-> 0]

Up == stage # "exit"

Go(next, got, runs) ==
    /\ stage' = next /\ have' = have \cup got /\ ranCode' = ranCode \cup runs
    /\ UNCHANGED <<want, code, chunk, port, hook, toggling, hup, login, termed, spent>>

ExitWith(status) ==
    /\ stage' = "exit" /\ code' = status
    /\ UNCHANGED <<want, have, ranCode, chunk, port, hook, toggling, hup, login, termed, spent>>

-----------------------------------------------------------------------------
(* The stages.                                                             *)

Fatal(s) ==
    CASE s \in {"log", "flags"} -> 2
      [] s = "default" -> 2
      [] s = "guard" -> (IF want.serve THEN 1 ELSE 0)
      [] OTHER -> 1

\* The stages of main in order, of sah and of the rest after the identity, and
\* those of a session process.
After(s) ==
    LET Follow(q, end) ==
            LET i == CHOOSE j \in 1..Len(q) : q[j] = s
            IN  IF i < Len(q) THEN q[i + 1] ELSE end
        Within(q) == \E j \in 1..Len(q) : q[j] = s
    IN  IF want.kind = "login" THEN Follow(LoginStages, "profiles")
        ELSE IF Within(ShellStages)
        THEN Follow(ShellStages, IF want.mode = "sah" THEN "bind" ELSE "record")
        ELSE Follow(LocalStages, IF want.mode = "recover" THEN "recover" ELSE "session")

\* One stage: the host, the log settings, the flags (help, init and doctor end the
\* process with 0), the engine, the default engine (with an allow-all policy refused
\* where that is asked for), the guard, the identity, the startup entries and the
\* registration. Of a session process: its arguments, the monitor and its gate.
Stage(ok) ==
    /\ stage \in {"host", "log", "flags", "engine", "default", "guard", "identity", "record", "register",
                  "args", "nondumpable", "monitor", "ping", "gate"}
    /\ IF ok THEN Go(After(stage), {stage}, {})
       ELSE IF Fatal(stage) = 0 THEN Go(After(stage), {}, {})
       ELSE ExitWith(Fatal(stage))

HelpOrDoctor(status) == stage = "flags" /\ ExitWith(status)

\* sah binds the identity on the engine and never registers a session.
RunSAH(ok) ==
    \/ stage = "bind" /\ (IF ok THEN Go("sah", {"bind"}, {}) ELSE ExitWith(1))
    \/ stage = "sah" /\ Go("over", {}, {"sah"})

runRecover == stage = "recover" /\ Go("over", {}, {"recover"})

\* The session is opened; the profiles run in it, and their errors are warnings.
OpenUser(ok) ==
    \/ stage = "session" /\ (IF ok THEN Go("profiles", {"session"}, {}) ELSE ExitWith(1))
    \/ /\ stage = "profiles"
       /\ Go(IF want.kind = "login" THEN "repl" ELSE IF want.mode = "command" THEN "chunk"
             ELSE IF want.serve THEN "serve" ELSE "agent", {}, {"profiles"})

evalOnce(logged, ok, last) ==
    /\ stage = "chunk" /\ chunk.run < MaxScripted
    /\ (~logged \/ ~ok) /\ want.mode = "command" => last
    /\ IF logged
       THEN /\ chunk' = [logged |-> chunk.logged + 1, run |-> chunk.run + 1]
            /\ ranCode' = ranCode \cup {want.mode}
       ELSE UNCHANGED <<chunk, ranCode>>
    /\ IF last THEN stage' = "exit" /\ code' = (IF logged /\ ok THEN 0 ELSE 1)
       ELSE UNCHANGED <<stage, code>>
    /\ UNCHANGED <<want, have, port, hook, toggling, hup, login, termed, spent>>

ExecScript == stage = "chunk" /\ want.mode = "script" /\ Go("over", {}, {"script"})

\* --serve: the listener, then the hangup action, then the admin API.
\* EnableSSHWithOptions wants root, the guard, keys and the port.
Serve(ok) ==
    \/ /\ stage = "serve"
       /\ IF ok /\ "guard" \in have
          THEN /\ port' = TRUE /\ stage' = "hook"
               /\ UNCHANGED <<want, code, have, ranCode, chunk, hook, toggling, hup, login, termed, spent>>
          ELSE ExitWith(1)
    \/ /\ stage = "hook" /\ hook' = "stop" /\ stage' = "admin"
       /\ UNCHANGED <<want, code, have, ranCode, chunk, port, toggling, hup, login, termed, spent>>
    \/ /\ stage = "admin"
       /\ IF ~ok THEN ExitWith(1)
          ELSE Go(IF want.mode = "repl" /\ ~want.tty THEN "service" ELSE "agent", {}, {})

\* The instrumentation agent, then the script or the shell.
StartAgent(ok) ==
    /\ stage = "agent"
    /\ IF want.agent /\ ~ok THEN ExitWith(1)
       ELSE Go(IF want.mode = "script" THEN "chunk" ELSE "repl", IF want.agent THEN {"agent"} ELSE {}, {})

\* The shell reads and runs lines until it is told to exit.
Repl == stage = "repl" /\ Go("repl", {}, {"repl"})
ReplEnds(status) == stage \in {"repl", "over"} /\ ExitWith(status)

\* Without a terminal the listener serves until SIGTERM or SIGINT.
Terminate == stage = "service" /\ termed /\ ExitWith(0)

SendTerm ==
    /\ stage = "service" /\ ~termed /\ termed' = TRUE
    /\ UNCHANGED <<want, stage, code, have, ranCode, chunk, port, hook, toggling, hup, login, spent>>

-----------------------------------------------------------------------------
(* enable_ssh, disable_ssh and hangups.                                    *)

Same == UNCHANGED <<want, stage, code, have, ranCode, chunk, login, termed>>

\* Mutant: the shell's own enable_ssh leaves the hangup action alone.
enableSSHWithHangup_NoHook ==
    /\ stage = "repl" /\ want.kind = "shell" /\ toggling = "" /\ ~port /\ "guard" \in have
    /\ spent.toggles < MaxToggles
    /\ port' = TRUE /\ spent' = [spent EXCEPT !.toggles = @ + 1]
    /\ UNCHANGED <<hook, toggling, hup>> /\ Same

enableSSHWithHangup ==
    /\ stage = "repl" /\ want.kind = "shell"
    /\ \/ /\ toggling = "" /\ ~port /\ "guard" \in have /\ spent.toggles < MaxToggles
          /\ port' = TRUE /\ toggling' = "enabled" /\ spent' = [spent EXCEPT !.toggles = @ + 1]
          /\ UNCHANGED <<hook, hup>>
       \/ /\ toggling = "enabled" /\ hook' = "stop" /\ toggling' = ""
          /\ UNCHANGED <<port, hup, spent>>
    /\ Same

\* A listener that is not running is an error, and the hangup action stays.
disableSSHClearHangup ==
    /\ stage = "repl" /\ want.kind = "shell"
    /\ \/ /\ toggling = "" /\ port /\ spent.toggles < MaxToggles
          /\ port' = FALSE /\ toggling' = "disabled" /\ spent' = [spent EXCEPT !.toggles = @ + 1]
          /\ UNCHANGED <<hook, hup>>
       \/ /\ toggling = "disabled" /\ hook' = "default" /\ toggling' = ""
          /\ UNCHANGED <<port, hup, spent>>
    /\ Same

\* SetupSignals runs before the registration; before it a hangup is the default.
Signals == {"register", "recover", "session", "profiles", "chunk", "serve", "hook", "admin", "agent",
            "repl", "service", "over"}

\* handleHangup reads the action under its lock.
Hangup ==
    /\ stage \in Signals /\ hup = "idle" /\ spent.hups < MaxHups
    /\ hup' = hook /\ spent' = [spent EXCEPT !.hups = @ + 1]
    /\ UNCHANGED <<port, hook, toggling>> /\ Same

handleHangup ==
    /\ Up /\ hup # "idle" /\ hup' = "idle"
    /\ IF hup = "default" THEN stage' = "exit" /\ code' = 0 /\ UNCHANGED port
       ELSE port' = FALSE /\ UNCHANGED <<stage, code>>
    /\ UNCHANGED <<want, have, ranCode, chunk, hook, toggling, login, termed, spent>>

-----------------------------------------------------------------------------
(* Logins: sshStarter.                                                     *)

SetLogin(l, to) ==
    /\ login' = [login EXCEPT ![l] = to]
    /\ UNCHANGED <<want, stage, code, have, ranCode, chunk, port, hook, toggling, hup, termed, spent>>

\* A login that was accepted binds its identity and starts its process; both end
\* together, whatever becomes of the listener.
BindLogin(l) == Up /\ port /\ login[l] = "none" /\ SetLogin(l, "bound")
SpawnLogin(l, ok) == Up /\ login[l] = "bound" /\ SetLogin(l, IF ok THEN "running" ELSE "ended")
EndLogin(l) == Up /\ login[l] = "running" /\ SetLogin(l, "ended")

StartStep ==
    \/ \E ok \in BOOLEAN : Stage(ok) \/ RunSAH(ok) \/ OpenUser(ok) \/ Serve(ok) \/ StartAgent(ok)
    \/ runRecover \/ Terminate

StartupNext ==
    \/ StartStep
    \/ \E status \in {0, 1} : HelpOrDoctor(status) \/ ReplEnds(status)
    \/ \E logged, ok, last \in BOOLEAN : evalOnce(logged, ok, last)
    \/ ExecScript \/ Repl \/ SendTerm
    \/ enableSSHWithHangup \/ disableSSHClearHangup \/ Hangup \/ handleHangup
    \/ \E l \in Logins : BindLogin(l) \/ (\E ok \in BOOLEAN : SpawnLogin(l, ok)) \/ EndLogin(l)

StartupSpec == StartupInit /\ [][StartupNext]_startVars

-----------------------------------------------------------------------------
(* Properties.                                                             *)

\* No code of a user runs in a process that is not set up: without its engine or,
\* in a session process, the monitor's gate; without an identity; unrecorded or
\* unregistered. A listener is open only behind a guard that was configured.
RunsGoverned ==
    LET needs == IF want.kind = "login" THEN {"args", "nondumpable", "monitor", "ping", "gate", "register"}
                 ELSE {"host", "log", "engine", "default", "identity"} IN
    /\ ranCode # {} => needs \subseteq have
    /\ ranCode \cap {"profiles", "command", "script", "repl", "recover"} # {} /\ want.kind = "shell"
        => {"record", "register"} \subseteq have
    /\ "sah" \in ranCode => "bind" \in have /\ ranCode = {"sah"}
    /\ port => "guard" \in have

\* What a script or -c ran is on record, in a process that could record its start.
ChunksRecorded == chunk.run <= chunk.logged

\* A listener that is settled is never taken down with its logins by a hangup: the
\* process ends on one only when the action was still, or again, the default.
ListenerHolds ==
    (port /\ toggling = "" /\ stage \notin {"hook", "exit"}) => hook = "stop"

\* A hangup whose action was the listener's never ends the process.
HangupSpares == [][(hup = "stop" /\ hup' = "idle") => (stage' = stage /\ login' = login)]_startVars

\* A service that is told to stop, does.
ServiceStops == (stage = "service" /\ termed) ~> (stage = "exit")
=============================================================================
