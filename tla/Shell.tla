------------------------------- MODULE Shell --------------------------------
(***************************************************************************)
(* The interactive loop (internal/repl/repl.go, flow.go, confirm.go,         *)
(* interrupt.go and the running of a held paste). A line is a sequence of    *)
(* chunks: one, or those of a held paste. A chunk is a plain shell program,  *)
(* a brace if or try, a sourced file, or Starlark; its bodies are sequences  *)
(* of statements. What a statement does is free: it succeeds, fails, is      *)
(* denied by the gate, or exits.                                             *)
(***************************************************************************)
EXTENDS Naturals, Sequences, FiniteSets

CONSTANTS
  Lines,   \* the lines that may be submitted: sequences of chunks
  Traps,   \* what an EXIT trap may be: sequences of statements
  MaxLines \* bound: lines of a session

\* A statement is one place in the text of a line: no two places of a line share one.
Elements(q) == {q[i] : i \in 1 .. Len(q)}
BodyNames == {"a", "b", "c"}
Apart(l) == \A n, m \in 1 .. Len(l), b, d \in BodyNames :
  \A i \in 1 .. Len(l[n][b]), j \in 1 .. Len(l[m][d]) : l[n][b][i] = l[m][d][j] => n = m /\ b = d /\ i = j
TrapLine(t) == <<[form |-> "trap", a |-> t, b |-> <<>>, c |-> <<>>, ignore |-> FALSE]>>

ASSUME ShellAssumption ==
  /\ MaxLines \in Nat
  /\ \A l \in Lines \cup {TrapLine(t) : t \in Traps} :
       /\ l # <<>> /\ l \in Seq(Elements(l)) /\ Apart(l)
       /\ \A c \in Elements(l) : \A b \in BodyNames : c[b] \in Seq(Elements(c[b]))
  /\ \A l \in Lines : \A c \in Elements(l) : c.form \in {"plain", "source", "star", "try", "if"}

VARIABLES
  spot,     \* where the loop is
  line,     \* the chunks of the line that are left; the first is being run
  held,     \* is the line a held paste?
  body,     \* the body that runs, and its statements that are left
  res,      \* how the statements of the body so far ended
  shows,    \* what the registry shows of the session: its command and its context
  thread,   \* the Starlark thread: is a line on it, and is it cancelled?
  sigint,   \* is a SIGINT queued for the goroutine that watches?
  trapExit, \* the EXIT trap
  lines,    \* bound
  gates,    \* how often the gate allowed each statement of this line
  ran,      \* statements of this line that ran
  story     \* how each body of this chunk ended, and whether this line met a denial

loopVars == <<spot, line, held, body, res>>
ghostVars == <<gates, ran, story>>
shellVars == <<loopVars, shows, thread, sigint, trapExit, lines, ghostVars>>

NoCommand == [cmd |-> FALSE, ctx |-> "none"]
Quiet == [running |-> FALSE, cancel |-> FALSE, interrupted |-> FALSE]
NoBody == [name |-> "none", todo |-> <<>>]
NoStory == [ended |-> [b \in {} |-> "ok"], denied |-> FALSE, stopped |-> FALSE]
Chunk == Head(line)
Set(f, k, v) == [x \in DOMAIN f \cup {k} |-> IF x = k THEN v ELSE f[x]]
Gated(s) == Set(gates, s, IF s \in DOMAIN gates THEN gates[s] + 1 ELSE 1)

\* The bodies of a chunk in the order in which they are parsed and gated.
ShellBodies(c) == CASE c.form = "try" -> <<c.a, c.b>>
               [] c.form = "if" -> IF c.c = <<>> THEN <<c.a, c.b>> ELSE <<c.a, c.b, c.c>>
               [] OTHER -> <<c.a>>
Decls(c) == {s \in UNION {Elements(q) : q \in Elements(ShellBodies(c))} : s.kind = "decl"}

-----------------------------------------------------------------------------
(* The prompt                                                               *)

\* A line was read, continued to its end and expanded.
ReadLine == \E l \in Lines :
  /\ spot = "prompt" /\ lines < MaxLines
  /\ spot' = "begin" /\ line' = l /\ held' = (Len(l) > 1)
  /\ lines' = lines + 1
  /\ gates' = [s \in {} |-> 0] /\ ran' = {} /\ story' = NoStory
  /\ UNCHANGED <<body, res, shows, thread, sigint, trapExit>>

handleTrap == \E t \in Traps :
  /\ spot = "prompt" /\ trapExit' = t
  /\ UNCHANGED <<loopVars, shows, thread, sigint, lines, ghostVars>>

\* exit, quit, Ctrl-D, or the end of the input inside a block.
Leave ==
  /\ spot = "prompt" /\ spot' = "trap"
  /\ UNCHANGED <<line, held, body, res, shows, thread, sigint, trapExit, lines, ghostVars>>

-----------------------------------------------------------------------------
(* A chunk                                                                  *)

\* The session shows the command and can cancel it; a sourced file and a typed Starlark
\* line are not shown. A chunk that does not parse fails here.
beginSessionCommand ==
  /\ spot = "begin"
  /\ shows' = IF Chunk.form = "source" \/ (Chunk.form = "star" /\ ~held) THEN NoCommand
                ELSE [cmd |-> TRUE, ctx |-> "live"]
  /\ story' = [story EXCEPT !.ended = [b \in {} |-> "ok"]]
  /\ IF Chunk.form = "star"
     THEN spot' = "star" /\ thread' = [running |-> TRUE, cancel |-> FALSE, interrupted |-> FALSE] /\ UNCHANGED res
     ELSE \/ spot' = "gate" /\ UNCHANGED <<thread, res>>
          \/ spot' = "end" /\ res' = "fail" /\ UNCHANGED thread
  /\ UNCHANGED <<line, held, body, sigint, trapExit, lines, gates, ran>>

\* GateProgramSession on every body, before any statement runs: each declaration of
\* the program passes the gate, in taken branches or not. One that is denied ends it.
prepareBody ==
  /\ spot = "gate"
  /\ \E bad \in BOOLEAN :
       /\ bad => Decls(Chunk) # {}
       /\ gates' = IF bad THEN gates
                   ELSE [s \in DOMAIN gates \cup Decls(Chunk) |-> IF s \in Decls(Chunk) THEN 1 ELSE gates[s]]
       /\ spot' = IF bad THEN "end" ELSE "run"
       /\ res' = IF bad THEN "denied" ELSE "ok"
       /\ story' = [story EXCEPT !.denied = @ \/ bad]
  /\ body' = [name |-> "a", todo |-> Chunk.a]
  /\ UNCHANGED <<line, held, shows, thread, sigint, trapExit, lines, ran>>

Strict == Chunk.form \in {"try", "if"} /\ ~(Chunk.form = "if" /\ body.name = "a")
Stop(r) == r \in {"denied", "exit", "canceled"} \/ (r = "fail" /\ Strict)

\* A statement has ended: the body goes on, unless it is denied, exits, is cancelled,
\* or fails in a body of a flow that is not its condition.
Then(r) ==
  /\ res' = r
  /\ body' = [body EXCEPT !.todo = IF Stop(r) THEN <<>> ELSE Tail(@)]
  /\ story' = [story EXCEPT !.denied = @ \/ r = "denied"]

\* The call handler gates a simple command; a declaration has passed already.
\* confirm passes the gate under its own name first.
callHandler ==
  /\ spot = "run" /\ body.todo # <<>>
  /\ LET s == Head(body.todo) IN
     \/ /\ shows.ctx = "canceled" /\ Then("canceled")
        /\ UNCHANGED <<spot, gates, ran>>
     \/ /\ s.kind \in {"cmd", "exit"} /\ Then("denied")
        /\ UNCHANGED <<spot, gates, ran>>
     \/ /\ s.kind \in {"cmd", "exit"} /\ gates' = Gated(s) /\ ran' = ran \cup {s}
        /\ \E r \in IF s.kind = "exit" THEN {"exit"} ELSE {"ok", "fail"} : Then(r)
        /\ UNCHANGED spot
     \/ /\ s.kind = "decl" /\ ran' = ran \cup {s}
        /\ \E r \in {"ok", "fail"} : Then(r)
        /\ UNCHANGED <<spot, gates>>
     \/ /\ s.kind = "confirm"
        /\ \/ Then("denied") /\ UNCHANGED spot
           \/ spot' = "confirm" /\ UNCHANGED <<res, body, story>>
        /\ UNCHANGED <<gates, ran>>
  /\ UNCHANGED <<line, held, shows, thread, sigint, trapExit, lines>>

\* No terminal, a denial or an error in the preview, or another answer than yes:
\* not run. With yes it runs on a subshell, through the same gate.
runConfirm ==
  /\ spot = "confirm" /\ spot' = "run"
  /\ LET s == Head(body.todo) IN
     \/ Then("fail") /\ UNCHANGED <<gates, ran>>
     \/ Then("denied") /\ UNCHANGED <<gates, ran>>
     \/ /\ gates' = Gated(s) /\ ran' = ran \cup {s}
        /\ \E r \in {"ok", "fail"} : Then(r)
  /\ UNCHANGED <<line, held, shows, thread, sigint, trapExit, lines>>

\* catch is entered on any error.
NextBody_Any == CASE Chunk.form = "try" /\ body.name = "a" /\ res # "ok" -> "b"
              [] Chunk.form = "if" /\ body.name = "a" /\ res = "ok" -> "b"
              [] Chunk.form = "if" /\ body.name = "a" /\ res = "fail" /\ Chunk.c # <<>> -> "c"
              [] OTHER -> "none"

\* Only a plain failure is caught, and only a failed condition enters else.
NextBody == CASE Chunk.form = "try" /\ body.name = "a" /\ res = "fail" -> "b"
              [] Chunk.form = "if" /\ body.name = "a" /\ res = "ok" -> "b"
              [] Chunk.form = "if" /\ body.name = "a" /\ res = "fail" /\ Chunk.c # <<>> -> "c"
              [] OTHER -> "none"

\* A body is done. A condition that failed with no else is no failure.
RunFlow ==
  /\ spot = "run" /\ body.todo = <<>>
  /\ story' = [story EXCEPT !.ended = Set(@, body.name, res)]
  /\ IF NextBody # "none"
     THEN body' = [name |-> NextBody, todo |-> Chunk[NextBody]] /\ res' = "ok" /\ UNCHANGED spot
     ELSE /\ spot' = "end" /\ body' = NoBody
          /\ res' = IF Chunk.form = "if" /\ body.name = "a" /\ res = "fail" THEN "ok" ELSE res
  /\ UNCHANGED <<line, held, shows, thread, sigint, trapExit, lines, gates, ran>>

\* A Starlark line ends by itself, or at its next step once it is cancelled; the
\* cancellation is taken back. Its own failures are not the gate's.
evalStarlarkInterruptible ==
  /\ spot = "star" /\ spot' = "end"
  /\ res' \in {"ok", "fail"}
  /\ thread' = Quiet
  /\ UNCHANGED <<line, held, body, shows, sigint, trapExit, lines, ghostVars>>

\* The session is idle again. exit leaves the loop, but in a sourced file it ends the
\* file, and from within a paste it is a status like another, zero or not; the first
\* chunk of a paste that fails and may not ends it.
EndChunk ==
  /\ spot = "end" /\ Chunk.form # "trap"
  /\ shows' = NoCommand /\ res' = "ok"
  /\ \E stop \in {res # "ok" /\ ~Chunk.ignore} \cup (IF res = "exit" THEN {FALSE} ELSE {}) :
       /\ story' = [story EXCEPT !.stopped = @ \/ stop]
       /\ line' = IF stop THEN <<>> ELSE Tail(line)
       /\ spot' = IF res = "exit" /\ ~held /\ Chunk.form # "source" THEN "trap" ELSE IF line' = <<>> THEN "prompt" ELSE "begin"
  /\ UNCHANGED <<held, body, thread, sigint, trapExit, lines, gates, ran>>

-----------------------------------------------------------------------------
(* From outside                                                             *)

\* An administrator cancels the command that the session shows.
CancelShown ==
  /\ shows.ctx = "live" /\ shows' = [shows EXCEPT !.ctx = "canceled"]
  /\ UNCHANGED <<loopVars, thread, sigint, trapExit, lines, ghostVars>>

CtrlC ==
  /\ ~sigint /\ sigint' = TRUE
  /\ UNCHANGED <<loopVars, shows, thread, trapExit, lines, ghostVars>>

\* The signal may be seen late: it then meets the line that runs by now, or none.
interrupt ==
  /\ sigint /\ sigint' = FALSE
  /\ thread' = IF thread.running THEN [thread EXCEPT !.cancel = TRUE, !.interrupted = TRUE] ELSE thread
  /\ UNCHANGED <<loopVars, shows, trapExit, lines, ghostVars>>

\* The EXIT trap is a program like any other: gated, then run once.
RunTrap ==
  /\ spot = "trap"
  /\ IF trapExit = <<>>
     THEN spot' = "ended" /\ UNCHANGED <<line, trapExit, held, ghostVars>>
     ELSE /\ spot' = "gate" /\ held' = FALSE
          /\ line' = TrapLine(trapExit)
          /\ trapExit' = <<>>
          /\ gates' = [s \in {} |-> 0] /\ ran' = {} /\ story' = NoStory
  /\ UNCHANGED <<body, res, shows, thread, sigint, lines>>

TrapEnds ==
  /\ spot = "end" /\ Chunk.form = "trap"
  /\ spot' = "ended" /\ line' = <<>> /\ res' = "ok"
  /\ UNCHANGED <<held, body, shows, thread, sigint, trapExit, lines, ghostVars>>

-----------------------------------------------------------------------------
ShellInit ==
  /\ spot = "prompt" /\ line = <<>> /\ held = FALSE /\ body = NoBody /\ res = "ok"
  /\ shows = NoCommand /\ thread = Quiet /\ sigint = FALSE /\ trapExit = <<>> /\ lines = 0
  /\ gates = [s \in {} |-> 0] /\ ran = {} /\ story = NoStory

ReplStep ==
  \/ beginSessionCommand \/ prepareBody \/ callHandler \/ runConfirm \/ RunFlow
  \/ evalStarlarkInterruptible \/ EndChunk \/ RunTrap \/ TrapEnds
ShellNext == ReadLine \/ handleTrap \/ Leave \/ ReplStep \/ CancelShown \/ CtrlC \/ interrupt

ShellSpec == ShellInit /\ [][ShellNext]_shellVars

-----------------------------------------------------------------------------
(* Properties                                                               *)

\* Whatever the path (typed, sourced, pasted, confirmed, in a flow, or as the
\* EXIT trap), a statement that ran passed the gate, and once.
RanGatedOnce == \A s \in ran : s \in DOMAIN gates /\ gates[s] = 1

\* A body is only entered for the reason its keyword names: catch after a plain
\* failure of try, else after a failed condition, then after one that held. Never
\* after a denial, an exit or a cancellation.
BranchForCause ==
  \A b \in {"b", "c"} : body.name = b =>
    /\ "a" \in DOMAIN story.ended
    /\ story.ended["a"] = (IF Chunk.form = "if" /\ b = "b" THEN "ok" ELSE "fail")

\* Once a chunk of a held paste failed, was denied or was cancelled, nothing
\* after it runs, unless it was marked to be ignored.
PasteStops == story.stopped => spot \notin {"begin", "gate", "run", "confirm", "star"}

\* At the prompt the session shows no command and holds no context to cancel, and
\* the thread that evaluates prompts and hooks is not cancelled.
PromptClean == spot \in {"prompt", "trap", "ended"} => shows = NoCommand /\ thread = Quiet

\* A line that was submitted comes back to the prompt or ends the shell.
LineReturns == spot = "begin" ~> spot \in {"prompt", "trap"}
=============================================================================
