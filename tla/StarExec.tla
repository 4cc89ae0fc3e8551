------------------------------ MODULE StarExec ------------------------------
(***************************************************************************)
(* What Starlark code runs through the session's gate                        *)
(* (internal/starlarkext/exec.go, parallel.go, job.go, expect.go): a batch   *)
(* of sys.parallel with its workers, feeder, deadline and cancellation; an   *)
(* asynchronous job; and a process under expect with the goroutine that      *)
(* drains it. Every command ends: by itself, by its timeout, or killed.      *)
(***************************************************************************)
EXTENDS Naturals, Sequences

CONSTANTS
  NumCmds,    \* commands of the batch
  NumWorkers, \* jobs, at most the number of commands
  MaxChunks   \* bound: chunks the process under expect prints

ASSUME StarExecAssumption == NumCmds \in Nat \ {0} /\ NumWorkers \in 1 .. NumCmds /\ MaxChunks \in Nat

Cmds == 1 .. NumCmds
Workers == 1 .. NumWorkers

VARIABLES
  batch,     \* "check", "run", or how sys.parallel returned
  ended_by,  \* who cancelled the batch context: "none", "fail", "thread", "deadline"
  failed,    \* failErr: the command it names, or 0
  next,      \* the feeder's next command; NumCmds + 1 when it is done
  worker,    \* the command of each worker and how far it is
  outcome,   \* of each command: "none", "ok", "error" of its own, "killed" by the batch
  cancelled, \* has Thread.Cancel been called?
  asked,     \* cancelErr: has the poll seen it?
  run,       \* the asynchronous job's goroutine
  handle,    \* the job as the script sees it
  printed,   \* chunks the process under expect has printed and the goroutine has not read
  buffer,    \* chunks in the buffer
  taken,     \* chunks that expect has returned
  chunks,    \* chunks printed so far
  closed     \* has the script closed it?

batchVars == <<batch, ended_by, failed, next, worker, outcome, cancelled, asked>>
jobVars == <<run, handle>>
expectVars == <<printed, buffer, taken, chunks, closed>>
starVars == <<batchVars, jobVars, expectVars>>

NoWork == [cmd |-> 0, pc |-> "wait"]
Dead == ended_by # "none"

-----------------------------------------------------------------------------
(* sys.parallel                                                             *)

\* Static commands are explained before any starts, and one that is denied is
\* audited and rejects the batch; so does a custom command. Expanded ones pass.
preflightParallel ==
  /\ batch = "check"
  /\ batch' \in {"run", "denied"}
  /\ UNCHANGED <<ended_by, failed, next, worker, outcome, cancelled, asked>>

\* The feeder hands the next command to a worker that waits, or stops with the context.
Feed(w) ==
  /\ batch = "run" /\ next <= NumCmds /\ worker[w] = NoWork
  /\ worker' = [worker EXCEPT ![w] = [cmd |-> next, pc |-> "got"]]
  /\ next' = next + 1
  /\ UNCHANGED <<batch, ended_by, failed, outcome, cancelled, asked>>

FeederStops ==
  /\ batch = "run" /\ Dead /\ next <= NumCmds
  /\ next' = NumCmds + 1
  /\ UNCHANGED <<batch, ended_by, failed, worker, outcome, cancelled, asked>>

\* A worker looks at the context once more before it runs the command.
StartCmd(w) ==
  /\ worker[w].pc = "got"
  /\ worker' = [worker EXCEPT ![w] = IF Dead THEN NoWork ELSE [@ EXCEPT !.pc = "run"]]
  /\ UNCHANGED <<batch, ended_by, failed, next, outcome, cancelled, asked>>

\* The command succeeds, or fails: denied, not zero, too much output, or too late.
\* A dead context kills it, if it does not end first.
runGatedShell(w) ==
  /\ worker[w].pc = "run"
  /\ \E o \in {"ok", "error"} \cup (IF Dead THEN {"killed"} ELSE {}) :
       outcome' = [outcome EXCEPT ![worker[w].cmd] = o]
  /\ worker' = [worker EXCEPT ![w].pc = "result"]
  /\ UNCHANGED <<batch, ended_by, failed, next, cancelled, asked>>

\* "A command killed by the batch context is not the cause": an error counts when
\* the context is found alive.
Report(w) ==
  /\ worker[w].pc = "result"
  /\ worker' = [worker EXCEPT ![w] =
       IF outcome[worker[w].cmd] = "ok" \/ Dead THEN NoWork ELSE [@ EXCEPT !.pc = "fail"]]
  /\ UNCHANGED <<batch, ended_by, failed, next, outcome, cancelled, asked>>

\* failOnce: the first failure is kept, and cancels.
fail(w) ==
  /\ worker[w].pc = "fail"
  /\ failed' = IF failed = 0 THEN worker[w].cmd ELSE failed
  /\ ended_by' = IF failed = 0 /\ ~Dead THEN "fail" ELSE ended_by
  /\ worker' = [worker EXCEPT ![w] = NoWork]
  /\ UNCHANGED <<batch, next, outcome, cancelled, asked>>

DeadlineHits ==
  /\ batch = "run" /\ ~Dead
  /\ ended_by' = "deadline"
  /\ UNCHANGED <<batch, failed, next, worker, outcome, cancelled, asked>>

ThreadCancel ==
  /\ batch = "run" /\ ~cancelled /\ cancelled' = TRUE
  /\ UNCHANGED <<batch, ended_by, failed, next, worker, outcome, asked>>

\* The poll of the waiting caller.
threadCancelled ==
  /\ batch = "run" /\ cancelled /\ ~asked
  /\ asked' = TRUE
  /\ ended_by' = IF Dead THEN ended_by ELSE "thread"
  /\ UNCHANGED <<batch, failed, next, worker, outcome, cancelled>>

Outcome ==
  CASE failed # 0 -> "failed"
    [] failed = 0 /\ asked -> "canceled"
    [] failed = 0 /\ ~asked /\ Dead -> "deadline"
    [] OTHER -> "list"

\* All workers are done; the cause is chosen in this order.
runParallel ==
  /\ batch = "run" /\ next = NumCmds + 1
  /\ \A w \in Workers : worker[w] = NoWork
  /\ batch' = Outcome
  /\ UNCHANGED <<ended_by, failed, next, worker, outcome, cancelled, asked>>

-----------------------------------------------------------------------------
(* sys.exec_async                                                           *)

createExecAsync ==
  /\ run = "none" /\ run' = "running"
  /\ handle' = [done |-> FALSE, killed |-> FALSE, answer |-> "none"]

JobEnds ==
  /\ run = "running"
  /\ run' \in {"ok", "error"} \cup (IF handle.killed THEN {"killed"} ELSE {})
  /\ UNCHANGED handle

\* kill cancels and takes the job for done.
kill ==
  /\ run # "none"
  /\ handle' = [handle EXCEPT !.killed = TRUE, !.done = TRUE]
  /\ UNCHANGED run

\* wait on a job that is done does not read the channel: it has no error then.
\* A job that is not done is waited for.
wait ==
  /\ run # "none" /\ handle.answer = "none"
  /\ handle.done \/ run # "running"
  /\ handle' = [handle EXCEPT !.done = TRUE,
                  !.answer = IF handle.done \/ run = "ok" THEN "True" ELSE "error"]
  /\ UNCHANGED run

-----------------------------------------------------------------------------
(* expect                                                                   *)

Prints ==
  /\ chunks < MaxChunks /\ ~closed
  /\ chunks' = chunks + 1 /\ printed' = Append(printed, chunks + 1)
  /\ UNCHANGED <<buffer, taken, closed>>

readInto ==
  /\ printed # <<>> /\ ~closed
  /\ printed' = Tail(printed) /\ buffer' = Append(buffer, Head(printed))
  /\ UNCHANGED <<taken, chunks, closed>>

\* A match takes the text up to its end and leaves the rest; a timeout takes nothing.
builtinExpect == \E n \in 1 .. Len(buffer) :
  /\ taken' = taken \o SubSeq(buffer, 1, n)
  /\ buffer' = SubSeq(buffer, n + 1, Len(buffer))
  /\ UNCHANGED <<printed, chunks, closed>>

\* The terminal is closed and the process killed; the buffer stays.
builtinClose ==
  /\ ~closed /\ closed' = TRUE
  /\ UNCHANGED <<printed, buffer, taken, chunks>>

-----------------------------------------------------------------------------
BatchInit ==
  /\ batch = "check" /\ ended_by = "none" /\ failed = 0 /\ next = 1
  /\ worker = [w \in Workers |-> NoWork]
  /\ outcome = [i \in Cmds |-> "none"]
  /\ cancelled = FALSE /\ asked = FALSE
JobInit == run = "none" /\ handle = [done |-> FALSE, killed |-> FALSE, answer |-> "none"]
ExpectInit == printed = <<>> /\ buffer = <<>> /\ taken = <<>> /\ chunks = 0 /\ closed = FALSE

\* The three share nothing but the gate: each is a system of its own.
BatchNext ==
  \/ preflightParallel \/ FeederStops \/ DeadlineHits \/ ThreadCancel \/ threadCancelled \/ runParallel
  \/ \E w \in Workers : Feed(w) \/ StartCmd(w) \/ runGatedShell(w) \/ Report(w) \/ fail(w)
JobNext == createExecAsync \/ JobEnds \/ kill \/ wait
ExpectNext == Prints \/ readInto \/ builtinExpect \/ builtinClose

\* What the runtime schedules, and the timeouts that end every command.
BatchStep ==
  \/ FeederStops \/ runParallel \/ threadCancelled
  \/ \E w \in Workers : Feed(w) \/ StartCmd(w) \/ runGatedShell(w) \/ Report(w) \/ fail(w)

-----------------------------------------------------------------------------
(* Properties                                                               *)

\* sys.parallel returns a list only when every command ran and succeeded: no
\* queued command that never started passes for an empty result.
ListComplete == batch = "list" => \A i \in Cmds : outcome[i] = "ok"

\* The failure it reports is a command's own, not one the batch killed, and
\* no command is left to start after it.
CauseIsReal == failed # 0 => outcome[failed] = "error" /\ Dead

\* Text that matched is returned once and in order, and nothing is lost between
\* the goroutine that reads the terminal and the one that matches.
ExpectConserves == taken \o buffer \o printed = [i \in 1 .. chunks |-> i]

\* A batch that passed its checks returns, whoever fails, cancels or is late.
BatchReturns == batch = "run" ~> batch # "run"
=============================================================================
