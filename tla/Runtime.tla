------------------------------ MODULE Runtime -------------------------------
(***************************************************************************)
(* The virtual binaries that run other commands on the shared runtime      *)
(* (security/vbin_runtime.go): lease gives a secret to one command         *)
(* (vbin_lease_ee.go), runbook runs the steps of a file (vbin_runbook.go)  *)
(* and par one command per item on several workers (vbin_par.go). Each     *)
(* child passes the gate on its own, or was authorized with the lease.     *)
(*                                                                         *)
(* A behaviour is one such command. The gate, the audit log, secret stores *)
(* and children answer as they like. A secret is counted in units; "nul"   *)
(* is a secret with a NUL byte.                                            *)
(***************************************************************************)
EXTENDS Integers, Sequences, FiniteSets, SequencesExt, TLC

CONSTANTS
    MaxSecret,   \* units of the longest secret loadLeaseSecret takes
    PipeUnits,   \* units a pipe holds
    KeyFiles,    \* files the path of a secret may name
    Books,       \* contents of a runbook: sequences of steps, a step a sequence of words
    BookParams,  \* parameters a runbook may declare
    ParItems,    \* number of items of par
    ParJobs      \* workers asked for with --jobs

ASSUME RuntimeAssumption ==
    /\ MaxSecret \in Nat \ {0} /\ PipeUnits \in Nat \ {0}
    /\ ParItems \in Nat \ {0} /\ ParJobs \in Nat \ {0}
    /\ KeyFiles # {}
    /\ Books \subseteq Seq(Seq(Seq(STRING))) /\ IsFiniteSet(BookParams)

VARIABLES
    task,       \* the command that runs, or "none"
    inject,     \* lease: where it is and what it knows
    wire,       \* lease: the secret on its way to the child
    secretFile, \* the file under the path of a secret, and the modes of all files
    trail,      \* the LEASE events that were written, in order
    book,       \* runbook: where it is and what it knows
    shelf,      \* the content of the runbook's file
    fan,        \* par: the feeder and what it prints
    crew        \* par: its workers

runtimeVars == <<task, inject, wire, secretFile, trail, book, shelf, fan, crew>>
leaseCmdVars == <<inject, wire, secretFile, trail>>
bookVars == <<book, shelf>>
fanVars == <<fan, crew>>

-----------------------------------------------------------------------------
(* lease                                                                   *)

InjectAt(pc) == inject.pc = pc
InjectGoes(from, to) == InjectAt(from) /\ inject' = [inject EXCEPT !.pc = to]

\* Options that do not fit and a source without a kind are refused before this.
StartLease(via, kind) ==
    /\ task = "none" /\ task' = "lease"
    /\ inject' = [inject EXCEPT !.pc = "request", !.via = via, !.kind = kind]
    /\ UNCHANGED <<wire, secretFile, trail, bookVars, fanVars>>

\* Without LEASE_REQUEST on record nothing else happens.
LogLeaseRequest ==
    /\ \/ InjectGoes("request", "authorize") /\ trail' = Append(trail, "request")
       \/ InjectGoes("request", "done") /\ UNCHANGED trail
    /\ UNCHANGED <<task, wire, secretFile, bookVars, fanVars>>

\* Every way out from here records LEASE_REVOKE with its reason.
RevokeFor(why) ==
    inject' = [inject EXCEPT !.pc = "revoke", !.reason = why, !.err = TRUE]

AuthorizeLease ==
    /\ InjectAt("authorize")
    /\ \/ inject' = [inject EXCEPT !.pc = "load", !.allowed = TRUE]
       \/ RevokeFor("policy-denied")
    /\ UNCHANGED <<task, wire, secretFile, trail, bookVars, fanVars>>

Private(i) == secretFile.mode[i] = "private"

\* readFileLeaseSecret: Lstat, refused unless regular and private ...
LstatSecret ==
    /\ InjectAt("load") /\ inject.kind = "file"
    /\ IF Private(secretFile.path)
       THEN inject' = [inject EXCEPT !.pc = "open", !.seen = secretFile.path]
       ELSE RevokeFor("load-error")
    /\ UNCHANGED <<task, wire, secretFile, trail, bookVars, fanVars>>

OpenSecret ==
    /\ InjectAt("open")
    /\ inject' = [inject EXCEPT !.pc = "fstat", !.opened = secretFile.path]
    /\ UNCHANGED <<task, wire, secretFile, trail, bookVars, fanVars>>

\* ... and again on the opened file, which must be the one that was looked at.
FstatSecret ==
    /\ InjectAt("fstat")
    /\ IF inject.opened = inject.seen /\ Private(inject.opened)
       THEN inject' = [inject EXCEPT !.pc = "read", !.private = Private(inject.opened)]
       ELSE RevokeFor("load-error")
    /\ UNCHANGED <<task, wire, secretFile, trail, bookVars, fanVars>>

\* extractLeaseSecretValue: the named field; else the first well-known one; else the only one.
extractLeaseSecretValue(data, field) ==
    LET known == {n \in 1..4 : <<"value", "password", "token", "secret">>[n] \in DOMAIN data} IN
    IF field # "none" THEN IF field \in DOMAIN data THEN {data[field]} ELSE {}
    ELSE IF known # {} THEN {data[<<"value", "password", "token", "secret">>
                                    [CHOOSE n \in known : \A k \in known : n <= k]]}
    ELSE IF Cardinality(DOMAIN data) = 1 THEN {data[f] : f \in DOMAIN data} ELSE {}

\* What the vault holds: some fields, each with its length.
VaultData == UNION {[fs -> {1, MaxSecret}] : fs \in {{"token"}, {"token", "value"}, {"k"}, {"k", "l"}}}

\* What each kind of source may answer; none when it answers with an error.
SourceAnswers(kind) ==
    CASE kind = "vault" -> UNION {extractLeaseSecretValue(d, f) : d \in VaultData, f \in {"none", "k"}}
      [] OTHER -> 0..(MaxSecret + 1)

\* The reader answers or fails; then the limit, the empty secret, a NUL for the environment.
loadLeaseSecret ==
    /\ InjectAt("read") \/ (InjectAt("load") /\ inject.kind # "file")
    /\ \/ RevokeFor("load-error")
       \/ \E n \in SourceAnswers(inject.kind), nul \in BOOLEAN :
            IF n > MaxSecret THEN RevokeFor("load-error")
            ELSE IF n = 0 THEN RevokeFor("empty-secret")
            ELSE IF inject.via = "env" /\ nul THEN RevokeFor("nul-secret")
            ELSE inject' = [inject EXCEPT !.pc = "grant", !.size = n]
    /\ UNCHANGED <<task, wire, secretFile, trail, bookVars, fanVars>>

\* The pipe of --via fd is opened, and LEASE_GRANT comes before anything is delivered.
LogLeaseGrant ==
    /\ InjectAt("grant")
    /\ \/ inject.via = "fd" /\ RevokeFor("delivery-error") /\ UNCHANGED trail
       \/ RevokeFor("audit-error") /\ UNCHANGED trail
       \/ inject' = [inject EXCEPT !.pc = "run"] /\ trail' = Append(trail, "grant")
    /\ UNCHANGED <<task, wire, secretFile, bookVars, fanVars>>

\* overlayEnvironment: what is overlaid or unset goes, then the overlay is added.
overlayEnvironment(base, overlay, unset) ==
    [v \in ((DOMAIN base) \ unset) \cup DOMAIN overlay |->
        IF v \in DOMAIN overlay THEN overlay[v] ELSE base[v]]

\* The environment of the session; the source variable of env: is one of it.
SessionEnv(kind) == [v \in {"SRC", "HOME"} |-> IF v = "SRC" /\ kind = "env" THEN "secret" ELSE "plain"]

\* runGovernedCommand of an authorized command: a virtual binary gets nothing of the
\* delivery, an external child its environment, input or descriptor; a child that
\* cannot be prepared or started is an error. The writer of --via fd starts first.
StartLeased(dest) ==
    /\ InjectAt("run") /\ inject.child = "none"
    /\ \E how \in {"vbin", "external", "gone"} :
         /\ inject' = [inject EXCEPT !.child = how, !.err = (how = "gone"), !.dest = dest,
              !.env = IF how # "external" THEN << >>
                      ELSE overlayEnvironment(SessionEnv(inject.kind),
                             IF inject.via = "env" THEN [v \in {dest} |-> "secret"] ELSE << >>,
                             IF inject.kind = "env" THEN {"SRC"} ELSE {})]
         /\ wire' = [wire EXCEPT !.feeder =
              IF inject.via = "fd" \/ (inject.via = "stdin" /\ how = "external") THEN "on" ELSE "off"]
    /\ UNCHANGED <<task, secretFile, trail, bookVars, fanVars>>

\* The goroutine that writes the secret, a copy of it or what os/exec does for stdin.
FeedSecret ==
    /\ wire.feeder = "on" /\ wire.sent < inject.size /\ wire.held < PipeUnits
    /\ wire' = [wire EXCEPT !.sent = @ + 1, !.held = @ + 1]
    /\ UNCHANGED <<task, inject, secretFile, trail, bookVars, fanVars>>

\* It closes its end when all is written, or nobody can read any more.
FeederEnds ==
    /\ wire.feeder = "on"
    /\ wire.sent = inject.size \/ (inject.via = "stdin" /\ inject.child = "gone" /\ ~inject.left)
    /\ wire' = [wire EXCEPT !.feeder = "off"]
    /\ UNCHANGED <<task, inject, secretFile, trail, bookVars, fanVars>>

LeasedReads ==
    /\ inject.child = "external" \/ inject.left
    /\ wire.held > 0
    /\ wire' = [wire EXCEPT !.held = @ - 1, !.got = @ + 1]
    /\ UNCHANGED <<task, inject, secretFile, trail, bookVars, fanVars>>

\* A child that ends may leave processes behind that hold its input and output.
LeasedExits(code) ==
    /\ inject.child \in {"vbin", "external"}
    /\ \E left \in {FALSE, inject.child = "external"} :
         inject' = [inject EXCEPT !.child = "gone", !.exit = code, !.left = left]
    /\ UNCHANGED <<task, wire, secretFile, trail, bookVars, fanVars>>

\* The deadline of the lease passes, at any time until it was judged.
LeaseDeadline ==
    /\ inject.pc \in {"run", "judge"} /\ ~inject.late
    /\ inject' = [inject EXCEPT !.late = TRUE]
    /\ UNCHANGED <<task, wire, secretFile, trail, bookVars, fanVars>>

\* exec.CommandContext kills an external child; a virtual binary goes on as it likes.
KillLate ==
    /\ inject.late /\ inject.child = "external"
    /\ \E left \in BOOLEAN : inject' = [inject EXCEPT !.child = "gone", !.exit = 1, !.left = left]
    /\ UNCHANGED <<task, wire, secretFile, trail, bookVars, fanVars>>

LeftEnd ==
    /\ inject.left /\ inject' = [inject EXCEPT !.left = FALSE]
    /\ UNCHANGED <<task, wire, secretFile, trail, bookVars, fanVars>>

External == inject.env # << >>

\* executeExternalCommand returns: the child is gone, nobody holds its output (no
\* WaitDelay is set) and os/exec has stopped feeding it. An error of the context goes
\* before the status of the child.
LeasedReturns ==
    /\ InjectAt("run") /\ inject.child = "gone" /\ ~inject.left
    /\ inject.via = "stdin" => wire.feeder = "off"
    /\ inject' = [inject EXCEPT !.pc = "judge", !.err = @ \/ inject.exit # 0 \/ (External /\ inject.late)]
    /\ UNCHANGED <<task, wire, secretFile, trail, bookVars, fanVars>>

\* The reason looks at the deadline once more, then at the child.
JudgeLease ==
    /\ InjectAt("judge")
    /\ inject' = [inject EXCEPT !.pc = "revoke",
         !.reason = IF inject.late THEN "expired" ELSE IF inject.err THEN "child-error" ELSE "completed"]
    /\ UNCHANGED <<task, wire, secretFile, trail, bookVars, fanVars>>

\* The last event, and the return, whose deferred calls close both ends of the pipe.
LogLeaseRevoke ==
    /\ InjectAt("revoke")
    /\ \/ inject' = [inject EXCEPT !.pc = "done"] /\ trail' = Append(trail, "revoke")
       \/ inject' = [inject EXCEPT !.pc = "done", !.err = TRUE] /\ UNCHANGED trail
    /\ wire' = [wire EXCEPT !.feeder = "off"]
    /\ UNCHANGED <<task, secretFile, bookVars, fanVars>>

\* Somebody else replaces the secret file or changes a mode while lease looks at it.
ChangeKeyFile ==
    /\ inject.kind = "file" /\ inject.pc \in {"load", "open", "fstat"}
    /\ \/ \E i \in KeyFiles : secretFile' = [secretFile EXCEPT !.path = i]
       \/ \E i \in KeyFiles, m \in {"private", "shared"} : secretFile' = [secretFile EXCEPT !.mode[i] = m]
    /\ UNCHANGED <<task, inject, wire, trail, bookVars, fanVars>>

LeaseStep ==
    \/ LogLeaseRequest \/ AuthorizeLease \/ LstatSecret \/ OpenSecret \/ FstatSecret
    \/ loadLeaseSecret \/ LogLeaseGrant \/ (\E dest \in {"SRC", "DST"} : StartLeased(dest))
    \/ FeederEnds \/ KillLate \/ LeasedReturns \/ JudgeLease \/ LogLeaseRevoke

-----------------------------------------------------------------------------
(* runbook. A word is a sequence of pieces: a parameter's name stands for   *)
(* its placeholder, every other piece for itself. A value is one piece.     *)

PutIn(word, name, value) == [n \in DOMAIN word |-> IF word[n] = name THEN value ELSE word[n]]

\* One parameter after the other, in the order in which the map is walked for a word.
Interpolated(word, params, order) ==
    LET arg[k \in 0..Len(order)] ==
            IF k = 0 THEN word ELSE PutIn(arg[k - 1], order[k], params[order[k]])
    IN  arg[Len(order)]
interpolateRunbookSteps(steps, params, order) ==
    [i \in DOMAIN steps |-> [j \in DOMAIN steps[i] |->
        Interpolated(steps[i][j], params, order[steps[i][j]])]]

BookEnds(err) == book' = [book EXCEPT !.pc = "done", !.err = err]

StartBook(dry, raw) ==
    /\ task = "none" /\ task' = "runbook"
    /\ book' = [book EXCEPT !.pc = "lstat", !.dry = dry, !.params = raw]
    /\ UNCHANGED <<leaseCmdVars, shelf, fanVars>>

\* loadRunbook: the file must be regular and not writable for others ...
LstatBook ==
    /\ book.pc = "lstat"
    /\ IF shelf.safe THEN book' = [book EXCEPT !.pc = "exec"] ELSE BookEnds(TRUE)
    /\ UNCHANGED <<task, leaseCmdVars, shelf, fanVars>>

\* resolveRunbookParams: what was given and, for the rest, the defaults; no unknown
\* parameter, and none that is required and missing.
Resolved(defaults, raw) ==
    [p \in DOMAIN raw \cup defaults |-> IF p \in DOMAIN raw THEN raw[p] ELSE "v"]
resolveRunbookParams(declared, required, defaults, raw) ==
    DOMAIN raw \subseteq declared /\ required \subseteq DOMAIN Resolved(defaults, raw)

Orders(S) == {o \in [1..Cardinality(S) -> S] : IsInjective(o)}
WordsOf(steps) == UNION {ToSet(steps[i]) : i \in DOMAIN steps}

\* ... and is then executed under its path. The steps are fixed here; what the file
\* says later does not matter. A file that fails, or without steps, is an error.
ExecBook ==
    /\ book.pc = "exec"
    /\ \/ BookEnds(TRUE)
       \/ \E declared \in SUBSET BookParams : \E required, defaults \in SUBSET declared :
            LET params == Resolved(defaults, book.params) IN
            IF resolveRunbookParams(declared, required, defaults, book.params)
            THEN \E order \in [WordsOf(shelf.steps) -> Orders(DOMAIN params)] :
                   book' = [book EXCEPT !.pc = "step", !.text = shelf.steps, !.params = params,
                              !.steps = interpolateRunbookSteps(shelf.steps, params, order)]
            ELSE BookEnds(TRUE)
    /\ UNCHANGED <<task, leaseCmdVars, shelf, fanVars>>

Finished == book.i > Len(book.steps)

\* --dry-run explains the step; otherwise the gate is asked about it.
BookStep ==
    /\ book.pc = "step"
    /\ IF Finished THEN BookEnds(FALSE)
       ELSE \/ BookEnds(TRUE)
            \/ book' = IF book.dry THEN [book EXCEPT !.i = @ + 1]
                       ELSE [book EXCEPT !.pc = "run", !.gated = Append(@, book.steps[book.i])]
    /\ UNCHANGED <<task, leaseCmdVars, shelf, fanVars>>

\* The step runs; an error or a status other than 0 ends the runbook.
BookRuns ==
    /\ book.pc = "run"
    /\ \E ok \in BOOLEAN :
         book' = [book EXCEPT !.ran = Append(@, book.steps[book.i]), !.i = @ + 1,
                              !.pc = IF ok THEN "step" ELSE "done", !.err = ~ok,
                              !.failed = IF ok THEN 0 ELSE book.i]
    /\ UNCHANGED <<task, leaseCmdVars, shelf, fanVars>>

EditBook ==
    /\ task = "runbook" /\ book.pc # "done"
    /\ shelf' \in [steps : Books, safe : BOOLEAN]
    /\ UNCHANGED <<task, leaseCmdVars, book, fanVars>>

-----------------------------------------------------------------------------
(* par                                                                      *)

FanWorkers == 1..ParJobs

\* A virtual binary is refused with more than one job.
StartPar(vbin) ==
    /\ task = "none" /\ task' = "par"
    /\ IF vbin /\ ParJobs > 1 THEN fan' = [fan EXCEPT !.pc = "done", !.told = "refused"] /\ UNCHANGED crew
       ELSE /\ fan' = [fan EXCEPT !.pc = "feed"]
            /\ crew' = [w \in FanWorkers |-> IF w <= ParItems THEN [pc |-> "idle", item |-> 0] ELSE [pc |-> "end", item |-> 0]]
    /\ UNCHANGED <<leaseCmdVars, bookVars>>

\* An index goes from the feeder to a worker that waits for one.
FeedIndex(w) ==
    /\ fan.pc = "feed" /\ fan.next <= ParItems /\ crew[w].pc = "idle"
    /\ fan' = [fan EXCEPT !.next = @ + 1]
    /\ crew' = [crew EXCEPT ![w] = [pc |-> "gate", item |-> fan.next]]
    /\ UNCHANGED <<task, leaseCmdVars, bookVars>>

\* The channel is closed: after the last index, or when the context ended before it.
CloseIndices ==
    /\ fan.pc = "feed"
    /\ \/ fan.next > ParItems /\ fan' = [fan EXCEPT !.pc = "wait"]
       \/ fan.next <= ParItems /\ fan.canceled /\ fan' = [fan EXCEPT !.pc = "wait", !.told = "canceled"]
    /\ UNCHANGED <<task, crew, leaseCmdVars, bookVars>>

FanResult(w, r) ==
    /\ fan' = [fan EXCEPT !.results[crew[w].item] = r]
    /\ crew' = [crew EXCEPT ![w].pc = "idle"]

\* The gate knows nothing of the context and answers, if only by its own timeout.
WorkerGate(w) ==
    /\ crew[w].pc = "gate"
    /\ \/ FanResult(w, "err")
       \/ /\ crew' = [crew EXCEPT ![w].pc = "run"]
          /\ fan' = [fan EXCEPT !.runs[crew[w].item] = @ + 1]
    /\ UNCHANGED <<task, leaseCmdVars, bookVars>>

WorkerChild(w) ==
    /\ \/ crew[w].pc = "run" /\ (FanResult(w, "ok") \/ FanResult(w, "err"))
       \/ crew[w].pc = "left" /\ FanResult(w, "err")
    /\ UNCHANGED <<task, leaseCmdVars, bookVars>>

\* A canceled context kills the child, and its error is the result, at once or when
\* the processes it leaves behind have closed its output.
WorkerKilled(w) ==
    /\ crew[w].pc = "run" /\ fan.canceled
    /\ FanResult(w, "err") \/ (crew' = [crew EXCEPT ![w].pc = "left"] /\ UNCHANGED fan)
    /\ UNCHANGED <<task, leaseCmdVars, bookVars>>

WorkerLeaves(w) ==
    /\ crew[w].pc = "idle" /\ fan.pc = "wait"
    /\ crew' = [crew EXCEPT ![w].pc = "end"]
    /\ UNCHANGED <<task, fan, leaseCmdVars, bookVars>>

FanErrors == {i \in 1..ParItems : fan.results[i] = "err"}

\* workers.Wait is over: the context's error, or the results in the order of the
\* items with the first error among them.
ParReturns ==
    /\ fan.pc = "wait" /\ \A w \in FanWorkers : crew[w].pc = "end"
    /\ fan' = [fan EXCEPT !.pc = "done",
         !.told = IF @ = "canceled" THEN @ ELSE IF FanErrors = {} THEN "ok" ELSE "error",
         !.printed = IF fan.told = "canceled" THEN << >> ELSE [i \in 1..ParItems |-> fan.results[i]],
         !.first = IF fan.told = "canceled" \/ FanErrors = {} THEN 0 ELSE Min(FanErrors)]
    /\ UNCHANGED <<task, crew, leaseCmdVars, bookVars>>

CancelPar ==
    /\ task = "par" /\ fan.pc # "done" /\ ~fan.canceled
    /\ fan' = [fan EXCEPT !.canceled = TRUE]
    /\ UNCHANGED <<task, crew, leaseCmdVars, bookVars>>

ParStep ==
    \/ CloseIndices \/ ParReturns
    \/ \E w \in FanWorkers : FeedIndex(w) \/ WorkerGate(w) \/ WorkerKilled(w) \/ WorkerLeaves(w)

-----------------------------------------------------------------------------
RuntimeInit ==
    /\ task = "none" /\ trail = << >>
    /\ inject = [pc |-> "idle", via |-> "env", kind |-> "env", seen |-> 0, opened |-> 0, private |-> FALSE,
                 allowed |-> FALSE, size |-> 0, child |-> "none", env |-> << >>, dest |-> "none", exit |-> 0,
                 late |-> FALSE, left |-> FALSE, err |-> FALSE, reason |-> "none"]
    /\ wire = [feeder |-> "off", sent |-> 0, held |-> 0, got |-> 0]
    /\ secretFile = [path |-> CHOOSE i \in KeyFiles : TRUE, mode |-> [i \in KeyFiles |-> "private"]]
    /\ book = [pc |-> "idle", dry |-> FALSE, params |-> << >>, text |-> << >>, steps |-> << >>, i |-> 1,
               gated |-> << >>, ran |-> << >>, failed |-> 0, err |-> FALSE]
    /\ shelf \in [steps : Books, safe : {TRUE}]
    /\ fan = [pc |-> "idle", next |-> 1, canceled |-> FALSE, results |-> [i \in 1..ParItems |-> "none"],
              runs |-> [i \in 1..ParItems |-> 0], told |-> "none", printed |-> << >>, first |-> 0]
    /\ crew = [w \in FanWorkers |-> [pc |-> "off", item |-> 0]]

\* Values a parameter may be given: plain ones, and one that spells a placeholder.
ParamValues == {"v"} \cup BookParams

RuntimeNext ==
    \/ \E via \in {"env", "stdin", "fd"}, kind \in {"env", "file", "vault"} : StartLease(via, kind)
    \/ LeaseStep \/ FeedSecret \/ LeasedReads \/ LeasedExits(0) \/ LeasedExits(1) \/ LeftEnd \/ LeaseDeadline \/ ChangeKeyFile
    \/ \E dry \in BOOLEAN, ps \in SUBSET BookParams : \E raw \in [ps -> ParamValues] : StartBook(dry, raw)
    \/ LstatBook \/ ExecBook \/ BookStep \/ BookRuns \/ EditBook
    \/ StartPar(TRUE) \/ StartPar(FALSE) \/ ParStep \/ CancelPar \/ \E w \in FanWorkers : WorkerChild(w)

RuntimeSpec == RuntimeInit /\ [][RuntimeNext]_runtimeVars

-----------------------------------------------------------------------------
(* Properties                                                               *)

Delivered == wire.sent > 0 \/ (inject.via = "env" /\ inject.env # << >>)

\* A secret goes to a child only after both events are on record and the command was
\* authorized with the lease, whatever fails before; one from a file comes from the
\* file that was looked at, private both times, however files are swapped meanwhile.
SecretOnGrant ==
    Delivered => /\ inject.allowed /\ Len(trail) >= 2 /\ SubSeq(trail, 1, 2) = <<"request", "grant">>
                 /\ inject.kind = "file" => inject.private /\ inject.opened = inject.seen

\* The secret stands in the environment of a child under the name --as gave it and
\* no other: not under the variable it was read from.
SecretOnlyThere ==
    \A v \in DOMAIN inject.env : inject.env[v] = "secret" => inject.via = "env" /\ v = inject.dest

\* A lease that returned has its LEASE_REVOKE, or the caller an error; its child is
\* gone and nothing is sent any more. Without an error all of it is on record.
LeaseClosed ==
    /\ "revoke" \in ToSet(trail) => inject.child \in {"none", "gone"} /\ ~inject.left
    /\ InjectAt("done") => /\ wire.feeder = "off" /\ inject.child \in {"none", "gone"}
                           /\ trail # << >> => Last(trail) = "revoke" \/ inject.err
    /\ inject.reason = "completed" => inject.exit = 0 /\ wire.got <= inject.size
         /\ (InjectAt("done") /\ ~inject.err => trail = <<"request", "grant", "revoke">>)

\* Each step ran in its turn, after the gate was asked about just that command line,
\* nothing after one that failed, and nothing at all in a dry run; the file may
\* change meanwhile.
BookInOrder ==
    /\ IsPrefix(book.ran, book.gated) /\ IsPrefix(book.gated, book.steps)
    /\ book.dry => book.ran = << >>
    /\ book.failed # 0 => Len(book.gated) = book.failed
    /\ book.pc = "done" /\ ~book.err /\ ~book.dry => book.ran = book.steps

\* Where no value spells a placeholder, the order in which the map of parameters is
\* walked does not matter: every placeholder becomes its value.
InterpolatedOnce ==
    book.text # << >> /\ (\A p \in DOMAIN book.params : book.params[p] = "v") =>
        book.steps = [i \in DOMAIN book.text |-> [j \in DOMAIN book.text[i] |->
            [n \in DOMAIN book.text[i][j] |->
                IF book.text[i][j][n] \in DOMAIN book.params THEN "v" ELSE book.text[i][j][n]]]]

\* par runs no item twice, and says ok only when every item ran and went well; when
\* it returns, early too, no child of it is left.
FanExact ==
    /\ \A i \in 1..ParItems : fan.runs[i] <= 1
    /\ fan.pc = "done" => \A w \in FanWorkers : crew[w].pc \in {"off", "end"}
    /\ fan.told = "ok" => \A i \in 1..ParItems : fan.runs[i] = 1 /\ fan.printed[i] = "ok"
    /\ fan.first # 0 => \A i \in 1..(fan.first - 1) : fan.printed[i] = "ok"

\* Commands that run commands keep their secrets, their order and their count.
RuntimeSafety ==
    /\ SecretOnGrant /\ SecretOnlyThere /\ LeaseClosed
    /\ BookInOrder /\ InterpolatedOnce /\ FanExact

\* A lease whose time is up comes to its end, whatever its external child does, and so
\* does a par that is canceled: unless a process that a child left behind still holds
\* the output of that child.
RuntimeEnds ==
    /\ (inject.late /\ inject.child \in {"external", "gone"}) ~> (InjectAt("done") \/ inject.left)
    /\ fan.canceled ~> (fan.pc = "done" \/ \E w \in FanWorkers : crew[w].pc = "left")
=============================================================================
