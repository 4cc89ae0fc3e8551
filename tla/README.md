# A TLA+ verification project for adssh

adssh is an administrator's shell: every command a user, a script, an SSH client
or an agent runs passes one gate that logs it to a tamper-evident ledger, asks
policy, asks for a second person's approval where a rule says so, and charges
agents to a budget. It serves SSH logins, each in a process of its own that asks
its listener before anything runs. The enterprise build (`//go:build ee`) adds
approvals over files, an admin HTTP surface that attaches to live terminals,
identities and elevation, gateways, signed host profiles, execution leases and a
grid that leases sessions to agents. This project models the parts of that
system whose correctness depends on the order in which processes, threads,
files, signals and clocks act, checks them with TLC on small instances, and
proves the central facts about approvals, the gate, agents, the audit ledger and
admin attaches with TLAPS for every size of the system.

All paths are relative to the root of the repository.

## 1. Inventory

| Component | State it keeps | Operations | Interacts with | What makes it correct |
|---|---|---|---|---|
| Audit log and chain, `security/audit*.go` | flat log, HMAC ledger, key file, flock | `InitChain`, `LogEvent`, `AppendChain`, `VerifyChain` | everybody writes to it and fails closed without it | one key; an acknowledged event is on disk; concurrent appends leave a ledger that verifies; an append returns |
| Four-eyes approvals, `security/foureyes*_ee.go` | pending, claimed and marker files, rules file | request, decide, sweep, edit of the rules | the gate waits on it; decisions come from shells, HTTP and MCP in several processes | one decision per request, by one the rule permits, on record before it takes effect; nothing is lost without an event; the requester is answered |
| Command gate, policy, tickets, `security/interceptor.go`, `policy*.go`, `entitlements.go`, `cm_*.go`, `explain.go` | loaded policy and entitlements, ticket, identity bindings | `gateCommandContext`, `ExplainCommand`, `cm set` | all of the above | fails closed; what runs was authorized and is on record; the explanation agrees |
| Dispatch and commands that run commands, `security/interceptor.go`, `session_exec.go`, `vbin_runtime.go`, `vbin_lease*_ee.go`, `vbin_runbook.go`, `vbin_par.go` | globals, environment overlay, children | call, exec and open handlers; `lease`, `runbook`, `par` | gate, audit | each command is done once, for the session that issued it; a secret goes only where it was granted |
| Plugins, `security/plugin.go` | commands, completers, exports | load, reload, rollback | globals | all of a batch or nothing |
| Admin attach and API, `security/admin_*_ee.go`, `ee/cmd/adsshadm` | attaches, approvals, sockets | `serveAttach`, requests and decisions, the snoop terminal | session registry, four eyes, audit | one controller, bounded viewers, nothing outlives the session, changes and answers on record |
| Grid and agents, `internal/grid`, `security/agentbudget_ee.go`, `internal/agent`, `cmd/adssh-mcp` | flights, worktrees, listener, charges, slots | place, cancel, reap, drain, checkout, tool calls | session registry, gate, peers | tables agree; a live flight has its session; budgets, deadlines and allowlists hold |
| Session registry, `internal/sys/session.go` | sessions, identity, controller, elevation, hooks | register, unregister, rename | everybody | what belongs to a session ends with it; a rename loses trust unless verified |
| SSH listener, logins and monitor, `internal/sys/ssh*.go`, `monitor_frame.go`, `security/ssh_monitor.go`, `internal/guard` | connections, slots, processes, frames, keys, revocations, bans | accept, authenticate, spawn, authorize, run, cancel | gate (in the listener), audit | limits exact; answers match requests; a canceled run ends and no other one does; bans and revocations hold |
| Identity, elevation, mirrors, gateways, leases, host profiles | tokens, roles, grants with timers, forwards, used identifiers, signed files | import, elevate, share, forward, handoff, commit | session registry, audit | no more than was granted, no longer than it was granted, on record |
| Shell, Starlark, startup, `internal/repl`, `parser`, `internal/starlarkext`, `main.go` | line, paste, flow, child, terminal, jobs | read, run, confirm, trap, batch, signals | gate | what runs is what was written and passed; the prompt and the terminal come back |
| Presentation, configuration, data bindings, recording | - | - | - | I/O without order-dependent state; not modelled |

What is hard: decisions, requests and sweeps of independent processes meet only
in the file system; a mutex protects single critical sections of sequences that
take minutes; sessions end and are renamed under running calls; identifiers are
used again; timers and cancels meet what they were meant for when it is already
gone; audit writes fail at any point and everything must fail closed.
`PROJECT.json` lists these hazards, each at the line where it bites, with the
properties that would notice.

## 2. How the project is built

A component has a module with CONSTANTS and, where a proof or a bound needs one, a
named assumption. Its initial predicate, next-state relation and properties carry
the component's name (`MirrorInit`, `MirrorNext`), so that modules can be extended
together. An `MC...` module extends the components of a run and adds sets of values
and symmetry.

**Runs over several components.** The components of `MCApprovals`, `MCLedger`,
`MCSetup`, `MCSessions` and `MCProgress` share no variable. The variable `part`
names the one that runs in a behaviour; the others stay in one fixed first state.
The state space is the disjoint sum of those of the components, each with all the
interleavings of its own actors, and not their product: nothing is claimed about
components that the code runs side by side and that do not touch each other's
state. Components that do touch each other are composed in one module: `Gate`
extends `Flight`; `Attach`, `Mirror`, `Gateway` and `Identity` each contain the
part of the session registry they use; `FourEyes` contains the requester in the
gate and the deciders.

**Grouped properties.** A property of such a run is a conjunction of named parts,
each stated and explained in its module; section 4 lists them.

**Mistakes.** Operators with a suffix after an underscore (`Claim_Copy`) are
variants of the operator that follows them with one plausible mistake. No
specification uses them; `PROJECT.json` pairs each with the property that notices.

## 3. Modules

### FourEyes, Approval and Governance

`FourEyes`: `file` (under which name the inode of a request lives: none, partial,
pending, claimed), `mtime`, `marker`, `chain` (what `LogEvent` recorded),
`request`, a control state and deadline for each requester, and a control state
with its call and sweep position for each decider. Every system call is an action,
because no lock exists between processes:

| Action | Code |
|---|---|
| `OpenPending`, `WritePending` | `createFourEyesPendingAs`, open and write |
| `ArmDeadline`, `PollClock`, `StatApproved`, `StatDenied`, `Wake`, `ContextDone`, `Withdraw` | `RequestApprovalForSessionContext`, its loop call by call |
| `Begin`, `SweepStat`, `SweepLog`, `SweepUnlink`, `SweepDone` | `DecideRequest` and `ListPending` up to and with `sweepStaleClaims` |
| `Locate`, `Claim`, `StampClaim`, `LogDecision`, `CreateMarker`, `WriteMarker`, `RemoveClaim` | the rest of `DecideRequest` |
| `UnlinkMarker`, `LogReverted`, `ReleaseClaim` | its failure paths |
| `CrashRequester`, `CrashDecider`, `Tick` | the environment |

`Approval` has no files: a ledger of permitted decisions that only grows, and
shells that are granted or refused on the strength of an entry. The refinement
mapping takes the requester's control state to an outcome and the decisions in
the chain to the ledger.

`Governance` is the gate as the sessions of an embedding host meet it: the engine
is built fail-closed or not at all, sessions bind identities, and the gate asks
policy, entitlements, ticket, rules, admin plane and mode one after the other
while tickets are fetched and cleared, another process edits the rules file
(truncated, then written), and sessions close, run on, and have their IDs given to
other principals. `ExplainCommand` is the explanation
`why` and `??` give. A policy is its decision document, a rule its outcome.

### AuditChain

Processes that share a ledger path and a key path. A ledger is the sequence of
writes to an inode, since a write without its newline shares a line with the
next; the HMAC is a free constructor. `ReadKey`, `LinkKey` are
`loadOrCreateChainKey`; `LogEvent` the flat line; `OpenLedger`, `LockLedger`,
`ReadTail`, `WriteEntry`, `SyncLedger` are `AppendChain`; `Rotate` is the operator
who follows the error message; `Crash`, `PowerLoss` are the environment.

### Attach, AttachClient, AdminAPI

`Attach`: an HTTP call is a thread through `serveAttach`: `Lookup`, `SnoopGate`,
`AttachCapacity`, `SnoopApprovalState` (found approved, found denied, pending, or
opened anew), `ReserveAttach`, `ConsumeSnoopApproval`, `LogAttach`,
`SwitchProtocols`, the stream, `DetachRelease`, `LogDetach`; one action per
critical section of `attachMu`. Sessions are unregistered in two steps (out of the
table, then the hook), renamed, and verified. A four-eyes decision is reduced to
its claim and its marker; module FourEyes has the details. `AttachClient` is the
other end: the keyboard goroutine, the frame loop, the window watcher and the
closer of `adsshadm snoop`, sharing one connection and one terminal. `AdminAPI` has
two servers on one socket path and the life of a request: authenticated, recorded,
served into a buffer, recorded, answered; `decidePrompt` and `confirmWrite` are the
client's.

### Flight, Gate, Grid

`Flight` has the three tables of the grid under its mutex and, beside them, the
session registry, the binding and the budget, which `releaseAgentSessions` and
`placeFlight` change after the mutex is released, one step each. A session
identifier is the agent's, so it comes back with the agent's next flight.

`Gate` extends `Flight` with commands of agent sessions in `gateCommandContext`.
Its steps are the places where another component is asked; the answers of policy,
entitlements, tickets and approvers are free. The check of restricted mode reads
only the command's name and is one step with the charge before it. The remembered
denial is in `Governance`. Commands enter once `placeFlight` has answered; nothing
in the tree drives an agent session by itself today, so `Enter` stands for an
embedding program or a test that runs commands under the identifier of an agent
session.

`Grid` is a member's token, listener and worktrees: `DestroyReserve`,
`removeWorktreeDir` and `DestroyFinish` are one destroy, with the mutex released
while the directory goes; placements, checkouts and creations fall in between.

### Logins: Listener, Login, SSHKeys, Guard, Gateway, Monitor, Startup

`Listener`: a connection is admitted before its handshake (`preAuth`), has slots
per connection and per login name, and each session channel is a goroutine that
registers, waits for `shell`, records, spawns, and gives everything back on one of
many returns. `Login`: the revocation list with its stat, read and cache, and the
windows of failed logins. `SSHKeys`: how lines of `authorized_keys` are taken, and
the decision about a key or certificate. `Guard`: bans and peers of a daemon and of
console processes, with `Refresh` and `Persist` around the shared file, and the capped
table of samples out of which a new peer pushes another. `Gateway`:
governed forwards and `direct-tcpip` channels, the target's address re-resolved and
pinned between decision and dial. `Monitor`: both ends of the socket between
session process and listener, frame by frame, with the three atomics of Ctrl-C.
`Startup`: the stages of a process, any of which may fail, and what SIGHUP and
SIGTERM do to a shell that serves SSH.

### Sessions: Identity, Mirror, ExecLease, HostProfile

`Identity`: import, device login, elevation, role grants, the certificate authority
and `shellApprover`; each call on the session, log or a file is an action, as two
jobs of a shell interleave. `Mirror`: grants, timers that fire and then wait for
the lock, lazy expiry, attaches and the unregister hook. `ExecLease`: handoff
processes that verify a lease and use up its identifier with `O_EXCL` between them.
`HostProfile`: commit, narrow, rollback and drift over three files without a lock,
with signers, and the `do` and `unit` commands that act.

### Shell: Paste, Shell, ChildExec, Chunks, Dispatch, Runtime, Plugins

`Paste`: the filter before the line editor, token by token, wherever a read ends and however
late the next one comes.
`Chunks`: how lines are cut into shell, Starlark and brace blocks; a text is a
sequence of tokens; errors of a chunk behind a `-` are ignored. `Shell`: the loop over lines, the bodies of `if` and `try`,
confirmation, traps, Ctrl-C. `ChildExec`: a child on a pseudo terminal, plainly or
in its own group, its output, keys, deadline, and the processes it leaves behind.
`Dispatch`: the call, open and exec handlers of a foreground and a background
command over shared globals, plain and behind `exec`, `command` and `time`. `Runtime`: `lease` (request, authorization, secret
file looked at twice, grant, delivery over environment, input or descriptor,
deadline, revocation), `runbook` (load, interpolation, steps) and `par` (feeder,
workers, cancel). `Plugins`: a batch that is run and then bound as a whole.

### Agents: StarExec, Instrument, McpServer

`StarExec`: `sys.parallel` with feeder, workers, deadline and cancel poll, jobs and
`expect`. `Instrument`: the HTTP agent with its allowlist, slots and records.
`McpServer`: the process from its start to its calls, one lock, dry runs, and the
scan of the audit log from its end.

## 4. Runs

`Max...` constants cap counters in guards; the other constants are small sets.
Deadlock is not checked: all of these systems may come to rest once the bounded
calls are made. Symmetry is used only where no liveness is checked.

| Run | Instance | Properties |
|---|---|---|
| `approvals` | `FourEyes`: 1 request, 2 deciders, 2 calls, crashes, failing marker writes. `Governance`: 2 handles, 2 principals, 2 rule editors, 12 configurations | `TypeOK`, `OneDecider`, `OneVerdict`, `NoSilentLoss`, `EffectOrRevert`; `CommandsAuthorized`, `ExplanationTrue` |
| `foureyes_rules` | 2 users, 2 surfaces, 2 rules, a forbidden process, failing audit writes and removals, crashes; fair requester, unfair deciders | `VerdictOnRecord`, `ImplementsApproval` (the refinement), `EventuallySettled` |
| `attach_control` | 2 calls, 2 keys (one entitled, one with the owner's name), 2 requests, 1 viewer | `AttachSafety`, `RwApproved` |
| `gate_commands` | 2 commands of a flying agent, failing audit, raw, restricted and quarantined names | `AgentHeld`, `RanOnRecord`, `GateReturns` |
| `ledger` | `AuditChain` (3 processes, 4 appends, 6 faults), `Dispatch`, `Runtime`, `Login` (5 logins), `ExecLease` (2 processes) | `LedgerWhole`, `AckedRecorded`, `CommandsKept`, `LoginSafety`, `OneUseInTime` |
| `setup` | `HostProfile` (2 shells, 3 commands), `AdminAPI` (2 servers, 2 calls, 2 keys), `Guard` (daemon and console, 2 peers, a table of 1 for bans and for samples), `SSHKeys`, `Plugins`, `Grid` (2 operators), `Chunks` (scripts of 4 lines, chunks of 3) | `HostSafety`, `AdminSafety`, `GuardSafety`, `KeysSafety`, `PluginsSafety`, `GridSafety`, `ChunksSafety` |
| `sessions` | `Monitor` (2 calls, 1 cancel, 1 foreign frame, 1 body above the frame size), `Listener` (2 connections, 2 channels), `Gateway`, `Flight` (2 flights, 2 threads), `Startup`, `Identity` (2 jobs), `Mirror` (2 grants), `AttachClient`, `StarExec`, `Paste`, `Shell`, `ChildExec`, `Instrument`, `McpServer` | `AnswersInStep`, `CancelsMeant`, `NothingUnrecorded`, `PlacesExact`, `AccessAsGranted`, `FlightSafety`, `InputKept`, `RanAsWritten`, `ProcessGoverned` |
| `progress` | the parts that wait for something, with the smallest bounds at which they do: those of `sessions`, `Attach`, `AuditChain` (a process that hangs, a rotation), `Grid`, `Runtime` | `CallsEnd`, `PlacesGivenBack`, `PromptsComeBack`, `RecordsKept` |

What the grouped properties consist of; each part is explained where it is defined:

| Group | Parts |
|---|---|
| `CommandsAuthorized` | `BindingsCounted`, `RanAuthorized`, `TicketHeld`: whatever ran passed each question the configuration asks, under the identity bound to its handle, with a ticket in its window |
| `ExplanationTrue` | `ExplainAgrees` (asked of the same state, `why` says what the gate does), `DenialShown` |
| `AttachSafety` | `OneController`, `ViewerLimit`, `AttachEndsWithSession` |
| `AgentHeld` | `WithinBudget`, `HeldInFlight` |
| `LedgerWhole` | `OneKey`, `LedgerVerifies`, `NothingAfterPartial` |
| `CommandsKept` | `DoneForOwner`, `ListenerKeepsItsVBins`, `RestrictedHolds`, `EnvironStays`, `CopyUndisturbed` (`Dispatch`); `SecretOnGrant`, `SecretOnlyThere`, `LeaseClosed`, `BookInOrder`, `InterpolatedOnce`, `FanExact` (`Runtime`) |
| `LoginSafety` | `RevokedStaysOut`, `FailuresAccounted`, `ChainNotFlooded` |
| `HostSafety` | `ProfilesOnRecord`, `DriftNeverWidens`, `ProfileSurvives`, `ActedAsRecorded` |
| `AdminSafety` | `ChangeOnRecord`, `AnswerOnRecord`, `AnswerTrue` |
| `GuardSafety` | `BanHolds`, `RepeatOffender`, `PardonClears` |
| `KeysSafety` | `LoginByRecord`: every login rests on a line of the file the listener read, and none is root unless that is permitted |
| `PluginsSafety` | `RollbackWhole`, `RecordsTrue`, `UserNamesKept` |
| `GridSafety` | `DestroySpares`, `TablesAgree`, `OneOpenListener`, `ClonesBound`, `OneMembership` |
| `ChunksSafety` | `FlowsWhole`, `NothingCut`, `LinesOnce`, `CanClose` |
| `AnswersInStep` | `AcceptedWasAllowed`, `OneInFlight`, `NeverBusy`, `InStep` |
| `CancelsMeant` | `CancelsOnlyMeant`, `CancelFollowsRequest`, `EarlyCancelDenies` |
| `NothingUnrecorded` | `RunsOnRecord`, `ServesOnRecord`, `IdentityOnRecord`, `ChunksRecorded`, `OutcomesOnRecord`, `ResultsOnRecord` |
| `PlacesExact` | `PreAuthExact`, `SlotsExact`, `ForwardSlotsExact`, `SlotsReturned` |
| `AccessAsGranted` | `DialsGranted`, `GatewayEndsWithSession`, `StreamsAsGranted`, `GrantEndsOnce`, `GrantKeptItsTime`, `PrivilegeVouched`, `DeviceClearsEligible` |
| `FlightSafety` | `OneFlightPerAgent`, `LiveHasSession` |
| `InputKept` | `NoKeyStolen`, `SentAsAllowed`, `NoPastedNewline`, `HeldWhole`, `KeysKept`, `TerminalHandedBack` |
| `RanAsWritten` | `RanGatedOnce`, `BranchForCause`, `PasteStops`, `PromptClean`, `StartedOnce`, `OutputWhole`, `ListComplete`, `CauseIsReal`, `ExpectConserves`, `TruncationTold`, `TailInOrder` |
| `ProcessGoverned` | `RunsGoverned`, `ListenerHolds`, `HangupSpares`, `AgentHeldBack`, `ProcessWhole`, `EnvFrozen` |
| `CallsEnd` | `CancelEndsCall`, `ServeEnds`, `AppendReturns`, `RequestAnswered`, `CallAnswered`, `DeviceEnds`, `DestroyEnds` |
| `PlacesGivenBack` | `SessionEnds`, `PlacesReturned`, `StoppedDrops`, `SessionReleased`, `GrantGoes` |
| `PromptsComeBack` | `PromptReturns`, `LineReturns`, `PasteCloses`, `PromptComesBack`, `DeadlineKills`, `BatchReturns`, `RuntimeEnds`, `ServiceStops` |
| `RecordsKept` | `AttachOnRecord`, `LedgerVerifies`, with the faults of `progress` |

**Why the bounds are enough.** One request is enough for the four-eyes runs because
requests share nothing but the sweep's directory listing, which the proofs treat
for any number; two deciders and two calls give every pair of decide, sweep and
crash. Two calls and a limit of one viewer make every check-then-act window of
attach collide; the second request is what a late approval of the first could be
mistaken for. Two threads let the release of one flight overlap the placement of
the next. A flight is canceled once (`Recancel` is FALSE): `LiveHasSession` needs
that, as `flight_recancel` shows. In `gate_commands` one flight is enough because
spending and lateness are counted per flight, and its identifier is not placed
again. Two monitor calls with one cancel and one foreign frame give a cancel that
arrives in the slot of the next request, and an answer that is not one's own. Two
grants let a timer of the first meet the second. Two jobs, two shells, two servers
or two operators are every pair; a third of them does nothing to the pair's shared
state that one of the two could not. Three host commands are the least in which an
overlay outlives its profile. Limits (slots, viewers, table sizes, pipe room, paste
size) are at 1 to 3 so that they are reached and exceeded.

### Where the code and its comments disagree

Each of these runs checks one statement of a comment and ends in a trace.

| Run | Statement | What happens |
|---|---|---|
| `attach_single_use` | `security/admin_attach_ee.go:552` | two calls of one key find the same approval and use it one after the other |
| `flight_recancel` | `internal/grid/grid_ee.go:1035` | a peer's repeated cancel takes the session of a local flight |
| `rules_saved` | `security/foureyes_ee.go:71` | a gate that reads the rules between truncation and write finds no rules it can parse, and refuses |
| `approver_verified` | `security/foureyes_ee.go:277` | a device login renames the session between the two reads of `shellApprover` |

The limits of other properties, met while the models were written; none has a run:

* A requester that polls between the creation of a marker and its failing write
  takes a grant that is then reverted (`foureyes_ee.go:430`). `VerdictOnRecord`
  asks for a decision in the chain, not for one that is never reverted.
* `EffectOrRevert` fails once `auditSync` is among the faults: a decision whose
  Sync failed stays in the chain without effect and without a revert.
* The sweep may take a claim before `Chtimes` stamped it (`foureyes_ee.go:395`),
  while its requester still waits; the decision then fails and the request times
  out.
* Two editors of the rules file overwrite each other: the later save wins.
* `NothingAfterPartial` fails with the fault `noNewline`: a tail without its
  newline verifies, and the next entry lands on its line.
* An append whose ledger is moved aside between its open and its tail read chains
  onto the other file (`audit_chain.go:397`), so `AckedRecorded` and
  `NothingAfterPartial` hold only without rotations.
* `LedgerVerifies` fails with a `"long"` entry among `Sizes`: the writer takes an
  entry above 1 MiB (`audit_chain.go:194`), no reader does. A key that other
  processes use before its directory was synced (`audit_chain.go:178`) may be lost
  with the power; `PowerLoss` keeps it.
* A request for an attach may be opened after the session's hook ran
  (`admin_attach_ee.go:535`), and an approval of the session's former user counts
  after a rename.
* Between the steps that release a flight, a command that passed the lease check
  or entered after the unbinding runs uncharged, or outside the allowlist;
  `HeldInFlight` and `WithinBudget` therefore speak of flights in the tables.
* A lease that was verified before its expiry and is committed after it finds the
  record of its first use expired and may be used again (`execlease_ee.go`);
  `OneUseInTime` is about commits in time.
* A host may give the ID of a closed session to another principal (`engine.go:176`).
  Ticket, patterns and last denial are keyed by the ID and stay, so the new session
  runs on the former principal's ticket; and a command of the closed session that
  still runs authorizes as the new principal, against `session.go:35`. `RanAuthorized`
  and `TicketHeld` speak of the principals an ID was bound to, which is the
  session's own where a host gives an ID to one principal only.
* `cm set` prints that all audit entries will include the ticket's ID
  (`vbin_cm_ee.go:105`); no entry does.
* Two background loads of plugins roll back to snapshots of their own, so
  `RollbackWhole` is checked with one loader.
* Two guard processes that read, change and rename the ban file at the same time
  lose one of the changes; so does one that renames its table over a file that was
  damaged or removed meanwhile. `BanHolds` and `PardonClears` excuse that overlap.
* The guard keeps samples of at most 1024 peers, or four per entry of a larger ban table
  (`guard.go:721`), and a new peer takes the place of another, with its strikes
  (`755`): whoever fails from that many addresses within the window is not banned.
  `RepeatOffender` speaks of failures since the peer was last pushed out.
* `executeExternalCommand` sets no `WaitDelay`: a process that a killed child left
  behind keeps `lease` or `par` waiting while it holds the output
  (`vbin_runtime.go:82`), and `RuntimeEnds` excepts it. `session_exec.go:87` does
  set one.
* `par` looks up only the first word of its template when it refuses virtual
  binaries (`vbin_par.go:76`), so `{}` in that place may name one per item.
* A runbook parameter whose value spells another placeholder is replaced or not,
  as the map happens to be walked (`vbin_runbook.go:366`); `InterpolatedOnce` is
  about other values. A runbook is looked at and then executed by its path, so its
  mode may change in between.
* A chunk of a script behind a `-` has its error ignored (`internal/repl/flow.go:243`),
  also when it is a brace form that is rejected: of `-try {`, `} else {`, `w` the
  form is refused and `w` then runs by itself. `FlowsWhole` says that nothing
  follows a rejected form without that prefix.
* `exec time /bin/x`, or a quoted `time`, reaches the exec handler's own `time`
  (`interceptor.go:875`), which starts its argument before the check that a
  restricted shell's command name has no slash (line 984): a restricted shell runs a
  path by this way. `RestrictedHolds` excepts it, and only it.
* `ValidateMonitorArgs` admits arguments whose frame `WriteMonitorFrame` then refuses
  as too large (`monitor_frame.go:201`, `217`); the refused write breaks the client
  (`428`), and the session's later commands with it. The model has such a request
  (`Oversized`), and `InStep` speaks of clients that made none.
* The paste filter says that a clipboard with an end marker of its own is rejected as a
  whole (`paste.go:26`), and that bytes after an idle rejection are typed input again
  (`34`). It decides read by read: of a paste with its own end marker, of one that
  stalls, and of one that arrives on top of an unread one, every later read before the
  one with the paste's end is passed on as typed, newlines included. The model cuts the
  input into reads anyhow and lets any of them be late; `NoPastedNewline` says that
  the newlines of no other paste get through, and none in the read with its end, and
  `HeldWhole` that what is held stood whole between two markers of one clipboard.
* `adsshadm snoop` closes its stream only after the frames of a chunk with Ctrl-] were
  written (`snoop.go:306`), and `pump` returns only after the keyboard goroutine
  (`296`), which `stopIn` interrupts in a read but not in a write. With a server that
  does not read, Ctrl-] waits as long as that lasts; a signal closes the stream and ends
  it. `PromptReturns` starts at the typed Ctrl-] and excepts such a server.
* The last denial belongs to the session, and a background command may replace or
  clear it before `??` reads it.

## 5. Fairness

Users, clients, peers, deciders, operators and children get
no fairness; a step of the program that is ready is eventually taken.

* `FourEyes`: weak fairness of a requester's steps and of the clock. Deciders get
  none, since nobody must decide. The loop of the requester has no wait without a
  timeout.
* `Gate`: weak fairness of a call in the gate; the four-eyes wait ends by
  `EventuallySettled`.
* `MCProgress!ProgressFairness`: weak fairness, per goroutine or process, of the
  monitor's client, its cancel, the read loop, a request's goroutine and its gate
  once its context ended (the gate watches it); of a session's goroutine and the
  hangup of its terminal; of a proxied connection; of a destroy that began; of the
  stages of a start; of a grid thread that began; of an admitted attach and an
  unregistration in progress; of an append in a process that is not among
  `Hanging` (the lock is non-blocking and gives up); of a device login's poll; of a
  mirror timer and the clock; of the goroutines of the attach client and of
  `CloseOnSignal`; of a batch, its workers and its poll (commands end, by
  themselves or by their timeout); of the paste filter (its timeout included); of
  the read-eval loop; of the runner, copier, key pump and `AfterFunc` of a child;
  of a request to the agent and a tool call; of the steps of `lease` and `par`
  that do not wait for the child. A killed child dies; a child that is not killed
  need not end.

Weak fairness is what the Go scheduler and the kernel give a runnable goroutine
or process; no property needs strong fairness.

## 6. Proofs

A theorem holds for every value of the constants that the module's assumption
allows: any sets of actors and data, any bounds, any subset of the faults unless a
hypothesis says otherwise. Every invariant named below was first checked by TLC on
the instance of the run that checks the property. A hypothesis on a constant marks
a limit of the code, explained with it; section 4 lists the limits.

**`FourEyesProofs`** (assumption `ConstantsAssumption`).

* `TypeCorrect`: `Spec => []TypeOK`. Not inductive alone: a decider's call and
  sweep target have their types only in the control states that use them, so
  `TypeInv` adds `FramesOK`.
* `ClaimExclusive`: `Spec => []OneDecider`. The rename succeeds only on a pending
  file, so the strengthening `ClaimsOK` says that a request someone is deciding is
  claimed or gone, and was posted; a second rename then finds no pending file, and
  neither a sweep, a release nor a crash brings one back under a running decision.
* `VerdictNeedsRecord`: `Spec => []VerdictOnRecord`. `RecordsOK` carries the
  permission checked in `Locate` to the claim, the recorded decision to the
  marker, and the marker to the requester's answer; the chain only grows
  (`Grows`), so what was on record stays so when files are swept or reverted.
* `FilesImplementApproval`: `Spec => ImplementsApproval`, the refinement. Under
  `RecordsOK` every step of the file protocol maps to a grant, a refusal, a
  recorded decision or a stutter of `Approval`.
* `LossesAreLogged`: `Spec => []NoSilentLoss`, with every fault. `LossOK` says that
  a sweep removes a claim only behind its expiry event, that a decider whose claim
  vanished was swept, and that one that reached the last steps has its marker.
* `VerdictsExclude`: `Spec => []OneVerdict` for `"unlinkMarker"` not among the
  faults: `writeExclusive0600` ignores an error of the removal, and a marker that
  stays behind a reverted decision may meet the other one. `MarkersOK` says that
  a request that waits has no marker and that one being decided has at most the
  verdict its decider writes.
* `DecisionsTakeEffect`: `Spec => []EffectOrRevert` for `"auditLost"` and
  `"auditSync"` not among the faults: a `LogEvent` that fails after it wrote, or
  whose revert fails, leaves a decision in the chain with neither. `DecisionsOK`
  accounts for each recorded decision by the call that carries it out, the claim
  it left, its marker, its revert or its expiry.

Lemmas about frames (`ClaimsFrame`, `RecordsFrame`, `LossFrame`, `MarkersFrame`,
`AccountedFrame`) keep the step proofs to the actions that touch the files in
question.

**`GovernanceProofs`** (assumption `GovAssumption`).

* `GateAuthorizes`: `GovSpec => []CommandsAuthorized`. `Asked` says, for each stage
  of the gate, what the command was asked so far; what lies between two stages
  (editors that truncate and write the rules, tickets that are fetched and
  cleared, sessions that bind, close and are reopened) must not undo it. A base
  rule cannot be lost by a save (`RulesOK`); bindings are counted (`Bound`), and
  everything that carries a session ID, from the command's identity to the ticket
  it runs on, is of a principal the host bound that ID to (`Owned`), and those only
  grow.
* `GateExplains`: `GovSpec => []ExplanationTrue`. Decided configuration by
  configuration in the order in which the gate asks.

**`GateProofs`** (Flight and Gate; assumptions `FlightAssumption` and
`GateAssumption`).

* `FlightsAgree`: `FlightSpec => []FlightSafety` if no canceled flight is canceled
  again (`~Recancel`; `flight_recancel` shows why). A session to be unregistered is
  still registered and belongs to one thread (`PendingHeld`): that is what keeps
  `registerFlight` off the agent until `releaseAgentSessions` is through, without
  its mutex.
* `RunsAreOnRecord`: `Spec => []RanOnRecord`, without hypotheses.
* `AgentsAreHeld`: `Spec /\ []NoneOvertaken => []AgentHeld` if, besides, no canceled
  flight is forgotten (`~Forget`): after its retention its identifier may be placed
  anew, and what was spent on it is counted per identifier. `placeFlight` binds the budget
  after it gave the mutex back and does not look at the flight again
  (`grid_ee.go:862`): if the flight is canceled or reaped meanwhile, a released
  agent is bound. `NoneOvertaken` says that this did not happen; TLC's instance has
  one thread, where it cannot, and `AgentsAreHeldInTurn` proves that case from the
  specification alone. The invariant adds `Placed` (a session and a call in the
  gate belong to a flight whose budget was bound) and `Charged` (what was let
  through and what is left are no more than what was bound).

**`LedgerProofs`** (MCLedger: ExecLease, Login, Dispatch and Runtime; assumptions
`ExecLeaseAssumption`, `LoginAssumption`, `DispatchAssumption` and `RuntimeAssumption`).

* `LeaseUsedOnce`: `ExecLeaseSpec => []OneUseInTime` if no expired record of the same
  identifier is left over (`~Reissued`): of two processes that have read such a
  record, each may remove the name, the second one after the first has created it
  anew. `OnceInv` says that one process at a time `Holds` the lease, having created
  the name and not yet written it, or being past its commit; and that while the
  lease is in force the name of the one that holds it is there, and a reader whose
  clock was taken at `BeginCommit`, never ahead of the time, finds no record of it
  expired, so nobody is about to remove it.
* `LoginsAreChecked`: `LoginSpec => []LoginSafety`, from two invariants. `RevokeInv`:
  a cached revocation list is never older than the version it is kept under, nor is
  the one that a login under the mutex has read, although the file is rewritten
  between its stat and its read. `FailsInv`: every record of a failure belongs to the
  window of all sources or to one before it, and the records of this window are
  counted, so that there are no more than its limit; what a source's window
  suppressed comes out with its next record.
* `CommandsAreDispatched`: `DispatchSpec => []DispatchSafety`. `ShellSound` says what a
  shell has passed at each stage of a command, whichever wrapper it came in; `copying`
  keeps every job from writing globals, and the writer's lock every other job.
* `CommandsKeepTheirOrder`: `RuntimeSpec => []RuntimeSafety`. One command runs at a
  time, so there is an invariant for each. `LeaseInv` says what is on record at each
  stage, also when a write of the log failed (`TrailSound`), that a secret from a file
  is that of the file looked at (`InjectSound`), and that what was sent is in the pipe or
  was read (`WireSound`). `BookInv` ties the steps that were gated and those that ran to
  the steps that were fixed when the file was read, and says that these are the steps of
  the file with each placeholder replaced (`BookReplaced`): the walk over the parameters
  is followed parameter by parameter (`WordReplaced`), and an order without repetition
  comes by all of them (`OrderIsAll`). `FanInv` says that a busy worker alone has its
  item, that an item given out is with a worker or has its result, and that one that went
  well ran once.
* `CommandsStayTheirOwn`: `LedgerSpec => []CommandsKept`, from the two theorems before:
  a behaviour of the `ledger` instance is one of each of its parts.

**`RecordProofs`** (MCProgress: Attach and AuditChain; assumptions `ConstantsAssumption`
and `ChainAssumption`).

* `PlacesAreExclusive`: `Spec => []AttachSafety`. `Shape` ties the entries of a
  session to the stages of the calls; `Seated` says that the controller is the key
  of the one rw call among them and is empty without one, and that the viewers are
  few. Capacity is checked twice and only the second check, in the critical
  section that takes the place, is needed.
* `ControlIsEntrusted`: `Spec => []RwApproved`. `RequestsOK` says that the request
  of a slot asks what its key, session and purpose ask, and that a claimed or
  marked request was decided by one it names (`Entrusted`); `Granted` carries that
  from the approval a call found to its place, while the slot's request is dropped,
  consumed or opened anew. `CallKinds` and `RequestKinds` sort the actions by what
  they do to places and to requests, so that each part of the invariant is proved
  for a handful of effects.
* `AttachesAreRecorded`: `Spec => []AttachOnRecord`. `AttachedSound`: a call has its
  `MIRROR_ATTACH` exactly in the stages from the switch of protocols to the write of the
  `MIRROR_DETACH`, which every way out passes, a connection that fails included.
* `LedgerIsOneChain`: `ChainSpec => [](OneKey /\ LedgerVerifies)` for `"long"` not
  among `Sizes`: an entry above 1 MiB is appended and no reader takes it. Every
  write chains onto the one before it, torn or not (`Chained`), because the tail
  an append read under the flock is still the tail when it writes (`TailFresh`),
  unless its file is no longer the ledger.
* `LedgerIsWhole`: `ChainSpec => []LedgerWhole` and `AcknowledgedStays`:
  `ChainSpec => []AckedRecorded`, if, besides, no write stops between an entry and
  its newline (`readLastChainLine` takes such a line, and the next entry lands on
  it) and no rotation moves the file aside between `OpenLedger` and the tail read
  by path. `Recorded` follows an event from the flat line to its line in the
  ledger and to the part of the file that is synced.
* `RecordsStay`: `ProgressSpec => []RecordsKept` for `"long"` not among `Sizes`, from
  the invariants of both.

**`SSHProofs`** (Monitor, SSHKeys, Listener, Shell, ChildExec and StarExec; assumptions
`MonitorAssumption`, `ListenerAssumption`, `ShellAssumption` and `StarExecAssumption`).

* `AnswersAgree`: `MonitorSpec => []AnswersInStep`. `Slots` ties the listener's slot
  to the one goroutine between begin and end, for any writer to the socket. What
  says more holds while nobody else writes to it: `OneRequest`, at most one request
  waits in the socket, the client's next one, and then the slot is free; `Served` and
  `Still`, what is under way to the client in a call is the rest of the output the
  goroutine has counted, then its answer (`Replies`), and nothing outside a call.
  A client that made an oversized request is broken between two calls (`GaveUp`), so
  nothing of it is left in the socket.
* `CancelsEndTheirOwn`: `MonitorSpec => []CancelsMeant`. The signal goroutine reads
  `writing`, then `active`, then writes `cancelEarly` and looks again; `Marks` and
  `Intended` say that each identifier it holds in between is that of the call it
  looked at, and `Sent` that one it is about to cancel was written, so that the
  cancel follows its request on the wire and the listener never takes it for the
  next one (`Follows`, `Silent`).
* `LoginsAreListed`: `SSHKeysSpec => []KeysSafety`. `KeysInv` says that what the
  listener has is what `loadAuthorizedKeys` makes of lines that are all usable,
  whatever was written to the file since; `AuthenticatedByLine` finds the line
  behind a key or certificate that was accepted.
* `SlotsAreExact`: `ListenerSpec => [](ListenerTypeOK /\ PreAuthExact /\ SlotsExact)`,
  a part of `PlacesExact`. `ListenerInv` says, with what the caps need, that a
  channel holds its slots from `OpenSession` to its release and never changes its
  connection, so that each release takes away what its own channel took
  (`HeldMore`, `HeldLess`), and that these sets are finite in every state, however
  many connections and channels there may be.
* `ProcessesAreOnRecord`: `ListenerSpec => []RunsOnRecord`, a part of
  `NothingUnrecorded`, and `EnvStaysFrozen`: `ListenerSpec => EnvFrozen`, a part of
  `ProcessGoverned`, from the same invariant (`ListenerLogged`).
* `LinesRunAsWritten`: `ShellSpec => [](RanGatedOnce /\ BranchForCause /\ PasteStops /\
  PromptClean)`. A statement is the place it has in its line, so `ShellAssumption` says that
  the lines and traps of an instance have no statement at two places (`Apart`). `GateSound`
  says that no statement behind the one that runs was gated yet, in this body, in the
  others and in the chunks that follow, and that what was gated was so once; `BodySound`
  keeps the cause for which the body was entered; `RestSound` says what the registry, the
  Starlark thread and a queued Ctrl-C may hold at each place of the loop.
* `ChildrenAreContained`: `ChildSpec => [](StartedOnce /\ TerminalHandedBack /\
  OutputWhole)`. `HandlerSound`, `TerminalSound` and `OutputSound` follow the handler, the
  terminal and the copying of the output, which end in any order.
* `BatchesAreWhole`: `[](ListComplete /\ CauseIsReal)` for `sys.parallel`. Every command
  that was given out has its outcome or a worker of its own (`GivenOut`, `OneWorkerEach`).
* `ExpectLosesNothing`: `[]ExpectConserves`. What was returned, what is buffered and what is
  unread are three adjoining pieces of what the process printed (`ExpectInv`).

**`SetupProofs`** (AdminAPI, HostProfile, Grid, Plugins and Guard; assumptions
`AdminAssumption`, `HostAssumption`, `GridAssumption`, `PluginsAssumption` and
`GuardAssumption`).

* `AnswersAreTrue`: `AdminSpec => []AdminSafety`. `CallsSound` says what a request has
  on record at each stage; `AnswersStand` that the decision an administrator was told
  of is the one that stands. A decision is made once and the log only grows, so
  another server's requests change neither.
* `ProfilesAreSafe`: `HostSpec => []HostSafety`. `Known` says what each stage of a
  command has read, written or recorded, with files that may be tampered with at any
  time and any write failing; `ProfileSurvives` needs that a commit writes the copy of
  the previous profile before it takes its place.
* `TablesStayTrue`: `GridSpec => GridSafety`. `CallKnown` says what a call under the
  mutex looked up and may still rely on after it gave the mutex back; that two calls
  never remove the same tree keeps the tables in step.
* `LoadsAreWhole`: `PluginsSpec => PluginsSafety` for one loader
  (`Loaders = {"fg"}`): each load rolls back to the snapshot it took, so two at once,
  one of them a background job, take away each other's bindings. `PluginsInv` says
  how far the session is from the snapshot at each step of a load, and that the
  records of the plugins are true of the snapshot.
* `JailHolds`: `GuardSpec => []GuardSafety`, for any peers, windows, thresholds and
  sizes of the two tables. `PushOutSound` says that a peer that is pushed out of the table
  of samples takes its failures out of the account, as `RepeatOffender` states it. `AfterIs` and `AppendWindowIs` say what the loop of `appendWindow` leaves
  of sorted samples: their end, and the new one. `ServiceSound` says that a
  service that has seen the file's last version, and is not tripped, has its bans;
  that one that writes began from what it then knew; and that a console never bans.
  `PeerSound` relates the daemon to what happened: it has a strike, no older than it, for
  each failure in the window (`Covers`), nobody with failures that still count is
  banned, and a strike from before a pardon is left only where the daemon is yet to
  read of the pardon (`Lifted`), which clears it before the next strike.

**`SessionProofs`** (MCSessions with SSHProofs: Gateway, Mirror, Startup, Identity,
McpServer and Instrument; assumptions `MirrorAssumption`, `IdentityAssumption`,
`McpAssumption` and `InstrumentAssumption`; the other two need none).

* `GatewaysAreGoverned`: `GatewaySpec => [](DialsGranted /\ ServesOnRecord /\
  GatewayEndsWithSession /\ ForwardSlotsExact)`. `StartSound` carries the address that
  was looked up and granted from stage to stage of a start, which may be overtaken by
  the end of its session between any two; `ProxySound` to the dial. `ForwardInv` counts
  the channels of a connection that hold a slot, however many there are.
* `GrantsAreKept`: `MirrorSpec => [](StreamsAsGranted /\ GrantEndsOnce) /\
  GrantKeptItsTime`. `MirrorCall` says what each call of a grant, an attach or an end
  still knows of the grant it found under a lock it gave back; the table holds only
  grants that have not ended (`TableSound`), so that neither a timer that fires late nor
  a second ending takes away the grant that replaced its own.
* `ProcessesAreSetUp`: `StartupSpec => [](RunsGoverned /\ ListenerHolds /\
  ChunksRecorded) /\ HangupSpares`. `ShellBehind` and `LoginBehind` say what is set up
  at each stage of either kind of process, whose ways out differ by mode; a
  toggle of the listener that is under way is the one time it may be up without its
  signal action.
* `RolesAreVouched`: `IdentitySpec => [](PrivilegeVouched /\ DeviceClearsEligible /\
  IdentityOnRecord)`. `JobSound` follows each job (an import, a device login, an
  elevation, the signing of a certificate) with what it read of the session, so that
  jobs that overtake one another mix names and sources but never grant a role for which
  nobody vouched (`Named`, `Elevates`).
* `AgentsAreHeldBack`: `McpSpec => [](AgentHeldBack /\ ResultsOnRecord /\
  ProcessWhole)`. `BootSound` says what is there at each stage of the start, failed ones
  too, and `CallSound` which tool may be at which stage, with its entry.
* `TasksAreOnRecord`: `InstrumentSpec => [](OutcomesOnRecord /\ SlotsReturned /\
  TruncationTold)`. A request holds its slot from the step that took it to the one that
  ends it, failing entries included (`RequestSound`), and the free slots are
  the capacity less the requests that hold one (`SlotsSound`).
* `TailsAreInOrder`: `McpSpec => []TailInOrder`. `audit_log` keeps its last lines in a ring
  (`Ring`): from the head round to the head they are in order whenever a line was put in
  (`RingTurns`), and cut at the head and put together they are the tail (`RingUnrolls`).
* `KeysStayTheirs`: `ClientSpec => [](NoKeyStolen /\ SentAsAllowed)`, of the terminal of
  an attach. `LoopSound` says that the goroutine that reads it is done before the loop
  puts it back (`pump` waits for it), `ReaderSound` that the one of a view never has a
  key to send and that the one that sent the detach sends no more.
* `AccessIsAsGranted`: `SessionsSpec => AccessAsGranted`; `ProcessesAreGoverned`:
  `SessionsSpec => ProcessGoverned`; `PlacesAreExact`: `SessionsSpec => []PlacesExact`;
  `NothingGoesUnrecorded`: `SessionsSpec => []NothingUnrecorded`;
  `LinesAndChildrenRunAsWritten`: `SessionsSpec => []RanAsWritten`. These are the
  properties of the `sessions` run as it checks them. A behaviour of the instance is one
  of each of its parts (`PartsRun`): the parts share no variable, and a step of one
  leaves the others where they are.

**Only model-checked.** Liveness and everything about fairness, which the prover
cannot reach. `ChunksSafety`, since `Chunks` is written with recursive operators.
The parts `NoPastedNewline`, `HeldWhole` and `KeysKept` of `InputKept`, whose module
filters sequences with `SelectSeq`, of which the prover knows nothing. The
four properties of the runs that end in a trace.

**Plan.** Next: `InputKept`, for which the keys of `Paste` have to be filtered by the
loop that `After` of `Guard` is.

## 7. Not modelled

Rego evaluation, cryptography (the HMAC and signatures are free constructors or
checks that pass or not), formatting and redaction, the bytes of frames, terminal
modes per platform, session recordings, rlimits and credentials of a session
process, prompt rendering, completion, highlighting and history, help text and
settings, and the Starlark bindings of cloud, Kubernetes, database, file and text
APIs, each of which is one governed call of a client library without state of its
own. `PROJECT.json` lists these with the reason for each. Sharing a ledger between
hosts is outside what the code covers. Components that run side by side without
touching each other's state are not checked in one behaviour (section 2).
