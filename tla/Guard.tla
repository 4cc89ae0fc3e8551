------------------------------- MODULE Guard --------------------------------
(***************************************************************************)
(* The jail of the SSH listener (internal/guard/guard.go): bans in memory   *)
(* and in a file that the daemon shares with console processes.             *)
(* Each process has a service of its own; its mutex makes one call exclude  *)
(* the others of that process, but nothing holds the file between the read  *)
(* of refreshLocked and the rename of persistLocked.                        *)
(*                                                                         *)
(* The guard is enabled and no peer is in its ignore list. The file's       *)
(* modification time and size stand for one version number: two writes of   *)
(* one size within a tick of the file system's clock are told apart. The    *)
(* peers are many more than the table of samples may hold; the one a new     *)
(* peer pushes out is any of them, the idle not first: peerLocked looks at  *)
(* 16 entries of an unordered map that holds at least 1024.                 *)
(***************************************************************************)
EXTENDS Integers, Sequences, FiniteSets

CONSTANTS
    Peers,      \* peer keys (keyLocked)
    FindTime, MaxRetry, \* failed handshakes: window and threshold
    RateWindow, RateLimit,
    BanTime,
    MaxEntries, \* of the ban table
    PeerCap,    \* peers whose samples are kept (peerCapLocked)
    TableFull,  \* "evict" or "refuse"
    MaxClock, MaxWrites, MaxFaults, MaxKnocks \* bounds

ASSUME GuardAssumption ==
    /\ {FindTime, MaxRetry, RateWindow, RateLimit, BanTime, MaxEntries, PeerCap} \subseteq Nat \ {0}
    /\ TableFull \in {"evict", "refuse"}
    /\ MaxClock \in Nat \ {0} /\ {MaxWrites, MaxFaults, MaxKnocks} \subseteq Nat

Procs == {"daemon", "console"}

VARIABLES
    now,     \* the clock
    banFile, \* the state file: "absent", "ok" or "bad"; its bans; its version
    svc,     \* each process's service, and the write it has under way
    faults,  \* failed writes, damaged files and restarts so far
    knocks,  \* connections and failed handshakes so far
    ghost    \* what the operator and the peers were told; see the properties

guardVars == <<now, banFile, svc, faults, knocks, ghost>>

NoBans == [p \in Peers |-> 0]
NoSamples == [p \in Peers |-> <<>>]

\* Until 0 is no ban. A ban holds while its end lies ahead.
Live(bans) == [p \in Peers |-> IF bans[p] > now THEN bans[p] ELSE 0]
Banned(bans) == {p \in Peers : bans[p] # 0}

Service(bans, saw, seen, tripped) ==
    [bans |-> bans, strikes |-> NoSamples, rates |-> NoSamples, swept |-> -1, saw |-> saw,
     seen |-> seen, tripped |-> tripped, write |-> "none", peer |-> "none", prev |-> NoBans, base |-> -1]

\* Configure: a missing file is an empty table, a bad one trips the service.
Configured ==
    CASE banFile.state = "ok" -> Service(Live(banFile.bans), TRUE, banFile.version, FALSE)
      [] banFile.state = "bad" -> Service(NoBans, FALSE, -1, TRUE)
      [] banFile.state = "absent" -> Service(NoBans, FALSE, -1, FALSE)

GuardInit ==
    /\ now = 1 /\ faults = 0 /\ knocks = 0
    /\ banFile = [state |-> "absent", bans |-> NoBans, version |-> 0]
    /\ svc = [x \in Procs |-> Service(NoBans, FALSE, -1, FALSE)]
    /\ ghost = [held |-> NoBans, fails |-> NoSamples, count |-> NoBans, excused |-> FALSE,
                let |-> "none", unearned |-> FALSE]

-----------------------------------------------------------------------------
\* The service's own steps, as functions of its state.

\* The file's bans replace the memory's; the samples of the others stay.
Load_KeepsStrikes(s) ==
    [s EXCEPT !.bans = Live(banFile.bans), !.saw = TRUE, !.seen = banFile.version]

\* The file's bans replace the memory's; a ban that is gone takes its peer's
\* samples with it.
Load(s) ==
    LET file == Live(banFile.bans)
        Gone(p) == s.bans[p] # 0 /\ file[p] = 0
    IN  [s EXCEPT !.bans = file, !.saw = TRUE, !.seen = banFile.version,
                  !.strikes = [p \in Peers |-> IF Gone(p) THEN <<>> ELSE @[p]],
                  !.rates = [p \in Peers |-> IF Gone(p) THEN <<>> ELSE @[p]]]

\* refreshLocked: the file is read again when it changed; one that is damaged,
\* or has disappeared, trips the service.
Refresh(s) ==
    CASE banFile.state = "absent" -> [s EXCEPT !.tripped = @ \/ s.saw]
      [] banFile.state # "absent" /\ s.saw /\ s.seen = banFile.version -> s
      [] banFile.state = "ok" /\ ~(s.saw /\ s.seen = banFile.version) -> Load(s)
      [] banFile.state = "bad" /\ ~(s.saw /\ s.seen = banFile.version) ->
            [s EXCEPT !.tripped = TRUE]

\* The samples after a cutoff, as a walk over them keeps them.
After(samples, cutoff) ==
    LET kept[n \in 0..Len(samples)] ==
            IF n = 0 THEN <<>>
            ELSE IF samples[n] > cutoff THEN Append(kept[n - 1], samples[n])
            ELSE kept[n - 1]
    IN  kept[Len(samples)]

Within(samples, window) == After(samples, now - window)

\* sweepLocked: expired bans are forgotten, and once per the shorter window the
\* peers whose samples are all old.
Sweep(s) ==
    LET Due == s.swept < 0 \/ now >= s.swept + FindTime \/ now >= s.swept + RateWindow
        Idle(p) == Within(s.strikes[p], FindTime) = <<>> /\ Within(s.rates[p], RateWindow) = <<>>
        Kept(samples) == [p \in Peers |-> IF Due /\ Idle(p) THEN <<>> ELSE samples[p]]
    IN  [s EXCEPT !.bans = Live(@), !.strikes = Kept(@), !.rates = Kept(@),
                  !.swept = IF Due THEN now ELSE @]

\* How a call begins: a service that is tripped, or trips now, looks no further.
Look(s) ==
    CASE s.tripped -> s
      [] ~s.tripped /\ Refresh(s).tripped -> Refresh(s)
      [] ~s.tripped /\ ~Refresh(s).tripped -> Sweep(Refresh(s))

\* The peers of the table: an entry has had a sample since it was made.
Tracked(s) == {p \in Peers : s.strikes[p] # <<>> \/ s.rates[p] # <<>>}

\* peerLocked: whom a peer's entry pushes out, if it is new and the table full.
Outs(s, p) ==
    IF p \in Tracked(s) \/ Cardinality(Tracked(s)) < PeerCap THEN {{}} ELSE {{q} : q \in Tracked(s)}

Without(samples, out) == [p \in Peers |-> IF p \in out THEN <<>> ELSE samples[p]]
PushOut(s, out) == [s EXCEPT !.strikes = Without(@, out), !.rates = Without(@, out)]

\* appendWindow.
AppendWindow(samples, window, cap) ==
    LET kept == Append(Within(samples, window), now)
    IN  IF Len(kept) > cap THEN SubSeq(kept, Len(kept) - cap + 1, Len(kept)) ELSE kept

Full(s) == Cardinality(Banned(s.bans)) >= MaxEntries

\* roomForBanLocked.
RoomForBan(s, p) == s.bans[p] # 0 \/ ~Full(s) \/ TableFull = "evict"

\* The ban that expires first (the smaller key of two).
Victim(s) == CHOOSE p \in Banned(s.bans) : \A q \in Banned(s.bans) : s.bans[p] <= s.bans[q]

\* applyBanLocked up to its write.
ApplyBan(s, p) ==
    LET room == IF s.bans[p] = 0 /\ Full(s) THEN [s.bans EXCEPT ![Victim(s)] = 0] ELSE s.bans
    IN  [s EXCEPT !.bans = [room EXCEPT ![p] = now + BanTime], !.write = "ban", !.peer = p,
                  !.prev = s.bans, !.base = banFile.version]

-----------------------------------------------------------------------------
\* Calls. A process that has a write under way holds its mutex.

Free(x) == svc[x].write = "none"
Become(x, s) == svc' = [svc EXCEPT ![x] = s]

\* Admit: refused, or a peer of the table that is counted towards its rate and
\* let in, unless the rate is over.
Admit(p) ==
    LET s == Look(svc["daemon"])
        Refused == s.tripped \/ s.bans[p] # 0 \/ (TableFull = "refuse" /\ Full(s))
        Counted(out) == [PushOut(s, out) EXCEPT !.rates[p] = AppendWindow(@, RateWindow, RateLimit)]
        Over(out) == Len(Counted(out).rates[p]) >= RateLimit /\ RoomForBan(s, p)
        Told(out) == [ghost EXCEPT !.fails = Without(@, out)]
    IN  /\ Free("daemon") /\ knocks < MaxKnocks /\ knocks' = knocks + 1
        /\ \/ Refused /\ Become("daemon", s) /\ ghost' = [ghost EXCEPT !.let = "none"]
           \/ \E out \in Outs(s, p) :
                /\ ~Refused /\ Over(out)
                /\ Become("daemon", ApplyBan(Counted(out), p))
                /\ ghost' = [Told(out) EXCEPT !.let = "none", !.fails[p] = <<>>]
           \/ \E out \in Outs(s, p) :
                /\ ~Refused /\ ~Over(out)
                /\ Become("daemon", Counted(out)) /\ ghost' = [Told(out) EXCEPT !.let = p]
        /\ UNCHANGED <<now, banFile, faults>>

\* NoteHandshake: a failed handshake of a peer that is not banned is a strike.
NoteHandshake(p) ==
    LET s == Look(svc["daemon"])
        Struck(out) == [PushOut(s, out) EXCEPT !.strikes[p] = AppendWindow(@, FindTime, MaxRetry)]
        Over(out) == Len(Struck(out).strikes[p]) >= MaxRetry /\ RoomForBan(s, p)
        left(out) == [ghost EXCEPT !.fails = Without(@, out)]
        told(out) == [left(out) EXCEPT !.let = "none", !.fails[p] = AppendWindow(@, FindTime, MaxRetry),
                                       !.count[p] = IF @ = MaxRetry THEN @ ELSE @ + 1]
    IN  /\ Free("daemon") /\ knocks < MaxKnocks /\ knocks' = knocks + 1
        /\ \/ /\ s.tripped \/ s.bans[p] # 0
              /\ Become("daemon", s) /\ ghost' = [ghost EXCEPT !.let = "none"]
           \/ \E out \in Outs(s, p) :
                /\ ~s.tripped /\ s.bans[p] = 0 /\ ~Over(out)
                /\ Become("daemon", Struck(out)) /\ ghost' = told(out)
           \/ \E out \in Outs(s, p) :
                /\ ~s.tripped /\ s.bans[p] = 0 /\ Over(out)
                /\ Become("daemon", ApplyBan(Struck(out), p))
                /\ ghost' = [told(out) EXCEPT !.unearned = @ \/ told(out).count[p] < MaxRetry,
                                              !.fails[p] = <<>>]
        /\ UNCHANGED <<now, banFile, faults>>

\* Unban: the table without the peer is written first.
Unban(x, p) ==
    LET s == Look(svc[x]) IN
    /\ Free(x) /\ ~svc[x].tripped
    /\ IF s.tripped \/ s.bans[p] = 0 THEN Become(x, s)
       ELSE Become(x, [s EXCEPT !.bans[p] = 0, !.write = "unban", !.peer = p, !.prev = s.bans,
                                !.base = banFile.version])
    /\ ghost' = [ghost EXCEPT !.let = "none"]
    /\ UNCHANGED <<now, banFile, faults, knocks>>

\* Reload trusts the file, and is what clears a trip. With no file, a service
\* that never saw one starts over; one that did stays tripped.
Reload(x) ==
    LET s == svc[x] IN
    /\ Free(x)
    /\ Become(x, CASE banFile.state = "ok" -> [Load(s) EXCEPT !.tripped = FALSE]
                   [] banFile.state = "bad" -> [s EXCEPT !.tripped = TRUE, !.seen = -1]
                   [] banFile.state = "absent" /\ s.saw -> [s EXCEPT !.tripped = TRUE, !.seen = -1]
                   [] banFile.state = "absent" /\ ~s.saw ->
                        [Service(NoBans, FALSE, -1, FALSE) EXCEPT !.swept = s.swept])
    /\ ghost' = [ghost EXCEPT !.let = "none",
                              !.fails = IF x = "daemon" /\ banFile.state = "absent" THEN NoSamples ELSE @]
    /\ UNCHANGED <<now, banFile, faults, knocks>>

\* What a write that lands means to the operator: the ban it sets or lifts, and
\* the one it evicted. Excused when the file changed since the call began.
Landed(x) ==
    LET s == svc[x] IN
        [ghost EXCEPT
            !.let = "none", !.excused = @ \/ s.base # banFile.version,
            !.held = [p \in Peers |-> CASE p = s.peer -> Live(s.bans)[p]
                                        [] p # s.peer /\ s.prev[p] # s.bans[p] -> 0
                                        [] OTHER -> @[p]],
            !.fails[s.peer] = IF s.write = "unban" THEN <<>> ELSE @,
            !.count[s.peer] = IF s.write = "unban" /\ Live(banFile.bans)[s.peer] # 0 THEN 0 ELSE @]

\* persistLocked: the new file appears whole, by rename.
Persist(x) ==
    LET s == svc[x] IN
    /\ ~Free(x) /\ banFile.version < MaxWrites
    /\ banFile' = [state |-> "ok", bans |-> Live(s.bans), version |-> banFile.version + 1]
    /\ Become(x, [s EXCEPT !.write = "none", !.peer = "none", !.prev = NoBans, !.base = -1,
                           !.saw = TRUE, !.seen = banFile.version + 1,
                           !.strikes[s.peer] = IF s.write = "unban" THEN <<>> ELSE @,
                           !.rates[s.peer] = IF s.write = "unban" THEN <<>> ELSE @])
    /\ ghost' = Landed(x)
    /\ UNCHANGED <<now, faults, knocks>>

\* persistLocked fails: a ban trips the service, an unban restores the table.
PersistFails(x) ==
    LET s == svc[x] IN
    /\ ~Free(x) /\ faults < MaxFaults
    /\ Become(x, [s EXCEPT !.write = "none", !.peer = "none", !.prev = NoBans, !.base = -1,
                           !.bans = IF s.write = "unban" THEN s.prev ELSE @,
                           !.tripped = s.write = "ban"])
    /\ faults' = faults + 1
    /\ ghost' = [ghost EXCEPT !.let = "none",
                              !.excused = @ \/ (s.write = "ban" /\ Banned(s.prev) # {})]
    /\ UNCHANGED <<now, banFile, knocks>>

\* A process stops anywhere, and starts again.
Restart(x) ==
    /\ faults < MaxFaults /\ faults' = faults + 1
    /\ Become(x, Configured)
    /\ ghost' = [ghost EXCEPT !.let = "none",
                              !.fails = IF x = "daemon" THEN NoSamples ELSE @,
                              !.count = IF x = "daemon" THEN NoBans ELSE @]
    /\ UNCHANGED <<now, banFile, knocks>>

\* Someone damages or removes the file: either changes it.
FileDamaged(to) ==
    /\ banFile.state = "ok" /\ faults < MaxFaults /\ faults' = faults + 1
    /\ banFile' = [banFile EXCEPT !.state = to, !.version = @ + 1, !.bans = NoBans]
    /\ ghost' = [ghost EXCEPT !.let = "none", !.held = NoBans]
    /\ UNCHANGED <<now, svc, knocks>>

Tick ==
    /\ now < MaxClock /\ now' = now + 1
    /\ ghost' = [ghost EXCEPT !.let = "none",
                     !.held = [p \in Peers |-> IF @[p] > now + 1 THEN @[p] ELSE 0]]
    /\ UNCHANGED <<banFile, svc, faults, knocks>>

GuardNext ==
    \/ \E p \in Peers : Admit(p) \/ NoteHandshake(p) \/ (\E x \in Procs : Unban(x, p))
    \/ \E x \in Procs : Reload(x) \/ Persist(x) \/ PersistFails(x) \/ Restart(x)
    \/ \E to \in {"bad", "absent"} : FileDamaged(to)
    \/ Tick

GuardSpec == GuardInit /\ [][GuardNext]_guardVars

-----------------------------------------------------------------------------
GuardTypeOK ==
    /\ now \in 1..MaxClock /\ faults \in 0..MaxFaults /\ banFile.version \in 0..(MaxWrites + 1)
    /\ \A x \in Procs : /\ svc[x].write \in {"none", "ban", "unban"}
                        /\ Cardinality(Banned(svc[x].bans)) <= MaxEntries
                        /\ \A p \in Peers : Len(svc[x].strikes[p]) <= MaxRetry

\* A ban that reached the file keeps its peer out until it expires, is lifted or
\* is evicted by the table's bound: across restarts, reloads and the writes of
\* other processes, as long as no two writers overlapped, no write of an eviction
\* failed (ghost.excused) and nobody else touched the file.
BanHolds == ghost.let # "none" /\ ~ghost.excused => ghost.held[ghost.let] = 0

\* MaxRetry failed handshakes within FindTime, none of them before the peer's
\* last ban, pardon or the daemon's last start, never go by without a ban, unless
\* the table is full and refuses, or another peer pushed this one out of the full
\* table of samples in between. No sweep or reload forgets a strike.
RepeatOffender ==
    \A p \in Peers :
        TableFull = "evict" /\ ~ghost.excused => Len(Within(ghost.fails[p], FindTime)) < MaxRetry

\* A peer that was pardoned starts from zero: no strike from before the pardon
\* counts towards its next ban, whichever process lifted the first.
PardonClears == ~ghost.excused => ~ghost.unearned

\* The bans of guard.go survive what several processes do to them, and a pardon
\* ends them.
GuardSafety == GuardTypeOK /\ BanHolds /\ RepeatOffender /\ PardonClears
=============================================================================
