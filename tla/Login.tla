------------------------------- MODULE Login --------------------------------
(***************************************************************************)
(* Authentication on the SSH listener: the revocation list, read again when *)
(* its file changes (internal/sys/ssh_revoke.go), and the rate of           *)
(* SSH_LOGIN_FAIL records (internal/sys/ssh_audit.go).                      *)
(*                                                                         *)
(* All connections present one authorized key, which an operator revokes by *)
(* rewriting the list; the writer is not atomic. Size and modification time *)
(* of the file stand for a version that every write changes.                *)
(***************************************************************************)
EXTENDS Integers, Sequences, FiniteSets

CONSTANTS
    Hosts,     \* source addresses (hostOf)
    MaxLogins, \* bound: authentications
    FailWindow, FailBurst, FailGlobal, FailSources, \* the loginFail... constants
    MaxTime    \* bound: clock

ASSUME LoginAssumption ==
    /\ {FailWindow, FailBurst, FailGlobal, FailSources} \subseteq Nat \ {0}
    /\ {MaxLogins, MaxTime} \subseteq Nat /\ "none" \notin Hosts

VARIABLES
    revoked, \* the file: its version and whether it lists nothing, half, or the key
    checker, \* the cached list and its version; the login that holds the mutex
    login,   \* each host's authentication
    logins,  \* authentications so far
    time,    \* the clock
    window,  \* loginFailAll and loginFailSrc: start, records, suppressed
    told     \* failures, records and suppressed_before, by host; records' times

loginVars == <<revoked, checker, login, logins, time, window, told>>

NoWindow == [start |-> 0, count |-> 0, suppressed |-> 0]

NoLogin == [pc |-> "idle", must |-> FALSE, list |-> "unread"]

LoginInit ==
    /\ revoked = [version |-> 1, list |-> "empty"]
    /\ checker = [holder |-> "none", stat |-> 0, version |-> 0, list |-> "unread"]
    /\ login = [h \in Hosts |-> NoLogin]
    /\ logins = 0 /\ time = 1
    /\ window = [all |-> NoWindow, src |-> [h \in Hosts |-> NoWindow]]
    /\ told = [failed |-> [h \in Hosts |-> 0], counted |-> [h \in Hosts |-> 0],
               elsewhere |-> [h \in Hosts |-> 0], times |-> <<>>]

fails == <<window, told>>

-----------------------------------------------------------------------------
\* The revocation list.

\* The operator rewrites the file: it is cut, then holds the new list.
Rewrite ==
    /\ \/ revoked.list = "empty" /\ revoked' = [version |-> revoked.version + 1, list |-> "half"]
       \/ revoked.list = "half" /\ revoked' = [version |-> revoked.version + 1, list |-> "key"]
    /\ UNCHANGED <<checker, login, logins, time, fails>>

\* current: the mutex is taken and the file's size and time are read.
StatList(h) ==
    /\ login[h].pc = "idle" /\ checker.holder = "none" /\ logins < MaxLogins
    /\ logins' = logins + 1
    /\ checker' = [checker EXCEPT !.holder = h, !.stat = revoked.version]
    /\ login' = [login EXCEPT ![h] = [NoLogin EXCEPT !.pc = "stat", !.must = revoked.list = "key"]]
    /\ UNCHANGED <<revoked, time, fails>>

\* The file's content now, if the cached list is not of the version just seen.
ReadList(h) ==
    /\ login[h].pc = "stat"
    /\ IF checker.list # "unread" /\ checker.stat = checker.version
       THEN login' = [login EXCEPT ![h].pc = "read", ![h].list = checker.list]
       ELSE login' = [login EXCEPT ![h].pc = "read", ![h].list = revoked.list]
    /\ UNCHANGED <<revoked, checker, logins, time, fails>>

Answer(list) == IF list = "key" THEN "refused" ELSE "pass"

\* The version kept is the one the file has when the read is over.
CheckDone_VersionAfter(h) ==
    /\ login[h].pc = "read"
    /\ \/ /\ checker' = [checker EXCEPT !.holder = "none", !.list = login[h].list,
                                        !.version = revoked.version]
          /\ login' = [login EXCEPT ![h].pc = Answer(login[h].list)]
       \/ /\ login[h].list = "half"
          /\ checker' = [checker EXCEPT !.holder = "none", !.list = "unread"]
          /\ login' = [login EXCEPT ![h].pc = "refused"]
    /\ UNCHANGED <<revoked, logins, time, fails>>

\* The list is kept under the version seen before the read, and check answers.
\* Half a file may not parse: then nothing is kept and nobody passes.
CheckDone(h) ==
    /\ login[h].pc = "read"
    /\ \/ /\ checker' = [checker EXCEPT !.holder = "none", !.list = login[h].list,
                                        !.version = checker.stat]
          /\ login' = [login EXCEPT ![h].pc = Answer(login[h].list)]
       \/ /\ login[h].list = "half"
          /\ checker' = [checker EXCEPT !.holder = "none", !.list = "unread"]
          /\ login' = [login EXCEPT ![h].pc = "refused"]
    /\ UNCHANGED <<revoked, logins, time, fails>>

\* The connection of a login that passed ends.
LoggedIn(h) ==
    /\ login[h].pc = "pass"
    /\ login' = [login EXCEPT ![h] = NoLogin]
    /\ UNCHANGED <<revoked, checker, logins, time, fails>>

-----------------------------------------------------------------------------
\* allowLoginFailRecord, under loginFailMu.

Expired(w) == w.start = 0 \/ time - w.start >= FailWindow
Tracked == {g \in Hosts : window.src[g].start # 0}

\* The window of all sources, started anew when it has passed.
All == IF Expired(window.all) THEN [NoWindow EXCEPT !.start = time] ELSE window.all

\* A further record within the burst counts for the source and for all.
Counted(h) ==
    [all |-> [All EXCEPT !.count = @ + 1], src |-> [window.src EXCEPT ![h].count = @ + 1]]

\* The table when the source's window starts: reset if it is full of others.
Table(h) ==
    IF h \notin Tracked /\ Cardinality(Tracked) >= FailSources
    THEN [g \in Hosts |-> NoWindow] ELSE window.src

\* What the source suppressed goes into the record that starts its next window.
Carried(h) == window.src[h].suppressed

Record(h, carried) ==
    [told EXCEPT !.failed[h] = @ + 1, !.counted[h] = @ + 1 + carried, !.times = Append(@, time)]

\* recordLoginFailure: over the limit of all sources, in the source's first
\* record of a window, within its burst, or over it.
LoginFails(h) ==
    LET w == window.src[h]
        GlobalFull == All.count >= FailGlobal
        Lost(g) == IF Table(h) = window.src THEN 0 ELSE window.src[g].suppressed
    IN  /\ login[h].pc = "refused"
        /\ login' = [login EXCEPT ![h] = NoLogin]
        /\ \/ /\ GlobalFull
              /\ window' = [window EXCEPT !.all = [All EXCEPT !.suppressed = @ + 1]]
              /\ told' = [told EXCEPT !.failed[h] = @ + 1, !.elsewhere[h] = @ + 1]
           \/ /\ ~GlobalFull /\ Expired(w)
              /\ window' = [all |-> [All EXCEPT !.count = @ + 1],
                            src |-> [Table(h) EXCEPT ![h] = [start |-> time, count |-> 1,
                                                             suppressed |-> 0]]]
              /\ told' = [Record(h, Carried(h)) EXCEPT
                             !.elsewhere = [g \in Hosts |-> @[g] + Lost(g)]]
           \/ /\ ~GlobalFull /\ ~Expired(w) /\ w.count < FailBurst
              /\ window' = Counted(h) /\ told' = Record(h, 0)
           \/ /\ ~GlobalFull /\ ~Expired(w) /\ w.count >= FailBurst
              /\ window' = [all |-> All, src |-> [window.src EXCEPT ![h].suppressed = @ + 1]]
              /\ told' = [told EXCEPT !.failed[h] = @ + 1]
        /\ UNCHANGED <<revoked, checker, logins, time>>

LoginTick ==
    /\ time < MaxTime /\ time' = time + 1
    /\ UNCHANGED <<revoked, checker, login, logins, fails>>

LoginNext ==
    \/ Rewrite \/ LoginTick
    \/ \E h \in Hosts : StatList(h) \/ ReadList(h) \/ CheckDone(h) \/ LoggedIn(h) \/ LoginFails(h)

LoginSpec == LoginInit /\ [][LoginNext]_loginVars

-----------------------------------------------------------------------------
\* A login whose check begins after the key was written to the list is refused,
\* however the rewrite fell between the checker's look at the file and its read.
RevokedStaysOut == \A h \in Hosts : login[h].pc = "pass" => ~login[h].must

\* Every failed login is in a record of its source, its own or a later one's
\* suppressed_before, or waits in the source's window, or went to the operational
\* log when all sources were over the limit or the table was reset. None twice.
FailuresAccounted ==
    \A h \in Hosts : told.failed[h] = told.counted[h] + window.src[h].suppressed + told.elsewhere[h]

\* No way of spreading failures over sources, restarting their windows or
\* resetting the table gets more than FailGlobal records into one window.
ChainNotFlooded ==
    window.all.start # 0 =>
        Cardinality({i \in DOMAIN told.times : told.times[i] >= window.all.start}) <= FailGlobal

\* Logins under a revocation list and failure windows that change while they are
\* looked at: a revoked key stays out, and failures are counted without a flood.
LoginSafety == RevokedStaysOut /\ FailuresAccounted /\ ChainNotFlooded
=============================================================================
