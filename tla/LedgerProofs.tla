---------------------------- MODULE LedgerProofs ----------------------------
(***************************************************************************)
(* Machine-checked proofs about logins, leases and the commands that run   *)
(* commands: about ExecLease, for every number of processes that present a *)
(* lease; about Login, for every number of logins, sources and failures;   *)
(* about Dispatch, for every number of background jobs; about Runtime, for *)
(* every size of secret, runbook, item list and pool of workers; and about *)
(* what Dispatch and Runtime keep together (MCLedger).                     *)
(***************************************************************************)
EXTENDS MCLedger, FiniteSetTheorems, NaturalsInduction, TLAPS

-----------------------------------------------------------------------------
(* Execution leases. The identifier is not handed out again: with an       *)
(* expired record of it left over, two processes that have read that       *)
(* record may each remove the name.                                        *)

LeaseSteps == {"request", "verify", "log", "commit", "create", "write", "exists",
               "unlink", "authorize", "ran", "refused"}

LeaseTypeOK ==
    /\ clock \in Nat
    /\ jti \in {Absent, Empty, Exp}
    /\ handoff \in [Handoffs -> [pc : LeaseSteps, now : Nat, attempt : 0 .. 1, intime : BOOLEAN]]

\* p is past its commit in time, or has created the name in time and still writes it.
Holds(p) ==
    \/ LeaseAt(p, "write") /\ clock < Exp
    \/ p \in Used /\ handoff[p].intime

\* One process holds the lease at a time; while it is in force the name is there
\* for the one that holds it, and nobody who has read it finds it expired.
OnceInv ==
    /\ LeaseTypeOK
    /\ \A p \in Handoffs : handoff[p].now <= clock
    /\ clock < Exp => \A p \in Handoffs : ~LeaseAt(p, "unlink")
    /\ clock < Exp /\ jti = Absent => \A p \in Handoffs : ~Holds(p)
    /\ \A p, q \in Handoffs : Holds(p) /\ Holds(q) => p = q

LEMMA OnceStart == ~Reissued /\ ExecLeaseInit => OnceInv
BY ExecLeaseAssumption
   DEF ExecLeaseInit, OnceInv, LeaseTypeOK, Holds, Used, LeaseAt, LeaseSteps, Absent, Empty

LEMMA OnceStep == OnceInv /\ [ExecLeaseNext]_leaseVars => OnceInv'
<1> SUFFICES ASSUME OnceInv, [ExecLeaseNext]_leaseVars PROVE OnceInv'
  OBVIOUS
<1> USE ExecLeaseAssumption
    DEF OnceInv, LeaseTypeOK, Holds, Used, LeaseAt, To, LeaseSteps, Absent, Empty
<1>1. CASE ClockAdvances
  BY <1>1 DEF ClockAdvances
<1>2. ASSUME NEW p \in Handoffs, Present(p) \/ Verify(p) \/ LogLease(p) PROVE OnceInv'
  BY <1>2 DEF Present, Verify, LogLease
<1>3. ASSUME NEW p \in Handoffs, BeginCommit(p) PROVE OnceInv'
  <2>1. handoff' = [handoff EXCEPT ![p].pc = "create", ![p].now = clock]
    BY <1>3 DEF BeginCommit
  <2>2. handoff[p].pc = "commit" /\ clock' = clock /\ jti' = jti
    BY <1>3 DEF BeginCommit
  <2>3. /\ handoff'[p].pc = "create" /\ handoff'[p].now = clock
        /\ \A q \in Handoffs \ {p} : handoff'[q] = handoff[q]
    BY <2>1
  <2>4. handoff' \in [Handoffs -> [pc : LeaseSteps, now : Nat, attempt : 0 .. 1, intime : BOOLEAN]]
    BY <2>1, ZenonT(40)
  <2>5. \A q \in Handoffs : Holds(q)' => Holds(q) /\ q # p
    BY <2>2, <2>3
  <2> QED
    BY <2>2, <2>3, <2>4, <2>5
<1>4. ASSUME NEW p \in Handoffs, Create(p) PROVE OnceInv'
  BY <1>4 DEF Create
<1>5. ASSUME NEW p \in Handoffs, WriteRecord(p) PROVE OnceInv'
  BY <1>5 DEF WriteRecord
<1>6. ASSUME NEW p \in Handoffs, ReadRecord(p) PROVE OnceInv'
  BY <1>6 DEF ReadRecord
<1>7. ASSUME NEW p \in Handoffs, Unlink(p) PROVE OnceInv'
  BY <1>7 DEF Unlink
<1>8. ASSUME NEW p \in Handoffs, Execute(p) \/ Killed(p) PROVE OnceInv'
  BY <1>8 DEF Execute, Killed
<1>9. CASE UNCHANGED leaseVars
  BY <1>9 DEF leaseVars
<1> QED
  BY <1>1, <1>2, <1>3, <1>4, <1>5, <1>6, <1>7, <1>8, <1>9 DEF ExecLeaseNext

LEMMA LeaseHeldOnce == OnceInv => OneUseInTime
<1> SUFFICES ASSUME OnceInv PROVE OneUseInTime
  OBVIOUS
<1> DEFINE S == {p \in Used : handoff[p].intime}
<1>1. \A p, q \in S : p = q
  BY DEF OnceInv, Holds, Used
<1>2. CASE S = {}
  BY <1>2, FS_EmptySet DEF OneUseInTime
<1>3. ASSUME NEW p \in S PROVE OneUseInTime
  <2>1. S = {p}
    BY <1>1, <1>3
  <2>2. Cardinality({p}) = 1
    BY FS_Singleton
  <2> QED
    BY <2>1, <2>2 DEF OneUseInTime
<1> QED
  BY <1>2, <1>3

\* Of any number of processes that present one lease, in any order and with a kill
\* or a failed write anywhere, at most one is past CommitLeaseJTI in time.
THEOREM LeaseUsedOnce == ~Reissued /\ ExecLeaseSpec => []OneUseInTime
<1>1. ~Reissued /\ ExecLeaseInit => OnceInv
  BY OnceStart
<1>2. OnceInv /\ [ExecLeaseNext]_leaseVars => OnceInv'
  BY OnceStep
<1>3. OnceInv => OneUseInTime
  BY LeaseHeldOnce
<1> QED
  BY <1>1, <1>2, <1>3, PTL DEF ExecLeaseSpec

-----------------------------------------------------------------------------
(* Logins: the revocation list.                                            *)

Lists == {"unread", "empty", "half", "key"}
Logins == [pc : {"idle", "stat", "read", "pass", "refused"}, must : BOOLEAN, list : Lists]

LoginTyped ==
    /\ revoked \in [version : Nat, list : Lists]
    /\ checker \in [holder : Hosts \cup {"none"}, stat : Nat, version : Nat, list : Lists]
    /\ login \in [Hosts -> Logins]

\* A list that is kept is never older than the version it is kept under.
Kept(c, file) ==
    c.list # "unread" => /\ c.version <= file.version
                         /\ c.version = file.version => c.list = file.list

\* Nor is the one that login h has read, r, which has the mutex.
Sound(h, r, c, file) ==
    r.pc \in {"stat", "read"} =>
        /\ c.holder = h /\ c.stat <= file.version
        /\ r.must => file.list = "key" /\ c.stat = file.version
        /\ r.pc = "read" /\ c.stat = file.version => r.list = file.list

ListsFresh == Kept(checker, revoked) /\ \A h \in Hosts : Sound(h, login[h], checker, revoked)

RevokeInv == LoginTyped /\ ListsFresh /\ RevokedStaysOut

LEMMA RevokeStart == LoginInit => RevokeInv
BY LoginAssumption DEF LoginInit, RevokeInv, LoginTyped, Lists, Logins, NoLogin, ListsFresh, Kept, Sound, RevokedStaysOut

LEMMA RevokeStep == RevokeInv /\ [LoginNext]_loginVars => RevokeInv'
<1> SUFFICES ASSUME RevokeInv, [LoginNext]_loginVars PROVE RevokeInv'
  OBVIOUS
<1>0. LoginTyped /\ ListsFresh /\ RevokedStaysOut
  BY DEF RevokeInv
<1>1. CASE Rewrite
  BY <1>0, <1>1 DEF Rewrite, RevokeInv, LoginTyped, ListsFresh, Kept, Sound, RevokedStaysOut, Lists
\* A login that moves to r, while every other one stays and none holds the mutex but this.
<1>2. ASSUME NEW h \in Hosts, NEW r \in Logins, login' = [login EXCEPT ![h] = r], revoked' = revoked,
             checker' \in [holder : Hosts \cup {"none"}, stat : Nat, version : Nat, list : Lists],
             \A g \in Hosts : g # h /\ login[g].pc \in {"stat", "read"} => checker' = checker,
             Kept(checker', revoked), Sound(h, r, checker', revoked), r.pc = "pass" => ~r.must
      PROVE  RevokeInv'
  <2>1. login'[h] = r /\ \A g \in Hosts : g # h => login'[g] = login[g]
    BY <1>0, <1>2 DEF LoginTyped
  <2>2. LoginTyped'
    BY <1>0, <1>2 DEF LoginTyped
  <2>3. \A g \in Hosts : Sound(g, login'[g], checker', revoked')
    <3> SUFFICES ASSUME NEW g \in Hosts PROVE Sound(g, login'[g], checker', revoked)
      BY <1>2
    <3>1. CASE g = h
      BY <1>2, <2>1, <3>1
    <3>2. CASE g # h /\ login[g].pc \in {"stat", "read"}
      BY <1>0, <1>2, <2>1, <3>2 DEF ListsFresh
    <3>3. CASE g # h /\ login[g].pc \notin {"stat", "read"}
      BY <2>1, <3>3 DEF Sound
    <3> QED
      BY <3>1, <3>2, <3>3
  <2>4. RevokedStaysOut'
    BY <1>0, <1>2, <2>1 DEF RevokedStaysOut
  <2> QED
    BY <1>2, <2>2, <2>3, <2>4 DEF RevokeInv, ListsFresh
<1>3. ASSUME NEW h \in Hosts, StatList(h) PROVE RevokeInv'
  <2> DEFINE r == [NoLogin EXCEPT !.pc = "stat", !.must = revoked.list = "key"]
  <2>1. r \in Logins /\ r.pc = "stat" /\ (r.must => revoked.list = "key")
    BY DEF NoLogin, Logins, Lists
  <2>2. /\ checker' = [checker EXCEPT !.holder = h, !.stat = revoked.version]
        /\ login' = [login EXCEPT ![h] = r] /\ revoked' = revoked /\ checker.holder = "none"
    BY <1>3 DEF StatList
  <2> HIDE DEF r
  <2>3. \A g \in Hosts : login[g].pc \notin {"stat", "read"}
    BY <1>0, <2>2, LoginAssumption DEF ListsFresh, Sound
  <2>4. /\ checker' \in [holder : Hosts \cup {"none"}, stat : Nat, version : Nat, list : Lists]
        /\ checker'.list = checker.list /\ checker'.version = checker.version
        /\ checker'.holder = h /\ checker'.stat = revoked.version /\ revoked.version \in Nat
    BY <1>0, <2>2 DEF LoginTyped
  <2>5. Kept(checker', revoked)
    BY <1>0, <2>4 DEF ListsFresh, Kept
  <2>6. Sound(h, r, checker', revoked)
    BY <2>1, <2>4 DEF Sound
  <2> QED
    BY <1>2, <2>1, <2>2, <2>3, <2>4, <2>5, <2>6
<1>4. ASSUME NEW h \in Hosts, ReadList(h) PROVE RevokeInv'
  <2>1. PICK l \in Lists :
          /\ login' = [login EXCEPT ![h].pc = "read", ![h].list = l]
          /\ checker.stat = revoked.version => l = revoked.list
    BY <1>0, <1>4 DEF ReadList, LoginTyped, ListsFresh, Kept
  <2> DEFINE r == [login[h] EXCEPT !.pc = "read", !.list = l]
  <2>2. login[h].pc = "stat" /\ UNCHANGED <<revoked, checker>>
    BY <1>4 DEF ReadList
  <2>3. r \in Logins /\ r.pc = "read" /\ r.must = login[h].must /\ r.list = l /\ login' = [login EXCEPT ![h] = r]
    BY <1>0, <2>1 DEF LoginTyped, Logins
  <2> HIDE DEF r
  <2>4. Sound(h, r, checker', revoked)
    BY <1>0, <2>1, <2>2, <2>3 DEF ListsFresh, Sound
  <2> QED
    BY <1>0, <1>2, <2>2, <2>3, <2>4 DEF ListsFresh, LoginTyped
<1>5. ASSUME NEW h \in Hosts, CheckDone(h) PROVE RevokeInv'
  <2>1. login[h].pc = "read" /\ Sound(h, login[h], checker, revoked) /\ revoked' = revoked /\ login[h] \in Logins
    BY <1>0, <1>5 DEF CheckDone, ListsFresh, LoginTyped
  <2>2. \A g \in Hosts : g # h => login[g].pc \notin {"stat", "read"}
    BY <1>0, <2>1 DEF ListsFresh, Sound
  <2>3. CASE /\ checker' = [checker EXCEPT !.holder = "none", !.list = login[h].list, !.version = checker.stat]
             /\ login' = [login EXCEPT ![h].pc = Answer(login[h].list)]
    <3> DEFINE r == [login[h] EXCEPT !.pc = Answer(login[h].list)]
    <3>1. /\ r \in Logins /\ r.pc = Answer(login[h].list) /\ r.pc \in {"refused", "pass"}
          /\ r.must = login[h].must /\ login' = [login EXCEPT ![h] = r]
      BY <1>0, <2>1, <2>3 DEF LoginTyped, Logins, Answer
    <3>2. /\ checker' \in [holder : Hosts \cup {"none"}, stat : Nat, version : Nat, list : Lists]
          /\ checker'.list = login[h].list /\ checker'.version = checker.stat
      BY <1>0, <2>1, <2>3 DEF LoginTyped, Logins
    <3> HIDE DEF r
    <3>3. Kept(checker', revoked) /\ Sound(h, r, checker', revoked)
      BY <2>1, <3>1, <3>2 DEF Kept, Sound
    <3>4. r.pc = "pass" => ~r.must
      BY <2>1, <3>1 DEF Sound, Answer
    <3> QED
      BY <1>2, <2>1, <2>2, <3>1, <3>2, <3>3, <3>4
  <2>4. CASE /\ checker' = [checker EXCEPT !.holder = "none", !.list = "unread"]
             /\ login' = [login EXCEPT ![h].pc = "refused"]
    <3> DEFINE r == [login[h] EXCEPT !.pc = "refused"]
    <3>1. r \in Logins /\ r.pc = "refused" /\ login' = [login EXCEPT ![h] = r]
      BY <1>0, <2>1, <2>4 DEF LoginTyped, Logins
    <3>2. /\ checker' \in [holder : Hosts \cup {"none"}, stat : Nat, version : Nat, list : Lists]
          /\ checker'.list = "unread"
      BY <1>0, <2>4 DEF LoginTyped, Lists
    <3> HIDE DEF r
    <3>3. Kept(checker', revoked) /\ Sound(h, r, checker', revoked)
      BY <3>1, <3>2 DEF Kept, Sound
    <3> QED
      BY <1>2, <2>1, <2>2, <3>1, <3>2, <3>3
  <2> QED
    BY <1>5, <2>3, <2>4 DEF CheckDone
<1>6. ASSUME NEW h \in Hosts, LoggedIn(h) \/ LoginFails(h) PROVE RevokeInv'
  <2>1. login' = [login EXCEPT ![h] = NoLogin] /\ UNCHANGED <<revoked, checker>>
    BY <1>6 DEF LoggedIn, LoginFails
  <2>2. NoLogin \in Logins /\ NoLogin.pc = "idle"
    BY DEF NoLogin, Logins, Lists
  <2>3. Sound(h, NoLogin, checker', revoked)
    BY <2>2 DEF Sound
  <2> QED
    BY <1>0, <1>2, <2>1, <2>2, <2>3 DEF ListsFresh, LoginTyped
<1>7. CASE LoginTick \/ UNCHANGED loginVars
  BY <1>0, <1>7 DEF LoginTick, loginVars, fails, RevokeInv, LoginTyped, ListsFresh, RevokedStaysOut
<1> QED
  BY <1>1, <1>3, <1>4, <1>5, <1>6, <1>7 DEF LoginNext
-----------------------------------------------------------------------------
(* Logins: the records of failures.                                        *)

Windows == [start : Nat, count : Nat, suppressed : Nat]

RecentRecords == {i \in DOMAIN told.times : told.times[i] >= window.all.start}

FailsTyped ==
    /\ time \in Nat \ {0}
    /\ window \in [all : Windows, src : [Hosts -> Windows]]
    /\ told \in [failed : [Hosts -> Nat], counted : [Hosts -> Nat], elsewhere : [Hosts -> Nat],
                 times : Seq(Nat)]

\* A source that has no window suppresses nothing. Every record is of the window of all
\* sources or of one before it, and those of this one are counted.
FailsSound ==
    /\ \A h \in Hosts : window.src[h].start = 0 => window.src[h].suppressed = 0
    /\ window.all.start = 0 => told.times = <<>>
    /\ \A i \in DOMAIN told.times : told.times[i] <= time /\ told.times[i] < window.all.start + FailWindow
    /\ IsFiniteSet(RecentRecords)
    /\ Cardinality(RecentRecords) <= window.all.count /\ window.all.count <= FailGlobal

FailsInv == FailsTyped /\ FailsSound /\ FailuresAccounted

LEMMA FailsStart == LoginInit => FailsInv
<1> SUFFICES ASSUME LoginInit PROVE FailsInv
  OBVIOUS
<1>1. FailsTyped /\ FailuresAccounted
  BY DEF LoginInit, FailsTyped, Windows, NoWindow, FailuresAccounted
<1>2. RecentRecords = {}
  BY DEF LoginInit, RecentRecords
<1>3. IsFiniteSet(RecentRecords) /\ Cardinality(RecentRecords) = 0
  BY <1>2, FS_EmptySet
<1>4. FailsSound
  BY <1>3, LoginAssumption DEF LoginInit, FailsSound, NoWindow
<1> QED
  BY <1>1, <1>4 DEF FailsInv

\* The window of all sources as a failure finds it: of now if the last one has passed.
LEMMA WindowOfAll ==
  ASSUME FailsInv
  PROVE  LET recent == {i \in DOMAIN told.times : told.times[i] >= All.start} IN
         /\ All \in Windows /\ All.start # 0 /\ time < All.start + FailWindow
         /\ \A i \in DOMAIN told.times : told.times[i] < All.start + FailWindow
         /\ IsFiniteSet(recent) /\ Cardinality(recent) <= All.count /\ All.count <= FailGlobal
<1> USE LoginAssumption
<1>1. window.all \in Windows /\ time \in Nat \ {0} /\ \A i \in DOMAIN told.times : told.times[i] \in Nat
  BY DEF FailsInv, FailsTyped
<1>2. CASE ~Expired(window.all)
  <2>1. All = window.all
    BY <1>2 DEF All
  <2>2. window.all.start # 0 /\ time < window.all.start + FailWindow
    BY <1>1, <1>2 DEF Expired, Windows
  <2> QED
    BY <1>1, <2>1, <2>2 DEF FailsInv, FailsSound, RecentRecords
<1>3. CASE Expired(window.all)
  <2>1. All \in Windows /\ All.start = time /\ All.count = 0
    BY <1>1, <1>3 DEF All, NoWindow, Windows
  <2>2. \A i \in DOMAIN told.times : told.times[i] < time
    BY <1>1, <1>3, SMTT(20) DEF Expired, FailsInv, FailsSound, Windows
  <2>3. {i \in DOMAIN told.times : told.times[i] >= All.start} = {}
    BY <1>1, <2>1, <2>2
  <2> QED
    BY <1>1, <2>1, <2>2, <2>3, FS_EmptySet
<1> QED
  BY <1>2, <1>3

\* What a failure does to the window of all sources and to the records: nothing is
\* recorded, or one record is counted.
LEMMA FailureKeeps ==
  ASSUME FailsInv, time' = time, FailsTyped', FailuresAccounted',
         \A h \in Hosts : window'.src[h].start = 0 => window'.src[h].suppressed = 0,
         window'.all.start = All.start,
         \/ told'.times = told.times /\ window'.all.count = All.count
         \/ /\ told'.times = Append(told.times, time) /\ All.count < FailGlobal
            /\ window'.all.count = All.count + 1
  PROVE  FailsInv'
<1> DEFINE recent == {i \in DOMAIN told.times : told.times[i] >= All.start}
<1>1. /\ All \in Windows /\ All.start # 0 /\ time < All.start + FailWindow
      /\ \A i \in DOMAIN told.times : told.times[i] < All.start + FailWindow
      /\ IsFiniteSet(recent) /\ Cardinality(recent) <= All.count /\ All.count <= FailGlobal
  BY WindowOfAll
<1>2. /\ told.times \in Seq(Nat) /\ time \in Nat \ {0} /\ \A i \in DOMAIN told.times : told.times[i] <= time
      /\ Cardinality(recent) \in Nat
  BY <1>1, FS_CardinalityType DEF FailsInv, FailsTyped, FailsSound
<1>3. CASE told'.times = told.times /\ window'.all.count = All.count
  <2>1. RecentRecords' = recent
    BY <1>3 DEF RecentRecords
  <2> QED
    BY <1>1, <1>2, <1>3, <2>1 DEF FailsInv, FailsSound
<1>4. CASE /\ told'.times = Append(told.times, time) /\ All.count < FailGlobal
           /\ window'.all.count = All.count + 1
  <2> DEFINE n == Len(told.times) + 1
  <2>1. /\ DOMAIN told'.times = DOMAIN told.times \cup {n} /\ told'.times[n] = time
        /\ \A i \in DOMAIN told.times : told'.times[i] = told.times[i]
    BY <1>2, <1>4
  <2>2. RecentRecords' \subseteq recent \cup {n}
    BY <2>1 DEF RecentRecords
  <2>3. IsFiniteSet(recent \cup {n}) /\ Cardinality(recent \cup {n}) <= Cardinality(recent) + 1
    <3>1. IsFiniteSet(recent) /\ Cardinality(recent) \in Nat
      BY <1>1, <1>2
    <3> HIDE DEF recent, n
    <3>2. IsFiniteSet(recent \cup {n})
      BY <3>1, FS_AddElement
    <3>3. Cardinality(recent \cup {n}) = IF n \in recent THEN Cardinality(recent) ELSE Cardinality(recent) + 1
      BY <3>1, FS_AddElement
    <3> QED
      BY <3>1, <3>2, <3>3
  <2>4. /\ IsFiniteSet(RecentRecords') /\ Cardinality(RecentRecords') <= Cardinality(recent) + 1
    BY <2>2, <2>3, <1>2, FS_Subset, FS_CardinalityType
  <2>5. \A i \in DOMAIN told'.times :
          told'.times[i] <= time' /\ told'.times[i] < window'.all.start + FailWindow
    BY <1>1, <1>2, <2>1
  <2>6. window'.all.start # 0 /\ window'.all.count <= FailGlobal
    BY <1>1, <1>4, LoginAssumption DEF Windows
  <2>7. Cardinality(RecentRecords') <= window'.all.count
    BY <1>1, <1>2, <1>4, <2>4, FS_CardinalityType DEF Windows
  <2> QED
    BY <2>4, <2>5, <2>6, <2>7 DEF FailsInv, FailsSound
<1> QED
  BY <1>3, <1>4

\* Nothing is recorded, or one record is counted.
Tells(T, A) ==
    \/ T = told.times /\ A.count = All.count
    \/ T = Append(told.times, time) /\ All.count < FailGlobal /\ A.count = All.count + 1

\* The same by the parts of the tables and of the tale.
LEMMA FailureParts ==
  ASSUME FailsInv, time' = time, NEW F \in [Hosts -> Nat], NEW C \in [Hosts -> Nat],
         NEW E \in [Hosts -> Nat], NEW T \in Seq(Nat), NEW A \in Windows, NEW S \in [Hosts -> Windows],
         told' = [failed |-> F, counted |-> C, elsewhere |-> E, times |-> T],
         window' = [all |-> A, src |-> S],
         \A g \in Hosts : S[g].start = 0 => S[g].suppressed = 0,
         \A g \in Hosts : F[g] = C[g] + S[g].suppressed + E[g],
         A.start = All.start, Tells(T, A)
  PROVE  FailsInv'
<1>1. FailsTyped'
  BY DEF FailsTyped, FailsInv
<1>2. FailuresAccounted'
  BY DEF FailuresAccounted
<1>3. /\ told'.times = T /\ window'.all = A /\ window'.src = S
  OBVIOUS
<1> QED
  BY <1>1, <1>2, <1>3, FailureKeeps DEF Tells

LEMMA FailureStep == \A h \in Hosts : FailsInv /\ LoginFails(h) => FailsInv'
<1> SUFFICES ASSUME FailsInv, NEW h \in Hosts, LoginFails(h) PROVE FailsInv'
  OBVIOUS
<1> DEFINE F == told.failed
           C == told.counted
           E == told.elsewhere
           S == window.src
           F1 == [F EXCEPT ![h] = F[h] + 1]
<1>1. /\ All \in Windows /\ All.start # 0 /\ time' = time /\ time \in Nat \ {0}
      /\ F \in [Hosts -> Nat] /\ C \in [Hosts -> Nat] /\ E \in [Hosts -> Nat] /\ told.times \in Seq(Nat)
      /\ S \in [Hosts -> Windows]
      /\ \A g \in Hosts : S[g].start = 0 => S[g].suppressed = 0
      /\ \A g \in Hosts : F[g] = C[g] + S[g].suppressed + E[g]
  BY WindowOfAll DEF LoginFails, FailsInv, FailsTyped, FailsSound, FailuresAccounted
<1>2. /\ told = [failed |-> F, counted |-> C, elsewhere |-> E, times |-> told.times]
      /\ window = [all |-> window.all, src |-> S]
  BY DEF FailsInv, FailsTyped
<1>3. /\ All.start \in Nat /\ All.count \in Nat /\ All.suppressed \in Nat
      /\ \A g \in Hosts : S[g].start \in Nat /\ S[g].count \in Nat /\ S[g].suppressed \in Nat
  <2>1. \A w \in Windows : w.start \in Nat /\ w.count \in Nat /\ w.suppressed \in Nat
    BY DEF Windows
  <2> HIDE DEF S
  <2> QED
    BY <1>1, <2>1
<1>4. F1 \in [Hosts -> Nat] /\ F1[h] = F[h] + 1 /\ \A g \in Hosts : g # h => F1[g] = F[g]
  BY <1>1
<1>5. /\ [All EXCEPT !.suppressed = @ + 1] \in Windows
      /\ [All EXCEPT !.suppressed = @ + 1].start = All.start /\ [All EXCEPT !.suppressed = @ + 1].count = All.count
      /\ [All EXCEPT !.count = @ + 1] \in Windows
      /\ [All EXCEPT !.count = @ + 1].start = All.start /\ [All EXCEPT !.count = @ + 1].count = All.count + 1
  <2>1. \A w \in Windows :
          /\ [w EXCEPT !.suppressed = @ + 1] \in Windows
          /\ [w EXCEPT !.suppressed = @ + 1].start = w.start /\ [w EXCEPT !.suppressed = @ + 1].count = w.count
          /\ [w EXCEPT !.count = @ + 1] \in Windows
          /\ [w EXCEPT !.count = @ + 1].start = w.start /\ [w EXCEPT !.count = @ + 1].count = w.count + 1
    BY DEF Windows
  <2> QED
    BY <1>1, <2>1
<1>6. ASSUME /\ window' = [window EXCEPT !.all = [All EXCEPT !.suppressed = @ + 1]]
             /\ told' = [told EXCEPT !.failed[h] = @ + 1, !.elsewhere[h] = @ + 1]
      PROVE  FailsInv'
  <2> DEFINE E1 == [E EXCEPT ![h] = E[h] + 1]
             A1 == [All EXCEPT !.suppressed = @ + 1]
  <2>1. told' = [failed |-> F1, counted |-> C, elsewhere |-> E1, times |-> told.times]
    BY <1>2, <1>6
  <2>2. window' = [all |-> A1, src |-> S]
    BY <1>2, <1>6
  <2>3. E1 \in [Hosts -> Nat] /\ E1[h] = E[h] + 1 /\ \A g \in Hosts : g # h => E1[g] = E[g]
    BY <1>1
  <2>4. A1 \in Windows /\ A1.start = All.start /\ A1.count = All.count
    BY <1>5
  <2> HIDE DEF F, C, E, S, F1, E1, A1
  <2>5. \A g \in Hosts : F1[g] = C[g] + S[g].suppressed + E1[g]
    <3> SUFFICES ASSUME NEW g \in Hosts PROVE F1[g] = C[g] + S[g].suppressed + E1[g]
      OBVIOUS
    <3>1. F[g] = C[g] + S[g].suppressed + E[g] /\ C[g] \in Nat /\ E[g] \in Nat /\ S[g].suppressed \in Nat
      BY <1>1, <1>3
    <3>2. CASE g = h
      BY <1>4, <2>3, <3>1, <3>2
    <3>3. CASE g # h
      BY <1>4, <2>3, <3>1, <3>3
    <3> QED
      BY <3>2, <3>3
  <2>6. Tells(told.times, A1)
    BY <2>4 DEF Tells
  <2> QED
    BY <1>1, <2>6, <1>4, <2>1, <2>2, <2>3, <2>4, <2>5, FailureParts
<1>7. ASSUME /\ window' = [all |-> [All EXCEPT !.count = @ + 1],
                           src |-> [Table(h) EXCEPT ![h] = [start |-> time, count |-> 1, suppressed |-> 0]]]
             /\ told' = [Record(h, Carried(h)) EXCEPT
                            !.elsewhere = [g \in Hosts |-> @[g] + (IF Table(h) = window.src THEN 0
                                                                   ELSE window.src[g].suppressed)]],
             All.count < FailGlobal
      PROVE  FailsInv'
  <2> DEFINE C1 == [C EXCEPT ![h] = C[h] + 1 + S[h].suppressed]
             lost(g) == IF Table(h) = S THEN 0 ELSE S[g].suppressed
             E1 == [g \in Hosts |-> E[g] + lost(g)]
             A1 == [All EXCEPT !.count = @ + 1]
             new == [start |-> time, count |-> 1, suppressed |-> 0]
             S1 == [Table(h) EXCEPT ![h] = new]
             T1 == Append(told.times, time)
  <2>1. told' = [failed |-> F1, counted |-> C1, elsewhere |-> E1, times |-> T1]
    BY <1>2, <1>7 DEF Record, Carried
  <2>2. window' = [all |-> A1, src |-> S1]
    BY <1>7
  <2>3. NoWindow \in Windows /\ NoWindow.suppressed = 0 /\ new \in Windows /\ new.suppressed = 0 /\ new.start # 0
    BY <1>1 DEF NoWindow, Windows
  <2>4. Table(h) = S \/ (Table(h) = [g \in Hosts |-> NoWindow] /\ S[h].suppressed = 0)
    BY <1>1 DEF Table, Tracked
  <2>5. A1 \in Windows /\ A1.start = All.start /\ A1.count = All.count + 1 /\ T1 \in Seq(Nat)
    BY <1>1, <1>5
  <2>6. Table(h) \in [Hosts -> Windows] /\ \A g \in Hosts : Table(h)[g].start = 0 => Table(h)[g].suppressed = 0
    <3> HIDE DEF S
    <3> QED
      BY <1>1, <2>3, <2>4
  <2> HIDE DEF new
  <2>7. S1 \in [Hosts -> Windows] /\ S1[h] = new /\ \A g \in Hosts : g # h => S1[g] = Table(h)[g]
    BY <2>3, <2>6
  <2>8. C1 \in [Hosts -> Nat] /\ C1[h] = C[h] + 1 + S[h].suppressed /\ \A g \in Hosts : g # h => C1[g] = C[g]
    <3> HIDE DEF C, S
    <3> QED
      BY <1>1, <1>3
  <2>9. E1 \in [Hosts -> Nat] /\ \A g \in Hosts : E1[g] = E[g] + lost(g) /\ lost(g) \in Nat
    <3> HIDE DEF E, S
    <3> QED
      BY <1>1, <1>3, SMTT(20)
  <2> HIDE DEF F, C, E, S, F1, C1, E1, A1, S1, T1
  <2>10. \A g \in Hosts : F1[g] = C1[g] + S1[g].suppressed + E1[g]
    <3> SUFFICES ASSUME NEW g \in Hosts PROVE F1[g] = C1[g] + S1[g].suppressed + E1[g]
      OBVIOUS
    <3>0. F[g] = C[g] + S[g].suppressed + E[g] /\ C[g] \in Nat /\ E[g] \in Nat /\ S[g].suppressed \in Nat
      BY <1>1, <1>3
    <3>1. CASE Table(h) = S
      <4>1. E1[g] = E[g]
        BY <2>9, <3>0, <3>1
      <4>2. CASE g = h
        BY <1>4, <2>3, <2>7, <2>8, <3>0, <4>1, <4>2
      <4>3. CASE g # h
        BY <1>4, <2>7, <2>8, <3>0, <3>1, <4>1, <4>3
      <4> QED
        BY <4>2, <4>3
    <3>2. CASE Table(h) # S
      <4>1. E1[g] = E[g] + S[g].suppressed /\ S[h].suppressed = 0 /\ Table(h) = [f \in Hosts |-> NoWindow]
        BY <2>4, <2>9, <3>2
      <4>2. CASE g = h
        BY <1>4, <2>3, <2>7, <2>8, <3>0, <4>1, <4>2
      <4>3. CASE g # h
        <5>1. S1[g].suppressed = 0
          BY <2>3, <2>7, <4>1, <4>3
        <5> QED
          BY <1>4, <2>8, <3>0, <4>1, <4>3, <5>1
      <4> QED
        BY <4>2, <4>3
    <3> QED
      BY <3>1, <3>2
  <2>11. \A g \in Hosts : S1[g].start = 0 => S1[g].suppressed = 0
    BY <2>3, <2>6, <2>7
  <2>12. T1 = Append(told.times, time)
    BY DEF T1
  <2>13. All.count < FailGlobal /\ time' = time
    BY <1>1, <1>7
  <2>14. Tells(T1, A1)
    BY <2>5, <2>12, <2>13 DEF Tells
  <2> HIDE DEF T1
  <2> QED
    BY <1>4, <2>13, <2>1, <2>2, <2>5, <2>7, <2>8, <2>9, <2>10, <2>11, <2>14, FailureParts
<1>8. ASSUME window' = Counted(h), told' = Record(h, 0), All.count < FailGlobal PROVE FailsInv'
  <2> DEFINE C1 == [C EXCEPT ![h] = C[h] + 1 + 0]
             A1 == [All EXCEPT !.count = @ + 1]
             new == [S[h] EXCEPT !.count = @ + 1]
             S1 == [S EXCEPT ![h] = new]
             T1 == Append(told.times, time)
  <2>1. told' = [failed |-> F1, counted |-> C1, elsewhere |-> E, times |-> T1]
    BY <1>2, <1>8 DEF Record
  <2>2. window' = [all |-> A1, src |-> S1]
    BY <1>8 DEF Counted
  <2>3. new \in Windows /\ new.suppressed = S[h].suppressed /\ new.start = S[h].start
    <3>1. S[h] \in Windows
      BY <1>1
    <3> HIDE DEF S
    <3> QED
      BY <3>1 DEF Windows
  <2>4. A1 \in Windows /\ A1.start = All.start /\ A1.count = All.count + 1 /\ T1 \in Seq(Nat)
    BY <1>1, <1>5
  <2> HIDE DEF new, S
  <2>5. S1 \in [Hosts -> Windows] /\ S1[h] = new /\ \A g \in Hosts : g # h => S1[g] = S[g]
    BY <1>1, <2>3
  <2> HIDE DEF F, C, E, F1, A1, S1
  <2>6. C1 \in [Hosts -> Nat] /\ C1[h] = C[h] + 1 /\ \A g \in Hosts : g # h => C1[g] = C[g]
    BY <1>1
  <2>7. T1 = Append(told.times, time)
    OBVIOUS
  <2> HIDE DEF C1, T1
  <2>8. \A g \in Hosts : S1[g].suppressed = S[g].suppressed /\ (S1[g].start = 0 => S1[g].suppressed = 0)
    BY <1>1, <2>3, <2>5
  <2>9. \A g \in Hosts : F1[g] = C1[g] + S1[g].suppressed + E[g]
    <3> SUFFICES ASSUME NEW g \in Hosts PROVE F1[g] = C1[g] + S1[g].suppressed + E[g]
      OBVIOUS
    <3>1. F[g] = C[g] + S[g].suppressed + E[g] /\ C[g] \in Nat /\ E[g] \in Nat /\ S[g].suppressed \in Nat
      BY <1>1, <1>3
    <3>2. CASE g = h
      BY <1>4, <2>6, <2>8, <3>1, <3>2
    <3>3. CASE g # h
      BY <1>4, <2>6, <2>8, <3>1, <3>3
    <3> QED
      BY <3>2, <3>3
  <2>10. All.count < FailGlobal /\ time' = time
    BY <1>1, <1>8
  <2>11. Tells(T1, A1)
    BY <2>4, <2>7, <2>10 DEF Tells
  <2>12. E \in [Hosts -> Nat]
    BY <1>1
  <2> QED
    BY <1>4, <2>10, <2>1, <2>2, <2>4, <2>5, <2>6, <2>8, <2>9, <2>11, <2>12, FailureParts
<1>9. ASSUME ~Expired(S[h]), window' = [all |-> All, src |-> [window.src EXCEPT ![h].suppressed = @ + 1]],
             told' = [told EXCEPT !.failed[h] = @ + 1]
      PROVE  FailsInv'
  <2> DEFINE new == [S[h] EXCEPT !.suppressed = @ + 1]
             S1 == [S EXCEPT ![h] = new]
  <2>1. told' = [failed |-> F1, counted |-> C, elsewhere |-> E, times |-> told.times]
    BY <1>2, <1>9
  <2>2. window' = [all |-> All, src |-> S1]
    BY <1>9
  <2>3. new \in Windows /\ new.suppressed = S[h].suppressed + 1 /\ new.start = S[h].start /\ S[h].start # 0
    <3>1. S[h] \in Windows /\ S[h].start # 0
      BY <1>1, <1>9 DEF Expired
    <3> HIDE DEF S
    <3> QED
      BY <3>1 DEF Windows
  <2> HIDE DEF new, S
  <2>4. S1 \in [Hosts -> Windows] /\ S1[h] = new /\ \A g \in Hosts : g # h => S1[g] = S[g]
    BY <1>1, <2>3
  <2> HIDE DEF F, C, E, F1, S1
  <2>5. \A g \in Hosts : S1[g].start = 0 => S1[g].suppressed = 0
    BY <1>1, <2>3, <2>4
  <2>6. \A g \in Hosts : F1[g] = C[g] + S1[g].suppressed + E[g]
    <3> SUFFICES ASSUME NEW g \in Hosts PROVE F1[g] = C[g] + S1[g].suppressed + E[g]
      OBVIOUS
    <3>1. F[g] = C[g] + S[g].suppressed + E[g] /\ C[g] \in Nat /\ E[g] \in Nat /\ S[g].suppressed \in Nat
      BY <1>1, <1>3
    <3>2. CASE g = h
      BY <1>4, <2>3, <2>4, <3>1, <3>2
    <3>3. CASE g # h
      BY <1>4, <2>3, <2>4, <3>1, <3>3
    <3> QED
      BY <3>2, <3>3
  <2>7. Tells(told.times, All)
    BY DEF Tells
  <2> QED
    BY <1>1, <2>7, <1>4, <2>1, <2>2, <2>4, <2>5, <2>6, FailureParts
<1>10. All.count < FailGlobal \/ All.count >= FailGlobal
  BY <1>3, LoginAssumption
<1> QED
  BY <1>6, <1>7, <1>8, <1>9, <1>10 DEF LoginFails

LEMMA FailsStep == FailsInv /\ [LoginNext]_loginVars => FailsInv'
<1> SUFFICES ASSUME FailsInv, [LoginNext]_loginVars PROVE FailsInv'
  OBVIOUS
<1>1. CASE LoginTick
  BY <1>1 DEF LoginTick, fails, FailsInv, FailsTyped, FailsSound, RecentRecords, FailuresAccounted
<1>2. CASE UNCHANGED <<time, fails>>
  BY <1>2 DEF fails, FailsInv, FailsTyped, FailsSound, RecentRecords, FailuresAccounted
<1>3. ASSUME NEW h \in Hosts, LoginFails(h) PROVE FailsInv'
  BY <1>3, FailureStep
<1>4. ASSUME NEW h \in Hosts, StatList(h) \/ ReadList(h) \/ CheckDone(h) \/ LoggedIn(h)
      PROVE  FailsInv'
  BY <1>2, <1>4 DEF StatList, ReadList, CheckDone, LoggedIn
<1>5. CASE Rewrite \/ UNCHANGED loginVars
  BY <1>2, <1>5 DEF Rewrite, loginVars, fails
<1> QED
  BY <1>1, <1>3, <1>4, <1>5 DEF LoginNext

\* A revoked key stays out, and no failure is lost, told twice or floods the chain, for any
\* number of hosts and logins and every size of the windows.
THEOREM LoginsAreChecked == LoginSpec => []LoginSafety
<1>1. LoginInit => RevokeInv /\ FailsInv
  BY RevokeStart, FailsStart
<1>2. (RevokeInv /\ FailsInv) /\ [LoginNext]_loginVars => (RevokeInv /\ FailsInv)'
  BY RevokeStep, FailsStep
<1>3. RevokeInv /\ FailsInv => LoginSafety
  <2> SUFFICES ASSUME RevokeInv, FailsInv PROVE ChainNotFlooded
    BY DEF LoginSafety, RevokeInv, FailsInv
  <2>1. window.all \in Windows /\ Cardinality(RecentRecords) \in Nat
    BY FS_CardinalityType DEF FailsInv, FailsTyped, FailsSound
  <2> QED
    BY <2>1, LoginAssumption DEF FailsInv, FailsSound, RecentRecords, ChainNotFlooded, Windows
<1> QED
  BY <1>1, <1>2, <1>3, PTL DEF LoginSpec

-----------------------------------------------------------------------------
(* Dispatch.                                                               *)

Commands == [wrap : {"no", "exec", "time"}, kind : Kinds \cup {"none"}, var : EnvNames, val : Values \cup {Unset}]
Assigned == Values \cup {Unset, Own, "other"}

DispatchTyped ==
  /\ todo \in [Shells -> Commands]
  /\ spc \in [Shells -> {"idle", "call", "exec", "line", "lock", "global"}]
  /\ passed \in [Shells -> {"none", "local", "listener"}]
  /\ globals \in [EnvNames -> Assigned] /\ overlay \in [EnvNames -> Assigned]
  /\ environ \in [EnvNames -> Assigned] /\ writer \in Shells \cup {"none"}

\* A command that the exec handler has passed the gate, unless it is the listener's; what
\* is about to be assigned has a name of its own, and the lock when it is a global.
ShellSound(j) ==
  /\ spc[j] = "exec" =>
       passed[j] # "none" \/ (place = "ssh" /\ todo[j].wrap = "no" /\ todo[j].kind = "listened")
  /\ spc[j] \in {"lock", "global"} => todo[j].kind = "alias" \/ todo[j].var \notin Reserved
  /\ spc[j] = "global" => writer = j

DispatchInv ==
  /\ DispatchTyped /\ \A j \in Shells : ShellSound(j)
  /\ copying => writer = "none"
  /\ DoneForOwner /\ ListenerKeepsItsVBins /\ RestrictedHolds /\ EnvironStays

LEMMA DispatchStart == DispatchInit => DispatchInv
<1> SUFFICES ASSUME DispatchInit PROVE DispatchInv
  OBVIOUS
<1>1. DispatchTyped
  BY DEF DispatchInit, DispatchTyped, Commands, NoCmd, EnvNames, Assigned
<1>2. \A j \in Shells : ShellSound(j)
  BY DEF DispatchInit, ShellSound
<1>3. EnvironStays
  BY DEF DispatchInit, EnvironStays, EnvNames, Reserved
<1> QED
  BY <1>1, <1>2, <1>3 DEF DispatchInit, DispatchInv, DoneForOwner, ListenerKeepsItsVBins, RestrictedHolds

\* Shell j moves to another stage and does nothing that shows.
LEMMA ShellMoves ==
  ASSUME DispatchInv, NEW j \in Shells,
         NEW to \in {"idle", "call", "exec", "line", "lock", "global"}, SpcTo(j, to),
         UNCHANGED <<place, restricted, copying, effects>>, DispatchTyped', ShellSound(j)',
         \A i \in Shells : i # j => todo'[i] = todo[i] /\ passed'[i] = passed[i],
         \/ writer' = writer
         \/ writer = "none" /\ ~copying
         \/ writer = j /\ writer' = "none",
         EnvironStays'
  PROVE  DispatchInv'
<1>1. \A i \in Shells : ShellSound(i)'
  BY DispatchAssumption DEF DispatchInv, DispatchTyped, ShellSound, SpcTo
<1>2. copying' => writer' = "none"
  BY DEF DispatchInv
<1>3. DoneForOwner' /\ ListenerKeepsItsVBins' /\ RestrictedHolds'
  BY DEF DispatchInv, DoneForOwner, ListenerKeepsItsVBins, RestrictedHolds
<1> QED
  BY <1>1, <1>2, <1>3 DEF DispatchInv

\* Shell j is done with effect e.
LEMMA ShellEnds ==
  ASSUME DispatchInv, NEW j \in Shells, NEW e,
         spc' = [spc EXCEPT ![j] = "idle"], effects' = effects \cup {e},
         e.as = Own, e.gate # "none",
         place = "ssh" /\ e.what = "vbin" => e.kind = "vbin",
         restricted => e.what # "dial" /\ (e.kind = "path" => e.what = "timed"),
         UNCHANGED <<place, restricted, todo, writer, copying, envVars>>,
         passed' \in [Shells -> {"none", "local", "listener"}],
         \A i \in Shells : i # j => passed'[i] = passed[i]
  PROVE  DispatchInv'
<1>1. DispatchTyped'
  BY DEF DispatchInv, DispatchTyped, envVars
<1>2. \A i \in Shells : ShellSound(i)'
  BY DEF DispatchInv, DispatchTyped, ShellSound
<1>3. DoneForOwner' /\ ListenerKeepsItsVBins' /\ RestrictedHolds' /\ EnvironStays'
  BY DEF DispatchInv, DoneForOwner, ListenerKeepsItsVBins, RestrictedHolds, EnvironStays, envVars
<1> QED
  BY <1>1, <1>2, <1>3 DEF DispatchInv

LEMMA CallStep ==
  ASSUME DispatchInv, NEW j \in Shells, Issue(j) \/ callHandler(j) \/ openHandler(j)
  PROVE  DispatchInv'
<1>1. CASE Issue(j)
  <2>1. \E c \in Commands : todo' = [todo EXCEPT ![j] = c]
    <3>1. \A w \in {"no", "exec", "time"}, k \in Kinds, n \in EnvNames, v \in Values :
            [wrap |-> w, kind |-> k, var |-> n, val |-> v] \in Commands
      BY DEF Commands
    <3> QED
      BY <1>1, <3>1, Zenon DEF Issue
  <2>2. /\ SpcTo(j, "call") /\ passed' = [passed EXCEPT ![j] = "none"]
        /\ UNCHANGED <<place, restricted, writer, copying, envVars, effects>>
    BY <1>1 DEF Issue
  <2>3. DispatchTyped'
    BY <2>1, <2>2 DEF DispatchInv, DispatchTyped, envVars, SpcTo
  <2>4. ShellSound(j)'
    BY <2>2 DEF DispatchInv, DispatchTyped, ShellSound, SpcTo
  <2>5. EnvironStays'
    BY <2>2 DEF DispatchInv, EnvironStays, envVars
  <2> QED
    BY <2>1, <2>2, <2>3, <2>4, <2>5, ShellMoves
<1>2. CASE callHandler(j)
  <2>1. UNCHANGED <<place, restricted, todo, writer, copying, envVars, effects>>
    BY <1>2 DEF callHandler
  <2>2. EnvironStays'
    BY <2>1 DEF DispatchInv, EnvironStays, envVars
  <2>3. CASE SpcTo(j, "idle") /\ UNCHANGED passed
    <3>1. DispatchTyped' /\ ShellSound(j)'
      BY <2>1, <2>3 DEF DispatchInv, DispatchTyped, ShellSound, envVars, SpcTo
    <3> QED
      BY <2>1, <2>2, <2>3, <3>1, ShellMoves
  <2>4. ASSUME NEW p \in {"none", "local"}, NEW to \in {"idle", "exec"},
               passed' = [passed EXCEPT ![j] = p], SpcTo(j, to),
               p = "none" => place = "ssh" /\ todo[j].wrap = "no" /\ todo[j].kind = "listened"
        PROVE  DispatchInv'
    <3>1. DispatchTyped' /\ ShellSound(j)'
      BY <2>1, <2>4 DEF DispatchInv, DispatchTyped, ShellSound, envVars, SpcTo
    <3> QED
      BY <2>1, <2>2, <2>4, <3>1, ShellMoves
  <2> QED
    BY <1>2, <2>3, <2>4 DEF callHandler
<1>3. CASE openHandler(j)
  <2>1. CASE SpcTo(j, "idle") /\ UNCHANGED <<passed, effects>>
    <3>1. UNCHANGED <<place, restricted, todo, writer, copying, envVars>>
      BY <1>3 DEF openHandler
    <3>2. DispatchTyped' /\ ShellSound(j)' /\ EnvironStays'
      BY <2>1, <3>1 DEF DispatchInv, DispatchTyped, ShellSound, envVars, SpcTo, EnvironStays
    <3> QED
      BY <2>1, <3>1, <3>2, ShellMoves
  <2>2. CASE ~restricted /\ passed' = [passed EXCEPT ![j] = "local"] /\ SpcTo(j, "idle")
             /\ effects' = effects \cup {[what |-> "dial", kind |-> "net", as |-> gateSessionID, gate |-> "local"]}
    <3> DEFINE e == [what |-> "dial", kind |-> "net", as |-> gateSessionID, gate |-> "local"]
    <3>1. e.as = Own /\ e.gate # "none" /\ e.what = "dial" /\ effects' = effects \cup {e}
      BY <2>2 DEF gateSessionID
    <3> HIDE DEF e
    <3>2. passed' \in [Shells -> {"none", "local", "listener"}] /\ \A i \in Shells : i # j => passed'[i] = passed[i]
      BY <2>2 DEF DispatchInv, DispatchTyped
    <3>3. UNCHANGED <<place, restricted, todo, writer, copying, envVars>> /\ spc' = [spc EXCEPT ![j] = "idle"]
      BY <1>3, <2>2 DEF openHandler, SpcTo
    <3> QED
      BY <2>2, <3>1, <3>2, <3>3, ShellEnds
  <2> QED
    BY <1>3, <2>1, <2>2 DEF openHandler
<1> QED
  BY <1>1, <1>2, <1>3

\* Shell j moves, and changes nothing but the lock and the environment.
LEMMA ShellStages ==
  ASSUME DispatchInv, NEW j \in Shells,
         NEW to \in {"idle", "line", "lock", "global"}, SpcTo(j, to),
         UNCHANGED <<place, restricted, todo, passed, copying, effects>>,
         overlay' \in [EnvNames -> Assigned], globals' \in [EnvNames -> Assigned], EnvironStays', UNCHANGED environ,
         to \in {"lock", "global"} => todo[j].kind = "alias" \/ todo[j].var \notin Reserved,
         to = "global" => writer' = j,
         \/ writer' = writer
         \/ writer = "none" /\ writer' = j /\ ~copying
         \/ writer = j /\ writer' = "none"
  PROVE  DispatchInv'
<1>1. DispatchTyped'
  BY DEF DispatchInv, DispatchTyped, SpcTo
<1>2. ShellSound(j)'
  BY DEF DispatchInv, DispatchTyped, ShellSound, SpcTo
<1> QED
  BY <1>1, <1>2, ShellMoves

\* An assignment to a name that is not reserved leaves the reserved ones alone.
LEMMA AssignStays ==
  ASSUME DispatchInv, NEW j \in Shells, assignEnv(j), todo[j].var \notin Reserved, UNCHANGED globals
  PROVE  EnvironStays' /\ overlay' \in [EnvNames -> Assigned] /\ UNCHANGED environ
<1>1. todo[j].var \in EnvNames /\ todo[j].val \in Assigned
  BY DEF DispatchInv, DispatchTyped, Commands, Assigned
<1> QED
  BY <1>1 DEF DispatchInv, DispatchTyped, EnvironStays, assignEnv

LEMMA AssignStep ==
  ASSUME DispatchInv, NEW j \in Shells,
         applySetAssignment(j) \/ readBuiltin(j) \/ aliasBuiltin(j) \/ WriteGlobal(j)
  PROVE  DispatchInv'
<1>a. overlay \in [EnvNames -> Assigned] /\ globals \in [EnvNames -> Assigned] /\ EnvironStays
  BY DEF DispatchInv, DispatchTyped
<1>b. UNCHANGED <<globals, overlay, environ>> => EnvironStays'
  BY <1>a DEF EnvironStays
<1>1. CASE applySetAssignment(j)
  <2>1. UNCHANGED <<place, restricted, todo, passed, copying, globals, effects>> /\ writer = "none" /\ ~copying
    BY <1>1 DEF applySetAssignment
  <2>2. CASE todo[j].var \notin Reserved /\ writer' = j /\ SpcTo(j, "global") /\ assignEnv(j)
    <3>1. EnvironStays' /\ overlay' \in [EnvNames -> Assigned] /\ UNCHANGED environ
      BY <2>1, <2>2, AssignStays
    <3> QED
      BY <1>a, <2>1, <2>2, <3>1, ShellStages
  <2>3. CASE SpcTo(j, "idle") /\ UNCHANGED <<writer, overlay, environ>>
    BY <1>a, <1>b, <2>1, <2>3, ShellStages
  <2> QED
    BY <1>1, <2>2, <2>3 DEF applySetAssignment
<1>2. CASE readBuiltin(j)
  <2>1. UNCHANGED <<place, restricted, todo, passed, copying, globals, effects>>
    BY <1>2 DEF readBuiltin
  <2>2. ASSUME NEW to \in {"line", "idle"}, SpcTo(j, to), UNCHANGED <<writer, overlay, environ>>
        PROVE  DispatchInv'
    BY <1>a, <1>b, <2>1, <2>2, ShellStages
  <2>3. CASE SpcTo(j, "lock") /\ todo[j].var \notin Reserved /\ assignEnv(j) /\ UNCHANGED writer
    <3>1. EnvironStays' /\ overlay' \in [EnvNames -> Assigned] /\ UNCHANGED environ
      BY <2>1, <2>3, AssignStays
    <3> QED
      BY <1>a, <2>1, <2>3, <3>1, ShellStages
  <2>4. CASE /\ spc[j] = "lock" /\ writer = "none" /\ ~copying
             /\ writer' = j /\ SpcTo(j, "global") /\ UNCHANGED <<overlay, environ>>
    <3>1. todo[j].kind = "alias" \/ todo[j].var \notin Reserved
      BY <2>4 DEF DispatchInv, ShellSound
    <3> QED
      BY <1>a, <1>b, <2>1, <2>4, <3>1, ShellStages
  <2> QED
    BY <1>2, <2>2, <2>3, <2>4 DEF readBuiltin
<1>3. CASE aliasBuiltin(j)
  BY <1>3, <1>a, <1>b, ShellStages DEF aliasBuiltin, Names, envVars
<1>4. CASE WriteGlobal(j)
  <2>1. /\ UNCHANGED <<place, restricted, todo, passed, copying, overlay, environ, effects>>
        /\ SpcTo(j, "idle") /\ writer = j /\ writer' = "none"
    BY <1>4 DEF WriteGlobal, DispatchInv, ShellSound
  <2>2. todo[j].var \in EnvNames /\ todo[j].val \in Assigned
    BY DEF DispatchInv, DispatchTyped, Commands, Assigned
  <2>3. globals' \in [EnvNames -> Assigned] /\ EnvironStays'
    <3>1. CASE todo[j].kind = "alias"
      BY <1>a, <1>4, <2>1, <3>1 DEF WriteGlobal, EnvironStays
    <3>2. CASE todo[j].kind # "alias"
      <4>1. todo[j].var \notin Reserved /\ globals' = [globals EXCEPT ![todo[j].var] = todo[j].val]
        BY <1>4, <3>2 DEF WriteGlobal, DispatchInv, ShellSound
      <4> QED
        BY <1>a, <2>1, <2>2, <4>1 DEF EnvironStays
    <3> QED
      BY <3>1, <3>2
  <2> QED
    BY <1>a, <2>1, <2>3, ShellStages
<1> QED
  BY <1>1, <1>2, <1>3, <1>4

LEMMA ExecStep ==
  ASSUME DispatchInv, NEW j \in Shells,
         runInListener(j) \/ dispatchVBin(j) \/ customCommand(j) \/ timeBuiltin(j) \/ nextHandler(j)
  PROVE  DispatchInv'
<1>1. /\ UNCHANGED <<place, restricted, todo, writer, copying, envVars>> /\ spc[j] = "exec"
      /\ spc' = [spc EXCEPT ![j] = "idle"]
  BY DEF runInListener, dispatchVBin, customCommand, timeBuiltin, nextHandler, Names, SpcTo, Effect
<1>2. CASE UNCHANGED <<passed, effects>>
  <2>1. overlay \in [EnvNames -> Assigned] /\ globals \in [EnvNames -> Assigned] /\ EnvironStays'
    BY <1>1 DEF DispatchInv, DispatchTyped, EnvironStays, envVars
  <2> QED
    BY <1>1, <1>2, <2>1, ShellStages DEF envVars, SpcTo
<1>3. ASSUME NEW what \in {"vbin", "custom", "child", "timed"}, Effect(j, what), UNCHANGED passed,
             todo[j].kind # "listened" \/ todo[j].wrap = "time" \/ place = "local",
             what = "vbin" /\ place = "ssh" => todo[j].kind = "vbin",
             restricted /\ todo[j].kind = "path" => what = "timed"
      PROVE  DispatchInv'
  <2> DEFINE e == [what |-> what, kind |-> todo[j].kind, as |-> gateSessionID, gate |-> passed[j]]
  <2>1. /\ effects' = effects \cup {e} /\ e.as = Own /\ e.gate = passed[j]
        /\ e.what = what /\ e.kind = todo[j].kind
    BY <1>3 DEF Effect, gateSessionID
  <2> HIDE DEF e
  <2>2. e.gate # "none"
    BY <1>1, <1>3, <2>1 DEF DispatchInv, ShellSound
  <2>3. passed' \in [Shells -> {"none", "local", "listener"}]
    BY <1>3 DEF DispatchInv, DispatchTyped
  <2> QED
    BY <1>1, <1>3, <2>1, <2>2, <2>3, ShellEnds
<1>4. CASE runInListener(j)
  <2>1. CASE /\ place = "ssh" /\ todo[j].kind = "listened" /\ passed' = [passed EXCEPT ![j] = "listener"]
             /\ effects' = effects \cup {[what |-> "run", kind |-> todo[j].kind, as |-> Own, gate |-> "listener"]}
    <3> DEFINE e == [what |-> "run", kind |-> todo[j].kind, as |-> Own, gate |-> "listener"]
    <3>1. e.as = Own /\ e.gate # "none" /\ e.what = "run" /\ e.kind = "listened" /\ effects' = effects \cup {e}
      BY <2>1
    <3> HIDE DEF e
    <3>2. passed' \in [Shells -> {"none", "local", "listener"}] /\ \A i \in Shells : i # j => passed'[i] = passed[i]
      BY <2>1 DEF DispatchInv, DispatchTyped
    <3> QED
      BY <1>1, <3>1, <3>2, ShellEnds
  <2> QED
    BY <1>2, <1>4, <2>1 DEF runInListener, Names
<1>5. CASE dispatchVBin(j)
  BY <1>2, <1>3, <1>5 DEF dispatchVBin, Names
<1>6. CASE customCommand(j)
  BY <1>3, <1>6 DEF customCommand, Names
<1>7. CASE nextHandler(j)
  BY <1>2, <1>3, <1>7 DEF nextHandler, Names
<1>8. CASE timeBuiltin(j)
  BY <1>3, <1>8 DEF timeBuiltin
<1> QED
  BY <1>4, <1>5, <1>6, <1>7, <1>8

\* The session thread, Starlark code and the registry.
LEMMA SessionStep ==
  ASSUME DispatchInv, ReadGlobals \/ GlobalMoves \/ SessionGoes \/ UNCHANGED dispatchVars
  PROVE  DispatchInv'
<1>1. UNCHANGED <<place, restricted, todo, spc, passed, writer, overlay, environ, effects>>
  BY DEF ReadGlobals, GlobalMoves, SessionGoes, dispatchVars, shellsVars, envVars
<1>2. copying' => writer' = "none"
  BY <1>1 DEF DispatchInv, ReadGlobals, GlobalMoves, SessionGoes, dispatchVars
<1>3. globals' = globals \/ globals' = [globals EXCEPT !["SESSION_ID"] = "other"]
  BY DEF ReadGlobals, GlobalMoves, SessionGoes, dispatchVars, envVars
<1>4. globals' \in [EnvNames -> Assigned] /\ EnvironStays'
  BY <1>1, <1>3 DEF DispatchInv, DispatchTyped, EnvironStays, EnvNames, Reserved, Assigned
<1>5. DispatchTyped' /\ \A i \in Shells : ShellSound(i)'
  BY <1>1, <1>4 DEF DispatchInv, DispatchTyped, ShellSound
<1> QED
  BY <1>1, <1>2, <1>4, <1>5 DEF DispatchInv, DoneForOwner, ListenerKeepsItsVBins, RestrictedHolds

\* Whatever wrapper a command arrives in, it is done under a gate and for its own
\* session, by the side that it belongs to; in a restricted shell no path is run but as
\* the argument of time; no assignment reaches a reserved name or the process, and none
\* runs while the globals are copied (callHandler, execHandler, applySetAssignment,
\* readBuiltin).
THEOREM CommandsAreDispatched == DispatchSpec => []DispatchSafety
<1>1. DispatchInv /\ [DispatchNext]_dispatchVars => DispatchInv'
  BY CallStep, AssignStep, ExecStep, SessionStep DEF DispatchNext, ShellStep
<1>2. DispatchInv => DispatchSafety
  BY DispatchAssumption DEF DispatchInv, DispatchSafety, ShellSound, CopyUndisturbed
<1> QED
  BY DispatchStart, <1>1, <1>2, PTL DEF DispatchSpec

-----------------------------------------------------------------------------
(* Runtime: lease.                                                         *)

Looking == {"load", "open", "fstat", "read", "grant"}
LeaseStages == {"idle", "request", "authorize", "run", "judge", "revoke", "done"} \cup Looking

InjectFields == {"pc", "via", "kind", "seen", "opened", "private", "allowed", "size", "child", "env",
                 "dest", "exit", "late", "left", "err", "reason"}

LeaseTyped ==
    /\ DOMAIN inject = InjectFields /\ DOMAIN wire = {"feeder", "sent", "held", "got"}
    /\ inject.pc \in LeaseStages /\ inject.via \in {"env", "stdin", "fd"} /\ inject.size \in Nat
    /\ inject.child \in {"none", "vbin", "external", "gone"}
    /\ wire.sent \in Nat /\ wire.held \in Nat /\ wire.got \in Nat

\* The secret is the one of the file that was looked at, and it was private.
TheFile == inject.private /\ inject.opened = inject.seen

Asked == <<"request">>
Granted == <<"request", "grant">>
Closed == <<"request", "grant", "revoke">>
Given == <<"request", "revoke">>

LeaseEvents == {"request", "grant", "revoke"}

LEMMA Trails ==
    /\ Append(<< >>, "request") = Asked /\ Append(Asked, "grant") = Granted
    /\ Append(Granted, "revoke") = Closed /\ Append(Asked, "revoke") = Given
<1>1. ASSUME NEW t \in Seq(LeaseEvents), Len(t) = 2, t[1] = "request"
      PROVE  (t[2] = "grant" => t = Granted) /\ (t[2] = "revoke" => t = Given)
  BY <1>1 DEF Granted, Given
<1>2. ASSUME NEW t \in Seq(LeaseEvents), Len(t) = 3, t[1] = "request", t[2] = "grant", t[3] = "revoke"
      PROVE  t = Closed
  BY <1>2 DEF Closed
<1>3. Len(Asked) = 1 /\ Asked[1] = "request" /\ Asked \in Seq(LeaseEvents)
  BY DEF Asked, LeaseEvents
<1>4. Len(Granted) = 2 /\ Granted[1] = "request" /\ Granted[2] = "grant" /\ Granted \in Seq(LeaseEvents)
  BY DEF Granted, LeaseEvents
<1>5. "grant" \in LeaseEvents /\ "revoke" \in LeaseEvents
  BY DEF LeaseEvents
<1>6. ASSUME NEW t \in Seq(LeaseEvents), NEW e \in LeaseEvents, NEW u, u = Append(t, e)
      PROVE  /\ u \in Seq(LeaseEvents) /\ Len(u) = Len(t) + 1 /\ u[Len(t) + 1] = e
             /\ Len(t) >= 1 => u[1] = t[1]
             /\ Len(t) >= 2 => u[2] = t[2]
  BY <1>6
<1>7. ASSUME NEW e \in LeaseEvents, NEW u, u = Append(Asked, e)
      PROVE  u \in Seq(LeaseEvents) /\ Len(u) = 2 /\ u[1] = "request" /\ u[2] = e
  <2>1. u \in Seq(LeaseEvents) /\ Len(u) = Len(Asked) + 1 /\ u[Len(Asked) + 1] = e /\ u[1] = Asked[1]
    BY <1>3, <1>6, <1>7
  <2> QED
    BY <1>3, <2>1
<1>8. ASSUME NEW u, u = Append(Granted, "revoke")
      PROVE  u \in Seq(LeaseEvents) /\ Len(u) = 3 /\ u[1] = "request" /\ u[2] = "grant" /\ u[3] = "revoke"
  <2>1. /\ u \in Seq(LeaseEvents) /\ Len(u) = Len(Granted) + 1 /\ u[Len(Granted) + 1] = "revoke"
        /\ u[1] = Granted[1] /\ u[2] = Granted[2]
    BY <1>4, <1>5, <1>6, <1>8
  <2> QED
    BY <1>4, <2>1
<1>9. Append(Asked, "grant") = Granted /\ Append(Asked, "revoke") = Given
  BY <1>1, <1>5, <1>7, ZenonT(40)
<1>10. Append(Granted, "revoke") = Closed
  BY <1>2, <1>8
<1> QED
  BY <1>9, <1>10 DEF Asked

\* What was recorded by the time a lease is at a stage.
TrailSound ==
    /\ inject.pc \in {"idle", "request"} => trail = << >>
    /\ inject.pc \in {"authorize"} \cup Looking => trail = Asked
    /\ inject.pc \in {"run", "judge"} => trail = Granted
    /\ inject.pc = "revoke" => trail = IF inject.child = "none" THEN Asked ELSE Granted
    /\ inject.pc = "done" =>
         IF inject.child = "none"
         THEN trail = << >> \/ trail = Given \/ (inject.err /\ trail = Asked)
         ELSE \/ trail = Closed
              \/ inject.err /\ trail = Granted

\* What it knows then, and the child that runs with the secret.
InjectSound ==
    /\ task # "lease" => inject.pc = "idle"
    /\ inject.pc \in Looking \cup {"run"} => inject.allowed
    /\ inject.pc = "read" => TheFile
    /\ inject.pc \in {"grant", "run"} /\ inject.kind = "file" => TheFile
    /\ inject.child = "none" => inject.env = << >> /\ ~inject.left
    /\ inject.child # "none" => /\ inject.pc \in {"run", "judge", "revoke", "done"} /\ inject.allowed
                                /\ inject.kind = "file" => TheFile
    /\ inject.pc = "judge" => inject.child = "gone" /\ (inject.err \/ inject.exit = 0)
    /\ inject.pc \in {"judge", "revoke", "done"} => inject.child \in {"none", "gone"} /\ ~inject.left
    /\ inject.reason = "completed" => inject.pc \in {"revoke", "done"} /\ inject.child = "gone" /\ inject.exit = 0
    /\ SecretOnlyThere

\* The secret on its way: what was sent is in the pipe or was read.
WireSound ==
    /\ inject.child = "none" => wire.feeder = "off" /\ wire.sent = 0
    /\ inject.pc = "done" => wire.feeder = "off"
    /\ wire.sent = wire.held + wire.got /\ wire.sent <= inject.size

LeaseInv == LeaseTyped /\ TrailSound /\ InjectSound /\ WireSound

LEMMA LeaseStart == RuntimeInit => LeaseInv
<1> SUFFICES ASSUME RuntimeInit PROVE LeaseInv
  OBVIOUS
<1>1. /\ DOMAIN inject = InjectFields /\ inject.pc = "idle" /\ inject.via = "env" /\ inject.size = 0
      /\ inject.child = "none" /\ inject.env = << >> /\ inject.left = FALSE /\ inject.reason = "none"
      /\ DOMAIN wire = {"feeder", "sent", "held", "got"} /\ wire.feeder = "off"
      /\ wire.sent = 0 /\ wire.held = 0 /\ wire.got = 0
      /\ trail = << >> /\ task = "none"
  BY DEF RuntimeInit, InjectFields
<1>2. LeaseTyped
  BY <1>1 DEF LeaseTyped, LeaseStages
<1>3. TrailSound /\ WireSound
  BY <1>1 DEF TrailSound, WireSound, Looking
<1>4. SecretOnlyThere
  <2>1. DOMAIN inject.env = {}
    BY <1>1
  <2> QED
    BY <2>1 DEF SecretOnlyThere
<1> QED
  BY <1>1, <1>2, <1>3, <1>4 DEF LeaseInv, InjectSound, Looking

\* A lease that goes on before there is a child: its stage, what it knows and the trail.

\* A lease that goes on before there is a child: its stage, what it knows and the trail.
LEMMA LookKeeps ==
  ASSUME LeaseInv, UNCHANGED <<task, wire>>,
         inject.pc # "idle", inject.child = "none",
         inject.pc \notin {"idle", "run", "judge", "done"}, 
         LeaseTyped', TrailSound',
         inject'.pc # "judge", 
         inject'.child = "none", inject'.via = inject.via, inject'.kind = inject.kind,
         inject'.env = inject.env, inject'.dest = inject.dest, inject'.left = inject.left,
         inject'.reason # "completed",
         inject'.pc \in Looking \cup {"run"} => inject'.allowed,
         inject'.pc = "read" => TheFile',
         inject'.pc \in {"grant", "run"} /\ inject.kind = "file" => TheFile'
  PROVE  LeaseInv'
<1>1. SecretOnlyThere'
  BY DEF LeaseInv, InjectSound, SecretOnlyThere
<1>2. WireSound'
  BY DEF LeaseInv, LeaseTyped, WireSound
<1>3. InjectSound'
  BY <1>1 DEF LeaseInv, InjectSound
<1> QED
  BY <1>2, <1>3 DEF LeaseInv

\* Every way out before there is a child.
LEMMA LookRevokes ==
  ASSUME LeaseInv, UNCHANGED <<task, wire, trail>>, inject.pc \in {"authorize"} \cup Looking,
         NEW why, why # "completed", RevokeFor(why)
  PROVE  LeaseInv'
<1>1. LeaseTyped /\ inject.child = "none" /\ inject.env = << >> /\ inject.left = FALSE /\ trail = Asked
  BY DEF LeaseInv, InjectSound, LeaseTyped, TrailSound, Looking
<1>2. inject' = [inject EXCEPT !.pc = "revoke", !.reason = why, !.err = TRUE]
  BY DEF RevokeFor
<1>3. /\ DOMAIN inject' = InjectFields /\ inject'.pc = "revoke" /\ inject'.child = "none"
      /\ inject'.via = inject.via /\ inject'.kind = inject.kind /\ inject'.env = inject.env
      /\ inject'.dest = inject.dest /\ inject'.left = inject.left /\ inject'.reason = why
      /\ inject'.size = inject.size
  BY <1>1, <1>2 DEF LeaseTyped, InjectFields
<1>4. LeaseTyped' /\ TrailSound'
  BY <1>1, <1>3 DEF LeaseTyped, TrailSound, LeaseStages, Looking
<1> QED
  BY <1>1, <1>3, <1>4, LookKeeps DEF Looking

\* A source answers with a length.
LEMMA AnswersAreLengths == ASSUME NEW kind PROVE SourceAnswers(kind) \subseteq Nat
<1>1. ASSUME NEW d \in VaultData, NEW f \in {"none", "k"}
      PROVE  extractLeaseSecretValue(d, f) \subseteq {1, MaxSecret}
  <2>1. \A v \in DOMAIN d : d[v] \in {1, MaxSecret}
    BY DEF VaultData
  <2> DEFINE known == {n \in 1..4 : <<"value", "password", "token", "secret">>[n] \in DOMAIN d}
             n0 == CHOOSE n \in known : \A k \in known : n <= k
  <2>2. known # {} => n0 \in known
    <3>1. known # {} => \E n \in known : \A k \in known : n <= k
      <4>1. known \subseteq {1, 2, 3, 4}
        OBVIOUS
      <4> HIDE DEF known
      <4>2. 1 \in known \/ (1 \notin known /\ 2 \in known) \/ (1 \notin known /\ 2 \notin known /\ 3 \in known)
            \/ known = {4} \/ known = {}
        BY <4>1
      <4>3. CASE 1 \in known
        BY <4>1, <4>3
      <4>4. CASE 1 \notin known /\ 2 \in known
        BY <4>1, <4>4
      <4>5. CASE 1 \notin known /\ 2 \notin known /\ 3 \in known
        BY <4>1, <4>5
      <4> QED
        BY <4>2, <4>3, <4>4, <4>5
    <3> HIDE DEF known
    <3> QED
      BY <3>1
  <2>3. known # {} => <<"value", "password", "token", "secret">>[n0] \in DOMAIN d
    BY <2>2
  <2> HIDE DEF n0
  <2>4. extractLeaseSecretValue(d, f) =
          IF f # "none" THEN IF f \in DOMAIN d THEN {d[f]} ELSE {}
          ELSE IF known # {} THEN {d[<<"value", "password", "token", "secret">>[n0]]}
          ELSE IF Cardinality(DOMAIN d) = 1 THEN {d[v] : v \in DOMAIN d} ELSE {}
    BY DEF extractLeaseSecretValue, n0
  <2> HIDE DEF known
  <2> DEFINE w == <<"value", "password", "token", "secret">>[n0]
  <2> HIDE DEF w
  <2>5. extractLeaseSecretValue(d, f) \subseteq {d[v] : v \in DOMAIN d}
    BY <2>3, <2>4 DEF w
  <2> QED
    BY <2>1, <2>5
<1>2. CASE kind = "vault"
  <2>1. SourceAnswers(kind) = UNION {extractLeaseSecretValue(d, f) : d \in VaultData, f \in {"none", "k"}}
    BY <1>2 DEF SourceAnswers
  <2>2. {1, MaxSecret} \subseteq Nat
    BY RuntimeAssumption
  <2> QED
    BY <1>1, <2>1, <2>2
<1>3. CASE kind # "vault"
  BY <1>3, RuntimeAssumption DEF SourceAnswers
<1> QED
  BY <1>2, <1>3

LEMMA LookStep ==
  ASSUME LeaseInv,
         \/ LogLeaseRequest \/ AuthorizeLease \/ LstatSecret \/ OpenSecret \/ FstatSecret
         \/ loadLeaseSecret \/ LogLeaseGrant
  PROVE  LeaseInv'
<1> USE DEF InjectAt, InjectGoes
<1>0. LeaseTyped /\ TrailSound /\ InjectSound /\ WireSound
  BY DEF LeaseInv
<1>a. UNCHANGED <<task, wire>> /\ inject.pc \in {"request", "authorize"} \cup Looking
  BY DEF LogLeaseRequest, AuthorizeLease, LstatSecret, OpenSecret, FstatSecret, loadLeaseSecret, LogLeaseGrant, Looking
<1>b. inject.child = "none" /\ inject.env = << >> /\ inject.left = FALSE /\ inject.reason # "completed"
  BY <1>0, <1>a DEF InjectSound, LeaseTyped, Looking
<1>1. CASE LogLeaseRequest
  <2>1. CASE inject' = [inject EXCEPT !.pc = "authorize"] /\ trail' = Append(trail, "request") /\ inject.pc = "request"
    <3>1. LeaseTyped'
      BY <1>0, <1>a, <2>1 DEF LeaseTyped, InjectFields, LeaseStages, Looking
    <3>2. TrailSound'
      BY <1>0, <1>b, <2>1, Trails DEF LeaseTyped, InjectFields, TrailSound, Looking
    <3>3. /\ inject'.pc # "judge" /\ inject'.child = "none"
          /\ inject'.via = inject.via /\ inject'.kind = inject.kind
          /\ inject'.env = inject.env /\ inject'.dest = inject.dest /\ inject'.left = inject.left
          /\ inject'.reason # "completed"
      BY <1>0, <1>b, <2>1 DEF LeaseTyped, InjectFields
    <3>4. /\ inject'.pc \in Looking \cup {"run"} => inject'.allowed
          /\ inject'.pc = "read" => TheFile'
          /\ inject'.pc \in {"grant", "run"} /\ inject.kind = "file" => TheFile'
      BY <1>0, <2>1 DEF LeaseTyped, InjectFields, InjectSound, TheFile, Looking
    <3> QED
      BY <1>a, <1>b, <3>1, <3>2, <3>3, <3>4, LookKeeps DEF Looking
  <2>2. CASE inject' = [inject EXCEPT !.pc = "done"] /\ trail' = trail /\ inject.pc = "request"
    <3>1. LeaseTyped'
      BY <1>0, <1>a, <2>2 DEF LeaseTyped, InjectFields, LeaseStages, Looking
    <3>2. TrailSound'
      BY <1>0, <1>b, <2>2, Trails DEF LeaseTyped, InjectFields, TrailSound, Looking
    <3>3. /\ inject'.pc # "judge" /\ inject'.child = "none"
          /\ inject'.via = inject.via /\ inject'.kind = inject.kind
          /\ inject'.env = inject.env /\ inject'.dest = inject.dest /\ inject'.left = inject.left
          /\ inject'.reason # "completed"
      BY <1>0, <1>b, <2>2 DEF LeaseTyped, InjectFields
    <3>4. /\ inject'.pc \in Looking \cup {"run"} => inject'.allowed
          /\ inject'.pc = "read" => TheFile'
          /\ inject'.pc \in {"grant", "run"} /\ inject.kind = "file" => TheFile'
      BY <1>0, <2>2 DEF LeaseTyped, InjectFields, InjectSound, TheFile, Looking
    <3> QED
      BY <1>a, <1>b, <3>1, <3>2, <3>3, <3>4, LookKeeps DEF Looking
  <2> QED
    BY <1>1, <2>1, <2>2, LookRevokes DEF LogLeaseRequest, Looking, InjectAt
<1>2. CASE AuthorizeLease
  <2>1. CASE inject' = [inject EXCEPT !.pc = "load", !.allowed = TRUE] /\ trail' = trail /\ inject.pc = "authorize"
    <3>1. LeaseTyped'
      BY <1>0, <1>a, <2>1 DEF LeaseTyped, InjectFields, LeaseStages, Looking
    <3>2. TrailSound'
      BY <1>0, <1>b, <2>1, Trails DEF LeaseTyped, InjectFields, TrailSound, Looking
    <3>3. /\ inject'.pc # "judge" /\ inject'.child = "none"
          /\ inject'.via = inject.via /\ inject'.kind = inject.kind
          /\ inject'.env = inject.env /\ inject'.dest = inject.dest /\ inject'.left = inject.left
          /\ inject'.reason # "completed"
      BY <1>0, <1>b, <2>1 DEF LeaseTyped, InjectFields
    <3>4. /\ inject'.pc \in Looking \cup {"run"} => inject'.allowed
          /\ inject'.pc = "read" => TheFile'
          /\ inject'.pc \in {"grant", "run"} /\ inject.kind = "file" => TheFile'
      BY <1>0, <2>1 DEF LeaseTyped, InjectFields, InjectSound, TheFile, Looking
    <3> QED
      BY <1>a, <1>b, <3>1, <3>2, <3>3, <3>4, LookKeeps DEF Looking
  <2> QED
    BY <1>2, <2>1, LookRevokes DEF AuthorizeLease, Looking, InjectAt
<1>3. CASE LstatSecret
  <2>1. CASE inject' = [inject EXCEPT !.pc = "open", !.seen = secretFile.path] /\ trail' = trail /\ inject.pc = "load"
    <3>1. LeaseTyped'
      BY <1>0, <1>a, <2>1 DEF LeaseTyped, InjectFields, LeaseStages, Looking
    <3>2. TrailSound'
      BY <1>0, <1>b, <2>1, Trails DEF LeaseTyped, InjectFields, TrailSound, Looking
    <3>3. /\ inject'.pc # "judge" /\ inject'.child = "none"
          /\ inject'.via = inject.via /\ inject'.kind = inject.kind
          /\ inject'.env = inject.env /\ inject'.dest = inject.dest /\ inject'.left = inject.left
          /\ inject'.reason # "completed"
      BY <1>0, <1>b, <2>1 DEF LeaseTyped, InjectFields
    <3>4. /\ inject'.pc \in Looking \cup {"run"} => inject'.allowed
          /\ inject'.pc = "read" => TheFile'
          /\ inject'.pc \in {"grant", "run"} /\ inject.kind = "file" => TheFile'
      BY <1>0, <2>1 DEF LeaseTyped, InjectFields, InjectSound, TheFile, Looking
    <3> QED
      BY <1>a, <1>b, <3>1, <3>2, <3>3, <3>4, LookKeeps DEF Looking
  <2> QED
    BY <1>3, <2>1, LookRevokes DEF LstatSecret, Looking, InjectAt
<1>4. CASE OpenSecret
  <2>1. CASE inject' = [inject EXCEPT !.pc = "fstat", !.opened = secretFile.path] /\ trail' = trail /\ inject.pc = "open"
    <3>1. LeaseTyped'
      BY <1>0, <1>a, <2>1 DEF LeaseTyped, InjectFields, LeaseStages, Looking
    <3>2. TrailSound'
      BY <1>0, <1>b, <2>1, Trails DEF LeaseTyped, InjectFields, TrailSound, Looking
    <3>3. /\ inject'.pc # "judge" /\ inject'.child = "none"
          /\ inject'.via = inject.via /\ inject'.kind = inject.kind
          /\ inject'.env = inject.env /\ inject'.dest = inject.dest /\ inject'.left = inject.left
          /\ inject'.reason # "completed"
      BY <1>0, <1>b, <2>1 DEF LeaseTyped, InjectFields
    <3>4. /\ inject'.pc \in Looking \cup {"run"} => inject'.allowed
          /\ inject'.pc = "read" => TheFile'
          /\ inject'.pc \in {"grant", "run"} /\ inject.kind = "file" => TheFile'
      BY <1>0, <2>1 DEF LeaseTyped, InjectFields, InjectSound, TheFile, Looking
    <3> QED
      BY <1>a, <1>b, <3>1, <3>2, <3>3, <3>4, LookKeeps DEF Looking
  <2> QED
    BY <1>4, <2>1, LookRevokes DEF OpenSecret, Looking, InjectAt
<1>5. CASE FstatSecret
  <2>1. CASE inject' = [inject EXCEPT !.pc = "read", !.private = Private(inject.opened)] /\ trail' = trail /\ inject.pc = "fstat" /\ Private(inject.opened) /\ inject.opened = inject.seen
    <3>1. LeaseTyped'
      BY <1>0, <1>a, <2>1 DEF LeaseTyped, InjectFields, LeaseStages, Looking
    <3>2. TrailSound'
      BY <1>0, <1>b, <2>1, Trails DEF LeaseTyped, InjectFields, TrailSound, Looking
    <3>3. /\ inject'.pc # "judge" /\ inject'.child = "none"
          /\ inject'.via = inject.via /\ inject'.kind = inject.kind
          /\ inject'.env = inject.env /\ inject'.dest = inject.dest /\ inject'.left = inject.left
          /\ inject'.reason # "completed"
      BY <1>0, <1>b, <2>1 DEF LeaseTyped, InjectFields
    <3>4. /\ inject'.pc \in Looking \cup {"run"} => inject'.allowed
          /\ inject'.pc = "read" => TheFile'
          /\ inject'.pc \in {"grant", "run"} /\ inject.kind = "file" => TheFile'
      BY <1>0, <2>1 DEF LeaseTyped, InjectFields, InjectSound, TheFile, Looking, Private
    <3> QED
      BY <1>a, <1>b, <3>1, <3>2, <3>3, <3>4, LookKeeps DEF Looking
  <2> QED
    BY <1>5, <2>1, LookRevokes DEF FstatSecret, Looking, InjectAt
<1>6. CASE loadLeaseSecret
  <2>1. ASSUME NEW n \in Nat, inject' = [inject EXCEPT !.pc = "grant", !.size = n], trail' = trail,
               inject.pc = "read" \/ (inject.pc = "load" /\ inject.kind # "file")
        PROVE  LeaseInv'
    <3>1. LeaseTyped'
      BY <1>0, <1>a, <2>1 DEF LeaseTyped, InjectFields, LeaseStages, Looking
    <3>2. TrailSound'
      BY <1>0, <1>b, <2>1, Trails DEF LeaseTyped, InjectFields, TrailSound, Looking
    <3>3. /\ inject'.pc # "judge" /\ inject'.child = "none"
          /\ inject'.via = inject.via /\ inject'.kind = inject.kind
          /\ inject'.env = inject.env /\ inject'.dest = inject.dest /\ inject'.left = inject.left
          /\ inject'.reason # "completed"
      BY <1>0, <1>b, <2>1 DEF LeaseTyped, InjectFields
    <3>4. /\ inject'.pc \in Looking \cup {"run"} => inject'.allowed
          /\ inject'.pc = "read" => TheFile'
          /\ inject'.pc \in {"grant", "run"} /\ inject.kind = "file" => TheFile'
      BY <1>0, <2>1 DEF LeaseTyped, InjectFields, InjectSound, TheFile, Looking
    <3> QED
      BY <1>a, <1>b, <3>1, <3>2, <3>3, <3>4, LookKeeps DEF Looking
  <2>2. SourceAnswers(inject.kind) \subseteq Nat
    BY AnswersAreLengths
  <2> QED
    BY <1>6, <2>1, <2>2, LookRevokes DEF loadLeaseSecret, Looking, InjectAt
<1>7. CASE LogLeaseGrant
  <2>1. CASE inject' = [inject EXCEPT !.pc = "run"] /\ trail' = Append(trail, "grant") /\ inject.pc = "grant"
    <3>1. LeaseTyped'
      BY <1>0, <1>a, <2>1 DEF LeaseTyped, InjectFields, LeaseStages, Looking
    <3>2. TrailSound'
      BY <1>0, <1>b, <2>1, Trails DEF LeaseTyped, InjectFields, TrailSound, Looking
    <3>3. /\ inject'.pc # "judge" /\ inject'.child = "none"
          /\ inject'.via = inject.via /\ inject'.kind = inject.kind
          /\ inject'.env = inject.env /\ inject'.dest = inject.dest /\ inject'.left = inject.left
          /\ inject'.reason # "completed"
      BY <1>0, <1>b, <2>1 DEF LeaseTyped, InjectFields
    <3>4. /\ inject'.pc \in Looking \cup {"run"} => inject'.allowed
          /\ inject'.pc = "read" => TheFile'
          /\ inject'.pc \in {"grant", "run"} /\ inject.kind = "file" => TheFile'
      BY <1>0, <2>1 DEF LeaseTyped, InjectFields, InjectSound, TheFile, Looking
    <3> QED
      BY <1>a, <1>b, <3>1, <3>2, <3>3, <3>4, LookKeeps DEF Looking
  <2> QED
    BY <1>7, <2>1, LookRevokes DEF LogLeaseGrant, Looking, InjectAt
<1> QED
  BY <1>1, <1>2, <1>3, <1>4, <1>5, <1>6, <1>7

\* Steps with the child, or of what it left behind.
LEMMA ChildStep ==
  ASSUME LeaseInv,
         \/ FeedSecret \/ FeederEnds \/ LeasedReads \/ LeaseDeadline \/ LeftEnd \/ ChangeKeyFile
         \/ (\E via \in {"env", "stdin", "fd"}, kind \in {"env", "file", "vault"} : StartLease(via, kind))
         \/ (\E dest \in {"SRC", "DST"} : StartLeased(dest))
         \/ LeasedExits(0) \/ LeasedExits(1) \/ KillLate \/ LeasedReturns \/ JudgeLease \/ LogLeaseRevoke
  PROVE  LeaseInv'
<1> USE DEF InjectAt
<1>0. LeaseTyped /\ TrailSound /\ InjectSound /\ WireSound
  BY DEF LeaseInv
<1>1. CASE FeedSecret
  <2>1. LeaseTyped'
    BY <1>0, <1>1 DEF FeedSecret, LeaseTyped, InjectFields, LeaseStages, InjectSound, WireSound
  <2>2. TrailSound'
    BY <1>0, <1>1 DEF FeedSecret, LeaseTyped, InjectFields, TrailSound, Looking, InjectSound
  <2>3. InjectSound'
    BY <1>0, <1>1 DEF FeedSecret, LeaseTyped, InjectFields, Looking, InjectSound, TheFile, SecretOnlyThere, WireSound
  <2>4. WireSound'
    BY <1>0, <1>1 DEF FeedSecret, LeaseTyped, InjectFields, InjectSound, WireSound
  <2> QED
    BY <2>1, <2>2, <2>3, <2>4 DEF LeaseInv
<1>2. CASE FeederEnds
  <2>1. LeaseTyped'
    BY <1>0, <1>2 DEF FeederEnds, LeaseTyped, InjectFields, LeaseStages, InjectSound, WireSound
  <2>2. TrailSound'
    BY <1>0, <1>2 DEF FeederEnds, LeaseTyped, InjectFields, TrailSound, Looking, InjectSound
  <2>3. InjectSound'
    BY <1>0, <1>2 DEF FeederEnds, LeaseTyped, InjectFields, Looking, InjectSound, TheFile, SecretOnlyThere, WireSound
  <2>4. WireSound'
    BY <1>0, <1>2 DEF FeederEnds, LeaseTyped, InjectFields, InjectSound, WireSound
  <2> QED
    BY <2>1, <2>2, <2>3, <2>4 DEF LeaseInv
<1>3. CASE LeasedReads
  <2>1. LeaseTyped'
    BY <1>0, <1>3 DEF LeasedReads, LeaseTyped, InjectFields, LeaseStages, InjectSound, WireSound
  <2>2. TrailSound'
    BY <1>0, <1>3 DEF LeasedReads, LeaseTyped, InjectFields, TrailSound, Looking, InjectSound
  <2>3. InjectSound'
    BY <1>0, <1>3 DEF LeasedReads, LeaseTyped, InjectFields, Looking, InjectSound, TheFile, SecretOnlyThere, WireSound
  <2>4. WireSound'
    BY <1>0, <1>3 DEF LeasedReads, LeaseTyped, InjectFields, InjectSound, WireSound
  <2> QED
    BY <2>1, <2>2, <2>3, <2>4 DEF LeaseInv
<1>4. CASE LeaseDeadline
  <2>1. LeaseTyped'
    BY <1>0, <1>4 DEF LeaseDeadline, LeaseTyped, InjectFields, LeaseStages, InjectSound, WireSound
  <2>2. TrailSound'
    BY <1>0, <1>4 DEF LeaseDeadline, LeaseTyped, InjectFields, TrailSound, Looking, InjectSound
  <2>3. InjectSound'
    BY <1>0, <1>4 DEF LeaseDeadline, LeaseTyped, InjectFields, Looking, InjectSound, TheFile, SecretOnlyThere, WireSound
  <2>4. WireSound'
    BY <1>0, <1>4 DEF LeaseDeadline, LeaseTyped, InjectFields, InjectSound, WireSound
  <2> QED
    BY <2>1, <2>2, <2>3, <2>4 DEF LeaseInv
<1>5. CASE LeftEnd
  <2>1. LeaseTyped'
    BY <1>0, <1>5 DEF LeftEnd, LeaseTyped, InjectFields, LeaseStages, InjectSound, WireSound
  <2>2. TrailSound'
    BY <1>0, <1>5 DEF LeftEnd, LeaseTyped, InjectFields, TrailSound, Looking, InjectSound
  <2>3. InjectSound'
    BY <1>0, <1>5 DEF LeftEnd, LeaseTyped, InjectFields, Looking, InjectSound, TheFile, SecretOnlyThere, WireSound
  <2>4. WireSound'
    BY <1>0, <1>5 DEF LeftEnd, LeaseTyped, InjectFields, InjectSound, WireSound
  <2> QED
    BY <2>1, <2>2, <2>3, <2>4 DEF LeaseInv
<1>6. CASE ChangeKeyFile
  <2>1. LeaseTyped'
    BY <1>0, <1>6 DEF ChangeKeyFile, LeaseTyped, InjectFields, LeaseStages, InjectSound, WireSound
  <2>2. TrailSound'
    BY <1>0, <1>6 DEF ChangeKeyFile, LeaseTyped, InjectFields, TrailSound, Looking, InjectSound
  <2>3. InjectSound'
    BY <1>0, <1>6 DEF ChangeKeyFile, LeaseTyped, InjectFields, Looking, InjectSound, TheFile, SecretOnlyThere, WireSound
  <2>4. WireSound'
    BY <1>0, <1>6 DEF ChangeKeyFile, LeaseTyped, InjectFields, InjectSound, WireSound
  <2> QED
    BY <2>1, <2>2, <2>3, <2>4 DEF LeaseInv
<1>7. CASE LeasedReturns
  <2>1. LeaseTyped'
    BY <1>0, <1>7 DEF LeasedReturns, LeaseTyped, InjectFields, LeaseStages, InjectSound, WireSound
  <2>2. TrailSound'
    BY <1>0, <1>7 DEF LeasedReturns, LeaseTyped, InjectFields, TrailSound, Looking, InjectSound
  <2>3. InjectSound'
    BY <1>0, <1>7 DEF LeasedReturns, LeaseTyped, InjectFields, Looking, InjectSound, TheFile, SecretOnlyThere, WireSound
  <2>4. WireSound'
    BY <1>0, <1>7 DEF LeasedReturns, LeaseTyped, InjectFields, InjectSound, WireSound
  <2> QED
    BY <2>1, <2>2, <2>3, <2>4 DEF LeaseInv
<1>8. CASE JudgeLease
  <2>1. LeaseTyped'
    BY <1>0, <1>8 DEF JudgeLease, LeaseTyped, InjectFields, LeaseStages, InjectSound, WireSound
  <2>2. TrailSound'
    BY <1>0, <1>8 DEF JudgeLease, LeaseTyped, InjectFields, TrailSound, Looking, InjectSound
  <2>3. InjectSound'
    BY <1>0, <1>8 DEF JudgeLease, LeaseTyped, InjectFields, Looking, InjectSound, TheFile, SecretOnlyThere, WireSound
  <2>4. WireSound'
    BY <1>0, <1>8 DEF JudgeLease, LeaseTyped, InjectFields, InjectSound, WireSound
  <2> QED
    BY <2>1, <2>2, <2>3, <2>4 DEF LeaseInv
<1>9. ASSUME NEW via \in {"env", "stdin", "fd"}, NEW kind \in {"env", "file", "vault"}, StartLease(via, kind)
      PROVE  LeaseInv'
  <2>1. LeaseTyped'
    BY <1>0, <1>9 DEF StartLease, LeaseTyped, InjectFields, LeaseStages, InjectSound, WireSound
  <2>2. TrailSound'
    BY <1>0, <1>9, Trails DEF StartLease, LeaseTyped, InjectFields, TrailSound, Looking, InjectSound
  <2>3. InjectSound'
    BY <1>0, <1>9 DEF StartLease, LeaseTyped, InjectFields, Looking, InjectSound, TheFile, SecretOnlyThere, WireSound
  <2>4. WireSound'
    BY <1>0, <1>9 DEF StartLease, LeaseTyped, InjectFields, InjectSound, WireSound
  <2> QED
    BY <2>1, <2>2, <2>3, <2>4 DEF LeaseInv
<1>10. ASSUME NEW code \in {0, 1}, NEW left \in BOOLEAN, inject.child \in {"vbin", "external"},
              inject' = [inject EXCEPT !.child = "gone", !.exit = code, !.left = left],
              UNCHANGED <<task, wire, trail>>
       PROVE  LeaseInv'
  <2>1. LeaseTyped'
    BY <1>0, <1>10 DEF InjectSound, LeaseTyped, InjectFields, LeaseStages, WireSound
  <2>2. TrailSound'
    BY <1>0, <1>10, Trails DEF InjectSound, LeaseTyped, InjectFields, TrailSound, Looking
  <2>3. InjectSound'
    BY <1>0, <1>10 DEF InjectSound, LeaseTyped, InjectFields, Looking, TheFile, SecretOnlyThere, WireSound
  <2>4. WireSound'
    BY <1>0, <1>10 DEF InjectSound, LeaseTyped, InjectFields, WireSound
  <2> QED
    BY <2>1, <2>2, <2>3, <2>4 DEF LeaseInv
<1>11. CASE LeasedExits(0) \/ LeasedExits(1)
  BY <1>10, <1>11 DEF LeasedExits
<1>12. CASE KillLate
  BY <1>10, <1>12 DEF KillLate
<1>13. CASE LogLeaseRevoke
  <2>0. inject.pc = "revoke" /\ UNCHANGED task /\ wire' = [wire EXCEPT !.feeder = "off"]
    BY <1>13 DEF LogLeaseRevoke
  <2>a. \/ inject' = [inject EXCEPT !.pc = "done"] /\ trail' = Append(trail, "revoke")
        \/ inject' = [inject EXCEPT !.pc = "done", !.err = TRUE] /\ UNCHANGED trail
    BY <1>13 DEF LogLeaseRevoke
  <2>1. LeaseTyped'
    BY <1>0, <2>0, <2>a DEF LeaseTyped, InjectFields, LeaseStages
  <2>2. TrailSound'
    <3>1. trail = IF inject.child = "none" THEN Asked ELSE Granted
      BY <1>0, <2>0 DEF TrailSound
    <3>2. CASE inject' = [inject EXCEPT !.pc = "done"] /\ trail' = Append(trail, "revoke")
      BY <1>0, <3>1, <3>2, Trails DEF LeaseTyped, InjectFields, TrailSound, Looking
    <3>3. CASE inject' = [inject EXCEPT !.pc = "done", !.err = TRUE] /\ UNCHANGED trail
      BY <1>0, <3>1, <3>3 DEF LeaseTyped, InjectFields, TrailSound, Looking
    <3> QED
      BY <2>a, <3>2, <3>3
  <2>3. InjectSound'
    <3>1. /\ DOMAIN inject' = InjectFields /\ inject'.pc = "done" /\ inject'.child = inject.child
          /\ inject'.env = inject.env /\ inject'.dest = inject.dest /\ inject'.via = inject.via
          /\ inject'.kind = inject.kind /\ inject'.left = inject.left /\ inject'.reason = inject.reason
          /\ inject'.exit = inject.exit /\ inject'.private = inject.private
          /\ inject'.opened = inject.opened /\ inject'.seen = inject.seen /\ inject'.allowed = inject.allowed
      BY <1>0, <2>0, <2>a, ZenonT(40) DEF LeaseTyped, InjectFields
    <3>2. SecretOnlyThere'
      BY <1>0, <3>1 DEF InjectSound, SecretOnlyThere
    <3> QED
      BY <1>0, <2>0, <3>1, <3>2 DEF InjectSound, TheFile, Looking
  <2>4. WireSound'
    BY <1>0, <2>0, <2>a DEF LeaseTyped, InjectFields, WireSound
  <2> QED
    BY <2>1, <2>2, <2>3, <2>4 DEF LeaseInv
<1>14. ASSUME NEW dest \in {"SRC", "DST"}, StartLeased(dest) PROVE LeaseInv'
  <2>0. inject.pc = "run" /\ inject.child = "none" /\ UNCHANGED <<task, trail>>
    BY <1>14 DEF StartLeased
  <2>1. PICK how \in {"vbin", "external", "gone"} :
          /\ inject' = [inject EXCEPT !.child = how, !.err = (how = "gone"), !.dest = dest,
               !.env = IF how # "external" THEN << >>
                       ELSE overlayEnvironment(SessionEnv(inject.kind),
                              IF inject.via = "env" THEN [v \in {dest} |-> "secret"] ELSE << >>,
                              IF inject.kind = "env" THEN {"SRC"} ELSE {})]
          /\ wire' = [wire EXCEPT !.feeder =
               IF inject.via = "fd" \/ (inject.via = "stdin" /\ how = "external") THEN "on" ELSE "off"]
    BY <1>14 DEF StartLeased
  <2> DEFINE added == IF inject.via = "env" THEN [v \in {dest} |-> "secret"] ELSE << >>
             env == IF how # "external" THEN << >>
                    ELSE overlayEnvironment(SessionEnv(inject.kind), added,
                           IF inject.kind = "env" THEN {"SRC"} ELSE {})
  <2>2. \A v \in DOMAIN env : env[v] = "secret" => inject.via = "env" /\ v = dest
    <3>1. CASE how # "external"
      BY <3>1
    <3>2. CASE how = "external"
      <4>1. DOMAIN added = (IF inject.via = "env" THEN {dest} ELSE {})
        OBVIOUS
      <4> HIDE DEF added
      <4> DEFINE base == SessionEnv(inject.kind)
                 unset == IF inject.kind = "env" THEN {"SRC"} ELSE {}
      <4>2. \A v \in (DOMAIN base) \ unset : base[v] = "plain"
        BY DEF SessionEnv
      <4> HIDE DEF base, unset
      <4>3. env = [v \in ((DOMAIN base) \ unset) \cup DOMAIN added |->
                     IF v \in DOMAIN added THEN added[v] ELSE base[v]]
        BY <3>2 DEF overlayEnvironment, base, unset
      <4> QED
        BY <4>1, <4>2, <4>3
    <3> QED
      BY <3>1, <3>2
  <2>3. inject' = [inject EXCEPT !.child = how, !.err = (how = "gone"), !.dest = dest, !.env = env]
    BY <2>1
  <2> HIDE DEF env
  <2>4. /\ DOMAIN inject' = InjectFields /\ inject'.child = how /\ inject'.env = env /\ inject'.dest = dest
        /\ inject'.pc = "run" /\ inject'.via = inject.via /\ inject'.kind = inject.kind /\ inject'.size = inject.size
        /\ inject'.left = inject.left /\ inject'.reason = inject.reason
        /\ inject'.private = inject.private /\ inject'.opened = inject.opened /\ inject'.seen = inject.seen
        /\ inject'.allowed = inject.allowed
    BY <1>0, <2>0, <2>3 DEF LeaseTyped, InjectFields
  <2>5. /\ DOMAIN wire' = {"feeder", "sent", "held", "got"} /\ wire'.sent = wire.sent
        /\ wire'.held = wire.held /\ wire'.got = wire.got
    BY <1>0, <2>1 DEF LeaseTyped
  <2>6. LeaseTyped' /\ TrailSound' /\ WireSound'
    BY <1>0, <2>0, <2>4, <2>5 DEF LeaseTyped, TrailSound, WireSound, Looking
  <2>7. SecretOnlyThere'
    BY <2>2, <2>4 DEF SecretOnlyThere
  <2>8. InjectSound'
    BY <1>0, <2>0, <2>4, <2>7 DEF InjectSound, TheFile, Looking
  <2> QED
    BY <2>6, <2>8 DEF LeaseInv
<1> QED
  BY <1>1, <1>2, <1>3, <1>4, <1>5, <1>6, <1>7, <1>8, <1>9, <1>11, <1>12, <1>13, <1>14

\* A command that is not the lease leaves it as it is.
LEMMA LeaseFrame ==
  ASSUME LeaseInv, UNCHANGED leaseCmdVars, task' = task \/ (task = "none" /\ task' # "lease")
  PROVE  LeaseInv'
<1> USE DEF leaseCmdVars
<1>1. LeaseTyped' /\ TrailSound' /\ WireSound'
  BY DEF LeaseInv, LeaseTyped, TrailSound, WireSound
<1>2. InjectSound'
  BY DEF LeaseInv, InjectSound, SecretOnlyThere, TheFile
<1> QED
  BY <1>1, <1>2 DEF LeaseInv

LEMMA LeaseHolds == LeaseInv => SecretOnGrant /\ SecretOnlyThere /\ LeaseClosed
<1> SUFFICES ASSUME LeaseInv PROVE SecretOnGrant /\ LeaseClosed
  BY DEF LeaseInv, InjectSound
<1>0. LeaseTyped /\ TrailSound /\ InjectSound /\ WireSound
  BY DEF LeaseInv
<1>1. SecretOnGrant
  <2> SUFFICES ASSUME Delivered
               PROVE  /\ inject.allowed /\ Len(trail) >= 2 /\ SubSeq(trail, 1, 2) = <<"request", "grant">>
                      /\ inject.kind = "file" => inject.private /\ inject.opened = inject.seen
    BY DEF SecretOnGrant
  <2>1. inject.child # "none"
    BY <1>0 DEF InjectSound, WireSound, LeaseTyped, Delivered
  <2>2. trail = Granted \/ trail = Closed
    BY <1>0, <2>1 DEF TrailSound, InjectSound
  <2>3. Len(trail) >= 2 /\ SubSeq(trail, 1, 2) = <<"request", "grant">>
    <3>1. ASSUME NEW t \in Seq(LeaseEvents), Len(t) >= 2, t[1] = "request", t[2] = "grant"
          PROVE  SubSeq(t, 1, 2) = <<"request", "grant">>
      <4> DEFINE u == SubSeq(t, 1, 2)
      <4>1. u \in Seq(LeaseEvents) /\ Len(u) = 2 /\ u[1] = "request" /\ u[2] = "grant"
        BY <3>1
      <4> HIDE DEF u
      <4>2. u = <<"request", "grant">>
        BY <4>1
      <4> QED
        BY <4>2 DEF u
    <3>2. trail \in Seq(LeaseEvents) /\ Len(trail) >= 2 /\ trail[1] = "request" /\ trail[2] = "grant"
      <4>1. CASE trail = Granted
        BY <4>1 DEF Granted, LeaseEvents
      <4>2. CASE trail = Closed
        BY <4>2 DEF Closed, LeaseEvents
      <4> QED
        BY <2>2, <4>1, <4>2
    <3> QED
      BY <3>1, <3>2
  <2> QED
    BY <1>0, <2>1, <2>3 DEF InjectSound, TheFile
<1>2. LeaseClosed
  <2>1. "revoke" \in ToSet(trail) => inject.child \in {"none", "gone"} /\ ~inject.left
    <3>1. ASSUME inject.pc \notin {"judge", "revoke", "done"} PROVE "revoke" \notin ToSet(trail)
      <4>1. trail = << >> \/ trail = Asked \/ trail = Granted
        BY <1>0, <3>1 DEF TrailSound, LeaseTyped, LeaseStages
      <4> QED
        BY <4>1 DEF ToSet, Asked, Granted
    <3> QED
      BY <1>0, <3>1 DEF InjectSound
  <2>2. ASSUME InjectAt("done")
        PROVE  /\ wire.feeder = "off" /\ inject.child \in {"none", "gone"}
               /\ trail # << >> => Last(trail) = "revoke" \/ inject.err
    <3>1. inject.err \/ trail = << >> \/ trail = Given \/ trail = Closed
      BY <1>0, <2>2 DEF TrailSound, InjectAt
    <3>2. Last(Given) = "revoke" /\ Last(Closed) = "revoke"
      BY DEF Last, Given, Closed
    <3> QED
      BY <1>0, <2>2, <3>1, <3>2 DEF InjectSound, WireSound, InjectAt
  <2>3. ASSUME inject.reason = "completed"
        PROVE  /\ inject.exit = 0 /\ wire.got <= inject.size
               /\ InjectAt("done") /\ ~inject.err => trail = <<"request", "grant", "revoke">>
    BY <1>0, <2>3 DEF InjectSound, WireSound, LeaseTyped, TrailSound, InjectAt, Closed
  <2> QED
    BY <2>1, <2>2, <2>3 DEF LeaseClosed
<1> QED
  BY <1>1, <1>2

-----------------------------------------------------------------------------
(* Runtime: runbook.                                                       *)

BookFields == {"pc", "dry", "params", "text", "steps", "i", "gated", "ran", "failed", "err"}
Lines(s) == {s[n] : n \in DOMAIN s}

BookTyped ==
    /\ DOMAIN book = BookFields /\ book.i \in Nat \ {0} /\ book.failed \in Nat
    /\ book.steps \in Seq(Lines(book.steps))
    /\ book.gated \in Seq(Lines(book.steps)) /\ book.ran \in Seq(Lines(book.steps))
    /\ shelf.steps \in Books

\* The steps that passed the gate and those that ran are the first of the file that
\* was read, as far as the runbook has come.
BookSound ==
    /\ task # "runbook" => book.pc = "idle"
    /\ book.pc \in {"idle", "lstat", "exec"} =>
         book.i = 1 /\ book.gated = << >> /\ book.ran = << >> /\ book.failed = 0
    /\ Len(book.ran) <= Len(book.gated) /\ Len(book.gated) <= Len(book.steps)
    /\ \A n \in 1..Len(book.gated) : book.gated[n] = book.steps[n]
    /\ \A n \in 1..Len(book.ran) : book.ran[n] = book.steps[n]
    /\ book.dry => book.gated = << >> /\ book.ran = << >> /\ book.pc # "run"
    /\ book.pc = "step" /\ ~book.dry => Len(book.ran) = book.i - 1 /\ Len(book.gated) = book.i - 1
    /\ book.pc = "run" => Len(book.ran) = book.i - 1 /\ Len(book.gated) = book.i
    /\ book.failed # 0 => book.pc = "done" /\ Len(book.gated) = book.failed
    /\ book.pc = "done" /\ ~book.err /\ ~book.dry => Len(book.ran) = Len(book.steps)

\* Nothing is replaced before the file is read, and only parameters that may be declared
\* are given.
BookReplaced ==
    /\ InterpolatedOnce
    /\ book.pc \in {"idle", "lstat", "exec"} => book.text = << >> /\ DOMAIN book.params \subseteq BookParams

BookOrder == BookTyped /\ BookSound
BookInv == BookOrder /\ BookReplaced

LEMMA OrderStart == RuntimeInit => BookOrder
<1> SUFFICES ASSUME RuntimeInit PROVE BookOrder
  OBVIOUS
<1>1. /\ DOMAIN book = BookFields /\ book.i = 1 /\ book.failed = 0 /\ book.steps = << >>
      /\ book.gated = << >> /\ book.ran = << >> /\ book.pc = "idle" /\ shelf.steps \in Books
  BY DEF RuntimeInit, BookFields
<1>2. BookTyped
  BY <1>1 DEF BookTyped
<1>3. BookSound
  BY <1>1 DEF BookSound
<1> QED
  BY <1>2, <1>3 DEF BookOrder

\* A set of naturals has a least element.
LEMMA LeastNatural ==
  ASSUME NEW T, T \subseteq Nat, T # {}
  PROVE  \E m \in T : \A n \in T : m <= n
<1> DEFINE R == {ss \in Nat \X Nat : ss[1] < ss[2]}
<1>1. IsWellFoundedOn(R, Nat)
  BY NatLessThanWellFounded DEF OpToRel
<1>2. \E m \in T : \A n \in T : ~ (<<n, m>> \in R)
  <2> HIDE DEF R
  <2> QED
    BY <1>1, WFMin
<1>3. \A m, n \in Nat : n < m => <<n, m>> \in R
  OBVIOUS
<1> HIDE DEF R
<1>4. \A m, n \in T : ~ (<<n, m>> \in R) => m <= n
  BY <1>3
<1> QED
  BY <1>2, <1>4

\* Induction up to N, over the set of the numbers for which it holds.
LEMMA UpTo ==
  ASSUME NEW N \in Nat, NEW Q, 0 \in Q, \A n \in 1..N : n - 1 \in Q => n \in Q
  PROVE  0..N \subseteq Q
<1> DEFINE T == (0..N) \ Q
<1> SUFFICES ASSUME T # {} PROVE FALSE
  OBVIOUS
<1>0. T \subseteq Nat
  OBVIOUS
<1>1. PICK m \in T : \A n \in T : m <= n
  <2> HIDE DEF T
  <2> QED
    BY <1>0, LeastNatural
<1>2. m # 0 /\ m \in 1..N /\ m - 1 \in 0..N
  BY <1>1
<1>3. m - 1 \notin T
  BY <1>1, <1>2
<1> QED
  BY <1>1, <1>2, <1>3

\* A word of which each parameter is replaced in its turn, by "v".
LEMMA WordReplaced ==
  ASSUME NEW word \in Seq(STRING), NEW params, NEW S, NEW order \in Seq(S),
         \A k \in 1..Len(order) : params[order[k]] = "v"
  PROVE  Interpolated(word, params, order)
           = [n \in DOMAIN word |-> IF \E m \in 1..Len(order) : order[m] = word[n] THEN "v" ELSE word[n]]
<1> DEFINE N == Len(order)
           W(k) == [n \in DOMAIN word |-> IF \E m \in 1..k : order[m] = word[n] THEN "v" ELSE word[n]]
           w == [k \in 0..N |-> W(k)]
           Walk(a) == [k \in 0..N |-> IF k = 0 THEN word ELSE PutIn(a[k - 1], order[k], params[order[k]])]
<1>0. N \in Nat
  OBVIOUS
<1>1. W(0) = word
  OBVIOUS
<1>2. ASSUME NEW k \in 1..N PROVE W(k) = PutIn(W(k - 1), order[k], params[order[k]])
  <2>1. ASSUME NEW n \in DOMAIN word
        PROVE  W(k)[n] = IF W(k - 1)[n] = order[k] THEN "v" ELSE W(k - 1)[n]
    <3>1. \A m \in 1..k : m \in 1..(k - 1) \/ m = k
      BY <1>0
    <3>2. \A m \in 1..(k - 1) : m \in 1..k
      BY <1>0
    <3>3. k \in 1..k
      BY <1>0
    <3> QED
      BY <3>1, <3>2, <3>3
  <2> QED
    BY <2>1 DEF PutIn
<1>3. w = Walk(w)
  <2>1. \A k \in 1..N : k - 1 \in 0..N
    BY <1>0
  <2> HIDE DEF W
  <2>2. \A k \in 0..N : w[k] = IF k = 0 THEN word ELSE PutIn(w[k - 1], order[k], params[order[k]])
    BY <1>0, <1>1, <1>2, <2>1
  <2> QED
    BY <2>2
<1>4. \E a : a = Walk(a) /\ Interpolated(word, params, order) = a[N]
  <2> DEFINE c == CHOOSE a : a = Walk(a)
  <2>1. c = Walk(c)
    <3> HIDE DEF w, Walk
    <3> QED
      BY <1>3, Zenon
  <2>2. Interpolated(word, params, order) = c[N]
    BY Zenon DEF Interpolated
  <2> QED
    BY <2>1, <2>2, Zenon
<1>5. PICK a : a = Walk(a) /\ Interpolated(word, params, order) = a[N]
  BY <1>4, Zenon
<1>6. a[0] = w[0] /\ \A k \in 1..N : a[k - 1] = w[k - 1] => a[k] = w[k]
  <2> HIDE DEF w, W
  <2>1. \A k \in 0..N : a[k] = IF k = 0 THEN word ELSE PutIn(a[k - 1], order[k], params[order[k]])
    BY <1>5
  <2>2. \A k \in 0..N : w[k] = IF k = 0 THEN word ELSE PutIn(w[k - 1], order[k], params[order[k]])
    BY <1>3
  <2>3. 0 \in 0..N /\ \A k \in 1..N : k \in 0..N /\ k # 0
    BY <1>0
  <2> QED
    BY <2>1, <2>2, <2>3
<1>7. a[N] = w[N]
  <2> HIDE DEF w, N
  <2> DEFINE Q == {n \in 0..N : a[n] = w[n]}
  <2>1. 0 \in Q /\ \A n \in 1..N : n - 1 \in Q => n \in Q
    BY <1>0, <1>6
  <2>2. 0..N \subseteq Q
    <3> HIDE DEF Q
    <3> QED
      BY <1>0, <2>1, UpTo
  <2> QED
    BY <1>0, <2>2
<1> QED
  BY <1>0, <1>5, <1>7

\* An order in which a map of parameters is walked comes by each of them.
LEMMA OrderIsAll ==
  ASSUME NEW S, IsFiniteSet(S), NEW order \in Orders(S)
  PROVE  order \in Seq(S) /\ S = {order[m] : m \in 1..Len(order)}
<1>1. Cardinality(S) \in Nat
  BY FS_CardinalityType
<1>2. order \in [1..Cardinality(S) -> S] /\ order \in Injection(1..Cardinality(S), S)
  BY DEF Orders, Injection
<1>3. Cardinality(1..Cardinality(S)) = Cardinality(S)
  BY <1>1, FS_Interval
<1>4. order \in Surjection(1..Cardinality(S), S)
  BY <1>2, <1>3, FS_Injection
<1>5. order \in Seq(S) /\ Len(order) = Cardinality(S)
  BY <1>1, <1>2
<1> QED
  BY <1>2, <1>4, <1>5 DEF Surjection

\* Each placeholder of a file becomes its value, when all values are "v".
LEMMA FileReplaced ==
  ASSUME NEW steps \in Books, NEW params, IsFiniteSet(DOMAIN params),
         \A p \in DOMAIN params : params[p] = "v",
         NEW order \in [WordsOf(steps) -> Orders(DOMAIN params)]
  PROVE  interpolateRunbookSteps(steps, params, order)
           = [i \in DOMAIN steps |-> [j \in DOMAIN steps[i] |-> [n \in DOMAIN steps[i][j] |->
                IF steps[i][j][n] \in DOMAIN params THEN "v" ELSE steps[i][j][n]]]]
<1>1. steps \in Seq(Seq(Seq(STRING)))
  BY RuntimeAssumption
<1>2. ASSUME NEW i \in DOMAIN steps, NEW j \in DOMAIN steps[i]
      PROVE  Interpolated(steps[i][j], params, order[steps[i][j]])
               = [n \in DOMAIN steps[i][j] |->
                    IF steps[i][j][n] \in DOMAIN params THEN "v" ELSE steps[i][j][n]]
  <2>1. steps[i] \in Seq(Seq(STRING))
    BY <1>1
  <2>2. steps[i][j] \in Seq(STRING)
    BY <2>1
  <2>3. steps[i][j] \in WordsOf(steps)
    BY <1>2 DEF WordsOf, ToSet
  <2>4. PICK o : o = order[steps[i][j]]
    OBVIOUS
  <2>5. o \in Orders(DOMAIN params)
    BY <2>3, <2>4
  <2>d. PICK D : D = DOMAIN params
    OBVIOUS
  <2>e. IsFiniteSet(D) /\ o \in Orders(D)
    BY <2>5, <2>d
  <2>6. o \in Seq(D) /\ D = {o[m] : m \in 1..Len(o)}
    BY <2>e, OrderIsAll
  <2>7. \A k \in 1..Len(o) : params[o[k]] = "v"
    BY <2>6, <2>d
  <2>w. PICK word : word = steps[i][j]
    OBVIOUS
  <2>v. word \in Seq(STRING)
    BY <2>2, <2>w
  <2>u. Interpolated(word, params, o)
          = [n \in DOMAIN word |-> IF \E m \in 1..Len(o) : o[m] = word[n] THEN "v" ELSE word[n]]
    BY <2>v, <2>6, <2>7, WordReplaced, SMTT(20)
  <2>8. Interpolated(steps[i][j], params, o)
          = [n \in DOMAIN steps[i][j] |->
               IF \E m \in 1..Len(o) : o[m] = steps[i][j][n] THEN "v" ELSE steps[i][j][n]]
    BY <2>u, <2>w, Zenon
  <2>9. \A n \in DOMAIN steps[i][j] :
          (\E m \in 1..Len(o) : o[m] = steps[i][j][n]) <=> steps[i][j][n] \in DOMAIN params
    BY <2>6, <2>d
  <2> QED
    BY <2>4, <2>8, <2>9
<1> QED
  BY <1>2, Zenon DEF interpolateRunbookSteps

\* What the file becomes is a sequence of as many steps.
LEMMA StepsAreSequences ==
  ASSUME NEW steps \in Books, NEW params, NEW order
  PROVE  LET s == interpolateRunbookSteps(steps, params, order) IN s \in Seq(Lines(s))
<1> DEFINE s == interpolateRunbookSteps(steps, params, order)
<1>1. steps \in Seq(Seq(Seq(STRING)))
  BY RuntimeAssumption
<1>2. DOMAIN steps = 1..Len(steps) /\ Len(steps) \in Nat
  BY <1>1
<1>3. DOMAIN s = DOMAIN steps /\ s = [i \in DOMAIN s |-> s[i]]
  BY Zenon DEF interpolateRunbookSteps
<1> HIDE DEF s
<1>4. s \in [1..Len(steps) -> Lines(s)]
  BY <1>2, <1>3 DEF Lines
<1> QED
  BY <1>2, <1>4 DEF s

LEMMA OrderMoves ==
  ASSUME BookOrder,
         \/ (\E dry \in BOOLEAN, ps \in SUBSET BookParams : \E raw \in [ps -> ParamValues] : StartBook(dry, raw))
         \/ LstatBook \/ ExecBook \/ BookStep \/ BookRuns \/ EditBook
  PROVE  BookOrder'
<1>0. BookTyped /\ BookSound
  BY DEF BookOrder
<1>1. ASSUME NEW dry \in BOOLEAN, NEW raw, StartBook(dry, raw) PROVE BookOrder'
  BY <1>0, <1>1 DEF StartBook, BookOrder, BookTyped, BookSound, BookFields
<1>2. CASE LstatBook
  BY <1>0, <1>2, ZenonT(40) DEF LstatBook, BookEnds, BookOrder, BookTyped, BookSound, BookFields
<1>3. CASE ExecBook
  <2>1. CASE BookEnds(TRUE)
    BY <1>0, <1>3, <2>1 DEF ExecBook, BookEnds, BookOrder, BookTyped, BookSound, BookFields
  <2>2. ASSUME NEW params, NEW order,
               book' = [book EXCEPT !.pc = "step", !.text = shelf.steps, !.params = params,
                              !.steps = interpolateRunbookSteps(shelf.steps, params, order)]
        PROVE  BookOrder'
    <3> DEFINE s == interpolateRunbookSteps(shelf.steps, params, order)
    <3>1. s \in Seq(Lines(s))
      BY <1>0, StepsAreSequences DEF BookTyped
    <3>2. /\ DOMAIN book' = BookFields /\ book'.pc = "step" /\ book'.steps = s /\ book'.i = book.i
          /\ book'.failed = book.failed /\ book'.gated = book.gated /\ book'.ran = book.ran /\ book'.dry = book.dry
      BY <1>0, <2>2 DEF BookTyped, BookFields
    <3> HIDE DEF s
    <3>3. book.pc = "exec" /\ UNCHANGED <<task, shelf>>
      BY <1>3 DEF ExecBook
    <3>4. BookTyped'
      BY <1>0, <3>1, <3>2, <3>3 DEF BookTyped, BookSound
    <3>5. BookSound'
      BY <1>0, <3>1, <3>2, <3>3 DEF BookTyped, BookSound
    <3> QED
      BY <3>4, <3>5 DEF BookOrder
  <2> QED
    BY <1>3, <2>1, <2>2 DEF ExecBook
<1>a. ASSUME book.i <= Len(book.steps), NEW t \in Seq(Lines(book.steps)), NEW u, u = Append(t, book.steps[book.i]),
             Len(t) = book.i - 1, \A n \in 1..Len(t) : t[n] = book.steps[n]
      PROVE  /\ u \in Seq(Lines(book.steps)) /\ Len(u) = book.i
             /\ \A n \in 1..Len(u) : u[n] = book.steps[n]
  <2>1. book.i \in 1..Len(book.steps) /\ book.steps[book.i] \in Lines(book.steps)
    BY <1>0, <1>a DEF BookTyped, Lines
  <2> QED
    BY <1>a, <2>1
<1>4. CASE BookStep
  <2>0. book.pc = "step" /\ UNCHANGED <<task, shelf>>
    BY <1>4 DEF BookStep
  <2>1. ASSUME NEW err \in BOOLEAN, BookEnds(err), err \/ book.i > Len(book.steps)
        PROVE  BookOrder'
    BY <1>0, <2>0, <2>1 DEF BookEnds, BookOrder, BookTyped, BookSound, BookFields
  <2>2. CASE book.dry /\ book' = [book EXCEPT !.i = @ + 1]
    BY <1>0, <2>0, <2>2 DEF BookOrder, BookTyped, BookSound, BookFields
  <2>3. CASE /\ ~book.dry /\ book.i <= Len(book.steps)
             /\ book' = [book EXCEPT !.pc = "run", !.gated = Append(@, book.steps[book.i])]
    <3> DEFINE u == Append(book.gated, book.steps[book.i])
    <3>1. /\ u \in Seq(Lines(book.steps)) /\ Len(u) = book.i
          /\ \A n \in 1..Len(u) : u[n] = book.steps[n]
      BY <1>0, <1>a, <2>0, <2>3 DEF BookTyped, BookSound
    <3>2. book' = [book EXCEPT !.pc = "run", !.gated = u]
      BY <2>3
    <3> HIDE DEF u
    <3>3. /\ DOMAIN book' = BookFields /\ book'.pc = "run" /\ book'.steps = book.steps /\ book'.i = book.i
          /\ book'.failed = book.failed /\ book'.gated = u /\ book'.ran = book.ran /\ book'.dry = book.dry
      BY <1>0, <3>2 DEF BookTyped, BookFields
    <3>4. BookTyped'
      BY <1>0, <2>0, <3>1, <3>3 DEF BookTyped
    <3> QED
      BY <1>0, <2>0, <2>3, <3>1, <3>3, <3>4 DEF BookTyped, BookSound, BookOrder
  <2>4. CASE ~Finished
    <3>1. \/ BookEnds(TRUE)
          \/ book' = IF book.dry THEN [book EXCEPT !.i = @ + 1]
                     ELSE [book EXCEPT !.pc = "run", !.gated = Append(@, book.steps[book.i])]
      BY <1>4, <2>4 DEF BookStep
    <3>2. CASE BookEnds(TRUE)
      BY <2>1, <3>2
    <3>3. CASE book.dry /\ book' = [book EXCEPT !.i = @ + 1]
      BY <2>2, <3>3
    <3>4. CASE ~book.dry /\ book' = [book EXCEPT !.pc = "run", !.gated = Append(@, book.steps[book.i])]
      <4>1. book.i <= Len(book.steps)
        BY <1>0, <2>4 DEF BookTyped, Finished
      <4> QED
        BY <2>3, <3>4, <4>1
    <3> QED
      BY <3>1, <3>2, <3>3, <3>4
  <2> QED
    BY <1>0, <1>4, <2>1, <2>4 DEF BookStep, Finished, BookTyped
<1>5. CASE BookRuns
  <2>0. book.pc = "run" /\ UNCHANGED <<task, shelf>> /\ ~book.dry /\ book.i <= Len(book.steps)
    BY <1>0, <1>5 DEF BookRuns, BookSound, BookTyped
  <2>1. PICK ok \in BOOLEAN :
          book' = [book EXCEPT !.ran = Append(@, book.steps[book.i]), !.i = @ + 1,
                               !.pc = IF ok THEN "step" ELSE "done", !.err = ~ok,
                               !.failed = IF ok THEN 0 ELSE book.i]
    BY <1>5 DEF BookRuns
  <2> DEFINE u == Append(book.ran, book.steps[book.i])
  <2>2. /\ u \in Seq(Lines(book.steps)) /\ Len(u) = book.i
        /\ \A n \in 1..Len(u) : u[n] = book.steps[n]
    BY <1>0, <1>a, <2>0 DEF BookTyped, BookSound
  <2>3. book' = [book EXCEPT !.ran = u, !.i = @ + 1, !.pc = IF ok THEN "step" ELSE "done", !.err = ~ok,
                             !.failed = IF ok THEN 0 ELSE book.i]
    BY <2>1
  <2> HIDE DEF u
  <2>4. /\ DOMAIN book' = BookFields /\ book'.steps = book.steps /\ book'.i = book.i + 1
        /\ book'.gated = book.gated /\ book'.ran = u /\ book'.dry = book.dry
    BY <1>0, <2>3 DEF BookTyped, BookFields
  <2>5. \/ book'.pc = "step" /\ book'.failed = 0
        \/ book'.pc = "done" /\ book'.err /\ book'.failed = book.i
    BY <1>0, <2>3 DEF BookTyped, BookFields
  <2>6. BookTyped'
    BY <1>0, <2>0, <2>2, <2>4, <2>5 DEF BookTyped
  <2> QED
    BY <1>0, <2>0, <2>2, <2>4, <2>5, <2>6, SMTT(20) DEF BookTyped, BookSound, BookOrder
<1>6. CASE EditBook
  BY <1>0, <1>6 DEF EditBook, BookOrder, BookTyped, BookSound
<1> QED
  BY <1>1, <1>2, <1>3, <1>4, <1>5, <1>6

LEMMA OrderFrame ==
  ASSUME BookOrder, UNCHANGED bookVars, task' = task \/ (task = "none" /\ task' # "runbook")
  PROVE  BookOrder'
BY DEF BookOrder, BookTyped, BookSound, bookVars

LEMMA OrderHolds == BookOrder => BookInOrder
<1> SUFFICES ASSUME BookOrder PROVE BookInOrder
  OBVIOUS
<1>0. BookTyped /\ BookSound
  BY DEF BookOrder
<1>1. ASSUME NEW S, NEW s \in Seq(S), NEW t \in Seq(S), Len(s) <= Len(t), \A n \in 1..Len(s) : s[n] = t[n]
      PROVE  IsPrefix(s, t)
  <2>1. SubSeq(s, 1, Len(s)) \in Seq(S) /\ SubSeq(t, 1, Len(s)) \in Seq(S)
    BY <1>1
  <2>2. Len(SubSeq(s, 1, Len(s))) = Len(s) /\ Len(SubSeq(t, 1, Len(s))) = Len(s)
    BY <1>1
  <2>3. \A n \in 1..Len(s) : SubSeq(s, 1, Len(s))[n] = s[n] /\ SubSeq(t, 1, Len(s))[n] = t[n]
    BY <1>1
  <2>4. SubSeq(s, 1, Len(s)) = SubSeq(t, 1, Len(s))
    BY <1>1, <2>1, <2>2, <2>3
  <2> QED
    BY <1>1, <2>4 DEF IsPrefix
<1>2. IsPrefix(book.ran, book.gated)
  <2>1. \A n \in 1..Len(book.ran) : book.ran[n] = book.gated[n]
    BY <1>0 DEF BookTyped, BookSound
  <2> QED
    BY <1>0, <1>1, <2>1 DEF BookTyped, BookSound
<1>3. IsPrefix(book.gated, book.steps)
  BY <1>0, <1>1 DEF BookTyped, BookSound
<1>4. Len(book.ran) = Len(book.steps) => book.ran = book.steps
  BY <1>0, SMTT(20) DEF BookTyped, BookSound
<1> QED
  BY <1>0, <1>2, <1>3, <1>4 DEF BookInOrder, BookSound

LEMMA BookStart == RuntimeInit => BookInv
<1>1. RuntimeInit => BookReplaced
  BY DEF RuntimeInit, BookReplaced, InterpolatedOnce
<1> QED
  BY <1>1, OrderStart DEF BookInv

\* The placeholders of a runbook are replaced once, when its file is read.
LEMMA ReplacedMoves ==
  ASSUME BookInv,
         \/ (\E dry \in BOOLEAN, ps \in SUBSET BookParams : \E raw \in [ps -> ParamValues] : StartBook(dry, raw))
         \/ LstatBook \/ ExecBook \/ BookStep \/ BookRuns \/ EditBook
  PROVE  BookReplaced'
<1>0. BookTyped /\ BookSound /\ BookReplaced /\ DOMAIN book = BookFields
  BY DEF BookInv, BookOrder, BookTyped
<1>1. ASSUME UNCHANGED <<book.text, book.params, book.steps>>, DOMAIN book' = BookFields,
             book'.pc \in {"idle", "lstat", "exec"} => book.pc \in {"idle", "lstat", "exec"}
      PROVE  BookReplaced'
  BY <1>0, <1>1 DEF BookReplaced, InterpolatedOnce
<1>2. ASSUME NEW dry \in BOOLEAN, NEW ps \in SUBSET BookParams, NEW raw \in [ps -> ParamValues],
             StartBook(dry, raw)
      PROVE  BookReplaced'
  <2>1. book.text = << >>
    BY <1>0, <1>2 DEF BookReplaced, BookSound, StartBook
  <2>2. book'.text = << >> /\ book'.params = raw
    BY <1>0, <1>2, <2>1 DEF StartBook, BookFields
  <2> QED
    BY <2>2 DEF BookReplaced, InterpolatedOnce
<1>3. CASE BookStep \/ BookRuns \/ EditBook
  BY <1>0, <1>1, <1>3 DEF BookStep, BookRuns, EditBook, BookEnds, BookFields
<1>4. CASE LstatBook
  BY <1>0, <1>1, <1>4 DEF LstatBook, BookEnds, BookFields
<1>5. CASE ExecBook
  <2>1. CASE BookEnds(TRUE)
    BY <1>0, <1>1, <1>5, <2>1 DEF ExecBook, BookEnds, BookFields
  <2>2. ASSUME NEW declared \in SUBSET BookParams, NEW required \in SUBSET declared,
               NEW defaults \in SUBSET declared, NEW params, params = Resolved(defaults, book.params),
               NEW order \in [WordsOf(shelf.steps) -> Orders(DOMAIN params)],
               book' = [book EXCEPT !.pc = "step", !.text = shelf.steps, !.params = params,
                              !.steps = interpolateRunbookSteps(shelf.steps, params, order)]
        PROVE  BookReplaced'
    <3>1. /\ book'.pc = "step" /\ book'.text = shelf.steps /\ book'.params = params
          /\ book'.steps = interpolateRunbookSteps(shelf.steps, params, order)
      BY <1>0, <2>2 DEF BookFields
    <3>2. IsFiniteSet(DOMAIN params)
      <4>1. DOMAIN params \subseteq BookParams
        BY <1>0, <1>5, <2>2 DEF ExecBook, BookReplaced, Resolved
      <4> QED
        BY <4>1, RuntimeAssumption, FS_Subset
    <3>3. shelf.steps \in Books
      BY <1>0 DEF BookTyped
    <3>4. (\A p \in DOMAIN params : params[p] = "v") =>
            book'.steps = [i \in DOMAIN shelf.steps |-> [j \in DOMAIN shelf.steps[i] |->
              [n \in DOMAIN shelf.steps[i][j] |->
                IF shelf.steps[i][j][n] \in DOMAIN params THEN "v" ELSE shelf.steps[i][j][n]]]]
      BY <2>2, <3>1, <3>2, <3>3, FileReplaced
    <3> QED
      BY <3>1, <3>4, Zenon DEF BookReplaced, InterpolatedOnce
  <2> QED
    BY <1>5, <2>1, <2>2 DEF ExecBook
<1> QED
  BY <1>2, <1>3, <1>4, <1>5

LEMMA BookMoves ==
  ASSUME BookInv,
         \/ (\E dry \in BOOLEAN, ps \in SUBSET BookParams : \E raw \in [ps -> ParamValues] : StartBook(dry, raw))
         \/ LstatBook \/ ExecBook \/ BookStep \/ BookRuns \/ EditBook
  PROVE  BookInv'
BY OrderMoves, ReplacedMoves DEF BookInv

LEMMA BookFrame ==
  ASSUME BookInv, UNCHANGED bookVars, task' = task \/ (task = "none" /\ task' # "runbook")
  PROVE  BookInv'
<1>1. BookReplaced'
  BY DEF BookInv, BookReplaced, InterpolatedOnce, bookVars
<1> QED
  BY <1>1, OrderFrame DEF BookInv

LEMMA BookHolds == BookInv => BookInOrder /\ InterpolatedOnce
  BY OrderHolds DEF BookInv, BookReplaced

-----------------------------------------------------------------------------
(* Runtime: par.                                                           *)

ParRange == 1..ParItems
FanFields == {"pc", "next", "canceled", "results", "runs", "told", "printed", "first"}
Busy == {"gate", "run", "left"}

FanTyped ==
    /\ DOMAIN fan = FanFields /\ fan.next \in 1..(ParItems + 1) /\ fan.first \in Nat
    /\ fan.pc \in {"idle", "feed", "wait", "done"}
    /\ fan.results \in [ParRange -> {"none", "ok", "err"}] /\ fan.runs \in [ParRange -> Nat]
    /\ crew \in [FanWorkers -> [pc : {"off", "idle", "end"} \cup Busy, item : 0..ParItems]]

\* A worker that is busy has an index of its own that the feeder gave out, and its item
\* has no result yet; it has run if the gate let it.
WorkerSound(w) ==
    crew[w].pc \in Busy =>
        /\ crew[w].item \in 1..(fan.next - 1) /\ fan.results[crew[w].item] = "none"
        /\ fan.runs[crew[w].item] = IF crew[w].pc = "gate" THEN 0 ELSE 1
        /\ \A v \in FanWorkers : v # w /\ crew[v].pc \in Busy => crew[v].item # crew[w].item

\* An item without a result is with a worker or was not given out; one that went well ran.
ItemSound(i) ==
    /\ fan.runs[i] <= 1
    /\ i >= fan.next => fan.runs[i] = 0 /\ fan.results[i] = "none"
    /\ i < fan.next /\ fan.results[i] = "none" => \E w \in FanWorkers : crew[w].pc \in Busy /\ crew[w].item = i
    /\ fan.results[i] = "ok" => fan.runs[i] = 1

ToldSound ==
    /\ task # "par" => fan.pc = "idle"
    /\ fan.pc = "idle" => \A w \in FanWorkers : crew[w].pc = "off"
    /\ fan.pc = "done" => \A w \in FanWorkers : crew[w].pc \in {"off", "end"}
    /\ fan.pc \in {"idle", "feed"} => fan.told = "none"
    /\ fan.pc = "wait" => fan.told \in {"none", "canceled"}
    /\ fan.pc = "wait" /\ fan.told = "none" => fan.next = ParItems + 1
    /\ fan.told = "ok" => \A i \in ParRange : fan.runs[i] = 1 /\ fan.printed[i] = "ok"
    /\ fan.first # 0 => fan.pc = "done" /\ \A i \in 1..(fan.first - 1) : fan.printed[i] = "ok"

FanInv == FanTyped /\ (\A w \in FanWorkers : WorkerSound(w)) /\ (\A i \in ParRange : ItemSound(i)) /\ ToldSound

LEMMA FanStart == RuntimeInit => FanInv
<1> SUFFICES ASSUME RuntimeInit PROVE FanInv
  OBVIOUS
<1>1. /\ DOMAIN fan = FanFields /\ fan.pc = "idle" /\ fan.next = 1 /\ fan.first = 0 /\ fan.told = "none"
      /\ fan.results = [i \in ParRange |-> "none"] /\ fan.runs = [i \in ParRange |-> 0] /\ task = "none"
      /\ crew = [w \in FanWorkers |-> [pc |-> "off", item |-> 0]]
  BY DEF RuntimeInit, FanFields, ParRange
<1>2. FanTyped
  BY <1>1, RuntimeAssumption DEF FanTyped, Busy
<1>3. ToldSound
  BY <1>1 DEF ToldSound
<1>4. \A w \in FanWorkers : WorkerSound(w)
  BY <1>1 DEF WorkerSound, Busy
<1>5. \A i \in ParRange : ItemSound(i)
  BY <1>1 DEF ItemSound, ParRange
<1> QED
  BY <1>2, <1>3, <1>4, <1>5 DEF FanInv

\* Nobody is busy and nothing was given out: only the feeder has moved.
LEMMA FeederMoves ==
  ASSUME FanInv, FanTyped', ToldSound',
         fan'.next = fan.next, fan'.results = fan.results, fan'.runs = fan.runs,
         \/ UNCHANGED crew
         \/ fan.pc = "idle" /\ fan.next = 1 /\ \A w \in FanWorkers : crew'[w].pc \notin Busy
  PROVE  FanInv'
<1>1. \A w \in FanWorkers : WorkerSound(w)'
  BY DEF FanInv, WorkerSound
<1>2. \A i \in ParRange : ItemSound(i)'
  BY DEF FanInv, ItemSound, FanTyped, ParRange
<1> QED
  BY <1>1, <1>2 DEF FanInv

LEMMA FeederStep ==
  ASSUME FanInv, StartPar(TRUE) \/ StartPar(FALSE) \/ CloseIndices \/ ParReturns \/ CancelPar
  PROVE  FanInv'
<1>0. FanTyped /\ ToldSound /\ (\A w \in FanWorkers : WorkerSound(w)) /\ (\A i \in ParRange : ItemSound(i))
  BY DEF FanInv
<1>1. CASE CloseIndices
  <2>1. FanTyped' /\ UNCHANGED crew /\ fan'.next = fan.next /\ fan'.results = fan.results /\ fan'.runs = fan.runs
    BY <1>0, <1>1 DEF CloseIndices, FanTyped, FanFields
  <2>2. ToldSound'
    <3>1. UNCHANGED <<task, crew>> /\ fan.pc = "feed"
      BY <1>1 DEF CloseIndices
    <3>2. CASE fan.next > ParItems /\ fan' = [fan EXCEPT !.pc = "wait"]
      BY <1>0, <3>1, <3>2, RuntimeAssumption DEF ToldSound, FanTyped, FanFields
    <3>3. CASE fan' = [fan EXCEPT !.pc = "wait", !.told = "canceled"]
      BY <1>0, <3>1, <3>3 DEF ToldSound, FanTyped, FanFields
    <3> QED
      BY <1>1, <3>2, <3>3 DEF CloseIndices
  <2> QED
    BY <2>1, <2>2, FeederMoves
<1>2. CASE CancelPar
  <2>1. FanTyped' /\ UNCHANGED crew /\ fan'.next = fan.next /\ fan'.results = fan.results /\ fan'.runs = fan.runs
    BY <1>0, <1>2 DEF CancelPar, FanTyped, FanFields
  <2>2. ToldSound'
    BY <1>0, <1>2 DEF CancelPar, ToldSound, FanTyped, FanFields, ParRange
  <2> QED
    BY <2>1, <2>2, FeederMoves
<1>3. CASE ParReturns
  <2>1. UNCHANGED <<task, crew>> /\ fan.pc = "wait" /\ \A w \in FanWorkers : crew[w].pc = "end"
    BY <1>3 DEF ParReturns
  <2> DEFINE said == IF fan.told = "canceled" THEN fan.told ELSE IF FanErrors = {} THEN "ok" ELSE "error"
             printed == IF fan.told = "canceled" THEN << >> ELSE [i \in 1..ParItems |-> fan.results[i]]
             first == IF fan.told = "canceled" \/ FanErrors = {} THEN 0 ELSE Min(FanErrors)
  <2>2. fan' = [fan EXCEPT !.pc = "done", !.told = said, !.printed = printed, !.first = first]
    BY <1>3 DEF ParReturns
  <2>3. FanErrors # {} => Min(FanErrors) \in FanErrors /\ \A i \in FanErrors : Min(FanErrors) <= i
    <3>1. FanErrors \subseteq Nat
      BY RuntimeAssumption DEF FanErrors
    <3> HIDE DEF FanErrors
    <3>2. FanErrors # {} => \E m \in FanErrors : \A i \in FanErrors : m <= i
      BY <3>1, LeastNatural
    <3> QED
      BY <3>2 DEF Min
  <2>4. first \in Nat /\ (first # 0 => \A i \in 1..(first - 1) : i \in ParRange /\ i \notin FanErrors)
    <3>1. CASE first = 0
      BY <3>1
    <3>2. CASE first # 0
      <4>1. first = Min(FanErrors) /\ first \in FanErrors /\ \A i \in FanErrors : first <= i
        BY <2>3, <3>2
      <4>2. first \in ParRange
        BY <4>1 DEF FanErrors, ParRange
      <4> HIDE DEF first
      <4> QED
        BY <4>1, <4>2, RuntimeAssumption DEF ParRange
    <3> QED
      BY <3>1, <3>2
  <2>5. fan.told # "canceled" => \A i \in ParRange : fan.results[i] # "none" 
    <3> SUFFICES ASSUME fan.told # "canceled", NEW i \in ParRange PROVE fan.results[i] # "none"
      OBVIOUS
    <3>1. fan.next = ParItems + 1
      BY <1>0, <2>1 DEF ToldSound
    <3>2. i < fan.next
      BY <3>1, RuntimeAssumption DEF ParRange
    <3> QED
      BY <1>0, <2>1, <3>2 DEF ItemSound, Busy
  <2>6. fan.told # "canceled" => \A i \in ParRange : printed[i] = fan.results[i]
    BY DEF ParRange
  <2>7. said = "ok" => fan.told # "canceled" /\ FanErrors = {}
    OBVIOUS
  <2>8. first # 0 => fan.told # "canceled"
    OBVIOUS
  <2> HIDE DEF said, printed, first
  <2>9. /\ DOMAIN fan' = FanFields /\ fan'.pc = "done" /\ fan'.told = said /\ fan'.printed = printed
        /\ fan'.first = first /\ fan'.next = fan.next /\ fan'.results = fan.results /\ fan'.runs = fan.runs
    BY <1>0, <2>2 DEF FanTyped, FanFields
  <2>10. FanTyped'
    BY <1>0, <2>1, <2>4, <2>9 DEF FanTyped
  <2>11. \A i \in ParRange : i \notin FanErrors /\ fan.told # "canceled" => printed[i] = "ok"
    BY <1>0, <2>5, <2>6 DEF FanErrors, ParRange, FanTyped
  <2>12. ToldSound'
    <3>1. said = "ok" => \A i \in ParRange : fan.runs[i] = 1 /\ printed[i] = "ok"
      BY <1>0, <2>6, <2>7, <2>11 DEF ItemSound
    <3>2. first # 0 => \A i \in 1..(first - 1) : printed[i] = "ok"
      BY <2>4, <2>8, <2>11
    <3>3. task = "par"
      BY <1>0, <2>1 DEF ToldSound
    <3> QED
      BY <2>1, <2>9, <3>1, <3>2, <3>3 DEF ToldSound
  <2> QED
    BY <2>1, <2>9, <2>10, <2>12, FeederMoves
<1>4. ASSUME NEW vbin \in BOOLEAN, StartPar(vbin) PROVE FanInv'
  <2>0. task = "none" /\ task' = "par" /\ fan.pc = "idle" /\ fan.first = 0 /\ fan.told = "none"
    BY <1>0, <1>4 DEF StartPar, ToldSound
  <2>1. CASE fan' = [fan EXCEPT !.pc = "done", !.told = "refused"] /\ UNCHANGED crew
    <3>1. FanTyped' /\ fan'.next = fan.next /\ fan'.results = fan.results /\ fan'.runs = fan.runs
      BY <1>0, <2>1 DEF FanTyped, FanFields
    <3>2. ToldSound'
      BY <1>0, <2>0, <2>1 DEF ToldSound, FanTyped, FanFields
    <3> QED
      BY <2>1, <3>1, <3>2, FeederMoves
  <2>2. CASE /\ fan' = [fan EXCEPT !.pc = "feed"]
             /\ crew' = [w \in FanWorkers |-> IF w <= ParItems THEN [pc |-> "idle", item |-> 0] ELSE [pc |-> "end", item |-> 0]]
    <3>0. fan'.next = fan.next /\ fan'.results = fan.results /\ fan'.runs = fan.runs
      BY <1>0, <2>2 DEF FanTyped, FanFields
    <3>1. FanTyped'
      BY <1>0, <2>2, RuntimeAssumption DEF FanTyped, FanFields
    <3>2. ToldSound'
      BY <1>0, <2>0, <2>2 DEF ToldSound, FanTyped, FanFields
    <3>3. \A w \in FanWorkers : crew'[w].pc \notin Busy
      BY <2>2 DEF Busy
    <3>4. \A i \in ParRange : ItemSound(i)'
      BY <1>0, <2>0, <3>0, <3>3 DEF ItemSound, ToldSound, Busy, ParRange, FanTyped
    <3>5. \A w \in FanWorkers : WorkerSound(w)'
      BY <3>3 DEF WorkerSound
    <3> QED
      BY <3>1, <3>2, <3>4, <3>5 DEF FanInv
  <2> QED
    BY <1>4, <2>1, <2>2 DEF StartPar
<1> QED
  BY <1>1, <1>2, <1>3, <1>4

\* Between the first index and the last result the feeder says nothing new.
LEMMA CrewToldSame ==
  ASSUME FanInv, fan.pc \in {"feed", "wait"}, UNCHANGED task,
         fan'.pc = fan.pc, fan'.told = fan.told, fan'.first = fan.first,
         fan.pc = "wait" => fan'.next = fan.next
  PROVE  ToldSound'
BY DEF FanInv, ToldSound

\* A busy worker is not done, so par has not returned.
LEMMA BusyIsUnderWay ==
  ASSUME FanInv, NEW w \in FanWorkers, crew[w].pc \in Busy \cup {"idle"}
  PROVE  fan.pc \in {"feed", "wait"}
BY DEF FanInv, FanTyped, ToldSound, Busy

\* The result of a worker's item, which went well only if it ran.
LEMMA ResultStep ==
  ASSUME FanInv, NEW w \in FanWorkers, crew[w].pc \in Busy, NEW r \in {"ok", "err"},
         r = "ok" => crew[w].pc = "run", FanResult(w, r), UNCHANGED task
  PROVE  FanInv'
<1>0. FanTyped /\ ToldSound /\ (\A v \in FanWorkers : WorkerSound(v)) /\ (\A i \in ParRange : ItemSound(i))
  BY DEF FanInv
<1> DEFINE k == crew[w].item
<1>1. /\ k \in 1..(fan.next - 1) /\ k \in ParRange /\ fan.results[k] = "none"
      /\ fan.runs[k] = IF crew[w].pc = "gate" THEN 0 ELSE 1
      /\ \A v \in FanWorkers : v # w /\ crew[v].pc \in Busy => crew[v].item # k
  BY <1>0, RuntimeAssumption DEF WorkerSound, FanTyped, ParRange
<1>2. /\ fan' = [fan EXCEPT !.results[k] = r]
      /\ crew' = [crew EXCEPT ![w].pc = "idle"]
  BY DEF FanResult
<1> HIDE DEF k
<1>3. /\ DOMAIN fan' = FanFields /\ fan'.pc = fan.pc /\ fan'.next = fan.next /\ fan'.runs = fan.runs
      /\ fan'.told = fan.told /\ fan'.first = fan.first
      /\ fan'.results \in [ParRange -> {"none", "ok", "err"}]
      /\ fan'.results[k] = r /\ \A i \in ParRange : i # k => fan'.results[i] = fan.results[i]
  BY <1>0, <1>1, <1>2 DEF FanTyped, FanFields
<1>4. /\ crew' \in [FanWorkers -> [pc : {"off", "idle", "end"} \cup Busy, item : 0..ParItems]]
      /\ crew'[w].pc = "idle" /\ \A v \in FanWorkers : v # w => crew'[v] = crew[v]
  BY <1>0, <1>2 DEF FanTyped
<1>5. FanTyped'
  BY <1>0, <1>3, <1>4 DEF FanTyped
<1>6. ToldSound'
  BY <1>3, BusyIsUnderWay, CrewToldSame
<1>7. \A v \in FanWorkers : WorkerSound(v)'
  <2> SUFFICES ASSUME NEW v \in FanWorkers, crew'[v].pc \in Busy PROVE WorkerSound(v)'
    BY DEF WorkerSound
  <2>1. v # w /\ crew'[v] = crew[v] /\ crew[v].item # k
    BY <1>1, <1>4 DEF Busy
  <2>2. crew[v].item \in ParRange /\ WorkerSound(v) /\ crew[v].pc \in Busy
    BY <1>0, <2>1, RuntimeAssumption DEF WorkerSound, FanTyped, ParRange
  <2>3. \A u \in FanWorkers : u # v /\ crew'[u].pc \in Busy => crew'[u].item # crew'[v].item
    BY <1>4, <2>1, <2>2 DEF WorkerSound, Busy
  <2> QED
    BY <1>3, <2>1, <2>2, <2>3 DEF WorkerSound
<1>8. \A i \in ParRange : ItemSound(i)'
  <2> SUFFICES ASSUME NEW i \in ParRange PROVE ItemSound(i)'
    OBVIOUS
  <2>1. CASE i = k
    BY <1>0, <1>1, <1>3, <2>1 DEF ItemSound, FanTyped, Busy
  <2>2. CASE i # k
    <3>1. i < fan.next /\ fan.results[i] = "none" => \E v \in FanWorkers : crew'[v].pc \in Busy /\ crew'[v].item = i
      BY <1>0, <1>4, <2>2 DEF ItemSound, k
    <3> QED
      BY <1>0, <1>3, <2>2, <3>1 DEF ItemSound
  <2> QED
    BY <2>1, <2>2
<1> QED
  BY <1>5, <1>6, <1>7, <1>8 DEF FanInv

LEMMA WorkerStep ==
  ASSUME FanInv, NEW w \in FanWorkers,
         FeedIndex(w) \/ WorkerGate(w) \/ WorkerChild(w) \/ WorkerKilled(w) \/ WorkerLeaves(w)
  PROVE  FanInv'
<1>0. FanTyped /\ ToldSound /\ (\A v \in FanWorkers : WorkerSound(v)) /\ (\A i \in ParRange : ItemSound(i))
  BY DEF FanInv
<1>a. UNCHANGED task
  BY DEF FeedIndex, WorkerGate, WorkerChild, WorkerKilled, WorkerLeaves
\* A worker that stays with its item, or stays idle.
<1>b. ASSUME NEW pc \in {"off", "idle", "end"} \cup Busy, crew' = [crew EXCEPT ![w].pc = pc], UNCHANGED fan,
             pc \in Busy <=> crew[w].pc \in Busy, pc = "gate" <=> crew[w].pc = "gate", crew[w].pc \in Busy \cup {"idle"}
      PROVE  FanInv'
  <2>1. /\ crew' \in [FanWorkers -> [pc : {"off", "idle", "end"} \cup Busy, item : 0..ParItems]]
        /\ crew'[w].pc = pc /\ crew'[w].item = crew[w].item /\ \A v \in FanWorkers : v # w => crew'[v] = crew[v]
    BY <1>0, <1>b DEF FanTyped
  <2>2. FanTyped'
    BY <1>0, <1>b, <2>1 DEF FanTyped
  <2>3. ToldSound'
    BY <1>a, <1>b, BusyIsUnderWay, CrewToldSame
  <2>4. \A v \in FanWorkers : WorkerSound(v)'
    BY <1>0, <1>b, <2>1 DEF WorkerSound
  <2>5. \A i \in ParRange : ItemSound(i)'
    BY <1>0, <1>b, <2>1 DEF ItemSound
  <2> QED
    BY <2>2, <2>3, <2>4, <2>5 DEF FanInv
<1>1. CASE FeedIndex(w)
  <2>0. /\ fan.pc = "feed" /\ fan.next <= ParItems /\ crew[w].pc = "idle" /\ fan.next \in ParRange
        /\ fan' = [fan EXCEPT !.next = @ + 1]
        /\ crew' = [crew EXCEPT ![w] = [pc |-> "gate", item |-> fan.next]]
    BY <1>0, <1>1, RuntimeAssumption DEF FeedIndex, FanTyped, ParRange
  <2>1. /\ DOMAIN fan' = FanFields /\ fan'.pc = "feed" /\ fan'.next = fan.next + 1 /\ fan'.runs = fan.runs
        /\ fan'.told = fan.told /\ fan'.first = fan.first /\ fan'.results = fan.results
    BY <1>0, <2>0 DEF FanTyped, FanFields
  <2>2. /\ crew' \in [FanWorkers -> [pc : {"off", "idle", "end"} \cup Busy, item : 0..ParItems]]
        /\ crew'[w].pc = "gate" /\ crew'[w].item = fan.next /\ \A v \in FanWorkers : v # w => crew'[v] = crew[v]
    BY <1>0, <2>0 DEF FanTyped, Busy, ParRange
  <2>3. FanTyped'
    BY <1>0, <2>0, <2>1, <2>2, RuntimeAssumption DEF FanTyped, ParRange
  <2>4. ToldSound'
    BY <1>a, <2>0, <2>1, CrewToldSame
  <2>5. \A v \in FanWorkers : WorkerSound(v)'
    <3> SUFFICES ASSUME NEW v \in FanWorkers, crew'[v].pc \in Busy PROVE WorkerSound(v)'
      BY DEF WorkerSound
    <3>0. fan.runs[fan.next] = 0 /\ fan.results[fan.next] = "none"
      BY <1>0, <2>0, RuntimeAssumption DEF ItemSound, FanTyped, ParRange
    <3>1. \A u \in FanWorkers : u # w /\ crew'[u].pc \in Busy => crew'[u].item \in 1..(fan.next - 1) /\ WorkerSound(u)
      BY <1>0, <2>2 DEF WorkerSound
    <3>2. CASE v = w
      BY <1>0, <2>0, <2>1, <2>2, <3>0, <3>1, <3>2, RuntimeAssumption DEF WorkerSound, FanTyped, ParRange
    <3>3. CASE v # w
      <4>1. crew'[v] = crew[v] /\ crew[v].pc \in Busy /\ WorkerSound(v) /\ crew[v].item \in 1..(fan.next - 1)
        BY <2>2, <3>1, <3>3
      <4>2. \A u \in FanWorkers : u # v /\ crew'[u].pc \in Busy => crew'[u].item # crew'[v].item
        BY <2>0, <2>2, <3>1, <3>3, <4>1 DEF WorkerSound, ParRange
      <4> QED
        BY <1>0, <2>1, <4>1, <4>2, RuntimeAssumption DEF WorkerSound, FanTyped
    <3> QED
      BY <3>2, <3>3
  <2>6. \A i \in ParRange : ItemSound(i)'
    <3> SUFFICES ASSUME NEW i \in ParRange PROVE ItemSound(i)'
      OBVIOUS
    <3>1. CASE i = fan.next
      BY <1>0, <2>0, <2>1, <2>2, <3>1, RuntimeAssumption DEF ItemSound, ParRange, Busy
    <3>2. CASE i # fan.next
      <4>1. \A u \in FanWorkers : crew[u].pc \in Busy => crew'[u] = crew[u]
        BY <2>0, <2>2 DEF Busy
      <4> QED
        BY <1>0, <2>0, <2>1, <3>2, <4>1, RuntimeAssumption DEF ItemSound, ParRange
    <3> QED
      BY <3>1, <3>2
  <2> QED
    BY <2>3, <2>4, <2>5, <2>6 DEF FanInv
<1>2. CASE WorkerGate(w)
  <2>0. crew[w].pc = "gate" /\ crew[w].pc \in Busy
    BY <1>2 DEF WorkerGate, Busy
  <2>1. CASE FanResult(w, "err")
    BY <1>a, <2>0, <2>1, ResultStep
  <2>2. CASE /\ crew' = [crew EXCEPT ![w].pc = "run"]
             /\ fan' = [fan EXCEPT !.runs[crew[w].item] = @ + 1]
    <3> DEFINE k == crew[w].item
    <3>1. k \in 1..(fan.next - 1) /\ k \in ParRange /\ fan.results[k] = "none" /\ fan.runs[k] = 0
      BY <1>0, <2>0, RuntimeAssumption DEF WorkerSound, FanTyped, ParRange
    <3>2. /\ DOMAIN fan' = FanFields /\ fan'.pc = fan.pc /\ fan'.next = fan.next /\ fan'.results = fan.results
          /\ fan'.told = fan.told /\ fan'.first = fan.first /\ fan'.runs \in [ParRange -> Nat]
          /\ fan'.runs[k] = 1 /\ \A i \in ParRange : i # k => fan'.runs[i] = fan.runs[i]
      BY <1>0, <2>2, <3>1 DEF FanTyped, FanFields
    <3>3. /\ crew' \in [FanWorkers -> [pc : {"off", "idle", "end"} \cup Busy, item : 0..ParItems]]
          /\ crew'[w].pc = "run" /\ crew'[w].item = k /\ \A v \in FanWorkers : v # w => crew'[v] = crew[v]
      BY <1>0, <2>2 DEF FanTyped, Busy
    <3> HIDE DEF k
    <3>4. FanTyped'
      BY <1>0, <3>2, <3>3 DEF FanTyped
    <3>5. ToldSound'
      BY <1>a, <2>0, <3>2, BusyIsUnderWay, CrewToldSame
    <3>6. \A v \in FanWorkers : WorkerSound(v)'
      <4> SUFFICES ASSUME NEW v \in FanWorkers, crew'[v].pc \in Busy PROVE WorkerSound(v)'
        BY DEF WorkerSound
      <4>0. WorkerSound(w) /\ WorkerSound(v) /\ k = crew[w].item
        BY <1>0 DEF k
      <4>1. CASE v = w
        BY <2>0, <3>1, <3>2, <3>3, <4>0, <4>1 DEF WorkerSound
      <4>2. CASE v # w
        <5>1. crew'[v] = crew[v] /\ crew[v].pc \in Busy /\ crew[v].item # k /\ crew[v].item \in ParRange
          BY <1>0, <2>0, <3>3, <4>0, <4>2, RuntimeAssumption DEF WorkerSound, FanTyped, ParRange
        <5>2. \A u \in FanWorkers : u # v /\ crew'[u].pc \in Busy => crew'[u].item # crew'[v].item
          BY <3>3, <4>0, <4>2, <5>1 DEF WorkerSound
        <5> QED
          BY <3>2, <4>0, <5>1, <5>2 DEF WorkerSound
      <4> QED
        BY <4>1, <4>2
    <3>7. \A i \in ParRange : ItemSound(i)'
      <4> SUFFICES ASSUME NEW i \in ParRange PROVE ItemSound(i)'
        OBVIOUS
      <4>1. CASE i = k
        BY <1>0, <3>1, <3>2, <3>3, <4>1 DEF ItemSound, Busy, FanTyped
      <4>2. CASE i # k
        <5>1. i < fan.next /\ fan.results[i] = "none" => \E v \in FanWorkers : crew'[v].pc \in Busy /\ crew'[v].item = i
          BY <1>0, <3>3, <4>2 DEF ItemSound, k
        <5> QED
          BY <1>0, <3>2, <4>2, <5>1 DEF ItemSound
      <4> QED
        BY <4>1, <4>2
    <3> QED
      BY <3>4, <3>5, <3>6, <3>7 DEF FanInv
  <2> QED
    BY <1>2, <2>1, <2>2 DEF WorkerGate
<1>3. CASE WorkerChild(w)
  BY <1>3, <1>a, ResultStep DEF WorkerChild, Busy
<1>4. CASE WorkerKilled(w)
  <2>1. crew[w].pc = "run" /\ crew[w].pc \in Busy
    BY <1>4 DEF WorkerKilled, Busy
  <2>2. CASE FanResult(w, "err")
    BY <1>a, <2>1, <2>2, ResultStep
  <2>3. CASE crew' = [crew EXCEPT ![w].pc = "left"] /\ UNCHANGED fan
    BY <1>b, <2>1, <2>3 DEF Busy
  <2> QED
    BY <1>4, <2>2, <2>3 DEF WorkerKilled
<1>5. CASE WorkerLeaves(w)
  BY <1>b, <1>5 DEF WorkerLeaves, Busy
<1> QED
  BY <1>1, <1>2, <1>3, <1>4, <1>5

LEMMA FanFrame ==
  ASSUME FanInv, UNCHANGED fanVars, task' = task \/ (task = "none" /\ task' # "par")
  PROVE  FanInv'
BY DEF FanInv, FanTyped, ToldSound, WorkerSound, ItemSound, fanVars

LEMMA FanHolds == FanInv => FanExact
BY DEF FanInv, FanExact, ToldSound, ItemSound, ParRange

-----------------------------------------------------------------------------
(* Runtime: the three commands together. One runs at a time, and a step of  *)
(* one leaves the state of the others alone.                                *)

RuntimeInv == LeaseInv /\ BookInv /\ FanInv

LEMMA RuntimeStep == RuntimeInv /\ [RuntimeNext]_runtimeVars => RuntimeInv'
<1> SUFFICES ASSUME RuntimeInv, [RuntimeNext]_runtimeVars PROVE RuntimeInv'
  OBVIOUS
<1>0. LeaseInv /\ BookInv /\ FanInv
  BY DEF RuntimeInv
<1>1. ASSUME \/ LogLeaseRequest \/ AuthorizeLease \/ LstatSecret \/ OpenSecret \/ FstatSecret
             \/ loadLeaseSecret \/ LogLeaseGrant
      PROVE  RuntimeInv'
  <2>1. LeaseInv'
    BY <1>0, <1>1, LookStep
  <2>2. UNCHANGED bookVars /\ UNCHANGED fanVars /\ task' = task
    BY <1>1 DEF LogLeaseRequest, AuthorizeLease, LstatSecret, OpenSecret, FstatSecret, loadLeaseSecret,
                LogLeaseGrant
  <2> QED
    BY <1>0, <2>1, <2>2, BookFrame, FanFrame DEF RuntimeInv
<1>2. ASSUME \/ FeedSecret \/ FeederEnds \/ LeasedReads \/ LeaseDeadline \/ LeftEnd \/ ChangeKeyFile
             \/ (\E dest \in {"SRC", "DST"} : StartLeased(dest))
             \/ LeasedExits(0) \/ LeasedExits(1) \/ KillLate \/ LeasedReturns \/ JudgeLease \/ LogLeaseRevoke
      PROVE  RuntimeInv'
  <2>1. LeaseInv'
    BY <1>0, <1>2, ChildStep
  <2>2. UNCHANGED bookVars /\ UNCHANGED fanVars /\ task' = task
    BY <1>2 DEF FeedSecret, FeederEnds, LeasedReads, LeaseDeadline, LeftEnd, ChangeKeyFile, StartLeased,
                LeasedExits, KillLate, LeasedReturns, JudgeLease, LogLeaseRevoke
  <2> QED
    BY <1>0, <2>1, <2>2, BookFrame, FanFrame DEF RuntimeInv
<1>3. ASSUME NEW via \in {"env", "stdin", "fd"}, NEW kind \in {"env", "file", "vault"}, StartLease(via, kind)
      PROVE  RuntimeInv'
  <2>1. LeaseInv'
    BY <1>0, <1>3, ChildStep
  <2>2. UNCHANGED bookVars /\ UNCHANGED fanVars /\ task = "none" /\ task' = "lease"
    BY <1>3 DEF StartLease
  <2> QED
    BY <1>0, <2>1, <2>2, BookFrame, FanFrame DEF RuntimeInv
<1>4. ASSUME LstatBook \/ ExecBook \/ BookStep \/ BookRuns \/ EditBook PROVE RuntimeInv'
  <2>1. BookInv'
    BY <1>0, <1>4, BookMoves
  <2>2. UNCHANGED leaseCmdVars /\ UNCHANGED fanVars /\ task' = task
    BY <1>4 DEF LstatBook, ExecBook, BookStep, BookRuns, EditBook
  <2> QED
    BY <1>0, <2>1, <2>2, LeaseFrame, FanFrame DEF RuntimeInv
<1>5. ASSUME NEW dry \in BOOLEAN, NEW ps \in SUBSET BookParams, NEW raw \in [ps -> ParamValues],
             StartBook(dry, raw)
      PROVE  RuntimeInv'
  <2>1. BookInv'
    BY <1>0, <1>5, BookMoves, Zenon
  <2>2. UNCHANGED leaseCmdVars /\ UNCHANGED fanVars /\ task = "none" /\ task' = "runbook"
    BY <1>5 DEF StartBook
  <2> QED
    BY <1>0, <2>1, <2>2, LeaseFrame, FanFrame DEF RuntimeInv
<1>6. ASSUME CloseIndices \/ ParReturns \/ CancelPar PROVE RuntimeInv'
  <2>1. FanInv'
    BY <1>0, <1>6, FeederStep
  <2>2. UNCHANGED leaseCmdVars /\ UNCHANGED bookVars /\ task' = task
    BY <1>6 DEF CloseIndices, ParReturns, CancelPar
  <2> QED
    BY <1>0, <2>1, <2>2, LeaseFrame, BookFrame DEF RuntimeInv
<1>7. ASSUME NEW vbin \in BOOLEAN, StartPar(vbin) PROVE RuntimeInv'
  <2>1. FanInv'
    BY <1>0, <1>7, FeederStep
  <2>2. UNCHANGED leaseCmdVars /\ UNCHANGED bookVars /\ task = "none" /\ task' = "par"
    BY <1>7 DEF StartPar
  <2> QED
    BY <1>0, <2>1, <2>2, LeaseFrame, BookFrame DEF RuntimeInv
<1>8. ASSUME NEW w \in FanWorkers,
             FeedIndex(w) \/ WorkerGate(w) \/ WorkerChild(w) \/ WorkerKilled(w) \/ WorkerLeaves(w)
      PROVE  RuntimeInv'
  <2>1. FanInv'
    BY <1>0, <1>8, WorkerStep
  <2>2. UNCHANGED leaseCmdVars /\ UNCHANGED bookVars /\ task' = task
    BY <1>8 DEF FeedIndex, WorkerGate, WorkerChild, WorkerKilled, WorkerLeaves
  <2> QED
    BY <1>0, <2>1, <2>2, LeaseFrame, BookFrame DEF RuntimeInv
<1>9. CASE UNCHANGED runtimeVars
  <2>1. UNCHANGED leaseCmdVars /\ UNCHANGED bookVars /\ UNCHANGED fanVars /\ task' = task
    BY <1>9 DEF runtimeVars, leaseCmdVars, bookVars, fanVars
  <2> QED
    BY <1>0, <2>1, LeaseFrame, BookFrame, FanFrame DEF RuntimeInv
<1>a. CASE LeaseStep
  BY <1>1, <1>2, <1>a DEF LeaseStep
<1>b. CASE ParStep
  BY <1>6, <1>8, <1>b DEF ParStep
<1> QED
  <2>1. CASE LeaseStep \/ ParStep \/ UNCHANGED runtimeVars
    BY <1>a, <1>b, <1>9, <2>1
  <2>2. CASE \/ FeedSecret \/ LeasedReads \/ LeasedExits(0) \/ LeasedExits(1) \/ LeftEnd \/ LeaseDeadline
             \/ ChangeKeyFile \/ LstatBook \/ ExecBook \/ BookStep \/ BookRuns \/ EditBook \/ CancelPar
    BY <1>2, <1>4, <1>6, <2>2
  <2>3. CASE StartPar(TRUE) \/ StartPar(FALSE) \/ \E w \in FanWorkers : WorkerChild(w)
    BY <1>7, <1>8, <2>3
  <2>4. CASE \E via \in {"env", "stdin", "fd"}, kind \in {"env", "file", "vault"} : StartLease(via, kind)
    BY <1>3, <2>4
  <2>5. CASE \E dry \in BOOLEAN, ps \in SUBSET BookParams : \E raw \in [ps -> ParamValues] : StartBook(dry, raw)
    BY <1>5, <2>5, Zenon
  <2> QED
    BY <2>1, <2>2, <2>3, <2>4, <2>5, Zenon DEF RuntimeNext

\* A secret is delivered on record, from the file that was looked at and under the name
\* that was asked for, and its lease is closed; the steps of a runbook run in their order,
\* each after its gate, with each placeholder replaced; par runs each item once and says ok
\* only when all went well: for every length of secret, pipe and runbook and every number
\* of items and workers.
THEOREM CommandsKeepTheirOrder == RuntimeSpec => []RuntimeSafety
<1>1. RuntimeInit => RuntimeInv
  BY LeaseStart, BookStart, FanStart DEF RuntimeInv
<1>2. RuntimeInv /\ [RuntimeNext]_runtimeVars => RuntimeInv'
  BY RuntimeStep
<1>3. RuntimeInv => RuntimeSafety
  BY LeaseHolds, BookHolds, FanHolds DEF RuntimeInv, RuntimeSafety
<1> QED
  BY <1>1, <1>2, <1>3, PTL DEF RuntimeSpec

-----------------------------------------------------------------------------
(* Dispatch and the commands that run commands, together.                  *)

\* Whatever runs in the background, is damaged, edited, canceled or killed meanwhile: a
\* command that is dispatched is the one that was authorized, and what it runs in turn
\* keeps its secret, its order and its count.
THEOREM CommandsStayTheirOwn == LedgerSpec => []CommandsKept
<1>1. LedgerInit => DispatchInit /\ RuntimeInit
  BY DEF LedgerInit
<1>2. [LedgerNext]_ledgerVars => [DispatchNext]_dispatchVars /\ [RuntimeNext]_runtimeVars
  BY Zenon DEF LedgerNext, ledgerVars
<1>3. LedgerSpec => DispatchSpec /\ RuntimeSpec
  BY <1>1, <1>2, PTL DEF LedgerSpec, DispatchSpec, RuntimeSpec
<1>4. DispatchSafety /\ RuntimeSafety <=> CommandsKept
  BY DEF CommandsKept
<1> QED
  BY <1>3, <1>4, CommandsAreDispatched, CommandsKeepTheirOrder, PTL
=============================================================================
