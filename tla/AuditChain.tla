----------------------------- MODULE AuditChain -----------------------------
(***************************************************************************)
(* The HMAC-chained audit ledger (security/audit_chain.go) and the flat    *)
(* log written before it (security/audit.go).  Cooperating processes share *)
(* one ledger path and one key file; the only thing that orders them is an *)
(* flock on the ledger's inode.                                            *)
(*                                                                         *)
(* The HMAC is a free constructor: two digests are equal only if the key,  *)
(* the previous digest and the entry are.  A ledger is the sequence of     *)
(* writes made to an inode; nl tells whether a write got as far as its     *)
(* newline, since a write without one shares its line with the next.       *)
(***************************************************************************)
EXTENDS Integers, Sequences, FiniteSets

CONSTANTS
    Procs,       \* processes that share the ledger
    Hanging,     \* those that may stop for ever at any instruction
    Sizes,       \* "short" and "long" (more than chainScanMax) entries
    ChainFaults, \* which calls may fail, see FaultKinds
    MaxAppends,  \* bound: calls of LogEvent
    MaxRotations \* bound: times an operator moves the ledger aside

FaultKinds == {"crash",      \* a process dies
               "power",      \* the machine dies, unsynced writes with it
               "flat",       \* the write or sync of the flat log
               "keyDir",     \* the sync of the key's directory
               "torn",       \* a ledger write that stops inside the entry
               "noNewline",  \* a ledger write that stops before the newline
               "sync"}       \* the sync of the ledger

Nothing == "none"

ASSUME ChainAssumption ==
    /\ Nothing \notin Procs
    /\ Hanging \subseteq Procs
    /\ Sizes \subseteq {"short", "long"} /\ Sizes # {}
    /\ ChainFaults \subseteq FaultKinds
    /\ MaxAppends \in Nat /\ MaxRotations \in Nat

Inodes == 1 .. MaxRotations + 1
NoInode == 0

VARIABLES
    keyFile, \* the key at the key path; a key is named after its maker
    key,     \* the key each process loaded
    path,    \* the inode at the ledger path
    ledger,  \* the writes made to each inode
    synced,  \* how many of them are on disk for certain
    lock,    \* who holds the flock of each inode
    procAt,  \* each process's control state
    fd,      \* the inode AppendChain opened
    item,    \* the event being logged: its number and its size
    tail,    \* the prev_hash and seq read for the next entry
    flat,    \* events in the flat log
    acked,   \* events whose LogEvent returned nil
    appends, rotations

chainVars == <<keyFile, key, path, ledger, synced, lock, procAt, fd, item, tail, flat,
          acked, appends, rotations>>

keyVars == <<keyFile, key>>
fileVars == <<path, ledger, synced>>
appendVars == <<fd, item, tail>>
logVars == <<flat, acked, appends, rotations>>

Genesis == [prev |-> <<>>, seq |-> 0]

\* computeHash over prev and the entry.
computeHash(k, prev, seq, id) == Append(prev, [key |-> k, seq |-> seq, id |-> id])

Entry(k, t, it) == [seq |-> t.seq, id |-> it.id, size |-> it.size, prev |-> t.prev,
                    hash |-> computeHash(k, t.prev, t.seq, it.id)]

\* What one write left in the file: a whole entry or not, a newline or not.
Written(e, whole, nl) == [entry |-> e, whole |-> whole, nl |-> nl]

\* The i-th write has a line of its own and it parses.
Parses(l, i) == /\ l[i].whole /\ l[i].entry.size = "short"
                /\ i > 1 => l[i - 1].nl
                /\ i < Len(l) => l[i].nl

\* parseChainTail: the last line parses and its HMAC over its own prev_hash holds.
TailVerifies(l, k) ==
    LET n == Len(l) IN
    /\ Parses(l, n)
    /\ l[n].entry.hash = computeHash(k, l[n].entry.prev, l[n].entry.seq, l[n].entry.id)

\* VerifyChain: every line parses and chains onto the digest before it.
VerifyChain(l, k) ==
    \A i \in 1 .. Len(l) :
        /\ Parses(l, i)
        /\ l[i].entry.hash = computeHash(k, IF i = 1 THEN <<>> ELSE l[i - 1].entry.hash,
                                         l[i].entry.seq, l[i].entry.id)

-----------------------------------------------------------------------------
ChainInit ==
    /\ keyFile = Nothing /\ key = [p \in Procs |-> Nothing]
    /\ path = NoInode
    /\ ledger = [n \in Inodes |-> <<>>] /\ synced = [n \in Inodes |-> 0]
    /\ lock = [n \in Inodes |-> Nothing]
    /\ procAt = [p \in Procs |-> "boot"]
    /\ fd = [p \in Procs |-> NoInode]
    /\ item = [p \in Procs |-> [id |-> 0, size |-> "short"]]
    /\ tail = [p \in Procs |-> Genesis]
    /\ flat = {} /\ acked = {}
    /\ appends = 0 /\ rotations = 0

ProcGoes(p, from, to) == procAt[p] = from /\ procAt' = [procAt EXCEPT ![p] = to]

\* InitChain, loadOrCreateChainKey: an existing key is read and used.
ReadKey(p) ==
    /\ ProcGoes(p, "boot", IF keyFile = Nothing THEN "link" ELSE "ready")
    /\ key' = [key EXCEPT ![p] = keyFile]
    /\ UNCHANGED <<keyFile, fileVars, lock, appendVars, logVars>>

\* A new key was written to a temporary file and is linked to the key path;
\* whoever finds a key there reads that one.  A failed sync of the directory
\* fails InitChain and leaves the key.
LinkKey(p) ==
    /\ keyFile' = IF keyFile = Nothing THEN p ELSE keyFile
    /\ \/ /\ ProcGoes(p, "link", "ready")
          /\ key' = [key EXCEPT ![p] = keyFile']
       \/ /\ "keyDir" \in ChainFaults /\ keyFile = Nothing
          /\ ProcGoes(p, "link", "boot")
          /\ UNCHANGED key
    /\ UNCHANGED <<fileVars, lock, appendVars, logVars>>

\* LogEvent, LogCommand, ...: the flat line comes first, and without it nothing.
LogEvent(p, size) ==
    /\ appends < MaxAppends
    /\ appends' = appends + 1
    /\ item' = [item EXCEPT ![p] = [id |-> appends + 1, size |-> size]]
    /\ \/ ProcGoes(p, "ready", "open") /\ flat' = flat \cup {appends + 1}
       \/ "flat" \in ChainFaults /\ ProcGoes(p, "ready", "ready") /\ UNCHANGED flat
    /\ UNCHANGED <<keyVars, fileVars, lock, fd, tail, acked, rotations>>

\* AppendChain: os.OpenFile with O_CREATE.
OpenLedger(p) ==
    /\ ProcGoes(p, "open", "lock")
    /\ path' = IF path = NoInode THEN rotations + 1 ELSE path
    /\ fd' = [fd EXCEPT ![p] = path']
    /\ UNCHANGED <<keyVars, ledger, synced, lock, item, tail, logVars>>

\* Mutant: no flock is taken.
LockLedger_None(p) ==
    /\ ProcGoes(p, "lock", "read")
    /\ UNCHANGED <<keyVars, fileVars, lock, appendVars, logVars>>

\* lockChainFile: a non-blocking flock, retried until the timeout.
LockLedger(p) ==
    /\ procAt[p] = "lock"
    /\ \/ /\ lock[fd[p]] = Nothing
          /\ ProcGoes(p, "lock", "read") /\ lock' = [lock EXCEPT ![fd[p]] = p]
       \/ lock[fd[p]] # Nothing /\ ProcGoes(p, "lock", "ready") /\ UNCHANGED lock
    /\ UNCHANGED <<keyVars, fileVars, appendVars, logVars>>

\* AppendChain returns, closing the file and so releasing its lock.
Unlocked(p) == [n \in Inodes |-> IF lock[n] = p THEN Nothing ELSE lock[n]]

\* readLastChainLine, by path and not by the open file: a missing or empty
\* file starts at seq 0, a tail that does not verify fails the append.
ReadTail(p) ==
    LET l == IF path = NoInode THEN <<>> ELSE ledger[path] IN
    /\ procAt[p] = "read"
    /\ \/ /\ l = <<>>
          /\ ProcGoes(p, "read", "write") /\ UNCHANGED lock
          /\ tail' = [tail EXCEPT ![p] = Genesis]
       \/ /\ l # <<>> /\ TailVerifies(l, key[p])
          /\ ProcGoes(p, "read", "write") /\ UNCHANGED lock
          /\ tail' = [tail EXCEPT ![p] = [prev |-> l[Len(l)].entry.hash,
                                          seq |-> l[Len(l)].entry.seq + 1]]
       \/ /\ l # <<>> /\ ~TailVerifies(l, key[p])
          /\ ProcGoes(p, "read", "ready") /\ lock' = Unlocked(p)
          /\ UNCHANGED tail
    /\ UNCHANGED <<keyVars, fileVars, fd, item, logVars>>

\* The O_APPEND write, to the file that was opened; a short write is an error.
WriteEntry(p) ==
    LET e == Entry(key[p], tail[p], item[p])
        Puts(w) == ledger' = [ledger EXCEPT ![fd[p]] = Append(@, w)]
        Fails(w) == ProcGoes(p, "write", "ready") /\ Puts(w) /\ lock' = Unlocked(p)
    IN
    /\ procAt[p] = "write"
    /\ \/ ProcGoes(p, "write", "sync") /\ Puts(Written(e, TRUE, TRUE)) /\ UNCHANGED lock
       \/ "torn" \in ChainFaults /\ Fails(Written(e, FALSE, FALSE))
       \/ "noNewline" \in ChainFaults /\ Fails(Written(e, TRUE, FALSE))
    /\ UNCHANGED <<keyVars, path, synced, appendVars, logVars>>

\* Mutant: LogEvent returns nil before the entry is synced.
SyncLedger_Skip(p) ==
    /\ ProcGoes(p, "sync", "ready")
    /\ acked' = acked \cup {item[p].id}
    /\ lock' = Unlocked(p)
    /\ UNCHANGED <<keyVars, fileVars, appendVars, flat, appends, rotations>>

\* syncFile, and the return that closes the file.
SyncLedger(p) ==
    /\ ProcGoes(p, "sync", "ready")
    /\ \/ /\ synced' = [synced EXCEPT ![fd[p]] = Len(ledger[fd[p]])]
          /\ acked' = acked \cup {item[p].id}
       \/ "sync" \in ChainFaults /\ UNCHANGED <<synced, acked>>
    /\ lock' = Unlocked(p)
    /\ UNCHANGED <<keyVars, path, ledger, appendVars, flat, appends, rotations>>

\* The process dies and is started again; the kernel closes its files.
Crash(p) ==
    /\ "crash" \in ChainFaults
    /\ procAt[p] # "boot"
    /\ procAt' = [procAt EXCEPT ![p] = "boot"]
    /\ key' = [key EXCEPT ![p] = Nothing]
    /\ lock' = Unlocked(p)
    /\ UNCHANGED <<keyFile, fileVars, appendVars, logVars>>

\* The machine dies: of each file what was synced is left, perhaps more.
PowerLoss ==
    /\ "power" \in ChainFaults
    /\ \E kept \in [Inodes -> 0 .. MaxAppends] :
          /\ \A n \in Inodes : synced[n] <= kept[n] /\ kept[n] <= Len(ledger[n])
          /\ \E n \in Inodes : kept[n] < Len(ledger[n])
          /\ ledger' = [n \in Inodes |-> SubSeq(ledger[n], 1, kept[n])]
    /\ procAt' = [p \in Procs |-> "boot"]
    /\ key' = [p \in Procs |-> Nothing]
    /\ lock' = [n \in Inodes |-> Nothing]
    /\ UNCHANGED <<keyFile, path, synced, appendVars, logVars>>

\* An operator does what the error of AppendChain says: move the ledger aside.
Rotate ==
    /\ rotations < MaxRotations
    /\ path # NoInode /\ ledger[path] # <<>> /\ ~TailVerifies(ledger[path], keyFile)
    /\ path' = NoInode
    /\ rotations' = rotations + 1
    /\ UNCHANGED <<keyVars, ledger, synced, lock, procAt, appendVars, flat, acked, appends>>

AppendStep(p) == OpenLedger(p) \/ LockLedger(p) \/ ReadTail(p) \/ WriteEntry(p)
                    \/ SyncLedger(p)

ChainNext ==
    \/ \E p \in Procs : \/ ReadKey(p) \/ LinkKey(p) \/ AppendStep(p) \/ Crash(p)
                        \/ \E s \in Sizes : LogEvent(p, s)
    \/ PowerLoss
    \/ Rotate

\* A process that does not hang finishes the append it is in.
ChainFairness == \A p \in Procs \ Hanging : WF_chainVars(AppendStep(p))

ChainSpec == ChainInit /\ [][ChainNext]_chainVars /\ ChainFairness

-----------------------------------------------------------------------------
Events == 1 .. MaxAppends

\* Every variable stays in its type.
ChainTypeOK ==
    /\ keyFile \in Procs \cup {Nothing}
    /\ key \in [Procs -> Procs \cup {Nothing}]
    /\ path \in Inodes \cup {NoInode}
    /\ \A n \in Inodes : \A i \in 1 .. Len(ledger[n]) : ledger[n][i].entry.id \in Events
    /\ synced \in [Inodes -> Nat]
    /\ lock \in [Inodes -> Procs \cup {Nothing}]
    /\ procAt \in [Procs -> {"boot", "link", "ready", "open", "lock", "read", "write",
                         "sync"}]
    /\ fd \in [Procs -> Inodes \cup {NoInode}]
    /\ flat \subseteq Events /\ acked \subseteq Events

\* Two processes that start together on a fresh host end up with one key: no
\* process ever works with a key other than the one in the key file.
OneKey == \A p \in Procs : key[p] # Nothing => key[p] = keyFile

\* An event whose LogEvent returned nil is in the flat log and in a ledger, in
\* a line of its own that parses, and stays there through a power loss.
AckedRecorded ==
    \A id \in acked :
        /\ id \in flat
        /\ \E n \in Inodes : \E i \in 1 .. Len(ledger[n]) :
              ledger[n][i].entry.id = id /\ Parses(ledger[n], i)

\* Every write to the inode finished its line.
Undamaged(n) == \A i \in 1 .. Len(ledger[n]) : ledger[n][i].whole /\ ledger[n][i].nl

\* Whatever processes wrote to it, and however often an older one was moved
\* aside, the undamaged ledger at the path verifies from its first line to its
\* last and its seqs count up from 0: concurrent appends do not break the chain.
LedgerVerifies ==
    path # NoInode /\ Undamaged(path) =>
        /\ VerifyChain(ledger[path], keyFile)
        /\ \A i \in 1 .. Len(ledger[path]) : ledger[path][i].entry.seq = i - 1

\* "A partial tail line fails the append closed" (AppendChain): nothing is ever
\* written after a write that did not finish its line.
NothingAfterPartial ==
    \A n \in Inodes : \A i \in 1 .. Len(ledger[n]) - 1 :
        ledger[n][i].whole /\ ledger[n][i].nl

\* A stuck lock holder makes the append fail instead of hanging the gate: an
\* append of a process that itself keeps running always returns.
AppendReturns ==
    \A p \in Procs \ Hanging :
        procAt[p] \in {"open", "lock", "read", "write", "sync"} ~> procAt[p] \in {"ready", "boot"}

\* The ledger of several processes is one chain under one key, with nothing after
\* a partial line (loadOrCreateChainKey, AppendChain, VerifyChain).
LedgerWhole == ChainTypeOK /\ OneKey /\ LedgerVerifies /\ NothingAfterPartial
=============================================================================
