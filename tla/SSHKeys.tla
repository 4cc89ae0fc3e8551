------------------------------ MODULE SSHKeys -------------------------------
(***************************************************************************)
(* Who may log in over SSH (internal/sys/ssh.go): the authorized_keys file *)
(* that is read when the listener is enabled, and the public key callback  *)
(* that decides about a presented key or certificate.  The file is edited  *)
(* while a listener runs; the host's accounts change too.                  *)
(*                                                                         *)
(* golang.org/x/crypto/ssh is external: its certificate checker knows the  *)
(* authorities and the time, and takes a certificate that names nobody for *)
(* valid for everyone.                                                     *)
(***************************************************************************)
EXTENDS Naturals, FiniteSets

CONSTANTS
    FileLines,  \* lines an authorized_keys file may hold
    Offers,     \* keys and certificates a client may present
    LoginNames, \* login names
    Root,       \* "root" itself, among LoginNames
    MaxGranted  \* bound: logins that are granted

ASSUME SSHKeysAssumption == Root \in LoginNames /\ MaxGranted \in Nat

VARIABLES
    authFile,   \* the lines of the file
    keys,       \* the authorizedKeySet of the listener
    listens,    \* the listener is enabled
    permitRoot, \* SSHServerOptions.PermitRoot
    uids,       \* what each login resolves to: "root", "user" or "none"
    granted     \* history: logins granted, with what was true at the time

sshVars == <<authFile, keys, listens, permitRoot, uids, granted>>

\* A line: its key, its options and whether they parse. names = {} is no user=.
NoKeys == [users |-> {}, authorities |-> {}, lines |-> {}]

SSHKeysInit ==
    /\ authFile = {} /\ keys = NoKeys /\ listens = FALSE
    /\ permitRoot \in BOOLEAN /\ granted = {}
    /\ uids \in [LoginNames -> {"root", "user", "none"}] /\ uids[Root] = "root"

-----------------------------------------------------------------------------
(* The file.                                                               *)

\* parseUserOption: the names are quoted, there is one, none is empty or odd. The
\* lines here say so in their form.
parseUserOption(line) == line.form = "good" /\ line.names # {}

Refused(line) ==
    \/ line.form \notin {"good", "bare"}
    \/ line.authority /\ line.names # {}
    \/ ~line.authority /\ ~parseUserOption(line)

\* Several lines of one key add their names up.
loadAuthorizedKeys(file) ==
    [users |-> UNION {{l.key} \X l.names : l \in {x \in file : ~x.authority}},
     authorities |-> {l.key : l \in {x \in file : x.authority}},
     lines |-> file]

Edit(line) ==
    /\ authFile' = IF line \in authFile THEN authFile \ {line} ELSE authFile \cup {line}
    /\ UNCHANGED <<keys, listens, permitRoot, uids, granted>>

\* The account database: a name may start or stop to resolve, or get uid 0.
Account(name, uid) ==
    /\ name # Root /\ uids[name] # uid /\ uids' = [uids EXCEPT ![name] = uid]
    /\ UNCHANGED <<authFile, keys, listens, permitRoot, granted>>

\* EnableSSHWithOptions reads the file once; an empty or refused one is an error.
EnableSSH ==
    /\ ~listens /\ authFile # {} /\ \A l \in authFile : ~Refused(l)
    /\ listens' = TRUE /\ keys' = loadAuthorizedKeys(authFile)
    /\ UNCHANGED <<authFile, permitRoot, uids, granted>>

DisableSSH ==
    /\ listens /\ listens' = FALSE /\ keys' = NoKeys
    /\ UNCHANGED <<authFile, permitRoot, uids, granted>>

-----------------------------------------------------------------------------
(* A login.                                                                *)

loginIsRoot(name) == name = Root \/ uids[name] \in {"root", "none"}

\* The checker: a certificate of an authority, in its time, for this login or for
\* nobody in particular; a plain key of the set, for this login.
Authenticate(name, o) ==
    IF o.cert
    THEN o.ca \in keys.authorities /\ o.inTime /\ (o.principals = {} \/ name \in o.principals)
    ELSE <<o.key, name>> \in keys.users

GroupsOf(o) == IF o.cert THEN o.principals ELSE {}

\* publicKeyCallback. A certificate that is malformed, names nobody or holds a name
\* that could be read as a flag is refused first, then what is revoked.
\* Mutant: what the library calls valid is enough.
publicKeyCallback_Library(name, o, revoked) ==
    /\ listens
    /\ ~revoked /\ Authenticate(name, o)
    /\ permitRoot \/ ~loginIsRoot(name)
    /\ granted' = granted \cup {[name |-> name, offer |-> o, groups |-> GroupsOf(o),
                                 lines |-> keys.lines, uid |-> uids[name], revoked |-> revoked]}
    /\ UNCHANGED <<authFile, keys, listens, permitRoot, uids>>

publicKeyCallback(name, o, revoked) ==
    /\ listens
    /\ o.cert => o.wellFormed /\ o.principals # {}
    /\ ~revoked /\ Authenticate(name, o)
    /\ permitRoot \/ ~loginIsRoot(name)
    /\ granted' = granted \cup {[name |-> name, offer |-> o, groups |-> GroupsOf(o),
                                 lines |-> keys.lines, uid |-> uids[name], revoked |-> revoked]}
    /\ UNCHANGED <<authFile, keys, listens, permitRoot, uids>>

\* A behaviour is looked at up to its last login.
SSHKeysNext ==
    /\ Cardinality(granted) < MaxGranted
    /\ \/ \E l \in FileLines : Edit(l)
       \/ \E n \in LoginNames, u \in {"root", "user", "none"} : Account(n, u)
       \/ EnableSSH \/ DisableSSH
       \/ \E n \in LoginNames, o \in Offers, r \in BOOLEAN : publicKeyCallback(n, o, r)

SSHKeysSpec == SSHKeysInit /\ [][SSHKeysNext]_sshVars

-----------------------------------------------------------------------------
(* Properties.                                                             *)

\* Every login that was granted is one the file named when the listener was
\* enabled: a line binds that key to that login, or the certificate's authority is
\* listed and the certificate names the login.
LoginByRecord ==
    \A g \in granted :
        IF g.offer.cert
        THEN /\ \E l \in g.lines : l.authority /\ l.key = g.offer.ca
             /\ g.name \in g.offer.principals /\ g.offer.inTime
        ELSE \E l \in g.lines : ~l.authority /\ l.key = g.offer.key /\ g.name \in l.names

\* No listener runs on a file with a line it could not use.
WholeFile == listens => \A l \in keys.lines : l.form = "good" \/ (l.form = "bare" /\ l.authority)

\* A session's groups are what the authority signed, never what a client added.
GroupsAsSigned ==
    \A g \in granted : g.groups = (IF g.offer.cert THEN g.offer.principals ELSE {})

\* Where root may not log in nobody becomes uid 0, by no name.
NoRootByName == ~permitRoot => \A g \in granted : g.uid = "user"

\* Who logs in with a key or a certificate, and as whom: what the file and its
\* authorities say, and no more (publicKeyCallback, loadAuthorizedKeys).
KeysSafety == LoginByRecord /\ WholeFile /\ GroupsAsSigned /\ NoRootByName
=============================================================================
