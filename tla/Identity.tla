------------------------------ MODULE Identity ------------------------------
(***************************************************************************)
(* The identity of one shell session: OIDC import, device login, elevation, *)
(* role grants, the SSH certificate authority and the identity a session   *)
(* may approve four-eyes requests as (security/vbin_identity_ee.go,         *)
(* device_login_ee.go, vbin_elevate_ee.go, grants_ee.go and shellApprover). *)
(* A shell runs background jobs, so the steps of two commands interleave:   *)
(* each call on the session, the audit log or a file is an action.          *)
(***************************************************************************)
EXTENDS Naturals, Sequences, FiniteSets

CONSTANTS
  Jobs,          \* commands that run at the same time
  Tokens,        \* JWTs that can be presented
  Jwks,          \* the sequence of keys the pinned JWKS URL serves
  DeviceUsers,   \* user names a device login may assert
  Registered,    \* the user the session was registered with
  Privileged,    \* os-root, adssh-admin, gridops
  Roles,         \* other roles
  Lifetime,      \* the cap on the life of a token
  TTL,           \* the life of an elevation
  DeviceTimeout, \* the deadline of a device login
  MaxCommands,   \* bound: commands of a behaviour
  MaxTime        \* bound: the clock

ASSUME IdentityAssumption ==
  /\ Registered \notin DeviceUsers
  /\ Privileged \cap Roles = {}
  /\ {Lifetime, TTL, DeviceTimeout, MaxCommands, MaxTime} \subseteq Nat

VARIABLES
  ident,     \* what sys.Session holds of the identity
  device,    \* where each command is
  journal,   \* audit records, by what they say
  tokenFile, \* the user whose bearer the device token file holds
  ca,        \* the authority's key files and the certificate issued
  approved,  \* users shellApprover has returned
  commands,  \* commands started
  clk        \* time

identityVars == <<ident, device, journal, tokenFile, ca, approved, commands, clk>>

NoElevation == [role |-> "none", exp |-> 0]
NoDevice == [pc |-> "idle"]

-----------------------------------------------------------------------------
(* Verification of a JWT.                                                   *)

IsPrivilegedRole(r) == r \in Privileged

FilterUnprivileged(groups) == {g \in groups : ~IsPrivilegedRole(g)}

PrivilegedEligible(groups) == {g \in groups : IsPrivilegedRole(g)}

Usable(key, t) ==
  /\ key.rsa
  /\ (t.kid # "" => key.kid = t.kid)
  /\ key.alg \in {"", t.alg}
  /\ key.use \in {"", "sig"}

\* The first usable key decides: no later key is tried.
selectOIDCRSAKey(t) == SelectSeq(Jwks, LAMBDA key : Usable(key, t))

verifyOIDCTokenSignature(t) ==
  /\ t.alg = "RS256"
  /\ selectOIDCRSAKey(t) # <<>>
  /\ Head(selectOIDCRSAKey(t)).signer = t.signer

checkOIDCTimes(t) ==
  /\ clk < t.exp
  /\ t.exp - clk <= Lifetime
  /\ t.iat <= clk /\ t.exp - t.iat <= Lifetime

Audience(provider) == IF provider = "admin" THEN "admin" ELSE "login"
OtherAudience(provider) == IF provider = "admin" THEN "login" ELSE "admin"

parseOIDCIdentity(provider, t) ==
  /\ verifyOIDCTokenSignature(t)
  /\ Audience(provider) \in t.aud /\ OtherAudience(provider) \notin t.aud
  /\ checkOIDCTimes(t)

-----------------------------------------------------------------------------
(* The session and the audit log.                                           *)

activeElevation ==
  IF clk < ident.elevation.exp THEN {ident.elevation.role} ELSE {}

\* The groups the policy sees: the principals and the unexpired elevation.
PolicyGroups == ident.principals \cup activeElevation

IdentitySet(user, principals) ==
  ident' = [ident EXCEPT !.user = user, !.principals = principals, !.source = "asserted"]

SetOIDC(provider, eligible) ==
  ident' = [ident EXCEPT !.provider = provider, !.eligible = eligible]

IdentitySourceSet(source) == ident' = [ident EXCEPT !.source = source]

JobGoes(j, pc) == device' = [device EXCEPT ![j].pc = pc]

Begin(j, what) ==
  /\ device[j] = NoDevice /\ commands < MaxCommands
  /\ commands' = commands + 1
  /\ device' = [device EXCEPT ![j] = what]
  /\ UNCHANGED <<ident, journal, tokenFile, ca, approved, clk>>

\* A failed write is reported and the command goes on.
LogFirst_GoesOn(j, from, to, what) ==
  /\ device[j].pc = from
  /\ (journal' = journal \cup {what} \/ UNCHANGED journal)
  /\ JobGoes(j, to)
  /\ UNCHANGED <<ident, tokenFile, ca, approved, commands, clk>>

\* The audit write of a command that must be on record before it acts.
LogFirst(j, from, to, what) ==
  /\ device[j].pc = from
  /\ \/ journal' = journal \cup {what} /\ JobGoes(j, to)
     \/ UNCHANGED journal /\ device' = [device EXCEPT ![j] = NoDevice]
  /\ UNCHANGED <<ident, tokenFile, ca, approved, commands, clk>>

OnSession(j, from, to) ==
  /\ device[j].pc = from
  /\ IF to = "idle" THEN device' = [device EXCEPT ![j] = NoDevice] ELSE JobGoes(j, to)
  /\ UNCHANGED <<journal, tokenFile, ca, approved, commands, clk>>

-----------------------------------------------------------------------------
(* identity oidc import                                                     *)

identityOIDCImport(j) == \E provider \in {"", "login", "admin"}, t \in Tokens :
  /\ parseOIDCIdentity(provider, t)
  /\ Begin(j, [pc |-> "import", user |-> t.user, provider |-> provider,
               principals |-> FilterUnprivileged(t.groups),
               eligible |-> IF provider = "admin" THEN PrivilegedEligible(t.groups) ELSE {}])

ImportLog(j) == LogFirst(j, "import", "import_identity",
  [what |-> "import", user |-> device[j].user, roles |-> device[j].eligible])

ImportIdentity(j) ==
  OnSession(j, "import_identity", "import_oidc") /\ IdentitySet(device[j].user, device[j].principals)

ImportOIDC(j) ==
  OnSession(j, "import_oidc", "import_source") /\ SetOIDC(device[j].provider, device[j].eligible)

ImportSource(j) ==
  OnSession(j, "import_source", "idle") /\ IdentitySourceSet("oidc_verified")

-----------------------------------------------------------------------------
(* identity device login                                                    *)

\* Username, token path, pinned origin and the start request, all accepted.
DeviceStart(j) == \E user \in DeviceUsers, expires \in 1 .. DeviceTimeout :
  Begin(j, [pc |-> "poll", user |-> user, deadline |-> clk + expires, interval |-> 1])

\* One round of the polling loop. The control plane answers anything: pending,
\* slow_down, a refusal or an error, a bearer.
DevicePoll(j) ==
  /\ device[j].pc = "poll"
  /\ \/ /\ clk > device[j].deadline
        /\ device' = [device EXCEPT ![j] = NoDevice]
     \/ /\ clk <= device[j].deadline
        /\ \/ \E slower \in {0, 1} :
                LET next == device[j].interval + slower IN
                device' = [device EXCEPT ![j] = [device[j] EXCEPT !.pc = "sleep",
                             !.interval = IF next > DeviceTimeout THEN device[j].interval ELSE next]]
           \/ device' = [device EXCEPT ![j] = NoDevice]
           \/ device' = [device EXCEPT ![j].pc = "write"]
  /\ UNCHANGED <<ident, journal, tokenFile, ca, approved, commands, clk>>

\* The wait between two polls, cut at the deadline; it fails once that passed.
deviceSleep(j) ==
  /\ device[j].pc = "sleep"
  /\ \/ clk >= device[j].deadline /\ device' = [device EXCEPT ![j] = NoDevice] /\ UNCHANGED clk
     \/ /\ clk < device[j].deadline
        /\ clk' = clk + (IF device[j].interval > device[j].deadline - clk
                         THEN device[j].deadline - clk ELSE device[j].interval)
        /\ JobGoes(j, "poll")
  /\ UNCHANGED <<ident, journal, tokenFile, ca, approved, commands>>

\* The bearer replaces the file by a rename, or nothing changed.
writeDeviceToken(j) ==
  /\ device[j].pc = "write"
  /\ \/ tokenFile' = device[j].user /\ JobGoes(j, "device")
     \/ UNCHANGED tokenFile /\ device' = [device EXCEPT ![j] = NoDevice]
  /\ UNCHANGED <<ident, journal, ca, approved, commands, clk>>

\* A failed audit write removes the bearer and leaves the session alone.
DeviceLog(j) ==
  /\ device[j].pc = "device"
  /\ \/ /\ journal' = journal \cup {[what |-> "device", user |-> device[j].user]}
        /\ JobGoes(j, "device_identity") /\ UNCHANGED tokenFile
     \/ /\ tokenFile' = "none" /\ device' = [device EXCEPT ![j] = NoDevice] /\ UNCHANGED journal
  /\ UNCHANGED <<ident, ca, approved, commands, clk>>

DeviceIdentity(j) ==
  OnSession(j, "device_identity", "device_source") /\ IdentitySet(device[j].user, {})

DeviceSource(j) ==
  OnSession(j, "device_source", "device_oidc") /\ IdentitySourceSet("device_login")

DeviceOIDC(j) == OnSession(j, "device_oidc", "idle") /\ SetOIDC("", {})

-----------------------------------------------------------------------------
(* elevate                                                                  *)

elevateRequest(j) == \E role \in Privileged \cup Roles :
  /\ IsPrivilegedRole(role) => ident.provider = "admin" /\ role \in ident.eligible
  /\ Begin(j, [pc |-> "elevate", role |-> role, exp |-> clk + TTL])

ElevateLog(j) == LogFirst(j, "elevate", "activate",
  [what |-> "elevate", role |-> device[j].role, exp |-> device[j].exp])

ActivateElevation(j) ==
  /\ OnSession(j, "activate", "idle")
  /\ ident' = [ident EXCEPT !.elevation = [role |-> device[j].role, exp |-> device[j].exp]]

\* The drop is not undone when its audit write fails.
elevateDrop(j) ==
  /\ device[j] = NoDevice /\ ident.elevation # NoElevation /\ commands < MaxCommands
  /\ commands' = commands + 1
  /\ ident' = [ident EXCEPT !.elevation = NoElevation]
  /\ \/ UNCHANGED journal
     \/ journal' = journal \cup {[what |-> "drop", role |-> ident.elevation.role]}
  /\ UNCHANGED <<device, tokenFile, ca, approved, clk>>

\* A read of an expired elevation removes it.
ReadElevation ==
  /\ ident.elevation # NoElevation /\ clk >= ident.elevation.exp
  /\ ident' = [ident EXCEPT !.elevation = NoElevation]
  /\ UNCHANGED <<device, journal, tokenFile, ca, approved, commands, clk>>

-----------------------------------------------------------------------------
(* grant                                                                    *)

grantRequest(j) == \E role \in (Roles \cup Privileged) \ ident.principals :
  ~IsPrivilegedRole(role) /\ Begin(j, [pc |-> "grant", role |-> role])

GrantLog(j) ==
  LogFirst(j, "grant", "grant_add", [what |-> "grant", role |-> device[j].role])

AddPrincipal(j) ==
  /\ OnSession(j, "grant_add", "idle")
  /\ ident' = [ident EXCEPT !.principals = @ \cup {device[j].role}]

grantDrop(j) == \E role \in ident.principals :
  ~IsPrivilegedRole(role) /\ Begin(j, [pc |-> "ungrant", role |-> role])

UngrantLog(j) ==
  LogFirst(j, "ungrant", "grant_remove", [what |-> "ungrant", role |-> device[j].role])

RemovePrincipal(j) ==
  /\ OnSession(j, "grant_remove", "idle")
  /\ ident' = [ident EXCEPT !.principals = @ \ {device[j].role}]

-----------------------------------------------------------------------------
(* identity ssh-ca init and issue                                           *)

identitySSHCAInit(j) == Begin(j, [pc |-> "ca", key |-> commands + 1])

CALog(j) == LogFirst(j, "ca", "ca_private", [what |-> "ca", key |-> device[j].key])

\* Two writes, private key first; each may fail.
CAPrivate(j) ==
  /\ device[j].pc = "ca_private"
  /\ \/ ca' = [ca EXCEPT !.private = device[j].key] /\ JobGoes(j, "ca_public")
     \/ UNCHANGED ca /\ device' = [device EXCEPT ![j] = NoDevice]
  /\ UNCHANGED <<ident, journal, tokenFile, approved, commands, clk>>

CAPublic(j) ==
  /\ device[j].pc = "ca_public"
  /\ device' = [device EXCEPT ![j] = NoDevice]
  /\ \/ ca' = [ca EXCEPT !.public = device[j].key]
     \/ UNCHANGED ca
  /\ UNCHANGED <<ident, journal, tokenFile, approved, commands, clk>>

\* The certificate is signed with the key read here, before its record.
issueSSHCertificate(j) == ca.private # 0 /\ Begin(j, [pc |-> "cert", key |-> ca.private])

CertLog(j) == LogFirst(j, "cert", "cert_write", [what |-> "cert", key |-> device[j].key])

CertWrite(j) ==
  /\ device[j].pc = "cert_write"
  /\ device' = [device EXCEPT ![j] = NoDevice]
  /\ \/ ca' = [ca EXCEPT !.cert = device[j].key]
     \/ UNCHANGED ca
  /\ UNCHANGED <<ident, journal, tokenFile, approved, commands, clk>>

-----------------------------------------------------------------------------
(* shellApprover: the source is read in one call and the user in another.   *)

ApproverSource(j) ==
  /\ ident.source \in {"", "oidc_verified"}
  /\ Begin(j, [pc |-> "approver"])

ApproverUser(j) ==
  /\ device[j].pc = "approver"
  /\ device' = [device EXCEPT ![j] = NoDevice]
  /\ approved' = approved \cup {ident.user}
  /\ UNCHANGED <<ident, journal, tokenFile, ca, commands, clk>>

IdentityTick ==
  /\ clk < MaxTime /\ clk' = clk + 1
  /\ UNCHANGED <<ident, device, journal, tokenFile, ca, approved, commands>>

-----------------------------------------------------------------------------
IdentityInit ==
  /\ ident = [user |-> Registered, source |-> "", principals |-> {}, provider |-> "",
                eligible |-> {}, elevation |-> NoElevation]
  /\ device = [j \in Jobs |-> NoDevice]
  /\ journal = {} /\ tokenFile = "none" /\ approved = {}
  /\ ca = [private |-> 0, public |-> 0, cert |-> 0]
  /\ commands = 0 /\ clk = 0

DeviceStep(j) ==
  \/ DevicePoll(j) \/ deviceSleep(j) \/ writeDeviceToken(j)
  \/ DeviceLog(j) \/ DeviceIdentity(j) \/ DeviceSource(j) \/ DeviceOIDC(j)

JobStep(j) ==
  \/ identityOIDCImport(j) \/ ImportLog(j) \/ ImportIdentity(j) \/ ImportOIDC(j) \/ ImportSource(j)
  \/ DeviceStart(j) \/ DeviceStep(j)
  \/ elevateRequest(j) \/ ElevateLog(j) \/ ActivateElevation(j) \/ elevateDrop(j)
  \/ grantRequest(j) \/ GrantLog(j) \/ AddPrincipal(j)
  \/ grantDrop(j) \/ UngrantLog(j) \/ RemovePrincipal(j)
  \/ identitySSHCAInit(j) \/ CALog(j) \/ CAPrivate(j) \/ CAPublic(j)
  \/ issueSSHCertificate(j) \/ CertLog(j) \/ CertWrite(j)
  \/ ApproverSource(j) \/ ApproverUser(j)

IdentityNext == (\E j \in Jobs : JobStep(j)) \/ ReadElevation \/ IdentityTick

IdentitySpec == IdentityInit /\ [][IdentityNext]_identityVars

-----------------------------------------------------------------------------
(* Properties.                                                              *)

\* Whatever order the jobs run in, a privileged role among the groups that the
\* policy sees (vbin_elevate_ee.go, roles.go) was named by an admin-audience
\* import on record and by an elevation on record that has not expired; no
\* import, grant or rename makes it a principal.
PrivilegeVouched == \A role \in PolicyGroups \cap Privileged :
  /\ \E r \in journal : r.what = "import" /\ role \in r.roles
  /\ \E r \in journal : r.what = "elevate" /\ r.role = role /\ clk < r.exp

\* The session bears no name, the token file no bearer of a renamed session and
\* the disk no key or certificate that the audit log does not have: each is
\* recorded first, and a failed record leaves the earlier state.
IdentityOnRecord ==
  /\ ident.user # Registered =>
       \E r \in journal : r.what \in {"import", "device"} /\ r.user = ident.user
  /\ ca.private # 0 => [what |-> "ca", key |-> ca.private] \in journal
  /\ ca.cert # 0 => [what |-> "cert", key |-> ca.cert] \in journal

\* A login-audience or device identity never leaves the session eligible: the
\* eligible roles are those of a recorded admin import, and a session that
\* settled as a device login (no job between its calls) has none.
DeviceClearsEligible ==
  (\A j \in Jobs : device[j] = NoDevice) /\ ident.source = "device_login" => ident.eligible = {}

\* A device login ends: the control plane may answer "pending" for ever, the
\* deadline of the loop still stops it.
DeviceEnds == \A j \in Jobs : device[j].pc \in {"poll", "sleep"} ~> device[j].pc \notin {"poll", "sleep"}

\* What shellApprover says of itself: only the user the session was registered
\* with, or one a verified token named, decides four-eyes requests.
ApproverVerified == \A user \in approved :
  user = Registered \/ \E r \in journal : r.what = "import" /\ r.user = user
=============================================================================
