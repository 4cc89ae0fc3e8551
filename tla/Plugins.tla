------------------------------ MODULE Plugins -------------------------------
(***************************************************************************)
(* The loading of Starlark plugins into a session (security/plugin.go): a    *)
(* batch is read and checked, run one by one against the globals, and then   *)
(* bound as a whole, or the session is put back. What a file exports and     *)
(* whether it fails is free. A background job loads on a goroutine of its    *)
(* own.                                                                      *)
(***************************************************************************)
EXTENDS Naturals, Sequences, FiniteSets

CONSTANTS
  Loaders,  \* who may load: "fg" and background jobs
  Batches,  \* the batches that may be asked for: sequences of plugin names
  PluginNames,
  TopNames, \* names of the globals that a plugin may define
  MaxLoads  \* bound: loads

\* checkPluginNames refuses a name that is given twice.
ASSUME PluginsAssumption ==
  /\ "fg" \in Loaders /\ {"none", "user"} \cap PluginNames = {} /\ MaxLoads \in Nat
  /\ Batches \subseteq {b \in Seq(PluginNames) : \A i, k \in DOMAIN b : b[i] = b[k] => i = k}

VARIABLES
  top,      \* who bound each name: "none", "user" or a plugin
  cmds,     \* plugins whose commands are registered in the session
  comps,    \* plugins whose completers are in the map of the process
  exported, \* the plugins record: of each loaded plugin the names it exports
  loading,  \* of each loader: where it is, its batch, its snapshot, what it ran
  loads     \* bound

sessionVars == <<top, cmds, comps, exported>>
pluginVars == <<sessionVars, loading, loads>>

Session == [top |-> top, cmds |-> cmds, comps |-> comps, exported |-> exported]
NoLoad == [at |-> "idle"]
Prev(snap, p) == IF p \in DOMAIN snap.exported THEN snap.exported[p] ELSE {} \* previousExports

-----------------------------------------------------------------------------
\* What the files of a batch may export, once each of them is checked and read; it
\* is empty for a batch with a file that is refused.
preflight(b) == {{}, [1 .. Len(b) -> SUBSET TopNames]}

\* All files are read before anything is run. The snapshot is taken.
LoadStarlarkPlugins(l) ==
  /\ loading[l].at = "idle" /\ loads < MaxLoads /\ loads' = loads + 1
  /\ \E b \in Batches : \E read \in preflight(b) :
       \/ read = {} /\ UNCHANGED loading
       \/ \E x \in read :
            loading' = [loading EXCEPT ![l] = [at |-> "exec", batch |-> b, exports |-> x, i |-> 1, snap |-> Session]]
  /\ UNCHANGED sessionVars

\* The completers of the process stay.
restoreSession_Session(snap) ==
  /\ top' = snap.top /\ cmds' = snap.cmds /\ exported' = snap.exported
  /\ UNCHANGED comps

restoreSession(snap) ==
  top' = snap.top /\ cmds' = snap.cmds /\ comps' = snap.comps /\ exported' = snap.exported

Fails(l) ==
  /\ restoreSession(loading[l].snap)
  /\ loading' = [loading EXCEPT ![l] = [at |-> "failed", snap |-> loading[l].snap]]

\* One plugin: what it exported before is hidden, then its file runs with the globals;
\* it may register commands and completers, and may fail after it did.
executePlugin(l) ==
  /\ loading[l].at = "exec" /\ loading[l].i <= Len(loading[l].batch)
  /\ LET p == loading[l].batch[loading[l].i] IN
     \/ Fails(l)
     \/ /\ top' = [n \in TopNames |-> IF n \in Prev(loading[l].snap, p) THEN "none" ELSE top[n]]
        /\ cmds' \in {cmds, cmds \cup {p}}
        /\ comps' \in {comps, comps \cup {p}}
        /\ loading' = [loading EXCEPT ![l].i = @ + 1]
        /\ UNCHANGED exported
  /\ UNCHANGED loads

\* A name that an earlier plugin of the batch claims, or that the session had and
\* this plugin did not export.
Clash(l) ==
  \E i \in 1 .. Len(loading[l].batch) : \E n \in loading[l].exports[i] :
    \/ \E k \in 1 .. i - 1 : n \in loading[l].exports[k]
    \/ loading[l].snap.top[n] # "none" /\ n \notin Prev(loading[l].snap, loading[l].batch[i])

\* All bindings, or none.
commitPlugins(l) ==
  /\ loading[l].at = "exec" /\ loading[l].i > Len(loading[l].batch)
  /\ IF Clash(l) THEN Fails(l)
     ELSE LET b == loading[l].batch
              by(n) == {i \in 1 .. Len(b) : n \in loading[l].exports[i]}
              done == {b[i] : i \in 1 .. Len(b)} IN
          /\ top' = [n \in TopNames |->
                       IF by(n) # {} THEN b[CHOOSE i \in by(n) : \A k \in by(n) : k <= i] ELSE top[n]]
          /\ exported' = [p \in DOMAIN exported \cup done |->
                            IF p \in done THEN loading[l].exports[CHOOSE i \in 1 .. Len(b) : b[i] = p] ELSE exported[p]]
          /\ loading' = [loading EXCEPT ![l] = NoLoad]
          /\ UNCHANGED <<cmds, comps>>
  /\ UNCHANGED loads

LoadReturns(l) ==
  /\ loading[l].at = "failed" /\ loading' = [loading EXCEPT ![l] = NoLoad]
  /\ UNCHANGED <<sessionVars, loads>>

\* The session binds a name of its own.
UserBinds == \E n \in TopNames :
  /\ loading["fg"].at = "idle" /\ top' = [top EXCEPT ![n] = "user"]
  /\ UNCHANGED <<cmds, comps, exported, loading, loads>>

-----------------------------------------------------------------------------
PluginsInit ==
  /\ top = [n \in TopNames |-> "none"] /\ cmds = {} /\ comps = {} /\ exported = [p \in {} |-> {}]
  /\ loading = [l \in Loaders |-> NoLoad] /\ loads = 0

LoadStep(l) == LoadStarlarkPlugins(l) \/ executePlugin(l) \/ commitPlugins(l) \/ LoadReturns(l)
PluginsNext == (\E l \in Loaders : LoadStep(l)) \/ UserBinds

PluginsSpec == PluginsInit /\ [][PluginsNext]_pluginVars

-----------------------------------------------------------------------------
(* Properties                                                               *)

\* A load that fails, wherever in its batch, leaves the session's names, commands and
\* record, and the completers of the process, as they were.
RollbackWhole == \A l \in Loaders : loading[l].at = "failed" => Session = loading[l].snap

\* Between loads each name that a plugin bound is on that plugin's record, and no name
\* is on two records: what a reload hides is its own.
RecordsTrue ==
  (\A l \in Loaders : loading[l].at = "idle") =>
    /\ \A n \in TopNames : top[n] \notin {"none", "user"} => top[n] \in DOMAIN exported /\ n \in exported[top[n]]
    /\ \A p, q \in DOMAIN exported : p # q => exported[p] \cap exported[q] = {}

\* A name that the user bound and no plugin exports is not taken by a load.
UserNamesKept == [][\A n \in TopNames :
  top[n] = "user" /\ (\A p \in DOMAIN exported : n \notin exported[p]) => top'[n] = "user"]_pluginVars

\* Loading plugins leaves the session whole: by rollback when one fails, by records
\* that are true when none does, and never over the user's own names.
PluginsSafety == [](RollbackWhole /\ RecordsTrue) /\ UserNamesKept
=============================================================================
