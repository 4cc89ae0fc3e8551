-------------------------------- MODULE Grid --------------------------------
(***************************************************************************)
(* One member of the grid (internal/grid/grid_ee.go and vbin_ee.go): its    *)
(* membership token, its listener, the requests of peers, and the scratch   *)
(* worktrees that operators create and destroy, flights hold and agents     *)
(* check out. The tables are under one mutex; token files, listeners and    *)
(* directories are changed while it is released. Flights have a module of   *)
(* their own (Flight); here they are what holds a worktree.                 *)
(***************************************************************************)
EXTENDS Naturals, FiniteSets

CONSTANTS
  Ops,     \* calls that run at the same time
  Trees,   \* worktree identifiers
  Placed,  \* flight identifiers
  Sources, \* repositories an operator may bind to a flight
  MaxInits \* bound: grid init and grid serve commands

NoFlight == "-"
Destroying == "destroying"

ASSUME GridAssumption ==
  {NoFlight, Destroying, "absent"} \cap Placed = {} /\ "none" \notin Ops /\ MaxInits \in Nat

VARIABLES
  member,    \* the token of the membership, "none" before grid init
  tokens,    \* token files that exist
  listener,  \* the call whose listener is installed, or "none"
  openPorts, \* calls whose listener is open
  trees,     \* st.member.worktrees: absent, free, destroying or a flight
  dir,       \* the directory of a worktree: absent, empty or a clone of a source
  placed,    \* st.member.flights
  op,        \* where each call is
  inits      \* init and serve commands so far

gridVars == <<member, tokens, listener, openPorts, trees, dir, placed, op, inits>>
nodeVars == <<member, tokens, listener, openPorts, inits>>
treeVars == <<trees, dir, placed>>

Off == [pc |-> "off"]
NoRecord == [status |-> "none"]
Holds(f, w) == placed[f].status = "placed" /\ placed[f].tree = w

To(o, pc) == op' = [op EXCEPT ![o].pc = pc]
Done(o) == op' = [op EXCEPT ![o] = Off]
OpAt(o, pc) == op[o].pc = pc

-----------------------------------------------------------------------------
(* grid init: the token is read or written between two looks at the member. *)

InitLook(o) ==
  /\ op[o] = Off /\ inits < MaxInits /\ member = "none"
  /\ inits' = inits + 1
  /\ \E path \in {"t1", "t2"}, out \in BOOLEAN :
       op' = [op EXCEPT ![o] = [pc |-> "init", path |-> path, out |-> out]]
  /\ UNCHANGED <<member, tokens, listener, openPorts, treeVars>>

\* --token-out creates the file with O_EXCL, --token-file reads it.
InitToken(o) ==
  /\ OpAt(o, "init")
  /\ IF op[o].out
     THEN \/ /\ op[o].path \notin tokens
             /\ tokens' = tokens \cup {op[o].path} /\ To(o, "join")
          \/ UNCHANGED tokens /\ Done(o)
     ELSE /\ UNCHANGED tokens
          /\ IF op[o].path \in tokens THEN To(o, "join") ELSE Done(o)
  /\ UNCHANGED <<member, listener, openPorts, inits, treeVars>>

InitJoin(o) ==
  /\ OpAt(o, "join") /\ Done(o)
  /\ member' = IF member = "none" THEN op[o].path ELSE member
  /\ UNCHANGED <<tokens, listener, openPorts, inits, treeVars>>

-----------------------------------------------------------------------------
(* grid serve                                                               *)

ServeBind(o) ==
  /\ op[o] = Off /\ inits < MaxInits
  /\ inits' = inits + 1
  /\ \E path \in tokens : op' = [op EXCEPT ![o] = [pc |-> "install", path |-> path]]
  /\ openPorts' = openPorts \cup {o}
  /\ UNCHANGED <<member, tokens, listener, treeVars>>

\* A refused installation leaves the listener open.
installGridServer_Leaks(o) ==
  /\ OpAt(o, "install") /\ Done(o)
  /\ IF member # "none" /\ listener = "none" /\ member = op[o].path
     THEN listener' = o ELSE UNCHANGED listener
  /\ UNCHANGED <<member, tokens, openPorts, inits, treeVars>>

installGridServer(o) ==
  /\ OpAt(o, "install") /\ Done(o)
  /\ IF member # "none" /\ listener = "none" /\ member = op[o].path
     THEN listener' = o /\ UNCHANGED openPorts
     ELSE UNCHANGED listener /\ openPorts' = openPorts \ {o}
  /\ UNCHANGED <<member, tokens, inits, treeVars>>

-----------------------------------------------------------------------------
(* A request of a peer: token and gate are read under the lock, the body    *)
(* after it, and the action runs with the gate read then.                   *)

gridFlightHandler(o) == \E bearer \in tokens :
  /\ op[o] = Off /\ listener # "none" /\ bearer = member
  /\ \E f \in Placed, w \in Trees :
       \/ op' = [op EXCEPT ![o] = [pc |-> "ensure", flight |-> f, tree |-> w,
                                   remote |-> TRUE, source |-> "none"]]
       \/ op' = [op EXCEPT ![o] = [pc |-> "cancel", flight |-> f, remote |-> TRUE]]
  /\ UNCHANGED <<nodeVars, treeVars>>

-----------------------------------------------------------------------------
(* flight place and cancel, as far as worktrees are concerned               *)

flightPlace(o) == \E f \in Placed, w \in Trees, source \in Sources \cup {"none"} :
  /\ op[o] = Off /\ member # "none"
  /\ op' = [op EXCEPT ![o] = [pc |-> "ensure", flight |-> f, tree |-> w,
                              remote |-> FALSE, source |-> source]]
  /\ UNCHANGED <<nodeVars, treeVars>>

Ensured(w) == IF dir[w] = "absent" THEN [dir EXCEPT ![w] = "empty"] ELSE dir

PlaceEnsure(o) ==
  /\ OpAt(o, "ensure") /\ To(o, "register")
  /\ dir' = Ensured(op[o].tree)
  /\ UNCHANGED <<nodeVars, trees, placed>>

Bindable(w) == trees[w] \in {"absent", NoFlight}

registerFlight(o) ==
  /\ OpAt(o, "register") /\ Done(o)
  /\ IF placed[op[o].flight] = NoRecord /\ Bindable(op[o].tree)
     THEN /\ placed' = [placed EXCEPT ![op[o].flight] =
               [status |-> "placed", tree |-> op[o].tree, remote |-> op[o].remote, source |-> op[o].source]]
          /\ trees' = [trees EXCEPT ![op[o].tree] = op[o].flight]
     ELSE UNCHANGED <<placed, trees>>
  /\ UNCHANGED <<nodeVars, dir>>

flightCancel(o) == \E f \in Placed :
  /\ op[o] = Off /\ member # "none"
  /\ op' = [op EXCEPT ![o] = [pc |-> "cancel", flight |-> f, remote |-> FALSE]]
  /\ UNCHANGED <<nodeVars, treeVars>>

FreeTree(f) == [trees EXCEPT ![placed[f].tree] = IF @ = f THEN NoFlight ELSE @]

\* cancelFlight: a peer finds only the flights of peers. A flight that was
\* canceled before is canceled again.
cancelFlight(o) ==
  /\ OpAt(o, "cancel") /\ Done(o)
  /\ LET f == op[o].flight IN
     IF placed[f] = NoRecord \/ (op[o].remote /\ ~placed[f].remote)
     THEN UNCHANGED <<placed, trees>>
     ELSE /\ placed' = [placed EXCEPT ![f].status = "canceled"]
          /\ trees' = FreeTree(f)
  /\ UNCHANGED <<nodeVars, dir>>

-----------------------------------------------------------------------------
(* worktree create and destroy                                              *)

CreateLook(o) == \E w \in Trees :
  /\ op[o] = Off /\ member # "none" /\ trees[w] = "absent"
  /\ op' = [op EXCEPT ![o] = [pc |-> "mkdir", tree |-> w]]
  /\ UNCHANGED <<nodeVars, treeVars>>

CreateDir(o) ==
  /\ OpAt(o, "mkdir") /\ To(o, "record")
  /\ dir' = Ensured(op[o].tree)
  /\ UNCHANGED <<nodeVars, trees, placed>>

CreateRecord(o) ==
  /\ OpAt(o, "record") /\ Done(o)
  /\ trees' = IF trees[op[o].tree] = "absent" THEN [trees EXCEPT ![op[o].tree] = NoFlight] ELSE trees
  /\ UNCHANGED <<nodeVars, dir, placed>>

DestroyReserve(o) == \E w \in Trees :
  /\ op[o] = Off /\ trees[w] = NoFlight
  /\ trees' = [trees EXCEPT ![w] = Destroying]
  /\ op' = [op EXCEPT ![o] = [pc |-> "remove", tree |-> w]]
  /\ UNCHANGED <<nodeVars, dir, placed>>

\* RemoveAll, which may stop half way; a directory that is gone is an error.
removeWorktreeDir(o) ==
  /\ OpAt(o, "remove")
  /\ \/ dir[op[o].tree] # "absent" /\ dir' = [dir EXCEPT ![op[o].tree] = "absent"] /\ To(o, "removed")
     \/ UNCHANGED dir /\ To(o, "kept")
  /\ UNCHANGED <<nodeVars, trees, placed>>

DestroyFinish(o) ==
  /\ op[o].pc \in {"removed", "kept"} /\ Done(o)
  /\ trees' = IF trees[op[o].tree] # Destroying THEN trees
              ELSE [trees EXCEPT ![op[o].tree] = IF op[o].pc = "removed" THEN "absent" ELSE NoFlight]
  /\ UNCHANGED <<nodeVars, dir, placed>>

-----------------------------------------------------------------------------
(* worktree checkout by the agent of a flight, and repo cat                 *)

agentCheckoutSource(f) ==
  IF placed[f].status = "placed" THEN {placed[f].source} \ {"none"} ELSE {}

worktreeCheckout(o) == \E f \in Placed :
  /\ op[o] = Off /\ placed[f] # NoRecord
  /\ \E source \in agentCheckoutSource(f) :
       op' = [op EXCEPT ![o] = [pc |-> "clone", flight |-> f, tree |-> placed[f].tree, source |-> source]]
  /\ UNCHANGED <<nodeVars, treeVars>>

\* The flight may be gone by now; a directory that holds a clone refuses.
checkoutWorktree(o) ==
  /\ OpAt(o, "clone") /\ Done(o)
  /\ IF dir[op[o].tree] \in {"absent", "empty"}
     THEN \/ dir' = [dir EXCEPT ![op[o].tree] = op[o].source]
          \/ dir' = Ensured(op[o].tree)
     ELSE UNCHANGED dir
  /\ UNCHANGED <<nodeVars, trees, placed>>

-----------------------------------------------------------------------------
GridInit ==
  /\ member = "none" /\ tokens = {} /\ listener = "none" /\ openPorts = {}
  /\ inits = 0
  /\ trees = [w \in Trees |-> "absent"] /\ dir = [w \in Trees |-> "absent"]
  /\ placed = [f \in Placed |-> NoRecord]
  /\ op = [o \in Ops |-> Off]

DestroyStep(o) == removeWorktreeDir(o) \/ DestroyFinish(o)

GridNext == \E o \in Ops :
  \/ InitLook(o) \/ InitToken(o) \/ InitJoin(o) \/ ServeBind(o) \/ installGridServer(o)
  \/ gridFlightHandler(o) \/ flightPlace(o) \/ PlaceEnsure(o) \/ registerFlight(o)
  \/ flightCancel(o) \/ cancelFlight(o)
  \/ CreateLook(o) \/ CreateDir(o) \/ CreateRecord(o) \/ DestroyReserve(o) \/ DestroyStep(o)
  \/ worktreeCheckout(o) \/ checkoutWorktree(o)

GridSpec == GridInit /\ [][GridNext]_gridVars

-----------------------------------------------------------------------------
(* Properties.                                                              *)

\* Nobody loses a worktree under their feet: while destroyWorktree removes a
\* directory, with the mutex released, no live flight holds that worktree.
DestroySpares == \A o \in Ops : op[o].pc \in {"remove", "removed"} =>
  ~\E f \in Placed : Holds(f, op[o].tree)

\* The flight table and the worktree table agree on who holds what: a second
\* cancel of a flight, by its client's retry, never frees a worktree that another
\* flight holds by now.
TablesAgree == \A f \in Placed, w \in Trees : Holds(f, w) <=> trees[w] = f

\* One membership, one listener: whatever inits and serves race, a token file is
\* the member's for good, and every listener that is open is the installed one
\* or belongs to a call that has not been decided.
OneMembership == [][member # "none" => member' = member]_gridVars
OneOpenListener == \A o \in openPorts : o = listener \/ OpAt(o, "install")

\* An agent clones only what a local operator bound to its flight; the flight of
\* a peer can clone nothing.
ClonesBound == \A o \in Ops : OpAt(o, "clone") =>
  ~placed[op[o].flight].remote /\ placed[op[o].flight].source = op[o].source

\* A worktree does not stay reserved for a destroy that failed.
DestroyEnds == \A w \in Trees : trees[w] = Destroying ~> trees[w] # Destroying

\* The tables of the grid stay true through concurrent inits, serves, placements,
\* cancels, creates, destroys and checkouts.
GridSafety ==
  [](DestroySpares /\ TablesAgree /\ OneOpenListener /\ ClonesBound) /\ OneMembership
=============================================================================
