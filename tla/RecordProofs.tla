---------------------------- MODULE RecordProofs ----------------------------
(***************************************************************************)
(* Machine-checked proofs about Attach, for every number of HTTP calls,    *)
(* keys, sessions and requests, with every fault and every interleaving of *)
(* calls, decisions, renames and ends of sessions; about AuditChain, for   *)
(* every number of processes and appends and every combination of crashes  *)
(* and failing calls; and about the records that both keep (MCProgress).   *)
(***************************************************************************)
EXTENDS MCProgress, FiniteSetTheorems, NaturalsInduction, TLAPS

-----------------------------------------------------------------------------
(* Attach.                                                                 *)

Stages == {"idle", "gate", "capacity", "approval", "reserve", "logDetach"} \cup Holding

\* A call outside serveAttach is blank; a place is held exactly in the stages from the
\* reservation to the release; only control needs an approval.
Shape ==
    /\ \A h \in Handlers :
          /\ pc[h] = "idle" => args[h] = NoArgs
          /\ pc[h] # "idle" => args[h] \in Args /\ owner[h] \in Users
          /\ pc[h] \in {"approval", "consume"} => args[h].rw
    /\ \A h \in Handlers, s \in Sessions :
          h \in entries[s] <=> (pc[h] \in Holding /\ args[h].session = s)

\* The session's controller is the key of the one rw call among its places, and the
\* others are few.
Seated(s) ==
    /\ \A h \in entries[s] : args[h].rw => controller[s] = args[h].key
    /\ \A h, g \in entries[s] : args[h].rw /\ args[g].rw => h = g
    /\ (\A h \in entries[s] : ~args[h].rw) => controller[s] = NoName
    /\ IsFiniteSet(entries[s]) /\ Cardinality(Views(s)) <= MaxViewers

Places == \A s \in Sessions : Seated(s)

\* Who decided a request was one of those its file names.
Entrusted(r) ==
    LET p == request[r]  v == verdict[r] IN
    /\ v.who # p.key
    /\ p.approver # NoName => v.who = p.approver
    /\ p.notApprover # NoName => v.who # p.notApprover
    /\ p.surface # NoName => v.surface = p.surface
    /\ v.surface = "http" => v.who \in Keys

\* The request of a slot asks what its key, session and purpose ask, of some user; a
\* claimed or decided request was decided by someone entrusted; those still to be
\* opened are untouched.
RequestsOK ==
    /\ \A k \in Slots : open[k] # NoRequest =>
          open[k] <= opened /\ \E u \in Users : request[open[k]] = Ask(k, u)
    /\ \A r \in Requests :
          /\ file[r] = "claimed" \/ verdict[r].marker # "none" => Entrusted(r)
          /\ r > opened => file[r] = "none" /\ verdict[r].marker = "none"

\* A call that was granted control holds the request of its own key and purpose, and
\* someone entrusted decided it.
Granted ==
    \A h \in Handlers : pc[h] \in Holding \cup {"reserve"} /\ args[h].rw =>
        /\ grant[h] \in Requests /\ grant[h] <= opened /\ Entrusted(grant[h])
        /\ \E u \in Users : request[grant[h]] = Ask(args[h], u)

\* The inductive invariant.
AttachInv ==
    TypeOK /\ Shape /\ Places /\ AttachEndsWithSession /\ RequestsOK /\ Granted

-----------------------------------------------------------------------------
(* What the steps do to calls, sessions and requests.                      *)

\* A call goes from one stage to the next and keeps its place, or the lack of one.
Moves(h) ==
    \E to \in Stages :
        /\ <<pc[h], to>> \in {<<"gate", "capacity">>, <<"capacity", "approval">>,
              <<"capacity", "reserve">>, <<"approval", "reserve">>, <<"consume", "log">>,
              <<"log", "switch">>, <<"switch", "stream">>, <<"switch", "release">>,
              <<"stream", "release">>}
        /\ to = "approval" => args[h].rw
        /\ pc[h] = "capacity" /\ to = "reserve" => ~args[h].rw
        /\ pc' = [pc EXCEPT ![h] = to]
        /\ IF pc[h] = "approval" THEN FindApproved(h) ELSE UNCHANGED grant
        /\ UNCHANGED <<args, owner, placeVars>>

\* A call returns from a stage in which it holds no place.
GivesUp(h) ==
    /\ pc[h] \in {"gate", "capacity", "approval", "reserve", "logDetach"}
    /\ Returns(h) /\ UNCHANGED placeVars

\* A call takes a place on a session that is live and has room.
Takes(h) ==
    /\ pc[h] = "reserve" /\ life[args[h].session] = "live" /\ HasRoom(args[h])
    /\ controller' = IF args[h].rw THEN [controller EXCEPT ![args[h].session] = args[h].key]
                     ELSE controller
    /\ entries' = [entries EXCEPT ![args[h].session] = @ \cup {h}]
    /\ pc' = [pc EXCEPT ![h] = IF args[h].rw THEN "consume" ELSE "log"]
    /\ UNCHANGED <<args, owner, grant>>

\* A call gives its place back, to return or to log the detach.
Leaves(h) ==
    /\ ReleaseAttach(h)
    /\ \/ pc[h] = "log" /\ Returns(h)
       \/ /\ pc[h] = "release" /\ pc' = [pc EXCEPT ![h] = "logDetach"]
          /\ UNCHANGED <<args, owner, grant>>

LEMMA CallKinds ==
    ASSUME [Next]_vars
    PROVE  \/ UNCHANGED <<pc, args, owner, grant, placeVars>>
           \/ \E h \in Handlers : \/ \E a \in Args : Lookup(h, a)
                                  \/ Moves(h) \/ GivesUp(h) \/ Takes(h) \/ Leaves(h)
<1>1. CASE UNCHANGED vars  BY <1>1 DEF vars, callVars, placeVars
<1>2. CASE \E s \in Sessions : \/ Unregister(s) \/ EndSessionAttaches(s)
                               \/ SetIdentitySource(s)
                               \/ \E u \in Users : SetIdentity(s, u)
  BY <1>2 DEF Unregister, EndSessionAttaches, SetIdentitySource, SetIdentity, callVars, placeVars
<1>3. CASE \E r \in Requests : \/ Deadline(r)
                               \/ \E m \in {"approved", "denied"} : MarkRequest(r, m)
                               \/ \E who \in Keys \cup Users, sf \in {"http", "shell"} :
                                     ClaimRequest(r, who, sf)
  BY <1>3 DEF Deadline, MarkRequest, ClaimRequest, callVars, placeVars
<1>4. CASE \E h \in Handlers : EndStream(h)  BY <1>4 DEF EndStream, placeVars
<1>5. CASE \E h \in Handlers : \E a \in Args : Lookup(h, a)  BY <1>5
<1>6. ASSUME NEW h \in Handlers, HandlerStep(h)
      PROVE  Moves(h) \/ GivesUp(h) \/ Takes(h) \/ Leaves(h)
  <2>1. CASE SnoopGate(h)
    BY <2>1 DEF SnoopGate, Moves, GivesUp, Goes, callVars, Stages, Holding
  <2>2. CASE AttachCapacity(h)
    <3>1. CASE HasRoom(args[h])
      <4>1. PICK to : to = IF args[h].rw THEN "approval" ELSE "reserve"  OBVIOUS
      <4> QED  BY <2>2, <3>1, <4>1 DEF AttachCapacity, Moves, Goes, callVars, Stages, Holding
    <3>2. CASE ~HasRoom(args[h])  BY <2>2, <3>2 DEF AttachCapacity, GivesUp
    <3> QED  BY <3>1, <3>2
  <2>3. CASE SnoopApprovalState(h)
    <3>1. CASE FindApproved(h)
      <4>1. /\ pc[h] = "approval" /\ pc' = [pc EXCEPT ![h] = "reserve"]
            /\ UNCHANGED <<args, owner, placeVars>>
        BY <2>3, <3>1 DEF SnoopApprovalState, FindApproved, Goes
      <4> QED  BY <3>1, <4>1 DEF Moves, Stages
    <3>2. CASE ~FindApproved(h)
      BY <2>3, <3>2 DEF SnoopApprovalState, FindDenied, FindPending, OpenRequest, GivesUp
    <3> QED  BY <3>1, <3>2
  <2>4. CASE ReserveAttach(h)
    BY <2>4 DEF ReserveAttach, Reserved, Takes, GivesUp, Goes, callVars
  <2>5. CASE ConsumeSnoopApproval(h)
    BY <2>5 DEF ConsumeSnoopApproval, Moves, Goes, callVars, Stages, Holding
  <2>6. CASE LogAttach(h)
    BY <2>6 DEF LogAttach, Moves, Leaves, Goes, callVars, Stages, Holding
  <2>7. CASE SwitchProtocols(h)
    BY <2>7 DEF SwitchProtocols, Moves, Goes, Stages, Holding
  <2>8. CASE StreamOver(h)
    BY <2>8 DEF StreamOver, Moves, Goes, callVars, Stages, Holding
  <2>9. CASE DetachRelease(h)
    BY <2>9 DEF DetachRelease, Leaves, Goes, callVars
  <2>10. CASE LogDetach(h)
    BY <2>10 DEF LogDetach, GivesUp
  <2> QED  BY <1>6, <2>1, <2>2, <2>3, <2>4, <2>5, <2>6, <2>7, <2>8, <2>9, <2>10 DEF HandlerStep
<1> QED  BY <1>1, <1>2, <1>3, <1>4, <1>5, <1>6 DEF Next

\* Calls enter only through Lookup, and only rw calls are granted anything.
LEMMA ShapeStep ==
    ASSUME AttachInv, [Next]_vars PROVE Shape'
<1>0. /\ TypeOK /\ Shape
      /\ pc \in [Handlers -> Stages] /\ args \in [Handlers -> Args \cup {NoArgs}]
      /\ owner \in [Handlers -> Users \cup {NoName}] /\ entries \in [Sessions -> SUBSET Handlers]
  BY DEF AttachInv, TypeOK, Stages
<1>1. CASE UNCHANGED <<pc, args, owner, grant, placeVars>>
  BY <1>0, <1>1 DEF Shape, placeVars
<1>2. CASE \E h \in Handlers, a \in Args : Lookup(h, a)
  <2>1. PICK h \in Handlers, a \in Args : Lookup(h, a)  BY <1>2
  <2>2. user[a.session] \in Users  BY <1>0 DEF TypeOK, Args
  <2>3. /\ pc[h] = "idle" /\ pc' = [pc EXCEPT ![h] = "gate"] /\ args' = [args EXCEPT ![h] = a]
        /\ owner' = [owner EXCEPT ![h] = user[a.session]] /\ entries' = entries
    BY <2>1 DEF Lookup, placeVars
  <2> QED  BY <1>0, <2>2, <2>3 DEF Shape, Holding
<1>3. CASE \E h \in Handlers : Moves(h)
  <2>1. PICK h \in Handlers, to \in Stages :
        /\ <<pc[h], to>> \in {<<"gate", "capacity">>, <<"capacity", "approval">>,
              <<"capacity", "reserve">>, <<"approval", "reserve">>, <<"consume", "log">>,
              <<"log", "switch">>, <<"switch", "stream">>, <<"switch", "release">>,
              <<"stream", "release">>}
        /\ to = "approval" => args[h].rw
        /\ pc' = [pc EXCEPT ![h] = to] /\ UNCHANGED <<args, owner, entries>>
    BY <1>3 DEF Moves, placeVars
  <2>2. /\ pc[h] # "idle" /\ to \notin {"idle", "consume"}
        /\ pc[h] \in Holding <=> to \in Holding
    BY <2>1 DEF Holding
  <2> QED  BY <1>0, <2>1, <2>2 DEF Shape
<1>4. CASE \E h \in Handlers : GivesUp(h)
  <2>1. PICK h \in Handlers : GivesUp(h)  BY <1>4
  <2>2. /\ pc[h] \notin Holding /\ entries' = entries
        /\ pc' = [pc EXCEPT ![h] = "idle"] /\ args' = [args EXCEPT ![h] = NoArgs]
        /\ owner' = [owner EXCEPT ![h] = NoName]
    BY <2>1 DEF GivesUp, Returns, Holding, placeVars
  <2> QED  BY <1>0, <2>2 DEF Shape, Holding
<1>5. CASE \E h \in Handlers : Takes(h)
  <2>1. PICK h \in Handlers : Takes(h)  BY <1>5
  <2>2. PICK to \in Holding : /\ to = "consume" => args[h].rw
                              /\ pc' = [pc EXCEPT ![h] = to]
    BY <2>1 DEF Takes, Holding
  <2>3. /\ pc[h] = "reserve" /\ entries' = [entries EXCEPT ![args[h].session] = @ \cup {h}]
        /\ UNCHANGED <<args, owner>>
    BY <2>1 DEF Takes
  <2>4. args[h] \in Args /\ args[h].session \in Sessions /\ owner[h] \in Users
    BY <1>0, <2>3 DEF Shape, Args
  <2>5. to \notin {"idle", "approval"} /\ "reserve" \notin Holding  BY <2>2 DEF Holding
  <2> QED  BY <1>0, <2>2, <2>3, <2>4, <2>5 DEF Shape
<1>6. CASE \E h \in Handlers : Leaves(h)
  <2>1. PICK h \in Handlers : Leaves(h)  BY <1>6
  <2>2. /\ pc[h] \in Holding /\ entries' = [entries EXCEPT ![args[h].session] = @ \ {h}]
    BY <2>1 DEF Leaves, ReleaseAttach, Holding
  <2>3. args[h] \in Args /\ args[h].session \in Sessions /\ owner[h] \in Users
    BY <1>0, <2>2 DEF Shape, Args, Holding
  <2>4. \A s \in Sessions : entries'[s] = entries[s] \ {h}
    BY <1>0, <2>2, <2>3 DEF Shape
  <2>5. CASE Returns(h)
    BY <1>0, <2>4, <2>5 DEF Shape, Returns, Holding
  <2>6. CASE pc' = [pc EXCEPT ![h] = "logDetach"] /\ UNCHANGED <<args, owner, grant>>
    BY <1>0, <2>3, <2>4, <2>6 DEF Shape, Holding
  <2> QED  BY <2>1, <2>5, <2>6 DEF Leaves
<1> QED  BY <1>1, <1>2, <1>3, <1>4, <1>5, <1>6, CallKinds

\* What a session's places are only depends on its own calls.
LEMMA PlacesKept ==
    ASSUME NEW s \in Sessions, Seated(s), entries'[s] = entries[s], controller'[s] = controller[s],
           \A h \in entries[s] : args'[h] = args[h]
    PROVE  Seated(s)'
<1>1. Views(s)' = Views(s)  BY DEF Views
<1> QED  BY <1>1 DEF Seated

LEMMA PlacesStep ==
    ASSUME AttachInv, [Next]_vars PROVE Places'
<1>0. /\ TypeOK /\ Shape /\ Places /\ NoName \notin Keys
      /\ controller \in [Sessions -> Keys \cup {NoName}]
      /\ args \in [Handlers -> Args \cup {NoArgs}]
      /\ entries \in [Sessions -> SUBSET Handlers]
  BY ConstantsAssumption DEF AttachInv, TypeOK
<1>s. SUFFICES ASSUME NEW s \in Sessions PROVE Seated(s)'
  BY DEF Places
<1>p. Seated(s)  BY <1>0 DEF Places
<1>1. CASE UNCHANGED <<pc, args, owner, grant, placeVars>>
  BY <1>1, <1>p, PlacesKept DEF placeVars
<1>2. CASE \E h \in Handlers, a \in Args : Lookup(h, a)
  <2>1. PICK h \in Handlers, a \in Args : Lookup(h, a)  BY <1>2
  <2>2. /\ h \notin entries[s] /\ UNCHANGED <<controller, entries>>
        /\ args' = [args EXCEPT ![h] = a]
    BY <1>0, <2>1 DEF Lookup, Shape, Holding, placeVars
  <2> QED  BY <1>0, <1>p, <2>2, PlacesKept
<1>3. CASE \E h \in Handlers : Moves(h)
  BY <1>3, <1>p, PlacesKept DEF Moves, placeVars
<1>4. CASE \E h \in Handlers : GivesUp(h)
  <2>1. PICK h \in Handlers : GivesUp(h)  BY <1>4
  <2>2. /\ h \notin entries[s] /\ UNCHANGED <<controller, entries>>
        /\ args' = [args EXCEPT ![h] = NoArgs]
    BY <1>0, <2>1 DEF GivesUp, Returns, Shape, Holding, placeVars
  <2> QED  BY <1>0, <1>p, <2>2, PlacesKept
<1>5. CASE \E h \in Handlers : Takes(h)
  <2>1. PICK h \in Handlers : Takes(h)  BY <1>5
  <2>2. PICK a \in Args : a = args[h]  BY <1>0, <2>1 DEF Takes, Shape
  <2>3. /\ a.session \in Sessions /\ a.key \in Keys /\ HasRoom(a) /\ h \notin entries[a.session]
        /\ entries' = [entries EXCEPT ![a.session] = @ \cup {h}] /\ UNCHANGED args
        /\ controller' = IF a.rw THEN [controller EXCEPT ![a.session] = a.key] ELSE controller
    BY <1>0, <2>1, <2>2 DEF Takes, Shape, Holding, Args
  <2>4. CASE s # a.session
    BY <1>0, <1>p, <2>3, <2>4, PlacesKept
  <2>5. CASE s = a.session /\ a.rw
    <3>1. \A g \in entries[s] : ~args[g].rw
      <4>1. controller[s] = NoName  BY <2>3, <2>5 DEF HasRoom
      <4>2. \A g \in entries[s] : args[g].key \in Keys
        BY <1>0 DEF Shape, Holding, Args
      <4> QED  BY <1>0, <1>p, <4>1, <4>2 DEF Seated
    <3>2. entries'[s] = entries[s] \cup {h} /\ controller'[s] = a.key
      BY <1>0, <2>3, <2>5
    <3>3. Views(s)' = Views(s)  BY <2>2, <2>3, <2>5, <3>2 DEF Views
    <3>4. IsFiniteSet(entries'[s])  BY <1>p, <3>2, FS_AddElement DEF Seated
    <3> QED  BY <1>p, <2>2, <2>3, <2>5, <3>1, <3>2, <3>3, <3>4 DEF Seated
  <2>6. CASE s = a.session /\ ~a.rw
    <3>2. entries'[s] = entries[s] \cup {h} /\ controller'[s] = controller[s]
      BY <1>0, <2>3, <2>6
    <3>3. Views(s)' = Views(s) \cup {h} /\ h \notin Views(s)
      BY <2>2, <2>3, <2>6, <3>2 DEF Views
    <3>4. IsFiniteSet(entries'[s])  BY <1>p, <3>2, FS_AddElement DEF Seated
    <3>5. IsFiniteSet(Views(s))
      <4>1. Views(s) \subseteq entries[s]  BY DEF Views
      <4> QED  BY <4>1, <1>p, FS_Subset DEF Seated
    <3>6. Cardinality(Views(s)') = Cardinality(Views(s)) + 1 /\ Cardinality(Views(s)) \in Nat
      BY <3>3, <3>5, FS_AddElement, FS_CardinalityType
    <3>7. Cardinality(Views(s)) < MaxViewers  BY <2>3, <2>6 DEF HasRoom
    <3>8. Cardinality(Views(s)') <= MaxViewers
      BY <3>6, <3>7, ConstantsAssumption
    <3> QED  BY <1>p, <2>2, <2>3, <2>6, <3>2, <3>4, <3>8 DEF Seated
  <2> QED  BY <2>4, <2>5, <2>6
<1>6. CASE \E h \in Handlers : Leaves(h)
  <2>1. PICK h \in Handlers : Leaves(h)  BY <1>6
  <2>2. PICK a \in Args : a = args[h]  BY <1>0, <2>1 DEF Leaves, Shape
  <2>3. /\ a.session \in Sessions /\ h \in entries[a.session]
        /\ entries' = [entries EXCEPT ![a.session] = @ \ {h}]
        /\ \A g \in Handlers : g # h => args'[g] = args[g]
        /\ controller' = IF a.rw /\ controller[a.session] = a.key
                         THEN [controller EXCEPT ![a.session] = NoName] ELSE controller
    BY <1>0, <2>1, <2>2 DEF Leaves, ReleaseAttach, Returns, Shape, Holding, Args
  <2>4. CASE s # a.session
    <3>1. h \notin entries[s]  BY <1>0, <2>2, <2>4 DEF Shape
    <3> QED  BY <1>0, <1>p, <2>3, <2>4, <3>1, PlacesKept
  <2>5. CASE s = a.session
    <3>1. entries'[s] = entries[s] \ {h} /\ h \in entries[s]  BY <1>0, <2>3, <2>5
    <3>2. \A g \in entries'[s] : args'[g] = args[g] /\ g # h /\ g \in entries[s]
      BY <1>0, <2>3, <3>1
    <3>3. IsFiniteSet(entries'[s])  BY <1>p, <3>1, FS_RemoveElement DEF Seated
    <3>4. Views(s)' \subseteq Views(s)  BY <3>2 DEF Views
    <3>5. Views(s) \subseteq entries[s]  BY DEF Views
    <3>6. IsFiniteSet(Views(s))  BY <3>5, <1>p, FS_Subset DEF Seated
    <3>7. Cardinality(Views(s)') <= Cardinality(Views(s)) /\ IsFiniteSet(Views(s)')
      BY <3>4, <3>6, FS_Subset
    <3>8. Cardinality(Views(s)') \in Nat /\ Cardinality(Views(s)) \in Nat
      BY <3>6, <3>7, FS_CardinalityType
    <3>9. Cardinality(Views(s)') <= MaxViewers
      BY <1>p, <3>7, <3>8, ConstantsAssumption DEF Seated
    <3>10. CASE a.rw
      <4>1. controller'[s] = NoName  BY <1>0, <1>p, <2>2, <2>3, <2>5, <3>1, <3>10 DEF Seated
      <4>2. \A g \in entries'[s] : ~args'[g].rw
        BY <1>p, <2>2, <3>1, <3>2, <3>10 DEF Seated
      <4> QED  BY <3>3, <3>9, <4>1, <4>2 DEF Seated
    <3>11. CASE ~a.rw
      <4>1. controller'[s] = controller[s]  BY <2>3, <3>11
      <4>2. (\A g \in entries'[s] : ~args'[g].rw) => \A g \in entries[s] : ~args[g].rw
        BY <2>2, <3>1, <3>2, <3>11
      <4> QED  BY <1>p, <3>2, <3>3, <3>9, <4>1, <4>2 DEF Seated
    <3> QED  BY <3>10, <3>11
  <2> QED  BY <2>4, <2>5
<1> QED  BY <1>1, <1>2, <1>3, <1>4, <1>5, <1>6, CallKinds

\* Only the unregister hook makes a session gone, and a call that was canceled is so
\* until it returns.
LEMMA EndKinds ==
    ASSUME AttachInv, [Next]_vars
    PROVE  \/ \E s \in Sessions : EndSessionAttaches(s)
           \/ /\ \A s \in Sessions : life'[s] = "gone" => life[s] = "gone"
              /\ \A h \in Handlers : ended[h] => ended'[h] \/ pc'[h] = "idle"
<1>0. /\ life \in [Sessions -> {"live", "closing", "gone"}]
      /\ ended \in [Handlers -> BOOLEAN] /\ pc \in [Handlers -> Stages]
  BY DEF AttachInv, TypeOK, Stages
<1>1. CASE UNCHANGED vars  BY <1>1 DEF vars, callVars, sessionVars
<1>2. CASE \E s \in Sessions : \/ Unregister(s) \/ SetIdentitySource(s)
                               \/ \E u \in Users : SetIdentity(s, u)
  BY <1>0, <1>2 DEF Unregister, SetIdentitySource, SetIdentity, callVars
<1>3. CASE \E r \in Requests : \/ Deadline(r)
                               \/ \E m \in {"approved", "denied"} : MarkRequest(r, m)
                               \/ \E who \in Keys \cup Users, sf \in {"http", "shell"} :
                                     ClaimRequest(r, who, sf)
  BY <1>3 DEF Deadline, MarkRequest, ClaimRequest, callVars, sessionVars
<1>4. ASSUME NEW h \in Handlers, HandlerStep(h) \/ EndStream(h) \/ \E a \in Args : Lookup(h, a)
      PROVE  life' = life
  BY <1>4 DEF HandlerStep, EndStream, Lookup, SnoopGate, AttachCapacity, SnoopApprovalState,
     ReserveAttach, ConsumeSnoopApproval, LogAttach, SwitchProtocols, StreamOver,
     DetachRelease, LogDetach, sessionVars
<1>5. ASSUME NEW h \in Handlers, HandlerStep(h) \/ EndStream(h) \/ \E a \in Args : Lookup(h, a)
      PROVE  \/ ended' = ended \/ ended' = [ended EXCEPT ![h] = TRUE]
             \/ ended' = [ended EXCEPT ![h] = FALSE] /\ pc' = [pc EXCEPT ![h] = "idle"]
  BY <1>5 DEF HandlerStep, EndStream, Lookup, SnoopGate, AttachCapacity, SnoopApprovalState,
     FindApproved, FindDenied, FindPending, OpenRequest, ReserveAttach, Reserved,
     ConsumeSnoopApproval, LogAttach, SwitchProtocols, StreamOver, DetachRelease, LogDetach,
     Returns, callVars
<1> QED  BY <1>0, <1>1, <1>2, <1>3, <1>4, <1>5 DEF Next

\* A session that is gone stays gone, its places stay canceled, and none is added.
LEMMA EndsStep ==
    ASSUME AttachInv, [Next]_vars PROVE AttachEndsWithSession'
<1>0. /\ Shape /\ AttachEndsWithSession /\ Shape' /\ ended \in [Handlers -> BOOLEAN]
      /\ life \in [Sessions -> {"live", "closing", "gone"}]
      /\ pc \in [Handlers -> Stages] /\ entries \in [Sessions -> SUBSET Handlers]
  BY ShapeStep DEF AttachInv, TypeOK, Stages
<1>s. SUFFICES ASSUME NEW s \in Sessions, life'[s] = "gone", NEW h \in entries'[s]
               PROVE  ended'[h]
  BY DEF AttachEndsWithSession
<1>1. CASE \E x \in Sessions : EndSessionAttaches(x)
  <2>1. PICK x \in Sessions : EndSessionAttaches(x)  BY <1>1
  <2>2. /\ entries' = entries /\ life' = [life EXCEPT ![x] = "gone"]
        /\ ended' = [g \in Handlers |-> ended[g] \/ g \in entries[x]]
    BY <2>1 DEF EndSessionAttaches, placeVars
  <2>3. h \in entries[s] /\ h \in Handlers  BY <1>0, <1>s, <2>2
  <2>4. s = x \/ ended[h]  BY <1>0, <1>s, <2>2, <2>3 DEF AttachEndsWithSession
  <2> QED  BY <2>2, <2>3, <2>4
<1>2. CASE ~\E x \in Sessions : EndSessionAttaches(x)
  <2>1. /\ life[s] = "gone"
        /\ \A g \in Handlers : ended[g] => ended'[g] \/ pc'[g] = "idle"
    BY <1>2, <1>s, EndKinds
  <2>2. entries'[s] \subseteq entries[s]
    <3>1. ASSUME NEW x \in Handlers, Takes(x) PROVE entries'[s] = entries[s]
      BY <1>0, <2>1, <3>1 DEF Takes
    <3>2. ASSUME NEW x \in Handlers, Leaves(x) PROVE entries'[s] \subseteq entries[s]
      BY <1>0, <3>2 DEF Leaves, ReleaseAttach
    <3> QED  BY <3>1, <3>2, CallKinds DEF placeVars, Lookup, Moves, GivesUp
  <2>3. h \in entries[s] /\ h \in Handlers  BY <1>0, <1>s, <2>2
  <2>4. ended[h]  BY <1>0, <2>1, <2>3 DEF AttachEndsWithSession
  <2>5. pc'[h] # "idle"  BY <1>0, <1>s, <2>3 DEF Shape, Holding
  <2> QED  BY <2>1, <2>3, <2>4, <2>5
<1> QED  BY <1>1, <1>2

-----------------------------------------------------------------------------
(* Requests.                                                               *)

\* A new request is opened on a slot, or could not be audited; the slot's old one is
\* dropped.
Opens(h) ==
    LET k == SlotOf(args[h])  r == opened + 1 IN
    /\ pc[h] = "approval" /\ opened < MaxRequests /\ opened' = r
    /\ request' = [request EXCEPT ![r] = Ask(args[h], owner[h])]
    /\ \A q \in Requests : verdict'[q] \in {verdict[q], [verdict[q] EXCEPT !.marker = "none"]}
    /\ \E new \in {r, NoRequest} : open' = [open EXCEPT ![k] = new]
    /\ \A q \in Requests : file'[q] \in {file[q], "none"} \/ (q = r /\ file'[q] = "pending")

\* No request is opened or claimed, none is on more slots than before, and a marker is
\* only removed.
Drops ==
    /\ UNCHANGED <<request, opened>>
    /\ \A k \in Slots : open'[k] \in {open[k], NoRequest}
    /\ \A r \in Requests :
          /\ verdict'[r] \in {verdict[r], [verdict[r] EXCEPT !.marker = "none"]}
          /\ file'[r] \in {file[r], "none"}

LEMMA RequestKinds ==
    ASSUME AttachInv, [Next]_vars
    PROVE  \/ Drops
           \/ \E r \in Requests, who \in Keys \cup Users, sf \in {"http", "shell"} :
                  ClaimRequest(r, who, sf)
           \/ \E r \in Requests, m \in {"approved", "denied"} : MarkRequest(r, m)
           \/ \E h \in Handlers : Opens(h)
<1>0. /\ verdict \in [Requests -> [marker : {"none", "approved", "denied"}, who : Names,
                                   surface : {"http", "shell", NoName}]]
      /\ open \in [Slots -> Requests \cup {NoRequest}]
      /\ file \in [Requests -> {"none", "pending", "claimed"}]
      /\ args \in [Handlers -> Args \cup {NoArgs}] /\ Shape
  BY DEF AttachInv, TypeOK
<1>1. UNCHANGED <<open, request, file, verdict, opened>> => Drops  BY <1>0 DEF Drops
<1>2. CASE UNCHANGED vars  BY <1>1, <1>2 DEF vars, requestVars
<1>3. ASSUME NEW s \in Sessions, \/ Unregister(s) \/ SetIdentitySource(s)
                                 \/ \E u \in Users : SetIdentity(s, u)
      PROVE  Drops
  BY <1>1, <1>3 DEF Unregister, SetIdentitySource, SetIdentity, requestVars
<1>4. ASSUME NEW s \in Sessions, EndSessionAttaches(s) PROVE Drops
  BY <1>0, <1>4 DEF EndSessionAttaches, Drops
<1>5. ASSUME NEW r \in Requests, Deadline(r) PROVE Drops  BY <1>1, <1>5 DEF Deadline
<1>6. ASSUME NEW h \in Handlers,
             \/ SnoopGate(h) \/ AttachCapacity(h) \/ ReserveAttach(h) \/ LogAttach(h)
             \/ SwitchProtocols(h) \/ StreamOver(h) \/ DetachRelease(h) \/ LogDetach(h)
             \/ EndStream(h) \/ \E a \in Args : Lookup(h, a)
      PROVE  Drops
  BY <1>1, <1>6 DEF SnoopGate, AttachCapacity, ReserveAttach, LogAttach, SwitchProtocols,
     StreamOver, DetachRelease, LogDetach, EndStream, Lookup, requestVars
<1>7. ASSUME NEW h \in Handlers, ConsumeSnoopApproval(h) PROVE Drops
  BY <1>0, <1>7 DEF ConsumeSnoopApproval, Drops
<1>8. ASSUME NEW h \in Handlers, SnoopApprovalState(h) PROVE Drops \/ Opens(h)
  <2>1. CASE FindApproved(h) \/ FindPending(h)
    BY <1>1, <2>1 DEF FindApproved, FindPending, requestVars
  <2>2. CASE FindDenied(h)  BY <1>0, <2>2 DEF FindDenied, Drops
  <2>3. CASE OpenRequest(h)
    <3>1. pc[h] = "approval"  BY <1>8 DEF SnoopApprovalState
    <3>2. /\ opened < MaxRequests /\ opened' = opened + 1
          /\ request' = [request EXCEPT ![opened + 1] = Ask(args[h], owner[h])]
      BY <2>3 DEF OpenRequest
    <3>3. \A q \in Requests : verdict'[q] \in {verdict[q], [verdict[q] EXCEPT !.marker = "none"]}
      BY <2>3 DEF OpenRequest
    <3>4. \E new \in {opened + 1, NoRequest} : open' = [open EXCEPT ![SlotOf(args[h])] = new]
      BY <2>3 DEF OpenRequest
    <3>5. \A q \in Requests :
             file'[q] \in {file[q], "none"} \/ (q = opened + 1 /\ file'[q] = "pending")
      BY <2>3 DEF OpenRequest
    <3> QED  BY <3>1, <3>2, <3>3, <3>4, <3>5 DEF Opens
  <2> QED  BY <1>8, <2>1, <2>2, <2>3 DEF SnoopApprovalState
<1> QED  BY <1>2, <1>3, <1>4, <1>5, <1>6, <1>7, <1>8 DEF Next, HandlerStep

\* Whoever was entrusted with an open request stays so, and what it asks stays asked.
LEMMA EntrustedKept ==
    ASSUME AttachInv, [Next]_vars, NEW r \in Requests, r <= opened, Entrusted(r)
    PROVE  Entrusted(r)' /\ request'[r] = request[r] /\ r <= opened'
<1>0. /\ verdict \in [Requests -> [marker : {"none", "approved", "denied"}, who : Names,
                                   surface : {"http", "shell", NoName}]]
      /\ request \in [Requests -> [key : Keys \cup {NoName}, owner : Users \cup {NoName},
                                   approver : Names, notApprover : Names,
                                   surface : {"http", NoName}]]
      /\ opened \in Nat /\ r \in Nat
  BY ConstantsAssumption DEF AttachInv, TypeOK, Requests
<1>1. ASSUME request'[r] = request[r], verdict'[r].who = verdict[r].who,
             verdict'[r].surface = verdict[r].surface
      PROVE  Entrusted(r)'
  BY <1>1 DEF Entrusted
<1>2. CASE Drops  BY <1>0, <1>1, <1>2 DEF Drops
<1>3. CASE \E q \in Requests, who \in Keys \cup Users, sf \in {"http", "shell"} :
               ClaimRequest(q, who, sf)
  <2>1. PICK q \in Requests, who \in Keys \cup Users, sf \in {"http", "shell"} :
               ClaimRequest(q, who, sf)
    BY <1>3
  <2>2. /\ UNCHANGED <<request, opened>>
        /\ verdict' = [verdict EXCEPT ![q] = [marker |-> "none", who |-> who, surface |-> sf]]
    BY <2>1 DEF ClaimRequest
  <2>3. CASE q # r  BY <1>0, <1>1, <2>2, <2>3
  <2>4. CASE q = r
    <3>1. verdict'[r].who = who /\ verdict'[r].surface = sf  BY <1>0, <2>2, <2>4
    <3> QED  BY <2>1, <2>2, <2>4, <3>1 DEF Entrusted, ClaimRequest, Decider
  <2> QED  BY <2>2, <2>3, <2>4
<1>4. CASE \E q \in Requests, m \in {"approved", "denied"} : MarkRequest(q, m)
  BY <1>0, <1>1, <1>4 DEF MarkRequest
<1>5. CASE \E h \in Handlers : Opens(h)
  BY <1>0, <1>1, <1>5 DEF Opens
<1> QED  BY <1>2, <1>3, <1>4, <1>5, RequestKinds

\* The request a call opens is the one its slot asks for.
LEMMA AskOfSlot ==
    ASSUME NEW a \in Args
    PROVE  SlotOf(a) \in Slots /\ \A u \in Users : Ask(SlotOf(a), u) = Ask(a, u)
<1>1. a \in [key : Keys, session : Sessions, rw : BOOLEAN, purpose : Purposes]  BY DEF Args
<1>2. SlotOf(a) \in Slots /\ SlotOf(a).key = a.key /\ SlotOf(a).purpose = a.purpose
  BY <1>1 DEF SlotOf, Slots
<1>3. ASSUME NEW u \in Users PROVE Ask(SlotOf(a), u) = Ask(a, u)
  BY <1>2 DEF Ask
<1> QED  BY <1>2, <1>3

LEMMA RequestsStep ==
    ASSUME AttachInv, [Next]_vars PROVE RequestsOK'
<1>0. /\ verdict \in [Requests -> [marker : {"none", "approved", "denied"}, who : Names,
                                   surface : {"http", "shell", NoName}]]
      /\ open \in [Slots -> Requests \cup {NoRequest}]
      /\ file \in [Requests -> {"none", "pending", "claimed"}]
      /\ request \in [Requests -> [key : Keys \cup {NoName}, owner : Users \cup {NoName},
                                   approver : Names, notApprover : Names,
                                   surface : {"http", NoName}]]
      /\ opened \in Nat /\ RequestsOK /\ Shape
  BY ConstantsAssumption DEF AttachInv, TypeOK
<1>k. \A r \in Requests : r \in Nat /\ r # NoRequest
  BY ConstantsAssumption DEF Requests, NoRequest
<1>1. CASE Drops
  <2>1. \A k \in Slots : open'[k] # NoRequest =>
          open'[k] <= opened' /\ \E u \in Users : request'[open'[k]] = Ask(k, u)
    BY <1>0, <1>1 DEF Drops, RequestsOK
  <2>2. ASSUME NEW r \in Requests
        PROVE  /\ file'[r] = "claimed" \/ verdict'[r].marker # "none" => Entrusted(r)'
               /\ r > opened' => file'[r] = "none" /\ verdict'[r].marker = "none"
    <3>1. /\ verdict'[r].who = verdict[r].who /\ verdict'[r].surface = verdict[r].surface
          /\ verdict'[r].marker \in {verdict[r].marker, "none"}
          /\ file'[r] \in {file[r], "none"} /\ request' = request /\ opened' = opened
      BY <1>0, <1>1 DEF Drops
    <3> QED  BY <1>0, <3>1 DEF RequestsOK, Entrusted
  <2> QED  BY <2>1, <2>2 DEF RequestsOK
<1>2. CASE \E q \in Requests, who \in Keys \cup Users, sf \in {"http", "shell"} :
               ClaimRequest(q, who, sf)
  <2>1. PICK q \in Requests, who \in Keys \cup Users, sf \in {"http", "shell"} :
               ClaimRequest(q, who, sf)
    BY <1>2
  <2>2. /\ UNCHANGED <<request, opened, open>> /\ file[q] = "pending"
        /\ file' = [file EXCEPT ![q] = "claimed"]
        /\ verdict' = [verdict EXCEPT ![q] = [marker |-> "none", who |-> who, surface |-> sf]]
    BY <2>1 DEF ClaimRequest
  <2>3. verdict'[q].who = who /\ verdict'[q].surface = sf /\ verdict'[q].marker = "none"
    BY <1>0, <2>2
  <2>4. Entrusted(q)'
    BY <2>1, <2>2, <2>3 DEF Entrusted, ClaimRequest, Decider
  <2>5. q <= opened  BY <1>0, <1>k, <2>2 DEF RequestsOK
  <2>6. ASSUME NEW r \in Requests, r # q
        PROVE  /\ file'[r] = "claimed" \/ verdict'[r].marker # "none" => Entrusted(r)'
               /\ r > opened' => file'[r] = "none" /\ verdict'[r].marker = "none"
    BY <1>0, <2>2, <2>6 DEF RequestsOK, Entrusted
  <2> QED  BY <1>0, <1>k, <2>2, <2>3, <2>4, <2>5, <2>6 DEF RequestsOK
<1>3. CASE \E q \in Requests, m \in {"approved", "denied"} : MarkRequest(q, m)
  <2>1. PICK q \in Requests, m \in {"approved", "denied"} : MarkRequest(q, m)  BY <1>3
  <2>2. /\ UNCHANGED <<request, opened, open>> /\ file[q] = "claimed"
        /\ file' = [file EXCEPT ![q] = "none"]
        /\ verdict' = [verdict EXCEPT ![q].marker = m]
    BY <2>1 DEF MarkRequest
  <2>3. ASSUME NEW r \in Requests
        PROVE  /\ file'[r] = "claimed" \/ verdict'[r].marker # "none" => Entrusted(r)'
               /\ r > opened' => file'[r] = "none" /\ verdict'[r].marker = "none"
    BY <1>0, <1>k, <2>2 DEF RequestsOK, Entrusted
  <2> QED  BY <1>0, <2>2, <2>3 DEF RequestsOK
<1>4. CASE \E h \in Handlers : Opens(h)
  <2>1. PICK h \in Handlers : Opens(h)  BY <1>4
  <2>2. PICK a \in Args : a = args[h]  BY <1>0, <2>1 DEF Opens, Shape
  <2>3. PICK u \in Users : u = owner[h]  BY <1>0, <2>1 DEF Opens, Shape
  <2>4. PICK r \in Requests : r = opened + 1
    BY <1>0, <2>1, ConstantsAssumption DEF Opens, Requests
  <2>5. PICK k \in Slots : k = SlotOf(a) /\ Ask(a, u) = Ask(k, u)
    BY AskOfSlot
  <2>6. /\ opened' = r /\ request' = [request EXCEPT ![r] = Ask(k, u)]
        /\ \A q \in Requests : verdict'[q] \in {verdict[q], [verdict[q] EXCEPT !.marker = "none"]}
        /\ \E new \in {r, NoRequest} : open' = [open EXCEPT ![k] = new]
        /\ \A q \in Requests : file'[q] \in {file[q], "none"} \/ (q = r /\ file'[q] = "pending")
    BY <2>1, <2>2, <2>3, <2>4, <2>5 DEF Opens
  <2>7. ASSUME NEW x \in Slots, open'[x] # NoRequest
        PROVE  open'[x] <= opened' /\ \E v \in Users : request'[open'[x]] = Ask(x, v)
    <3>1. CASE x = k
      <4>1. open'[x] = r  BY <1>0, <2>6, <2>7, <3>1
      <4> QED  BY <1>0, <1>k, <2>6, <3>1, <4>1
    <3>2. CASE x # k
      <4>1. open'[x] = open[x]  BY <1>0, <2>6, <3>2
      <4>2. open[x] <= opened /\ open[x] \in Requests  BY <1>0, <2>7, <4>1 DEF RequestsOK
      <4>3. PICK o \in Nat : o = open[x] /\ o <= opened  BY <1>k, <4>2
      <4>4. open[x] # r /\ open[x] <= r  BY <1>0, <2>4, <4>3
      <4> QED  BY <1>0, <2>6, <2>7, <4>1, <4>2, <4>4 DEF RequestsOK
    <3> QED  BY <3>1, <3>2
  <2>8. ASSUME NEW q \in Requests
        PROVE  /\ file'[q] = "claimed" \/ verdict'[q].marker # "none" => Entrusted(q)'
               /\ q > opened' => file'[q] = "none" /\ verdict'[q].marker = "none"
    <3>1. /\ verdict'[q].who = verdict[q].who /\ verdict'[q].surface = verdict[q].surface
          /\ verdict'[q].marker \in {verdict[q].marker, "none"}
      BY <1>0, <2>6
    <3>2. CASE q = r
      <4>1. file[q] = "none" /\ verdict[q].marker = "none"
        BY <1>0, <2>4, <3>2 DEF RequestsOK
      <4> QED  BY <1>0, <1>k, <2>6, <3>1, <3>2, <4>1
    <3>3. CASE q # r
      <4>1. request'[q] = request[q] /\ file'[q] \in {file[q], "none"}  BY <1>0, <2>6, <3>3
      <4>2. q > opened' => q > opened  BY <1>0, <1>k, <2>4, <2>6
      <4>3. Entrusted(q) => Entrusted(q)'  BY <3>1, <4>1 DEF Entrusted
      <4> QED  BY <1>0, <3>1, <4>1, <4>2, <4>3 DEF RequestsOK
    <3> QED  BY <3>2, <3>3
  <2> QED  BY <2>7, <2>8 DEF RequestsOK
<1> QED  BY <1>1, <1>2, <1>3, <1>4, RequestKinds

LEMMA GrantedStep ==
    ASSUME AttachInv, [Next]_vars PROVE Granted'
<1>0. /\ pc \in [Handlers -> Stages] /\ args \in [Handlers -> Args \cup {NoArgs}]
      /\ grant \in [Handlers -> Requests \cup {NoRequest}]
      /\ open \in [Slots -> Requests \cup {NoRequest}]
      /\ Granted /\ RequestsOK /\ Shape
  BY DEF AttachInv, TypeOK, Stages
<1>s. SUFFICES ASSUME NEW h \in Handlers, pc'[h] \in Holding \cup {"reserve"}, args'[h].rw
               PROVE  /\ grant'[h] \in Requests /\ grant'[h] <= opened' /\ Entrusted(grant[h])'
                      /\ \E u \in Users : request'[grant'[h]] = Ask(args'[h], u)
  BY DEF Granted
<1>1. ASSUME NEW g \in Requests, g <= opened, Entrusted(g), NEW u \in Users,
             request[g] = Ask(args[h], u), args'[h] = args[h], grant'[h] = g
      PROVE  /\ grant'[h] \in Requests /\ grant'[h] <= opened' /\ Entrusted(grant[h])'
             /\ \E v \in Users : request'[grant'[h]] = Ask(args'[h], v)
  <2>1. Entrusted(g)' /\ request'[g] = request[g] /\ g <= opened'
    BY <1>1, EntrustedKept
  <2>2. Entrusted(grant[h])'  BY <1>1, <2>1 DEF Entrusted
  <2> QED  BY <1>1, <2>1, <2>2
<1>2. ASSUME pc[h] \in Holding \cup {"reserve"}, args'[h] = args[h], grant'[h] = grant[h]
      PROVE  /\ grant'[h] \in Requests /\ grant'[h] <= opened' /\ Entrusted(grant[h])'
             /\ \E u \in Users : request'[grant'[h]] = Ask(args'[h], u)
  <2>1. args[h].rw  BY <1>s, <1>2
  <2>2. PICK g \in Requests : g = grant[h] /\ g <= opened /\ Entrusted(g)
    BY <1>0, <1>2, <2>1 DEF Granted
  <2>3. PICK u \in Users : request[g] = Ask(args[h], u)
    BY <1>0, <1>2, <2>1, <2>2 DEF Granted
  <2> QED  BY <1>1, <1>2, <2>2, <2>3
<1>3. CASE UNCHANGED <<pc, args, owner, grant, placeVars>>  BY <1>2, <1>3, <1>s
<1>4. ASSUME NEW x \in Handlers, \/ \E a \in Args : Lookup(x, a)
                                 \/ GivesUp(x) \/ Leaves(x)
      PROVE  x # h /\ UNCHANGED <<pc[h], args[h], grant[h]>>
  BY <1>0, <1>4, <1>s DEF Lookup, GivesUp, Leaves, Returns, Holding
<1>5. ASSUME NEW x \in Handlers, Takes(x)
      PROVE  UNCHANGED <<args[h], grant[h]>> /\ pc[h] \in Holding \cup {"reserve"}
  BY <1>0, <1>5, <1>s DEF Takes
<1>6. ASSUME NEW x \in Handlers, Moves(x), x # h \/ pc[h] # "approval"
      PROVE  UNCHANGED <<args[h], grant[h]>> /\ pc[h] \in Holding \cup {"reserve"}
  BY <1>0, <1>6, <1>s DEF Moves, Holding, FindApproved
<1>7. CASE Moves(h) /\ pc[h] = "approval"
  <2>1. FindApproved(h) /\ args' = args  BY <1>7 DEF Moves
  <2>2. PICK a \in Args : a = args[h]  BY <1>0, <1>7 DEF Shape
  <2>3. PICK k \in Slots : k = SlotOf(a) /\ \A u \in Users : Ask(k, u) = Ask(a, u)
    BY AskOfSlot
  <2>4. PICK g \in Requests : g = open[k] /\ verdict[g].marker = "approved" /\ grant'[h] = g
    BY <1>0, <2>1, <2>2, <2>3 DEF FindApproved
  <2>5. g # NoRequest  BY <2>1, <2>2, <2>3, <2>4 DEF FindApproved
  <2>6. Entrusted(g) /\ g <= opened /\ \E u \in Users : request[g] = Ask(a, u)
    BY <1>0, <2>3, <2>4, <2>5 DEF RequestsOK
  <2> QED  BY <1>1, <2>1, <2>2, <2>4, <2>6
<1> QED  BY <1>2, <1>3, <1>4, <1>5, <1>6, <1>7, <1>s, CallKinds

-----------------------------------------------------------------------------
(* Types.                                                                  *)

\* The part of TypeOK about the calls and the places.
LEMMA CallsTyped ==
    ASSUME AttachInv, [Next]_vars
    PROVE  /\ (controller \in [Sessions -> Keys \cup {NoName}])'
           /\ (entries \in [Sessions -> SUBSET Handlers])'
           /\ (pc \in [Handlers -> Stages])' /\ (args \in [Handlers -> Args \cup {NoArgs}])'
           /\ (owner \in [Handlers -> Users \cup {NoName}])'
           /\ (grant \in [Handlers -> Requests \cup {NoRequest}])'
<1>0. /\ controller \in [Sessions -> Keys \cup {NoName}]
      /\ entries \in [Sessions -> SUBSET Handlers]
      /\ pc \in [Handlers -> Stages] /\ args \in [Handlers -> Args \cup {NoArgs}]
      /\ owner \in [Handlers -> Users \cup {NoName}]
      /\ grant \in [Handlers -> Requests \cup {NoRequest}]
      /\ user \in [Sessions -> Users] /\ open \in [Slots -> Requests \cup {NoRequest}]
      /\ Shape
  BY DEF AttachInv, TypeOK, Stages
<1>1. CASE UNCHANGED <<pc, args, owner, grant, placeVars>>  BY <1>0, <1>1 DEF placeVars
<1>2. CASE \E h \in Handlers, a \in Args : Lookup(h, a)
  <2>1. PICK h \in Handlers, a \in Args : Lookup(h, a)  BY <1>2
  <2>2. user[a.session] \in Users  BY <1>0 DEF Args
  <2>3. "gate" \in Stages  BY DEF Stages
  <2> QED  BY <1>0, <2>1, <2>2, <2>3 DEF Lookup, placeVars
<1>3. CASE \E h \in Handlers : Moves(h)
  <2>1. PICK h \in Handlers : Moves(h)  BY <1>3
  <2>2. grant' \in [Handlers -> Requests \cup {NoRequest}]
    <3>1. CASE pc[h] = "approval"
      <4>1. PICK a \in Args : a = args[h]  BY <1>0, <3>1 DEF Shape
      <4>2. open[SlotOf(a)] \in Requests \cup {NoRequest}  BY <1>0, AskOfSlot
      <4> QED  BY <1>0, <2>1, <3>1, <4>1, <4>2 DEF Moves, FindApproved
    <3>2. CASE pc[h] # "approval"  BY <1>0, <2>1, <3>2 DEF Moves
    <3> QED  BY <3>1, <3>2
  <2> QED  BY <1>0, <2>1, <2>2 DEF Moves, placeVars
<1>4. CASE \E h \in Handlers : GivesUp(h)
  BY <1>0, <1>4 DEF GivesUp, Returns, placeVars, Stages
<1>5. CASE \E h \in Handlers : Takes(h)
  <2>1. PICK h \in Handlers : Takes(h)  BY <1>5
  <2>2. PICK a \in Args : a = args[h]  BY <1>0, <2>1 DEF Takes, Shape
  <2>3. a.session \in Sessions /\ a.key \in Keys  BY DEF Args
  <2>4. "consume" \in Stages /\ "log" \in Stages  BY DEF Stages, Holding
  <2> QED  BY <1>0, <2>1, <2>2, <2>3, <2>4 DEF Takes
<1>6. CASE \E h \in Handlers : Leaves(h)
  <2>1. PICK h \in Handlers : Leaves(h)  BY <1>6
  <2>2. "idle" \in Stages /\ "logDetach" \in Stages  BY DEF Stages
  <2>3. PICK s : s = args[h].session  OBVIOUS
  <2>4. /\ controller' \in {controller, [controller EXCEPT ![s] = NoName]}
        /\ entries' = [entries EXCEPT ![s] = @ \ {h}]
    BY <2>1, <2>3 DEF Leaves, ReleaseAttach
  <2>5. /\ controller' \in [Sessions -> Keys \cup {NoName}]
        /\ entries' \in [Sessions -> SUBSET Handlers]
    BY <1>0, <2>4
  <2>6. CASE Returns(h)  BY <1>0, <2>2, <2>5, <2>6 DEF Returns
  <2>7. CASE pc' = [pc EXCEPT ![h] = "logDetach"] /\ UNCHANGED <<args, owner, grant>>
    BY <1>0, <2>2, <2>5, <2>7
  <2> QED  BY <2>1, <2>6, <2>7 DEF Leaves
<1> QED  BY <1>1, <1>2, <1>3, <1>4, <1>5, <1>6, CallKinds

\* What a call asks for can be asked.
LEMMA AskTyped ==
    ASSUME NEW k \in Slots, NEW u \in Users
    PROVE  Ask(k, u) \in [key : Keys \cup {NoName}, owner : Users \cup {NoName},
                          approver : Names, notApprover : Names, surface : {"http", NoName}]
BY ConstantsAssumption DEF Ask, Names, Slots

\* The part of TypeOK about the requests.
LEMMA RequestsTyped ==
    ASSUME AttachInv, [Next]_vars
    PROVE  /\ (open \in [Slots -> Requests \cup {NoRequest}])'
           /\ (request \in [Requests -> [key : Keys \cup {NoName}, owner : Users \cup {NoName},
                                         approver : Names, notApprover : Names,
                                         surface : {"http", NoName}]])'
           /\ (file \in [Requests -> {"none", "pending", "claimed"}])'
           /\ (verdict \in [Requests -> [marker : {"none", "approved", "denied"}, who : Names,
                                         surface : {"http", "shell", NoName}]])'
           /\ (late \subseteq Requests)' /\ (opened \in 0 .. MaxRequests)'
<1> DEFINE Asked == [key : Keys \cup {NoName}, owner : Users \cup {NoName}, approver : Names,
                     notApprover : Names, surface : {"http", NoName}]
           Verdicts == [marker : {"none", "approved", "denied"}, who : Names,
                        surface : {"http", "shell", NoName}]
<1>0. /\ open \in [Slots -> Requests \cup {NoRequest}] /\ request \in [Requests -> Asked]
      /\ file \in [Requests -> {"none", "pending", "claimed"}]
      /\ verdict \in [Requests -> Verdicts]
      /\ late \subseteq Requests /\ opened \in 0 .. MaxRequests
      /\ args \in [Handlers -> Args \cup {NoArgs}] /\ Shape
  BY DEF AttachInv, TypeOK
<1>o. /\ open' \in [Slots -> Requests \cup {NoRequest}]
      /\ file' \in [Requests -> {"none", "pending", "claimed"}]
      /\ verdict' \in [Requests -> Verdicts]
  <2>0. UNCHANGED <<open, file, verdict>> =>
           /\ open' \in [Slots -> Requests \cup {NoRequest}]
           /\ file' \in [Requests -> {"none", "pending", "claimed"}]
           /\ verdict' \in [Requests -> Verdicts]
    BY <1>0
  <2>1. ASSUME NEW h \in Handlers, SnoopApprovalState(h) \/ ConsumeSnoopApproval(h)
        PROVE  /\ open' \in [Slots -> Requests \cup {NoRequest}]
               /\ file' \in [Requests -> {"none", "pending", "claimed"}]
               /\ verdict' \in [Requests -> Verdicts]
    <3>1. opened < MaxRequests => opened + 1 \in Requests
      BY <1>0, ConstantsAssumption DEF Requests
    <3>2. CASE ConsumeSnoopApproval(h)  BY <1>0, <3>2 DEF ConsumeSnoopApproval
    <3>3. CASE FindApproved(h) \/ FindPending(h)
      BY <2>0, <3>3 DEF FindApproved, FindPending, requestVars
    <3>4. CASE FindDenied(h)  BY <1>0, <3>4 DEF FindDenied
    <3>5. CASE OpenRequest(h)
      <4>1. open' \in [Slots -> Requests \cup {NoRequest}]  BY <1>0, <3>1, <3>5 DEF OpenRequest
      <4>2. verdict' \in [Requests -> Verdicts]  BY <1>0, <3>5 DEF OpenRequest
      <4>3. file' \in [Requests -> {"none", "pending", "claimed"}]
        BY <1>0, <3>5 DEF OpenRequest
      <4> QED  BY <4>1, <4>2, <4>3
    <3> QED  BY <2>1, <3>2, <3>3, <3>4, <3>5 DEF SnoopApprovalState
  <2>2. ASSUME NEW s \in Sessions, EndSessionAttaches(s)
        PROVE  /\ open' \in [Slots -> Requests \cup {NoRequest}]
               /\ file' \in [Requests -> {"none", "pending", "claimed"}]
               /\ verdict' \in [Requests -> Verdicts]
    BY <1>0, <2>2 DEF EndSessionAttaches
  <2>3. ASSUME NEW h \in Handlers,
             \/ SnoopGate(h) \/ AttachCapacity(h) \/ ReserveAttach(h) \/ LogAttach(h)
             \/ SwitchProtocols(h) \/ StreamOver(h) \/ DetachRelease(h) \/ LogDetach(h)
             \/ EndStream(h) \/ \E a \in Args : Lookup(h, a)
        PROVE  UNCHANGED <<open, file, verdict>>
    BY <2>3 DEF SnoopGate, AttachCapacity, ReserveAttach, LogAttach, SwitchProtocols,
       StreamOver, DetachRelease, LogDetach, EndStream, Lookup, requestVars
  <2>4. ASSUME NEW s \in Sessions, \/ Unregister(s) \/ SetIdentitySource(s)
                                   \/ \E u \in Users : SetIdentity(s, u)
        PROVE  UNCHANGED <<open, file, verdict>>
    BY <2>4 DEF Unregister, SetIdentitySource, SetIdentity, requestVars
  <2>5. ASSUME NEW r \in Requests, Deadline(r)
        PROVE  UNCHANGED <<open, file, verdict>>
    BY <2>5 DEF Deadline
  <2>6. ASSUME NEW r \in Requests, \/ \E m \in {"approved", "denied"} : MarkRequest(r, m)
                                   \/ \E who \in Keys \cup Users, sf \in {"http", "shell"} :
                                         ClaimRequest(r, who, sf)
        PROVE  /\ open' = open
               /\ file' \in [Requests -> {"none", "pending", "claimed"}]
               /\ verdict' \in [Requests -> Verdicts]
    <3>1. ASSUME NEW m \in {"approved", "denied"}, MarkRequest(r, m)
          PROVE  /\ open' = open /\ file' \in [Requests -> {"none", "pending", "claimed"}]
                 /\ verdict' \in [Requests -> Verdicts]
      BY <1>0, <3>1 DEF MarkRequest
    <3>2. ASSUME NEW who \in Keys \cup Users, NEW sf \in {"http", "shell"},
                 ClaimRequest(r, who, sf)
          PROVE  /\ open' = open /\ file' \in [Requests -> {"none", "pending", "claimed"}]
                 /\ verdict' \in [Requests -> Verdicts]
      BY <1>0, <3>2 DEF ClaimRequest, Names
    <3> QED  BY <2>6, <3>1, <3>2
  <2>7. UNCHANGED vars => UNCHANGED <<open, file, verdict>>  BY DEF vars, requestVars
  <2> HIDE DEF Verdicts
  <2> QED  BY <1>0, <2>0, <2>1, <2>2, <2>3, <2>4, <2>5, <2>6, <2>7 DEF Next, HandlerStep
<1>l. late' \subseteq Requests
  <2>1. ASSUME NEW h \in Handlers, HandlerStep(h) \/ EndStream(h) \/ \E a \in Args : Lookup(h, a)
        PROVE  late' = late
    BY <2>1 DEF HandlerStep, EndStream, Lookup, SnoopGate, AttachCapacity,
       SnoopApprovalState, FindApproved, FindDenied, FindPending, OpenRequest, ReserveAttach,
       ConsumeSnoopApproval, LogAttach, SwitchProtocols, StreamOver, DetachRelease, LogDetach,
       requestVars
  <2>2. ASSUME NEW s \in Sessions, \/ Unregister(s) \/ SetIdentitySource(s)
                                   \/ EndSessionAttaches(s)
                                   \/ \E u \in Users : SetIdentity(s, u)
        PROVE  late' = late
    BY <2>2 DEF Unregister, SetIdentitySource, SetIdentity, EndSessionAttaches, requestVars
  <2>3. ASSUME NEW r \in Requests, \/ Deadline(r)
                                   \/ \E m \in {"approved", "denied"} : MarkRequest(r, m)
                                   \/ \E who \in Keys \cup Users, sf \in {"http", "shell"} :
                                         ClaimRequest(r, who, sf)
        PROVE  late' \subseteq Requests
    BY <1>0, <2>3 DEF Deadline, MarkRequest, ClaimRequest
  <2>4. UNCHANGED vars => late' = late  BY DEF vars, requestVars
  <2> QED  BY <1>0, <2>1, <2>2, <2>3, <2>4 DEF Next
<1>1. /\ request' \in [Requests -> Asked] /\ opened' \in 0 .. MaxRequests
  <2>1. CASE \E h \in Handlers : Opens(h)
    <3>1. PICK h \in Handlers : Opens(h)  BY <2>1
    <3>2. PICK a \in Args, u \in Users : a = args[h] /\ u = owner[h]
      BY <1>0, <3>1 DEF Opens, Shape
    <3>3. Ask(a, u) \in Asked
      <4>1. SlotOf(a) \in Slots /\ Ask(SlotOf(a), u) = Ask(a, u)  BY AskOfSlot
      <4> QED  BY <4>1, AskTyped
    <3>4. /\ request' = [request EXCEPT ![opened + 1] = Ask(a, u)]
          /\ opened < MaxRequests /\ opened' = opened + 1
      BY <3>1, <3>2 DEF Opens
    <3> HIDE DEF Asked
    <3>5. opened' \in 0 .. MaxRequests  BY <1>0, <3>4, ConstantsAssumption
    <3>6. request' \in [Requests -> Asked]  BY <1>0, <3>3, <3>4
    <3> QED  BY <3>5, <3>6
  <2>2. CASE ~\E h \in Handlers : Opens(h)
    <3>1. request' = request /\ opened' = opened
      BY <2>2, RequestKinds DEF Drops, ClaimRequest, MarkRequest
    <3> QED  BY <1>0, <3>1
  <2> QED  BY <2>1, <2>2
<1> QED  BY <1>o, <1>l, <1>1

\* Every variable stays in its type.
LEMMA TypedStep ==
    ASSUME AttachInv, [Next]_vars PROVE TypeOK'
<1>0. /\ life \in [Sessions -> {"live", "closing", "gone"}] /\ user \in [Sessions -> Users]
      /\ source \in [Sessions -> {"login", "asserted", "verified"}]
      /\ ended \in [Handlers -> BOOLEAN]
      /\ record \in [Handlers -> {"none", "attached", "unrecorded"}]
      /\ uses \in [Requests -> Nat]
  BY DEF AttachInv, TypeOK
<1> DEFINE Rest == /\ life' \in [Sessions -> {"live", "closing", "gone"}]
                   /\ user' \in [Sessions -> Users]
                   /\ source' \in [Sessions -> {"login", "asserted", "verified"}]
                   /\ ended' \in [Handlers -> BOOLEAN]
                   /\ record' \in [Handlers -> {"none", "attached", "unrecorded"}]
                   /\ uses' \in [Requests -> Nat]
<1>1. ASSUME NEW h \in Handlers, HandlerStep(h) \/ EndStream(h) \/ \E a \in Args : Lookup(h, a)
      PROVE  Rest
  <2>1. UNCHANGED <<life, user, source>>
    BY <1>1 DEF HandlerStep, EndStream, Lookup, SnoopGate, AttachCapacity,
       SnoopApprovalState, ReserveAttach, ConsumeSnoopApproval, LogAttach, SwitchProtocols,
       StreamOver, DetachRelease, LogDetach, sessionVars
  <2>2. record' \in [Handlers -> {"none", "attached", "unrecorded"}]
    BY <1>0, <1>1 DEF HandlerStep, EndStream, Lookup, SnoopGate, AttachCapacity,
       SnoopApprovalState, ReserveAttach, ConsumeSnoopApproval, LogAttach, SwitchProtocols,
       StreamOver, DetachRelease, LogDetach
  <2>3. uses' \in [Requests -> Nat]
    BY <1>0, <1>1 DEF HandlerStep, EndStream, Lookup, SnoopGate, AttachCapacity,
       SnoopApprovalState, ReserveAttach, Reserved, ConsumeSnoopApproval, LogAttach,
       SwitchProtocols, StreamOver, DetachRelease, LogDetach
  <2>4. ended' \in [Handlers -> BOOLEAN]
    BY <1>0, <1>1 DEF HandlerStep, EndStream, Lookup, SnoopGate, AttachCapacity,
       SnoopApprovalState, FindApproved, FindDenied, FindPending, OpenRequest, ReserveAttach,
       Reserved, ConsumeSnoopApproval, LogAttach, SwitchProtocols, StreamOver, DetachRelease,
       LogDetach, Returns, callVars
  <2> QED  BY <1>0, <2>1, <2>2, <2>3, <2>4
<1>2. ASSUME NEW s \in Sessions, \/ Unregister(s) \/ SetIdentitySource(s)
                                 \/ EndSessionAttaches(s)
                                 \/ \E u \in Users : SetIdentity(s, u)
      PROVE  Rest
  BY <1>0, <1>2, ZenonT(40) DEF Unregister, SetIdentitySource, SetIdentity, EndSessionAttaches, callVars
<1>3. ASSUME NEW r \in Requests, \/ Deadline(r)
                                 \/ \E m \in {"approved", "denied"} : MarkRequest(r, m)
                                 \/ \E who \in Keys \cup Users, sf \in {"http", "shell"} :
                                       ClaimRequest(r, who, sf)
      PROVE  Rest
  BY <1>0, <1>3 DEF Deadline, MarkRequest, ClaimRequest, sessionVars, callVars
<1>4. UNCHANGED vars => Rest  BY <1>0 DEF vars, sessionVars, callVars
<1>5. Rest
  <2> HIDE DEF Rest
  <2> QED  BY <1>1, <1>2, <1>3, <1>4 DEF Next
<1> QED  BY <1>5, CallsTyped, RequestsTyped DEF TypeOK, Stages

-----------------------------------------------------------------------------
(* The theorems.                                                           *)

LEMMA InvInit == ASSUME Init PROVE AttachInv
<1>1. TypeOK
  <2>1. \A r \in Requests : request[r] \in [key : Keys \cup {NoName},
           owner : Users \cup {NoName}, approver : Names, notApprover : Names,
           surface : {"http", NoName}]
    BY DEF Init, Names
  <2>2. \A r \in Requests : verdict[r] \in [marker : {"none", "approved", "denied"},
           who : Names, surface : {"http", "shell", NoName}]
    BY DEF Init, NoDecision, Names
  <2>3. opened \in 0 .. MaxRequests  BY ConstantsAssumption DEF Init
  <2> QED  BY <2>1, <2>2, <2>3 DEF Init, TypeOK
<1>2. Shape  BY DEF Init, Shape, Holding
<1>3. Places
  <2>1. ASSUME NEW s \in Sessions PROVE Seated(s)
    <3>1. entries[s] = {} /\ Views(s) = {} /\ controller[s] = NoName  BY DEF Init, Views
    <3> QED  BY <3>1, FS_EmptySet, ConstantsAssumption DEF Seated
  <2> QED  BY <2>1 DEF Places
<1>4. AttachEndsWithSession  BY DEF Init, AttachEndsWithSession
<1>5. RequestsOK
  BY DEF Init, RequestsOK, NoDecision
<1>6. Granted  BY DEF Init, Granted, Holding
<1> QED  BY <1>1, <1>2, <1>3, <1>4, <1>5, <1>6 DEF AttachInv

LEMMA InvNext == ASSUME AttachInv, [Next]_vars PROVE AttachInv'
BY TypedStep, ShapeStep, PlacesStep, EndsStep, RequestsStep, GrantedStep DEF AttachInv

\* What the invariant says of the places of a session is what OneController states.
LEMMA InvControls == ASSUME AttachInv PROVE OneController
<1>1. SUFFICES ASSUME NEW s \in Sessions
               PROVE  LET rws == {h \in entries[s] : args[h].rw} IN
                      /\ Cardinality(rws) <= 1
                      /\ controller[s] = IF rws = {} THEN NoName
                                         ELSE args[CHOOSE h \in rws : TRUE].key
  BY DEF OneController
<1> DEFINE rws == {h \in entries[s] : args[h].rw}
<1>2. Seated(s)  BY DEF AttachInv, Places
<1>3. CASE rws = {}
  <2>1. controller[s] = NoName  BY <1>2, <1>3 DEF Seated
  <2>2. Cardinality(rws) = 0  BY <1>3, FS_EmptySet
  <2> QED  BY <1>3, <2>1, <2>2
<1>4. CASE rws # {}
  <2>1. PICK h \in rws : h = CHOOSE g \in rws : TRUE  BY <1>4
  <2>2. rws = {h}  BY <1>2, <2>1 DEF Seated
  <2>3. Cardinality(rws) = 1  BY <2>2, FS_Singleton
  <2>4. controller[s] = args[h].key  BY <1>2, <2>1 DEF Seated
  <2> QED  BY <1>4, <2>1, <2>3, <2>4
<1> QED  BY <1>3, <1>4

\* Places on a session (reserveAttach, releaseAttach, endSessionAttaches): whatever
\* calls of whatever keys come and go, a session has at most one controller, whose key
\* is the one on record, at most MaxViewers viewers, and no call that outlives its
\* unregister hook uncanceled.
THEOREM PlacesAreExclusive == Spec => []AttachSafety
<1>1. AttachInv => AttachSafety
  BY InvControls DEF AttachInv, AttachSafety, ViewerLimit, Places, Seated
<1> QED  BY <1>1, InvInit, InvNext, PTL DEF Spec

\* Control of a session (snoopApprovalState, consumeSnoopApproval, DecideRequest): a
\* call that holds it was let in by someone other than the key that asked - for support
\* the session's user at the time, or the rule's approver; for an investigation another
\* named key, over HTTP, and not that user.
THEOREM ControlIsEntrusted == Spec => []RwApproved
<1>1. ASSUME AttachInv PROVE RwApproved
  <2>1. SUFFICES ASSUME NEW h \in Handlers, pc[h] \in Holding, args[h].rw
        PROVE LET p == request[grant[h]]
                  v == verdict[grant[h]]
              IN /\ v.who # args[h].key
                 /\ args[h].purpose = "investigation"
                       => v.surface = "http" /\ v.who \in Keys /\ v.who # p.owner
                 /\ args[h].purpose = "support"
                       => v.who = IF RuleApprover = NoName THEN p.owner ELSE RuleApprover
    BY DEF RwApproved
  <2>2. PICK u \in Users : request[grant[h]] = Ask(args[h], u)
    BY <1>1, <2>1 DEF AttachInv, Granted
  <2>3. Entrusted(grant[h])  BY <1>1, <2>1 DEF AttachInv, Granted
  <2>4. u # NoName  BY ConstantsAssumption
  <2>5. PICK p : p = request[grant[h]]  OBVIOUS
  <2>6. p = Ask(args[h], u)  BY <2>2, <2>5
  <2>7. /\ verdict[grant[h]].who # p.key
        /\ p.approver # NoName => verdict[grant[h]].who = p.approver
        /\ p.notApprover # NoName => verdict[grant[h]].who # p.notApprover
        /\ p.surface # NoName => verdict[grant[h]].surface = p.surface
        /\ verdict[grant[h]].surface = "http" => verdict[grant[h]].who \in Keys
    BY <2>3, <2>5 DEF Entrusted
  <2>8. p.key = args[h].key /\ p.owner = u  BY <2>6 DEF Ask
  <2>9. ASSUME args[h].purpose = "investigation"
        PROVE  p.notApprover = u /\ p.surface = "http"
    BY <2>6, <2>9 DEF Ask
  <2>10. ASSUME args[h].purpose = "support"
         PROVE  p.approver = IF RuleApprover = NoName THEN u ELSE RuleApprover
    BY <2>6, <2>10 DEF Ask
  <2>11. "http" # NoName  BY DEF NoName
  <2> QED  BY <2>4, <2>5, <2>7, <2>8, <2>9, <2>10, <2>11
<1> QED  BY <1>1, InvInit, InvNext, PTL DEF Spec

-----------------------------------------------------------------------------
(* The audit chain.                                                        *)

Digests == Seq([key : Procs \cup {Nothing}, seq : Nat, id : Nat])
Entries == [seq : Nat, id : Events, size : Sizes, prev : Digests, hash : Digests]
Writes == [entry : Entries, whole : BOOLEAN, nl : BOOLEAN]

Appending == {"open", "lock", "read", "write", "sync"}

Controls == {"boot", "link", "ready", "open", "lock", "read", "write", "sync"}

\* The types of the files and of an append's locals.
ChainTyped ==
    /\ keyFile \in Procs \cup {Nothing} /\ key \in [Procs -> Procs \cup {Nothing}]
    /\ path \in Inodes \cup {NoInode}
    /\ ledger \in [Inodes -> Seq(Writes)] /\ synced \in [Inodes -> Nat]
    /\ lock \in [Inodes -> Procs \cup {Nothing}]
    /\ procAt \in [Procs -> Controls] /\ fd \in [Procs -> Inodes \cup {NoInode}]
    /\ item \in [Procs -> [id : 0 .. MaxAppends, size : Sizes \cup {"short"}]]
    /\ tail \in [Procs -> [prev : Digests, seq : Nat]]
    /\ flat \subseteq Events /\ acked \subseteq Events
    /\ appends \in 0 .. MaxAppends /\ rotations \in 0 .. MaxRotations
    /\ \A p \in Procs : procAt[p] \in Appending => item[p].id \in Events /\ item[p].size \in Sizes

\* Every process that got past loadOrCreateChainKey has the key of the key file,
\* and nothing was written before there was one.
KeysAgree ==
    /\ OneKey
    /\ \A p \in Procs : procAt[p] \notin {"boot", "link"} => key[p] # Nothing
    /\ keyFile = Nothing => \A n \in Inodes : ledger[n] = <<>>

\* Inodes come one after another to the ledger path; an append has one that was
\* there, and one that was not there yet is empty.
OpenFiles ==
    /\ path \in {NoInode, rotations + 1}
    /\ \A p \in Procs : procAt[p] \in {"lock", "read", "write", "sync"} =>
          fd[p] \in 1 .. rotations + 1 /\ (path = NoInode => fd[p] # rotations + 1)
    /\ \A n \in Inodes :
          n > rotations + 1 \/ (n = rotations + 1 /\ path = NoInode) => ledger[n] = <<>>

\* An append between the flock and its return holds the lock of its file.
Locked ==
    \A p \in Procs : procAt[p] \in {"read", "write", "sync"} => lock[fd[p]] = p

\* The prev_hash and seq that continue the ledger l.
Continues(t, l, k) ==
    \/ l = <<>> /\ t = Genesis
    \/ /\ l # <<>> /\ TailVerifies(l, k)
       /\ t = [prev |-> l[Len(l)].entry.hash, seq |-> l[Len(l)].entry.seq + 1]

\* What an append read is still the tail when it writes, unless the file it opened
\* is no longer the ledger.
TailFresh ==
    \A p \in Procs : procAt[p] = "write" /\ fd[p] = path =>
        Continues(tail[p], ledger[path], key[p])

\* Every write, whole or torn, chains onto the one before it.
Chained(l, k) ==
    \A i \in 1 .. Len(l) :
        /\ l[i].entry.size = "short" /\ l[i].entry.seq = i - 1
        /\ l[i].entry.hash = computeHash(k, IF i = 1 THEN <<>> ELSE l[i - 1].entry.hash,
                                         l[i].entry.seq, l[i].entry.id)

PathChained == path # NoInode => Chained(ledger[path], keyFile)

ChainInv == ChainTyped /\ KeysAgree /\ OpenFiles /\ Locked /\ TailFresh /\ PathChained

-----------------------------------------------------------------------------
\* The i-th write of l is the event id, on a line of its own.
OnLine(l, i, id) ==
    /\ l[i].entry.id = id /\ l[i].entry.size = "short" /\ l[i].whole /\ l[i].nl
    /\ i > 1 => l[i - 1].nl

\* Writes are whole lines or torn inside the entry, which nothing follows.
LinesWhole ==
    /\ NothingAfterPartial
    /\ \A n \in Inodes : \A i \in 1 .. Len(ledger[n]) : ledger[n][i].whole = ledger[n][i].nl

\* An append that has written has its event on a line; an acknowledged event has
\* one among the lines that are on disk for certain.
Recorded ==
    /\ \A n \in Inodes : synced[n] <= Len(ledger[n])
    /\ \A p \in Procs : procAt[p] \in Appending => item[p].id \in flat
    /\ \A p \in Procs : procAt[p] = "sync" =>
          \E i \in 1 .. Len(ledger[fd[p]]) : OnLine(ledger[fd[p]], i, item[p].id)
    /\ \A id \in acked :
          /\ id \in flat
          /\ \E n \in Inodes : \E i \in 1 .. synced[n] : OnLine(ledger[n], i, id)

RecordInv == ChainInv /\ LinesWhole /\ Recorded

-----------------------------------------------------------------------------
\* What a write and a power loss do to a file.
LEMMA AppendIs ==
    ASSUME NEW S, NEW l \in Seq(S), NEW w \in S
    PROVE  /\ Append(l, w) \in Seq(S) /\ Len(Append(l, w)) = Len(l) + 1
           /\ Append(l, w)[Len(l) + 1] = w
           /\ \A i \in 1 .. Len(l) : Append(l, w)[i] = l[i]
  OBVIOUS

LEMMA CutIs ==
    ASSUME NEW S, NEW l \in Seq(S), NEW k \in Nat, k <= Len(l)
    PROVE  /\ SubSeq(l, 1, k) \in Seq(S) /\ Len(SubSeq(l, 1, k)) = k
           /\ \A i \in 1 .. k : SubSeq(l, 1, k)[i] = l[i]
  OBVIOUS

\* What an append writes.
LEMMA EntryTyped ==
    ASSUME ChainTyped, NEW p \in Procs, procAt[p] = "write", NEW b \in BOOLEAN, NEW c \in BOOLEAN
    PROVE  Written(Entry(key[p], tail[p], item[p]), b, c) \in Writes
<1> DEFINE h == computeHash(key[p], tail[p].prev, tail[p].seq, item[p].id)
<1>1. /\ item[p].id \in Events /\ item[p].size \in Sizes
      /\ tail[p].prev \in Digests /\ tail[p].seq \in Nat /\ key[p] \in Procs \cup {Nothing}
  BY DEF ChainTyped, Controls, Appending
<1>2. h \in Digests
  BY <1>1 DEF computeHash, Digests, Events
<1> QED  BY <1>1, <1>2 DEF Entry, Written, Writes, Entries

\* The last write of a ledger, for the next entry.
LEMMA LastTyped ==
    ASSUME NEW l \in Seq(Writes), l # <<>>
    PROVE  /\ l[Len(l)] \in Writes
           /\ [prev |-> l[Len(l)].entry.hash, seq |-> l[Len(l)].entry.seq + 1]
                 \in [prev : Digests, seq : Nat]
<1>1. l[Len(l)] \in Writes  OBVIOUS
<1> QED  BY <1>1 DEF Writes, Entries

\* Every step of a process, a power loss and a rotation keep the types.
LEMMA ChainTypedStep == ChainTyped /\ [ChainNext]_chainVars => ChainTyped'
<1> SUFFICES ASSUME ChainTyped, [ChainNext]_chainVars PROVE ChainTyped'
  OBVIOUS
<1> USE ChainAssumption DEF keyVars, fileVars, appendVars, logVars
<1>2. ASSUME NEW p \in Procs PROVE Unlocked(p) \in [Inodes -> Procs \cup {Nothing}]
  BY DEF Unlocked, ChainTyped
<1>3. ASSUME NEW p \in Procs, ReadKey(p) \/ LinkKey(p) \/ Crash(p) PROVE ChainTyped'
  <2>1. CASE ReadKey(p)
    BY <2>1 DEF ReadKey, ProcGoes, ChainTyped, Controls, Appending
  <2>2. CASE LinkKey(p)
    <3>1. /\ keyFile' \in Procs \cup {Nothing} /\ key' \in {key, [key EXCEPT ![p] = keyFile']}
          /\ \E to \in {"ready", "boot"} : procAt' = [procAt EXCEPT ![p] = to]
          /\ UNCHANGED <<fileVars, lock, appendVars, logVars>>
      BY <2>2 DEF LinkKey, ProcGoes, ChainTyped
    <3>2. procAt' \in [Procs -> Controls]
          /\ \A q \in Procs : procAt'[q] \in Appending => procAt[q] \in Appending
      BY <3>1 DEF ChainTyped, Controls, Appending
    <3> QED  BY <3>1, <3>2, ZenonT(40) DEF ChainTyped
  <2>3. CASE Crash(p)
    BY <2>3, <1>2 DEF Crash, ChainTyped, Controls, Appending
  <2> QED  BY <1>3, <2>1, <2>2, <2>3
<1>4. ASSUME NEW p \in Procs, NEW s \in Sizes, LogEvent(p, s) PROVE ChainTyped'
  <2>1. appends + 1 \in Events /\ appends' \in 0 .. MaxAppends
    BY <1>4 DEF LogEvent, ChainTyped, Events
  <2> HIDE DEF Events
  <2>2. item' \in [Procs -> [id : 0 .. MaxAppends, size : Sizes \cup {"short"}]]
    BY <1>4, <2>1 DEF LogEvent, ChainTyped, Events
  <2>3. /\ procAt[p] = "ready"
        /\ \E to \in {"open", "ready"} : procAt' = [procAt EXCEPT ![p] = to]
        /\ flat' \subseteq Events
    BY <1>4, <2>1 DEF LogEvent, ProcGoes, ChainTyped
  <2>4. \A q \in Procs : procAt'[q] \in Appending => item'[q].id \in Events /\ item'[q].size \in Sizes
    BY <1>4, <2>1, <2>3 DEF LogEvent, ChainTyped, Controls, Appending
  <2>5. UNCHANGED <<keyVars, fileVars, lock, fd, tail, acked, rotations>>
    BY <1>4 DEF LogEvent
  <2>6. procAt' \in [Procs -> Controls]
    BY <2>3 DEF ChainTyped, Controls
  <2> QED  BY <2>1, <2>2, <2>3, <2>4, <2>5, <2>6 DEF ChainTyped
<1>5. ASSUME NEW p \in Procs, AppendStep(p) PROVE ChainTyped'
  <2> USE DEF ProcGoes
  <2>1. CASE OpenLedger(p)
    <3>1. path' \in Inodes /\ fd' = [fd EXCEPT ![p] = path']
      BY <2>1 DEF OpenLedger, ChainTyped, Inodes, NoInode
    <3>2. procAt' \in [Procs -> Controls]
          /\ \A q \in Procs : procAt'[q] \in Appending => procAt[q] \in Appending
      BY <2>1 DEF OpenLedger, ChainTyped, Controls, Appending
    <3>3. UNCHANGED <<keyVars, ledger, synced, lock, item, tail, logVars>>
      BY <2>1 DEF OpenLedger
    <3> QED  BY <3>1, <3>2, <3>3 DEF ChainTyped
  <2>2. CASE LockLedger(p)
    <3>1. procAt' \in [Procs -> Controls]
          /\ \A q \in Procs : procAt'[q] \in Appending => procAt[q] \in Appending
      BY <2>2, ZenonT(40) DEF LockLedger, ChainTyped, Controls, Appending
    <3>2. lock' \in [Inodes -> Procs \cup {Nothing}]
      BY <2>2, ZenonT(40) DEF LockLedger, ChainTyped
    <3>3. UNCHANGED <<keyVars, fileVars, appendVars, logVars>>  BY <2>2 DEF LockLedger
    <3> QED  BY <3>1, <3>2, <3>3 DEF ChainTyped
  <2>3. CASE ReadTail(p)
    <3>1. PICK l : l = (IF path = NoInode THEN <<>> ELSE ledger[path])  OBVIOUS
    <3>2. l # <<>> => l \in Seq(Writes)  BY <3>1 DEF ChainTyped
    <3>3. \/ tail' = tail \/ tail' = [tail EXCEPT ![p] = Genesis]
          \/ l # <<>> /\ tail' = [tail EXCEPT ![p] = [prev |-> l[Len(l)].entry.hash,
                                                      seq |-> l[Len(l)].entry.seq + 1]]
      BY <2>3, <3>1 DEF ReadTail
    <3>4. Genesis \in [prev : Digests, seq : Nat]  BY DEF Genesis, Digests
    <3>5. tail' \in [Procs -> [prev : Digests, seq : Nat]]
      <4>1. l # <<>> => [prev |-> l[Len(l)].entry.hash, seq |-> l[Len(l)].entry.seq + 1]
                           \in [prev : Digests, seq : Nat]
        BY <3>2, LastTyped
      <4>2. \/ tail' = tail
            \/ \E v \in [prev : Digests, seq : Nat] : tail' = [tail EXCEPT ![p] = v]
        BY <3>3, <3>4, <4>1
      <4> QED  BY <4>2 DEF ChainTyped
    <3>6. /\ \E to \in {"write", "ready"} : procAt' = [procAt EXCEPT ![p] = to]
          /\ lock' \in {lock, Unlocked(p)} /\ procAt[p] = "read"
          /\ UNCHANGED <<keyVars, fileVars, fd, item, logVars>>
      BY <2>3 DEF ReadTail
    <3>7. procAt' \in [Procs -> Controls]
          /\ \A q \in Procs : procAt'[q] \in Appending => procAt[q] \in Appending
      BY <3>6 DEF ChainTyped, Controls, Appending
    <3> QED  BY <1>2, <3>5, <3>6, <3>7, SMTT(20) DEF ChainTyped
  <2>4. CASE WriteEntry(p)
    <3>1. PICK b \in BOOLEAN, c \in BOOLEAN :
             ledger' = [ledger EXCEPT ![fd[p]] =
                          Append(@, Written(Entry(key[p], tail[p], item[p]), b, c))]
      BY <2>4 DEF WriteEntry
    <3>2. ledger' \in [Inodes -> Seq(Writes)]
      BY <2>4, <3>1, EntryTyped, AppendIs, ZenonT(40) DEF WriteEntry, ChainTyped
    <3>3. /\ \E to \in {"sync", "ready"} : procAt' = [procAt EXCEPT ![p] = to]
          /\ lock' \in {lock, Unlocked(p)} /\ procAt[p] = "write"
          /\ UNCHANGED <<keyVars, path, synced, appendVars, logVars>>
      BY <2>4 DEF WriteEntry
    <3> QED  BY <1>2, <3>2, <3>3, SMTT(20) DEF ChainTyped, Controls, Appending
  <2>5. CASE SyncLedger(p)
    <3>1. item[p].id \in Events  BY <2>5 DEF SyncLedger, ChainTyped, Controls, Appending
    <3>2. synced' \in [Inodes -> Nat]
      <4>1. \A n \in Inodes : Len(ledger[n]) \in Nat  BY DEF ChainTyped
      <4>2. synced' \in {synced, [synced EXCEPT ![fd[p]] = Len(ledger[fd[p]])]}
        BY <2>5 DEF SyncLedger
      <4> QED  BY <4>1, <4>2 DEF ChainTyped
    <3>3. /\ procAt' = [procAt EXCEPT ![p] = "ready"] /\ lock' = Unlocked(p)
          /\ acked' \subseteq acked \cup {item[p].id}
          /\ UNCHANGED <<keyVars, path, ledger, appendVars, flat, appends, rotations>>
      BY <2>5 DEF SyncLedger
    <3> QED  BY <1>2, <3>1, <3>2, <3>3 DEF ChainTyped, Controls, Appending
  <2> QED  BY <1>5, <2>1, <2>2, <2>3, <2>4, <2>5 DEF AppendStep
<1>6. CASE PowerLoss
  <2>1. PICK kept \in [Inodes -> 0 .. MaxAppends] :
           /\ \A n \in Inodes : synced[n] <= kept[n] /\ kept[n] <= Len(ledger[n])
           /\ ledger' = [n \in Inodes |-> SubSeq(ledger[n], 1, kept[n])]
    BY <1>6 DEF PowerLoss
  <2>2. ledger' \in [Inodes -> Seq(Writes)]
    BY <2>1, CutIs DEF ChainTyped
  <2>3. /\ procAt' = [p \in Procs |-> "boot"] /\ key' = [p \in Procs |-> Nothing]
        /\ lock' = [n \in Inodes |-> Nothing]
        /\ UNCHANGED <<keyFile, path, synced, appendVars, logVars>>
    BY <1>6 DEF PowerLoss
  <2> QED  BY <2>2, <2>3 DEF ChainTyped, Controls, Appending
<1>7. CASE Rotate
  BY <1>7 DEF Rotate, ChainTyped, NoInode
<1>8. CASE UNCHANGED chainVars
  BY <1>8 DEF chainVars, ChainTyped, Controls, Appending
<1> QED  BY <1>3, <1>4, <1>5, <1>6, <1>7, <1>8 DEF ChainNext

\* The types of the module's own type invariant are among these.
LEMMA ChainTypedOK == ChainTyped => ChainTypeOK
<1> SUFFICES ASSUME ChainTyped PROVE ChainTypeOK
  OBVIOUS
<1>1. \A n \in Inodes : \A i \in 1 .. Len(ledger[n]) : ledger[n][i].entry.id \in Events
  <2> SUFFICES ASSUME NEW n \in Inodes, NEW i \in 1 .. Len(ledger[n])
               PROVE  ledger[n][i].entry.id \in Events
    OBVIOUS
  <2>1. ledger[n][i] \in Writes  BY DEF ChainTyped
  <2> QED  BY <2>1 DEF Writes, Entries
<1> QED  BY <1>1 DEF ChainTyped, ChainTypeOK, Controls

\* One key: LinkKey never replaces a key, and a process reads the one that is there.
LEMMA KeysStep ==
    ASSUME ChainTyped, KeysAgree, [ChainNext]_chainVars
    PROVE  KeysAgree'
<1> USE ChainAssumption DEF keyVars, fileVars, appendVars, logVars, KeysAgree, OneKey
<1>1. ASSUME NEW p \in Procs, ReadKey(p) \/ LinkKey(p) \/ Crash(p) PROVE KeysAgree'
  <2>1. CASE ReadKey(p)  BY <2>1 DEF ReadKey, ProcGoes, ChainTyped
  <2>2. CASE LinkKey(p)
    <3>1. /\ keyFile' = (IF keyFile = Nothing THEN p ELSE keyFile) /\ p # Nothing
          /\ UNCHANGED ledger
      BY <2>2 DEF LinkKey
    <3>2. \/ procAt' = [procAt EXCEPT ![p] = "ready"] /\ key' = [key EXCEPT ![p] = keyFile']
          \/ procAt' = [procAt EXCEPT ![p] = "boot"] /\ UNCHANGED key
      BY <2>2 DEF LinkKey, ProcGoes
    <3>3. procAt \in [Procs -> Controls] /\ key \in [Procs -> Procs \cup {Nothing}]
      BY DEF ChainTyped
    <3> QED  BY <3>1, <3>2, <3>3
  <2>3. CASE Crash(p)    BY <2>3 DEF Crash, ChainTyped
  <2> QED  BY <1>1, <2>1, <2>2, <2>3
<1>2. ASSUME NEW p \in Procs, AppendStep(p) \/ \E s \in Sizes : LogEvent(p, s)
      PROVE  KeysAgree'
  <2>1. UNCHANGED keyVars /\ procAt[p] \notin {"boot", "link"}
    BY <1>2 DEF AppendStep, OpenLedger, LockLedger, ReadTail, WriteEntry, SyncLedger, LogEvent,
                ProcGoes
  <2>2. \A q \in Procs \ {p} : procAt'[q] = procAt[q]
    BY <1>2 DEF AppendStep, OpenLedger, LockLedger, ReadTail, WriteEntry, SyncLedger, LogEvent,
                ProcGoes, ChainTyped
  <2>3. keyFile # Nothing  BY <2>1
  <2> QED  BY <2>1, <2>2, <2>3
<1>3. CASE PowerLoss
  <2>1. PICK kept \in [Inodes -> 0 .. MaxAppends] :
           /\ \A n \in Inodes : kept[n] <= Len(ledger[n])
           /\ ledger' = [n \in Inodes |-> SubSeq(ledger[n], 1, kept[n])]
    BY <1>3 DEF PowerLoss
  <2>2. keyFile = Nothing => \A n \in Inodes : ledger'[n] = <<>>
    BY <2>1
  <2>3. keyFile' = keyFile /\ procAt' = [p \in Procs |-> "boot"] /\ key' = [p \in Procs |-> Nothing]
    BY <1>3 DEF PowerLoss
  <2> QED  BY <2>2, <2>3
<1>4. CASE Rotate \/ UNCHANGED chainVars
  BY <1>4 DEF Rotate, chainVars
<1> QED  BY <1>1, <1>2, <1>3, <1>4 DEF ChainNext

\* An append has a file that was at the ledger path, and the lock of it.
LEMMA FilesStep ==
    ASSUME ChainTyped, OpenFiles, Locked, [ChainNext]_chainVars
    PROVE  OpenFiles' /\ Locked'
<1> USE ChainAssumption DEF keyVars, fileVars, appendVars, logVars, NoInode, Inodes
<1>0. /\ rotations \in Nat /\ MaxRotations \in Nat /\ rotations <= MaxRotations
      /\ procAt \in [Procs -> Controls] /\ fd \in [Procs -> Inodes \cup {NoInode}]
      /\ lock \in [Inodes -> Procs \cup {Nothing}] /\ DOMAIN ledger = Inodes
      /\ \A p \in Procs : procAt[p] \in {"lock", "read", "write", "sync"} => fd[p] \in Inodes
  BY DEF ChainTyped, OpenFiles
<1>1. ASSUME NEW p \in Procs, procAt'[p] \notin {"lock", "read", "write", "sync"},
             \A q \in Procs \ {p} : procAt'[q] = procAt[q],
             lock' = lock \/ lock' = Unlocked(p),
             UNCHANGED <<path, fd, rotations>>,
             \/ UNCHANGED ledger
             \/ /\ procAt[p] = "write"
                /\ \A n \in Inodes \ {fd[p]} : ledger'[n] = ledger[n]
      PROVE  OpenFiles' /\ Locked'
  <2>1. OpenFiles'  BY <1>0, <1>1 DEF OpenFiles
  <2>2. \A q \in Procs \ {p} : procAt[q] \in {"read", "write", "sync"} =>
           lock'[fd[q]] = q
    <3> SUFFICES ASSUME NEW q \in Procs \ {p}, procAt[q] \in {"read", "write", "sync"}
                 PROVE  lock'[fd[q]] = q
      OBVIOUS
    <3>1. lock[fd[q]] = q /\ fd[q] \in Inodes  BY <1>0 DEF Locked
    <3> QED  BY <1>1, <3>1 DEF Unlocked
  <2> QED  BY <1>1, <2>1, <2>2 DEF Locked
<1>2. ASSUME NEW p \in Procs, procAt'[p] \in {"read", "write", "sync"},
             procAt[p] \in {"lock", "read", "write"},
             \A q \in Procs \ {p} : procAt'[q] = procAt[q],
             \/ /\ procAt[p] = "lock" /\ lock[fd[p]] = Nothing
                /\ lock' = [lock EXCEPT ![fd[p]] = p]
             \/ procAt[p] \in {"read", "write"} /\ lock' = lock,
             UNCHANGED <<path, fd, rotations>>,
             \A n \in Inodes \ {fd[p]} : ledger'[n] = ledger[n]
      PROVE  OpenFiles' /\ Locked'
  <2>1. fd[p] \in Inodes  BY <1>0, <1>2
  <2>2. OpenFiles'  BY <1>0, <1>2, <2>1 DEF OpenFiles
  <2>3. Locked'     BY <1>0, <1>2, <2>1 DEF Locked
  <2> QED  BY <2>2, <2>3
<1>3. ASSUME NEW p \in Procs, ReadKey(p) \/ LinkKey(p) \/ Crash(p) \/ SyncLedger(p)
                              \/ \E s \in Sizes : LogEvent(p, s)
      PROVE  OpenFiles' /\ Locked'
  <2>1. /\ procAt'[p] \notin {"lock", "read", "write", "sync"}
        /\ \A q \in Procs \ {p} : procAt'[q] = procAt[q]
        /\ lock' = lock \/ lock' = Unlocked(p)
        /\ UNCHANGED <<path, fd, rotations, ledger>>
    BY <1>3 DEF ReadKey, LinkKey, Crash, SyncLedger, LogEvent, ProcGoes, ChainTyped
  <2> QED  BY <1>1, <2>1
<1>4. ASSUME NEW p \in Procs, OpenLedger(p) PROVE OpenFiles' /\ Locked'
  <2>1. /\ procAt' = [procAt EXCEPT ![p] = "lock"] /\ procAt[p] = "open"
        /\ path' = (IF path = NoInode THEN rotations + 1 ELSE path)
        /\ fd' = [fd EXCEPT ![p] = path'] /\ UNCHANGED <<ledger, lock, rotations>>
    BY <1>4 DEF OpenLedger, ProcGoes
  <2>2. path' = rotations + 1 /\ path' \in Inodes
    BY <1>0, <2>1 DEF OpenFiles
  <2>3. OpenFiles'  BY <1>0, <2>1, <2>2 DEF OpenFiles
  <2>4. Locked'     BY <2>1 DEF Locked, ChainTyped
  <2> QED  BY <2>3, <2>4
<1>5. ASSUME NEW p \in Procs, LockLedger(p) PROVE OpenFiles' /\ Locked'
  <2>1. CASE lock[fd[p]] = Nothing
    <3>1. /\ procAt[p] = "lock" /\ procAt' = [procAt EXCEPT ![p] = "read"]
          /\ lock' = [lock EXCEPT ![fd[p]] = p] /\ UNCHANGED <<path, fd, rotations, ledger>>
      BY <1>5, <2>1 DEF LockLedger, ProcGoes
    <3> QED  BY <1>2, <2>1, <3>1 DEF ChainTyped
  <2>2. CASE lock[fd[p]] # Nothing
    <3>1. /\ procAt' = [procAt EXCEPT ![p] = "ready"] /\ UNCHANGED <<path, fd, rotations, ledger, lock>>
      BY <1>5, <2>2 DEF LockLedger, ProcGoes
    <3> QED  BY <1>1, <3>1 DEF ChainTyped
  <2> QED  BY <2>1, <2>2
<1>6. ASSUME NEW p \in Procs, ReadTail(p) PROVE OpenFiles' /\ Locked'
  <2>1. /\ procAt[p] = "read" /\ UNCHANGED <<path, fd, rotations, ledger>>
        /\ \/ procAt' = [procAt EXCEPT ![p] = "write"] /\ UNCHANGED lock
           \/ procAt' = [procAt EXCEPT ![p] = "ready"] /\ lock' = Unlocked(p)
    BY <1>6 DEF ReadTail, ProcGoes
  <2> QED  BY <1>1, <1>2, <2>1 DEF ChainTyped
<1>7. ASSUME NEW p \in Procs, WriteEntry(p) PROVE OpenFiles' /\ Locked'
  <2>1. /\ procAt[p] = "write" /\ UNCHANGED <<path, fd, rotations>>
        /\ \A n \in Inodes \ {fd[p]} : ledger'[n] = ledger[n]
        /\ \/ procAt' = [procAt EXCEPT ![p] = "sync"] /\ UNCHANGED lock
           \/ procAt' = [procAt EXCEPT ![p] = "ready"] /\ lock' = Unlocked(p)
    BY <1>7 DEF WriteEntry, ProcGoes, ChainTyped
  <2> QED  BY <1>1, <1>2, <2>1 DEF ChainTyped
<1>8. CASE PowerLoss
  <2>1. PICK kept \in [Inodes -> 0 .. MaxAppends] :
           /\ \A n \in Inodes : kept[n] <= Len(ledger[n])
           /\ ledger' = [n \in Inodes |-> SubSeq(ledger[n], 1, kept[n])]
    BY <1>8 DEF PowerLoss
  <2>2. \A n \in Inodes : ledger[n] = <<>> => ledger'[n] = <<>>
    BY <2>1
  <2>3. procAt' = [p \in Procs |-> "boot"] /\ UNCHANGED <<path, rotations>>
    BY <1>8 DEF PowerLoss
  <2> QED  BY <2>2, <2>3 DEF OpenFiles, Locked
<1>9. CASE Rotate
  BY <1>0, <1>9 DEF Rotate, OpenFiles, Locked
<1>10. CASE UNCHANGED chainVars
  BY <1>10 DEF chainVars, OpenFiles, Locked
<1> QED  BY <1>3, <1>4, <1>5, <1>6, <1>7, <1>8, <1>9, <1>10 DEF ChainNext, AppendStep

-----------------------------------------------------------------------------
\* A ledger that is chained and is continued by an entry made from its tail stays so.
LEMMA ContinueChain ==
    ASSUME NEW l \in Seq(Writes), NEW k \in Procs, Chained(l, k),
           NEW t \in [prev : Digests, seq : Nat], Continues(t, l, k),
           NEW it \in [id : Events, size : {"short"}], NEW b \in BOOLEAN, NEW c \in BOOLEAN,
           Written(Entry(k, t, it), b, c) \in Writes
    PROVE  Chained(Append(l, Written(Entry(k, t, it), b, c)), k)
<1> DEFINE w == Written(Entry(k, t, it), b, c)
           m == Append(l, w)
<1>1. /\ Len(m) = Len(l) + 1 /\ m[Len(l) + 1] = w /\ \A i \in 1 .. Len(l) : m[i] = l[i]
      /\ Len(l) \in Nat
  BY AppendIs
<1>2. w.entry.size = "short" /\ w.entry.id = it.id /\ w.entry.seq = t.seq
      /\ w.entry.hash = computeHash(k, t.prev, t.seq, it.id)
  BY DEF Entry, Written
<1>3. t.seq = Len(l) /\ t.prev = (IF l = <<>> THEN <<>> ELSE l[Len(l)].entry.hash)
  <2>1. CASE l = <<>>  BY <2>1 DEF Continues, Genesis
  <2>2. CASE l # <<>>
    <3>1. Len(l) \in 1 .. Len(l)  BY <2>2
    <3>2. l[Len(l)].entry.seq = Len(l) - 1  BY <3>1 DEF Chained
    <3> QED  BY <1>1, <2>2, <3>2 DEF Continues
  <2> QED  BY <2>1, <2>2
<1> HIDE DEF w, m
<1> SUFFICES ASSUME NEW i \in 1 .. Len(m)
             PROVE  /\ m[i].entry.size = "short" /\ m[i].entry.seq = i - 1
                    /\ m[i].entry.hash = computeHash(k, IF i = 1 THEN <<>> ELSE m[i - 1].entry.hash,
                                                     m[i].entry.seq, m[i].entry.id)
  BY DEF Chained, m, w
<1>4. CASE i \in 1 .. Len(l)
  <2>1. m[i] = l[i] /\ (i # 1 => m[i - 1] = l[i - 1])  BY <1>1, <1>4
  <2> QED  BY <1>4, <2>1 DEF Chained
<1>5. CASE i = Len(l) + 1
  <2>1. m[i] = w /\ (i # 1 => m[i - 1] = l[Len(l)] /\ l # <<>>) /\ (i = 1 => l = <<>>)
    BY <1>1, <1>5
  <2> QED  BY <1>2, <1>3, <1>5, <2>1
<1> QED  BY <1>1, <1>4, <1>5

\* What a power loss leaves of a chained ledger is chained.
LEMMA CutChain ==
    ASSUME NEW l \in Seq(Writes), NEW k, NEW n \in Nat, n <= Len(l), Chained(l, k)
    PROVE  Chained(SubSeq(l, 1, n), k)
<1> DEFINE m == SubSeq(l, 1, n)
<1>1. Len(m) = n /\ \A i \in 1 .. n : m[i] = l[i]  BY CutIs
<1> HIDE DEF m
<1> SUFFICES ASSUME NEW i \in 1 .. n
             PROVE  /\ m[i].entry.size = "short" /\ m[i].entry.seq = i - 1
                    /\ m[i].entry.hash = computeHash(k, IF i = 1 THEN <<>> ELSE m[i - 1].entry.hash,
                                                     m[i].entry.seq, m[i].entry.id)
  BY <1>1 DEF Chained, m
<1>2. m[i] = l[i] /\ (i # 1 => m[i - 1] = l[i - 1]) /\ i \in 1 .. Len(l)  BY <1>1
<1> QED  BY <1>2 DEF Chained

\* No entry is too long for a reader, an append's tail is the tail, and so what it
\* writes chains on, whatever else happens to the ledger.
LEMMA TailStep ==
    ASSUME "long" \notin Sizes, ChainInv, [ChainNext]_chainVars
    PROVE  TailFresh' /\ PathChained'
<1> USE ChainAssumption
<1>0. /\ rotations \in Nat /\ MaxRotations \in Nat /\ rotations <= MaxRotations
      /\ procAt \in [Procs -> Controls] /\ fd \in [Procs -> Inodes \cup {NoInode}]
      /\ tail \in [Procs -> [prev : Digests, seq : Nat]]
      /\ key \in [Procs -> Procs \cup {Nothing}] /\ ledger \in [Inodes -> Seq(Writes)]
      /\ path \in Inodes \cup {NoInode} /\ NoInode \notin Inodes
      /\ \A p \in Procs : procAt[p] \in {"lock", "read", "write", "sync"} => fd[p] \in Inodes
      /\ TailFresh /\ PathChained
  BY DEF ChainInv, ChainTyped, OpenFiles, NoInode, Inodes
<1>1. \A p \in Procs : procAt[p] \notin {"boot", "link"} => key[p] = keyFile /\ key[p] \in Procs
  BY <1>0 DEF ChainInv, KeysAgree, OneKey
<1>2. ASSUME NEW p \in Procs, procAt'[p] # "write",
             \A q \in Procs \ {p} : procAt'[q] = procAt[q] /\ key'[q] = key[q],
             UNCHANGED <<keyFile, path, ledger, fd, tail>>
      PROVE  TailFresh' /\ PathChained'
  BY <1>0, <1>2 DEF TailFresh, PathChained
<1>3. ASSUME NEW p \in Procs, ReadKey(p) \/ Crash(p) \/ LockLedger(p) \/ SyncLedger(p)
                              \/ \E s \in Sizes : LogEvent(p, s)
      PROVE  TailFresh' /\ PathChained'
  <2>1. /\ procAt'[p] # "write"
        /\ \A q \in Procs \ {p} : procAt'[q] = procAt[q] /\ key'[q] = key[q]
        /\ UNCHANGED <<keyFile, path, ledger, fd, tail>>
    BY <1>0, <1>3 DEF ReadKey, Crash, LockLedger, SyncLedger, LogEvent, ProcGoes, keyVars,
                      fileVars, appendVars
  <2> QED  BY <1>2, <2>1
<1>4. ASSUME NEW p \in Procs, LinkKey(p) PROVE TailFresh' /\ PathChained'
  <2>1. /\ procAt'[p] # "write" /\ UNCHANGED <<path, ledger, fd, tail>>
        /\ \A q \in Procs \ {p} : procAt'[q] = procAt[q] /\ key'[q] = key[q]
    BY <1>0, <1>4 DEF LinkKey, ProcGoes, fileVars, appendVars
  <2>2. CASE keyFile # Nothing
    <3>1. keyFile' = keyFile  BY <1>4, <2>2 DEF LinkKey
    <3> QED  BY <1>2, <2>1, <3>1
  <2>3. CASE keyFile = Nothing
    <3>1. \A n \in Inodes : Len(ledger[n]) = 0  BY <2>3 DEF ChainInv, KeysAgree
    <3>2. PathChained'
      BY <1>0, <2>1, <3>1 DEF PathChained, Chained
    <3>3. TailFresh'  BY <1>0, <2>1 DEF TailFresh
    <3> QED  BY <3>2, <3>3
  <2> QED  BY <2>2, <2>3
<1>5. ASSUME NEW p \in Procs, OpenLedger(p) PROVE TailFresh' /\ PathChained'
  <2>1. /\ procAt'[p] # "write" /\ UNCHANGED <<keyFile, key, ledger, tail>>
        /\ path' = (IF path = NoInode THEN rotations + 1 ELSE path)
        /\ \A q \in Procs \ {p} : procAt'[q] = procAt[q] /\ fd'[q] = fd[q]
    BY <1>0, <1>5 DEF OpenLedger, ProcGoes, keyVars
  <2>2. CASE path # NoInode  BY <1>0, <2>1, <2>2 DEF TailFresh, PathChained
  <2>3. CASE path = NoInode
    <3>1. path' = rotations + 1 /\ path' \in Inodes /\ ledger[path'] = <<>>
      BY <1>0, <2>1, <2>3 DEF ChainInv, OpenFiles, Inodes
    <3>2. \A q \in Procs \ {p} : procAt[q] = "write" => fd[q] # path'
      BY <2>3, <3>1 DEF ChainInv, OpenFiles
    <3>3. TailFresh'    BY <2>1, <3>2 DEF TailFresh
    <3>4. Len(ledger'[path']) = 0  BY <2>1, <3>1
    <3>5. PathChained'  BY <3>4 DEF PathChained, Chained
    <3> QED  BY <3>3, <3>5
  <2> QED  BY <2>2, <2>3
<1>6. ASSUME NEW p \in Procs, ReadTail(p) PROVE TailFresh' /\ PathChained'
  <2>1. /\ UNCHANGED <<keyFile, key, path, ledger, fd>>
        /\ \A q \in Procs \ {p} : procAt'[q] = procAt[q] /\ tail'[q] = tail[q]
        /\ procAt[p] = "read"
    BY <1>0, <1>6 DEF ReadTail, ProcGoes, keyVars, fileVars
  <2>2. ASSUME procAt'[p] = "write", fd[p] = path PROVE Continues(tail'[p], ledger[path], key[p])
    <3>1. path # NoInode  BY <1>0, <2>1, <2>2
    <3> DEFINE l == ledger[path]
    <3>2. \/ l = <<>> /\ tail' = [tail EXCEPT ![p] = Genesis]
          \/ l # <<>> /\ TailVerifies(l, key[p])
             /\ tail' = [tail EXCEPT ![p] = [prev |-> l[Len(l)].entry.hash,
                                             seq |-> l[Len(l)].entry.seq + 1]]
      BY <1>0, <1>6, <2>2, <3>1 DEF ReadTail, ProcGoes
    <3> HIDE DEF l
    <3> QED  BY <1>0, <3>2 DEF Continues, l
  <2>3. TailFresh'    BY <1>0, <2>1, <2>2 DEF TailFresh
  <2>4. PathChained'  BY <1>0, <2>1 DEF PathChained
  <2> QED  BY <2>3, <2>4
<1>7. ASSUME NEW p \in Procs, WriteEntry(p) PROVE TailFresh' /\ PathChained'
  <2>1. /\ procAt[p] = "write" /\ procAt'[p] # "write"
        /\ UNCHANGED <<keyFile, key, path, fd, tail>>
        /\ \A q \in Procs \ {p} : procAt'[q] = procAt[q]
    BY <1>0, <1>7 DEF WriteEntry, ProcGoes, keyVars, appendVars
  <2>2. PICK b \in BOOLEAN, c \in BOOLEAN :
           ledger' = [ledger EXCEPT ![fd[p]] =
                        Append(@, Written(Entry(key[p], tail[p], item[p]), b, c))]
    BY <1>7 DEF WriteEntry
  <2>3. \A q \in Procs \ {p} : procAt[q] = "write" => fd[q] # fd[p]
    BY <2>1 DEF ChainInv, Locked
  <2>4. TailFresh'
    <3>1. \A q \in Procs \ {p} : procAt[q] = "write" /\ fd[q] = path => ledger'[path] = ledger[path]
      BY <1>0, <2>2, <2>3
    <3> QED  BY <1>0, <2>1, <3>1 DEF TailFresh
  <2>5. CASE fd[p] = path
    <3>1. path \in Inodes /\ key[p] = keyFile /\ keyFile \in Procs
      BY <1>0, <1>1, <2>1, <2>5
    <3>2. Chained(ledger[path], keyFile) /\ Continues(tail[p], ledger[path], keyFile)
      BY <1>0, <2>1, <2>5, <3>1 DEF PathChained, TailFresh
    <3>3. item[p] \in [id : Events, size : {"short"}]
      BY <2>1 DEF ChainInv, ChainTyped, Appending
    <3>4. Written(Entry(keyFile, tail[p], item[p]), b, c) \in Writes
      BY <2>1, <3>1, EntryTyped DEF ChainInv
    <3>5. Chained(Append(ledger[path], Written(Entry(keyFile, tail[p], item[p]), b, c)), keyFile)
      BY <1>0, <3>1, <3>2, <3>3, <3>4, ContinueChain
    <3>6. ledger'[path] = Append(ledger[path], Written(Entry(keyFile, tail[p], item[p]), b, c))
      BY <1>0, <2>2, <2>5, <3>1
    <3> QED  BY <2>1, <2>4, <3>5, <3>6 DEF PathChained
  <2>6. CASE fd[p] # path
    <3>1. path # NoInode => ledger'[path] = ledger[path]  BY <1>0, <2>2, <2>6
    <3> QED  BY <1>0, <2>1, <2>4, <3>1 DEF PathChained
  <2> QED  BY <2>5, <2>6
<1>8. CASE PowerLoss
  <2>1. PICK kept \in [Inodes -> 0 .. MaxAppends] :
           /\ \A n \in Inodes : kept[n] <= Len(ledger[n])
           /\ ledger' = [n \in Inodes |-> SubSeq(ledger[n], 1, kept[n])]
    BY <1>8 DEF PowerLoss
  <2>2. procAt' = [p \in Procs |-> "boot"] /\ UNCHANGED <<keyFile, path>>
    BY <1>8 DEF PowerLoss
  <2>3. TailFresh'  BY <2>2 DEF TailFresh
  <2>4. PathChained'
    <3> SUFFICES ASSUME path # NoInode PROVE Chained(ledger'[path], keyFile)
      BY <2>2 DEF PathChained
    <3>1. path \in Inodes /\ kept[path] \in Nat /\ kept[path] <= Len(ledger[path])
      BY <1>0, <2>1
    <3>2. Chained(SubSeq(ledger[path], 1, kept[path]), keyFile)
      BY <1>0, <3>1, CutChain DEF PathChained
    <3> QED  BY <2>1, <3>1, <3>2
  <2> QED  BY <2>3, <2>4
<1>9. CASE Rotate
  <2>1. path' = NoInode /\ UNCHANGED <<procAt, fd>>  BY <1>9 DEF Rotate, appendVars
  <2>2. TailFresh'  BY <1>0, <2>1 DEF TailFresh
  <2> QED  BY <2>1, <2>2 DEF PathChained
<1>10. CASE UNCHANGED chainVars
  BY <1>0, <1>10 DEF chainVars, TailFresh, PathChained
<1> QED  BY <1>3, <1>4, <1>5, <1>6, <1>7, <1>8, <1>9, <1>10 DEF ChainNext, AppendStep

\* The ledger is empty and no key made when the first process starts.
LEMMA ChainInitInv == ChainInit => ChainInv
<1> SUFFICES ASSUME ChainInit PROVE ChainInv
  OBVIOUS
<1> USE ChainAssumption DEF ChainInit
<1>1. ChainTyped
  <2>1. Genesis \in [prev : Digests, seq : Nat]  BY DEF Genesis, Digests
  <2>2. \A n \in Inodes : ledger[n] \in Seq(Writes)  OBVIOUS
  <2>3. item \in [Procs -> [id : 0 .. MaxAppends, size : Sizes \cup {"short"}]]  OBVIOUS
  <2>4. lock \in [Inodes -> Procs \cup {Nothing}] /\ synced \in [Inodes -> Nat]  OBVIOUS
  <2>5. procAt \in [Procs -> Controls] /\ \A p \in Procs : procAt[p] \notin Appending
    BY DEF Controls, Appending
  <2> QED  BY <2>1, <2>2, <2>3, <2>4, <2>5 DEF ChainTyped
<1>2. KeysAgree    BY DEF KeysAgree, OneKey
<1>3. OpenFiles    BY DEF OpenFiles
<1>4. Locked /\ TailFresh /\ PathChained
  BY DEF Locked, TailFresh, PathChained
<1> QED  BY <1>1, <1>2, <1>3, <1>4 DEF ChainInv

LEMMA ChainInvStep ==
    ASSUME "long" \notin Sizes
    PROVE  ChainInv /\ [ChainNext]_chainVars => ChainInv'
  BY ChainTypedStep, KeysStep, FilesStep, TailStep DEF ChainInv

\* What chains verifies, if every line of it is whole.
LEMMA ChainedVerifies ==
    ASSUME ChainInv PROVE LedgerVerifies
<1> SUFFICES ASSUME path # NoInode, Undamaged(path)
             PROVE  /\ VerifyChain(ledger[path], keyFile)
                    /\ \A i \in 1 .. Len(ledger[path]) : ledger[path][i].entry.seq = i - 1
  BY DEF LedgerVerifies
<1>1. Chained(ledger[path], keyFile)  BY DEF ChainInv, PathChained
<1>2. Len(ledger[path]) \in Nat
  BY DEF ChainInv, ChainTyped
<1>3. \A i \in 1 .. Len(ledger[path]) : Parses(ledger[path], i)
  <2> SUFFICES ASSUME NEW i \in 1 .. Len(ledger[path]) PROVE Parses(ledger[path], i)
    OBVIOUS
  <2>1. i > 1 => i - 1 \in 1 .. Len(ledger[path])  BY <1>2
  <2> QED  BY <1>1, <2>1 DEF Undamaged, Chained, Parses
<1> QED  BY <1>1, <1>3 DEF VerifyChain, Chained

\* Whatever processes append to the ledger under whatever crashes, power losses,
\* failing calls and rotations, they work with one key, and a ledger whose lines
\* are whole verifies from its first line to its last: entries written at once by
\* processes that share nothing but the flock never break the chain.  No entry is
\* longer than a reader accepts (chainScanMax).
THEOREM LedgerIsOneChain ==
    ASSUME "long" \notin Sizes
    PROVE  ChainSpec => [](OneKey /\ LedgerVerifies)
<1>1. ChainInv => OneKey /\ LedgerVerifies
  BY ChainedVerifies DEF ChainInv, KeysAgree
<1> QED  BY ChainInitInv, ChainInvStep, <1>1, PTL DEF ChainSpec

-----------------------------------------------------------------------------
\* An event's line stays its line when another write follows, and when the machine
\* dies after it was synced.
LEMMA LineStays ==
    ASSUME NEW l \in Seq(Writes), NEW w \in Writes, NEW i \in 1 .. Len(l), NEW id, OnLine(l, i, id)
    PROVE  OnLine(Append(l, w), i, id)
<1>1. Append(l, w)[i] = l[i] /\ (i > 1 => Append(l, w)[i - 1] = l[i - 1])  OBVIOUS
<1> QED  BY <1>1 DEF OnLine

LEMMA LineSurvives ==
    ASSUME NEW l \in Seq(Writes), NEW n \in Nat, n <= Len(l), NEW i \in 1 .. n, NEW id,
           OnLine(l, i, id)
    PROVE  OnLine(SubSeq(l, 1, n), i, id)
<1>1. SubSeq(l, 1, n)[i] = l[i] /\ (i > 1 => SubSeq(l, 1, n)[i - 1] = l[i - 1])
  BY CutIs
<1> QED  BY <1>1 DEF OnLine

\* Steps that write no ledger and acknowledge nothing keep what is recorded.
LEMMA NothingWritten ==
    ASSUME LinesWhole, Recorded, UNCHANGED <<ledger, synced, acked>>, flat \subseteq flat',
           \A p \in Procs : procAt'[p] \in Appending =>
              \/ item'[p].id \in flat' /\ procAt'[p] # "sync"
              \/ /\ procAt[p] \in Appending /\ item'[p] = item[p]
                 /\ procAt'[p] = "sync" => procAt[p] = "sync" /\ fd'[p] = fd[p]
    PROVE  LinesWhole' /\ Recorded'
<1>1. LinesWhole'  BY DEF LinesWhole, NothingAfterPartial
<1>2. \A p \in Procs : procAt'[p] = "sync" => procAt[p] = "sync"
                                    /\ item'[p] = item[p] /\ fd'[p] = fd[p]
  BY DEF Appending
<1> QED  BY <1>1, <1>2 DEF Recorded, OnLine

\* One append: the line it writes comes after a line that is whole, and is on disk
\* before LogEvent returns nil.
LEMMA RecordStep ==
    ASSUME "long" \notin Sizes, "noNewline" \notin ChainFaults, MaxRotations = 0,
           RecordInv, [ChainNext]_chainVars
    PROVE  LinesWhole' /\ Recorded'
<1> USE ChainAssumption
<1>0. /\ procAt \in [Procs -> Controls] /\ fd \in [Procs -> Inodes \cup {NoInode}]
      /\ ledger \in [Inodes -> Seq(Writes)] /\ synced \in [Inodes -> Nat]
      /\ \A p \in Procs : procAt[p] \in {"lock", "read", "write", "sync"} =>
            fd[p] \in Inodes /\ fd[p] = path
      /\ LinesWhole /\ Recorded
  BY DEF RecordInv, ChainInv, ChainTyped, OpenFiles, NoInode, Inodes
<1>1. ASSUME NEW p \in Procs,
             \/ ReadKey(p) \/ LinkKey(p) \/ Crash(p) \/ OpenLedger(p) \/ LockLedger(p) \/ ReadTail(p)
      PROVE  LinesWhole' /\ Recorded'
  <2>1. /\ UNCHANGED <<ledger, synced, acked, flat, item>>
        /\ \A q \in Procs \ {p} : procAt'[q] = procAt[q] /\ fd'[q] = fd[q]
        /\ procAt'[p] \in Appending => procAt[p] \in Appending /\ procAt'[p] # "sync"
    BY <1>0, <1>1 DEF ReadKey, LinkKey, Crash, OpenLedger, LockLedger, ReadTail, ProcGoes,
                      fileVars, appendVars, logVars, Appending
  <2>2. flat \subseteq flat' /\ UNCHANGED <<ledger, synced, acked>>  BY <2>1
  <2>3. \A q \in Procs : procAt'[q] \in Appending =>
           /\ procAt[q] \in Appending /\ item'[q] = item[q]
           /\ procAt'[q] = "sync" => procAt[q] = "sync" /\ fd'[q] = fd[q]
    BY <2>1
  <2> QED  BY <1>0, <2>2, <2>3, NothingWritten
<1>2. ASSUME NEW p \in Procs, NEW s \in Sizes, LogEvent(p, s) PROVE LinesWhole' /\ Recorded'
  <2>1. flat \subseteq flat' /\ UNCHANGED <<ledger, synced, acked>>
    BY <1>2 DEF LogEvent, fileVars
  <2>2. \A q \in Procs : procAt'[q] \in Appending =>
              \/ item'[q].id \in flat' /\ procAt'[q] # "sync"
              \/ /\ procAt[q] \in Appending /\ item'[q] = item[q]
                 /\ procAt'[q] = "sync" => procAt[q] = "sync" /\ fd'[q] = fd[q]
    <3> SUFFICES ASSUME NEW q \in Procs, procAt'[q] \in Appending
                 PROVE  \/ item'[q].id \in flat' /\ procAt'[q] # "sync"
                        \/ /\ procAt[q] \in Appending /\ item'[q] = item[q]
                           /\ procAt'[q] = "sync" => procAt[q] = "sync" /\ fd'[q] = fd[q]
      OBVIOUS
    <3>1. item \in [Procs -> [id : 0 .. MaxAppends, size : Sizes \cup {"short"}]]
      BY DEF RecordInv, ChainInv, ChainTyped
    <3>2. CASE q = p
      <4>1. procAt'[p] = "open" /\ flat' = flat \cup {appends + 1}
        BY <1>0, <1>2, <3>2 DEF LogEvent, ProcGoes, Appending
      <4>2. item'[p].id = appends + 1  BY <1>2, <3>1 DEF LogEvent
      <4> QED  BY <3>2, <4>1, <4>2
    <3>3. CASE q # p
      BY <1>0, <1>2, <3>1, <3>3 DEF LogEvent, ProcGoes
    <3> QED  BY <3>2, <3>3
  <2> QED  BY <1>0, <2>1, <2>2, NothingWritten
<1>3. ASSUME NEW p \in Procs, WriteEntry(p) PROVE LinesWhole' /\ Recorded'
  <2> DEFINE Entered(b) == Written(Entry(key[p], tail[p], item[p]), b, b)
  <2>1. PICK n \in Inodes, l \in Seq(Writes) : n = fd[p] /\ l = ledger[n] /\ n = path
    BY <1>0, <1>3 DEF WriteEntry
  <2>2. PICK b \in BOOLEAN : /\ ledger' = [ledger EXCEPT ![n] = Append(l, Entered(b))]
                             /\ procAt' = [procAt EXCEPT ![p] = IF b THEN "sync" ELSE "ready"]
    BY <1>0, <1>3, <2>1 DEF WriteEntry, ProcGoes
  <2>3. /\ UNCHANGED <<synced, acked, flat, item, fd>> /\ procAt[p] = "write"
    BY <1>3 DEF WriteEntry, appendVars, logVars
  <2>4. PICK w \in Writes : w = Entered(b) /\ w.whole = b /\ w.nl = b /\ w.entry.id = item[p].id
                            /\ w.entry.size = "short"
    <3>1. Entered(b) \in Writes  BY <2>3, EntryTyped DEF RecordInv, ChainInv
    <3>2. item[p].size = "short"  BY <2>3 DEF RecordInv, ChainInv, ChainTyped, Appending
    <3> QED  BY <3>1, <3>2 DEF Written, Entry
  <2> HIDE DEF Entered
  <2>5. PICK m : m = Append(l, w) /\ m = ledger'[n]  BY <1>0, <2>2, <2>4
  <2>6. /\ Len(m) = Len(l) + 1 /\ m[Len(l) + 1] = w /\ Len(l) \in Nat
        /\ \A i \in 1 .. Len(l) : m[i] = l[i]
    BY <2>1, <2>4, <2>5, AppendIs, SMTT(20)
  <2>7. l # <<>> => l[Len(l)].whole /\ l[Len(l)].nl
    <3>1. Continues(tail[p], l, key[p])
      BY <2>1, <2>3 DEF RecordInv, ChainInv, TailFresh
    <3>2. l # <<>> => Len(l) \in 1 .. Len(l)  BY <2>6
    <3> QED  BY <1>0, <2>1, <3>1, <3>2 DEF Continues, TailVerifies, Parses, LinesWhole
  <2>8. LinesWhole'
    <3>1. \A i \in 1 .. Len(m) - 1 : m[i].whole /\ m[i].nl
      <4> SUFFICES ASSUME NEW i \in 1 .. Len(m) - 1 PROVE m[i].whole /\ m[i].nl
        OBVIOUS
      <4>1. i \in 1 .. Len(l) /\ m[i] = l[i]  BY <2>6
      <4>2. CASE i = Len(l)
        <5>1. l # <<>>  BY <4>1
        <5> QED  BY <2>7, <4>1, <4>2, <5>1
      <4>3. CASE i # Len(l)
        <5>1. i \in 1 .. Len(l) - 1  BY <2>6, <4>1, <4>3
        <5> QED  BY <1>0, <2>1, <4>1, <5>1 DEF LinesWhole, NothingAfterPartial
      <4> QED  BY <4>2, <4>3
    <3>2. \A i \in 1 .. Len(m) : m[i].whole = m[i].nl
      <4>1. m[Len(m)].whole = m[Len(m)].nl  BY <2>4, <2>6
      <4> QED  BY <2>6, <3>1, <4>1, <2>1, <1>0 DEF LinesWhole
    <3>3. \A k \in Inodes \ {n} : ledger'[k] = ledger[k]  BY <1>0, <2>2
    <3>4. ASSUME NEW k \in Inodes
          PROVE  /\ \A i \in 1 .. Len(ledger'[k]) - 1 : ledger'[k][i].whole /\ ledger'[k][i].nl
                 /\ \A i \in 1 .. Len(ledger'[k]) : ledger'[k][i].whole = ledger'[k][i].nl
      <4>1. CASE k = n   BY <2>5, <3>1, <3>2, <4>1
      <4>2. CASE k # n   BY <1>0, <3>3, <4>2 DEF LinesWhole, NothingAfterPartial
      <4> QED  BY <4>1, <4>2
    <3> QED  BY <3>4 DEF LinesWhole, NothingAfterPartial
  <2>9. \A k \in Inodes : /\ Len(ledger[k]) <= Len(ledger'[k])
                          /\ \A i \in 1 .. Len(ledger[k]), id \in Events :
                                OnLine(ledger[k], i, id) => OnLine(ledger'[k], i, id)
    <3>1. \A k \in Inodes \ {n} : ledger'[k] = ledger[k]  BY <1>0, <2>2
    <3>2. \A i \in 1 .. Len(l), id \in Events : OnLine(l, i, id) => OnLine(m, i, id)
      BY <2>1, <2>4, <2>5, LineStays, ZenonT(40)
    <3> SUFFICES ASSUME NEW k \in Inodes
                 PROVE  /\ Len(ledger[k]) <= Len(ledger'[k])
                        /\ \A i \in 1 .. Len(ledger[k]), id \in Events :
                              OnLine(ledger[k], i, id) => OnLine(ledger'[k], i, id)
      OBVIOUS
    <3>3. CASE k = n  BY <2>1, <2>5, <2>6, <3>2, <3>3
    <3>4. CASE k # n
      <4>1. Len(ledger[k]) \in Nat  BY <1>0
      <4> QED  BY <3>1, <3>4, <4>1
    <3> QED  BY <3>3, <3>4
  <2>10. b => OnLine(m, Len(m), item[p].id)
    <3>1. ASSUME Len(m) > 1 PROVE m[Len(m) - 1].nl
      <4>1. l # <<>> /\ m[Len(m) - 1] = l[Len(l)]  BY <2>6, <3>1
      <4> QED  BY <2>7, <4>1
    <3> QED  BY <2>4, <2>6, <3>1 DEF OnLine
  <2>11. Recorded'
    <3>1. \A k \in Inodes : synced'[k] <= Len(ledger'[k])
      BY <1>0, <2>3, <2>9 DEF Recorded
    <3>2. \A q \in Procs : procAt'[q] \in Appending => item'[q].id \in flat'
      BY <1>0, <2>2, <2>3 DEF Recorded, Appending
    <3>3. ASSUME NEW q \in Procs, procAt'[q] = "sync"
          PROVE  \E i \in 1 .. Len(ledger'[fd[q]]) : OnLine(ledger'[fd[q]], i, item[q].id)
      <4>1. CASE q = p
        <5>1. b /\ Len(m) \in 1 .. Len(m)  BY <1>0, <2>2, <2>6, <3>3, <4>1
        <5> QED  BY <2>1, <2>5, <2>10, <4>1, <5>1
      <4>2. CASE q # p
        <5>1. procAt[q] = "sync" /\ fd[q] \in Inodes /\ item[q].id \in Events
          BY <1>0, <2>2, <3>3, <4>2 DEF RecordInv, ChainInv, ChainTyped, Appending
        <5>2. PICK i \in 1 .. Len(ledger[fd[q]]) : OnLine(ledger[fd[q]], i, item[q].id)
          BY <1>0, <5>1 DEF Recorded
        <5>3. i \in 1 .. Len(ledger'[fd[q]]) /\ OnLine(ledger'[fd[q]], i, item[q].id)
          BY <1>0, <2>9, <5>1, <5>2
        <5> QED  BY <5>3
      <4> QED  BY <4>1, <4>2
    <3>4. ASSUME NEW id \in acked
          PROVE  id \in flat /\ \E k \in Inodes : \E i \in 1 .. synced[k] : OnLine(ledger'[k], i, id)
      <4>0. PICK k \in Inodes : \E i \in 1 .. synced[k] : OnLine(ledger[k], i, id)
        BY <1>0 DEF Recorded
      <4>1. PICK i \in 1 .. synced[k] : OnLine(ledger[k], i, id)  BY <4>0
      <4>2. id \in Events /\ i \in 1 .. Len(ledger[k])
        BY <1>0 DEF Recorded, RecordInv, ChainInv, ChainTyped
      <4> QED  BY <1>0, <2>9, <4>1, <4>2 DEF Recorded
    <3> QED  BY <2>3, <3>1, <3>2, <3>3, <3>4 DEF Recorded
  <2> QED  BY <2>8, <2>11
<1>4. ASSUME NEW p \in Procs, SyncLedger(p) PROVE LinesWhole' /\ Recorded'
  <2>1. /\ procAt[p] = "sync" /\ procAt' = [procAt EXCEPT ![p] = "ready"]
        /\ UNCHANGED <<ledger, fd, item, flat>>
        /\ \/ /\ synced' = [synced EXCEPT ![fd[p]] = Len(ledger[fd[p]])]
              /\ acked' = acked \cup {item[p].id}
           \/ UNCHANGED <<synced, acked>>
    BY <1>4 DEF SyncLedger, ProcGoes, appendVars
  <2>2. LinesWhole'  BY <1>0, <2>1 DEF LinesWhole, NothingAfterPartial
  <2>3. fd[p] \in Inodes /\ \A k \in Inodes : Len(ledger[k]) \in Nat  BY <1>0, <2>1
  <2>4. \A k \in Inodes : synced[k] <= synced'[k] /\ synced'[k] <= Len(ledger[k])
                          /\ synced[k] \in Nat /\ synced'[k] \in Nat
    <3> SUFFICES ASSUME NEW k \in Inodes
                 PROVE  /\ synced[k] <= synced'[k] /\ synced'[k] <= Len(ledger[k])
                        /\ synced[k] \in Nat /\ synced'[k] \in Nat
      OBVIOUS
    <3>1. synced[k] \in Nat /\ synced[k] <= Len(ledger[k])  BY <1>0 DEF Recorded
    <3>2. synced'[k] = synced[k] \/ synced'[k] = Len(ledger[k])  BY <1>0, <2>1
    <3> QED  BY <2>3, <3>1, <3>2
  <2>5. ASSUME NEW id \in acked'
        PROVE  id \in flat /\ \E k \in Inodes : \E i \in 1 .. synced'[k] : OnLine(ledger[k], i, id)
    <3>1. CASE id \in acked
      <4>0. PICK k \in Inodes : \E i \in 1 .. synced[k] : OnLine(ledger[k], i, id)
        BY <1>0, <3>1 DEF Recorded
      <4>1. PICK i \in 1 .. synced[k] : OnLine(ledger[k], i, id)  BY <4>0
      <4>2. i \in 1 .. synced'[k]  BY <2>4
      <4> QED  BY <1>0, <3>1, <4>1, <4>2 DEF Recorded
    <3>2. CASE id \notin acked
      <4>1. id = item[p].id /\ synced' = [synced EXCEPT ![fd[p]] = Len(ledger[fd[p]])]
        BY <2>1, <2>5, <3>2
      <4>2. PICK i \in 1 .. Len(ledger[fd[p]]) : OnLine(ledger[fd[p]], i, id)
        BY <1>0, <2>1, <4>1 DEF Recorded
      <4>3. i \in 1 .. synced'[fd[p]]  BY <1>0, <2>3, <4>1
      <4>4. id \in flat  BY <1>0, <2>1, <4>1 DEF Recorded, Appending
      <4> QED  BY <2>3, <4>2, <4>3, <4>4
    <3> QED  BY <3>1, <3>2
  <2>6. \A q \in Procs : procAt'[q] \in Appending \cup {"sync"} => procAt'[q] = procAt[q]
    BY <1>0, <2>1 DEF Appending
  <2>7. Recorded'
    BY <1>0, <2>1, <2>4, <2>5, <2>6 DEF Recorded
  <2> QED  BY <2>2, <2>7
<1>5. CASE PowerLoss
  <2>1. PICK kept \in [Inodes -> 0 .. MaxAppends] :
           /\ \A n \in Inodes : synced[n] <= kept[n] /\ kept[n] <= Len(ledger[n])
           /\ ledger' = [n \in Inodes |-> SubSeq(ledger[n], 1, kept[n])]
    BY <1>5 DEF PowerLoss
  <2>2. procAt' = [p \in Procs |-> "boot"] /\ UNCHANGED <<synced, flat, acked>>
    BY <1>5 DEF PowerLoss, logVars
  <2>3. \A n \in Inodes : /\ kept[n] \in Nat /\ Len(ledger'[n]) = kept[n]
                          /\ \A i \in 1 .. kept[n] : ledger'[n][i] = ledger[n][i]
    BY <1>0, <2>1, CutIs
  <2>4. LinesWhole'
    <3>1. ASSUME NEW n \in Inodes, NEW i \in 1 .. Len(ledger'[n])
          PROVE  /\ ledger'[n][i].whole = ledger'[n][i].nl
                 /\ i \in 1 .. Len(ledger'[n]) - 1 => ledger'[n][i].whole /\ ledger'[n][i].nl
      <4>1. Len(ledger[n]) \in Nat  BY <1>0
      <4>2. /\ ledger'[n][i] = ledger[n][i] /\ i \in 1 .. Len(ledger[n])
            /\ i \in 1 .. Len(ledger'[n]) - 1 => i \in 1 .. Len(ledger[n]) - 1
        BY <2>1, <2>3, <4>1
      <4> QED  BY <1>0, <4>2 DEF LinesWhole, NothingAfterPartial
    <3>2. \A n \in Inodes : \A i \in 1 .. Len(ledger'[n]) - 1 : i \in 1 .. Len(ledger'[n])
      BY <2>3
    <3> QED  BY <3>1, <3>2 DEF LinesWhole, NothingAfterPartial
  <2>5. ASSUME NEW id \in acked
        PROVE  id \in flat /\ \E k \in Inodes : \E i \in 1 .. synced[k] : OnLine(ledger'[k], i, id)
    <3>0. PICK k \in Inodes : \E i \in 1 .. synced[k] : OnLine(ledger[k], i, id)
      BY <1>0 DEF Recorded
    <3>1. PICK i \in 1 .. synced[k] : OnLine(ledger[k], i, id)  BY <3>0
    <3>2. i \in 1 .. kept[k]  BY <1>0, <2>1, <2>3
    <3>3. OnLine(ledger'[k], i, id)  BY <1>0, <2>1, <2>3, <3>1, <3>2, LineSurvives
    <3> QED  BY <1>0, <3>3 DEF Recorded
  <2>6. Recorded'
    <3>1. \A p \in Procs : procAt'[p] = "boot"  BY <2>2
    <3>2. \A n \in Inodes : synced'[n] <= Len(ledger'[n])  BY <2>1, <2>2, <2>3
    <3> QED  BY <2>2, <2>5, <3>1, <3>2 DEF Recorded, Appending
  <2> QED  BY <2>4, <2>6
<1>6. CASE Rotate
  BY <1>6 DEF Rotate, RecordInv, ChainInv, ChainTyped
<1>7. CASE UNCHANGED chainVars
  BY <1>0, <1>7 DEF chainVars, LinesWhole, NothingAfterPartial, Recorded
<1> QED  BY <1>1, <1>2, <1>3, <1>4, <1>5, <1>6, <1>7 DEF ChainNext, AppendStep

LEMMA RecordInitInv == ChainInit => RecordInv
<1> SUFFICES ASSUME ChainInit PROVE RecordInv
  OBVIOUS
<1>1. \A n \in Inodes : Len(ledger[n]) = 0 /\ synced[n] = 0  BY DEF ChainInit
<1>2. LinesWhole  BY <1>1 DEF LinesWhole, NothingAfterPartial
<1>3. Recorded    BY <1>1 DEF ChainInit, Recorded, Appending
<1> QED  BY <1>2, <1>3, ChainInitInv DEF RecordInv

LEMMA RecordInvStep ==
    ASSUME "long" \notin Sizes, "noNewline" \notin ChainFaults, MaxRotations = 0
    PROVE  RecordInv /\ [ChainNext]_chainVars => RecordInv'
  BY ChainInvStep, RecordStep DEF RecordInv

\* The ledger of several processes, as long as nobody moves it aside and no write
\* stops between an entry and its newline: its types, its one key, its chain, and
\* nothing after a line that was not finished.
THEOREM LedgerIsWhole ==
    ASSUME "long" \notin Sizes, "noNewline" \notin ChainFaults, MaxRotations = 0
    PROVE  ChainSpec => []LedgerWhole
<1>1. RecordInv => LedgerWhole
  BY ChainTypedOK, ChainedVerifies
     DEF RecordInv, LinesWhole, ChainInv, KeysAgree, LedgerWhole
<1> QED  BY RecordInitInv, RecordInvStep, <1>1, PTL DEF ChainSpec

\* An event whose LogEvent returned nil is in the flat log and on a line of its own
\* that parses, after any crash, torn write or power loss.
THEOREM AcknowledgedStays ==
    ASSUME "long" \notin Sizes, "noNewline" \notin ChainFaults, MaxRotations = 0
    PROVE  ChainSpec => []AckedRecorded
<1>1. RecordInv => AckedRecorded
  <2> SUFFICES ASSUME RecordInv, NEW id \in acked
               PROVE  /\ id \in flat
                      /\ \E n \in Inodes : \E i \in 1 .. Len(ledger[n]) :
                            ledger[n][i].entry.id = id /\ Parses(ledger[n], i)
    BY DEF AckedRecorded
  <2>0. PICK n \in Inodes : \E i \in 1 .. synced[n] : OnLine(ledger[n], i, id)
    BY DEF RecordInv, Recorded
  <2>1. PICK i \in 1 .. synced[n] : OnLine(ledger[n], i, id)  BY <2>0
  <2>2. i \in 1 .. Len(ledger[n])
    BY DEF RecordInv, Recorded, ChainInv, ChainTyped
  <2>3. ledger[n][i].entry.id = id /\ Parses(ledger[n], i)
    BY <2>1 DEF OnLine, Parses
  <2> QED  BY <2>2, <2>3 DEF RecordInv, Recorded
<1> QED  BY RecordInitInv, RecordInvStep, <1>1, PTL DEF ChainSpec

-----------------------------------------------------------------------------
(* Records of attaches.                                                    *)

\* A call has its MIRROR_ATTACH from the step that wrote it to the one that writes the
\* MIRROR_DETACH or reports that it could not.
Attached == {"switch", "stream", "release", "logDetach"}
AttachedSound ==
    /\ DOMAIN pc = Handlers /\ DOMAIN record = Handlers
    /\ \A h \in Handlers : record[h] = "attached" <=> pc[h] \in Attached

LEMMA AttachedStep == AttachedSound /\ [Next]_vars => AttachedSound'
<1> SUFFICES ASSUME AttachedSound, [Next]_vars PROVE AttachedSound'
  OBVIOUS
<1>1. ASSUME UNCHANGED <<pc, record>> PROVE AttachedSound'
  BY <1>1 DEF AttachedSound
<1>2. ASSUME NEW h \in Handlers, NEW to, NEW kept, pc' = [pc EXCEPT ![h] = to],
             record' = [record EXCEPT ![h] = kept], kept = "attached" <=> to \in Attached
      PROVE  AttachedSound'
  BY <1>2 DEF AttachedSound
<1>3. ASSUME NEW h \in Handlers, NEW to, pc' = [pc EXCEPT ![h] = to], UNCHANGED record,
             pc[h] \in Attached <=> to \in Attached
      PROVE  AttachedSound'
  BY <1>3 DEF AttachedSound
<1>4. CASE UNCHANGED vars
  BY <1>1, <1>4 DEF vars
<1>5. ASSUME NEW s \in Sessions,
             \/ Unregister(s) \/ EndSessionAttaches(s) \/ SetIdentitySource(s)
             \/ \E u \in Users : SetIdentity(s, u)
      PROVE  AttachedSound'
  BY <1>1, <1>5 DEF Unregister, EndSessionAttaches, SetIdentitySource, SetIdentity
<1>6. ASSUME NEW r \in Requests,
             \/ Deadline(r) \/ (\E m \in {"approved", "denied"} : MarkRequest(r, m))
             \/ \E who \in Keys \cup Users, sf \in {"http", "shell"} : ClaimRequest(r, who, sf)
      PROVE  AttachedSound'
  BY <1>1, <1>6 DEF Deadline, MarkRequest, ClaimRequest
<1>7. ASSUME NEW h \in Handlers PROVE HandlerStep(h) \/ EndStream(h) \/ (\E a \in Args : Lookup(h, a)) => AttachedSound'
  <2>1. CASE SnoopGate(h) \/ AttachCapacity(h)
    BY <1>3, <2>1 DEF SnoopGate, AttachCapacity, Goes, Returns, Attached
  <2>2. CASE SnoopApprovalState(h)
    BY <1>3, <2>2 DEF SnoopApprovalState, FindApproved, FindDenied, FindPending, OpenRequest, Goes, Returns,
                      Attached
  <2>3. CASE ReserveAttach(h) \/ ConsumeSnoopApproval(h)
    BY <1>3, <2>3 DEF ReserveAttach, Reserved, ConsumeSnoopApproval, Goes, Returns, Attached
  <2>4. CASE LogAttach(h)
    BY <1>2, <1>3, <2>4 DEF LogAttach, Goes, Returns, Attached
  <2>5. CASE SwitchProtocols(h) \/ StreamOver(h) \/ DetachRelease(h)
    BY <1>3, <2>5 DEF SwitchProtocols, StreamOver, DetachRelease, Goes, Attached
  <2>6. CASE LogDetach(h)
    BY <1>2, <2>6 DEF LogDetach, Returns, Attached
  <2>7. CASE EndStream(h)
    BY <1>1, <2>7 DEF EndStream
  <2>8. CASE \E a \in Args : Lookup(h, a)
    BY <1>2, <2>8 DEF Lookup, Attached
  <2> QED
    BY <2>1, <2>2, <2>3, <2>4, <2>5, <2>6, <2>7, <2>8 DEF HandlerStep
<1> QED
  BY <1>4, <1>5, <1>6, <1>7 DEF Next

\* With audit writes and connections that fail for any number of calls: a stream runs only
\* with its MIRROR_ATTACH in the log, and none that has one ends without its MIRROR_DETACH.
THEOREM AttachesAreRecorded == Spec => []AttachOnRecord
<1>1. Init => AttachedSound
  BY DEF Init, AttachedSound, Attached
<1>2. AttachedSound => AttachOnRecord
  BY DEF AttachedSound, AttachOnRecord, Attached
<1> QED
  BY <1>1, <1>2, AttachedStep, PTL DEF Spec

-----------------------------------------------------------------------------
(* The records of both.                                                    *)

\* However calls, writes and connections fail, processes die and files are moved aside:
\* no attach is unrecorded, and the ledger that is left verifies.
THEOREM RecordsStay ==
    ASSUME "long" \notin Sizes
    PROVE  ProgressSpec => []RecordsKept
<1>1. ProgressInit => AttachedSound /\ ChainInv
  <2>1. Init => AttachedSound
    BY DEF Init, AttachedSound, Attached
  <2> QED
    BY <2>1, ChainInitInv DEF ProgressInit
<1>2. [ProgressNext]_progressVars => [Next]_vars /\ [ChainNext]_chainVars
  BY Zenon DEF ProgressNext, progressVars
<1>3. AttachedSound /\ ChainInv /\ [ProgressNext]_progressVars => (AttachedSound /\ ChainInv)'
  BY <1>2, AttachedStep, ChainInvStep
<1>4. AttachedSound /\ ChainInv => RecordsKept
  BY ChainedVerifies DEF AttachedSound, AttachOnRecord, Attached, ChainInv, RecordsKept
<1> QED
  BY <1>1, <1>3, <1>4, PTL DEF ProgressSpec
=============================================================================
