--------------------------- MODULE FourEyesProofs ---------------------------
(***************************************************************************)
(* Machine-checked proofs about FourEyes, for every number of requests,    *)
(* deciders and users, every set of rules and every combination of faults; *)
(* a theorem that needs some call never to fail says which.                *)
(***************************************************************************)
EXTENDS FourEyes, TLAPS

\* The locals a call needs are set where the code reads them.
FramesOK ==
    \A d \in Deciders :
        /\ dpc[d] \in {"expireLog", "expireUnlink"} => target[d] \in Requests
        /\ dpc[d] \in {"locate", "claim"} \cup Claiming => call[d] \in Calls

\* What the type of the state rests on.
TypeInv == TypeOK /\ FramesOK

\* EffectiveTTL (the default for a rule without a TTL) is a number of seconds.
LEMMA EffectiveTTLNat == \A rule \in Rules : EffectiveTTL(rule) \in Nat
  BY ConstantsAssumption DEF EffectiveTTL, RuleType

\* LogEvent, whatever its outcome, leaves a sequence of events.
LEMMA LogEventType ==
    ASSUME chain \in Seq(Events), NEW e \in Events, NEW failed \in BOOLEAN,
           LogEvent(e, failed)
    PROVE  chain' \in Seq(Events)
  BY DEF LogEvent

\* The entries DecideRequest and sweepStaleClaims write are chain events.
LEMMA EventTypes ==
    /\ \A c \in Calls : Decision(c) \in Events /\ Reverted(c) \in Events
    /\ \A r \in Requests : Expired(r) \in Events
  BY DEF Calls, Decision, Reverted, Expired, Events

\* Every step of a requester, a decider or the clock keeps the types.
LEMMA TypeInvStep == TypeInv /\ [Next]_vars => TypeInv'
<1> SUFFICES ASSUME TypeInv, [Next]_vars PROVE TypeInv'
  OBVIOUS
<1> USE DEF TypeInv, TypeOK, FramesOK, FileStates, Verbs, Posting, Polling,
            Leaving, Settled, Sweeping, Claiming, fs, reqVars, decVars, Frame
<1>1. ASSUME NEW r \in Requests, RequesterStep(r) PROVE TypeInv'
  <2>1. CASE OpenPending(r)   BY <2>1 DEF OpenPending, RequesterGoes
  <2>2. CASE WritePending(r)
    <3>1. PICK f \in {"partial", "pending"}, p \in {"arm", "failed"} :
             file' = [file EXCEPT ![r] = f] /\ rpc' = [rpc EXCEPT ![r] = p]
      BY <2>2 DEF WritePending, RequesterGoes
    <3> QED  BY <2>2, <3>1 DEF WritePending
  <2>3. CASE ArmDeadline(r)
    <3>1. EffectiveTTL(request[r].rule) \in Nat  BY EffectiveTTLNat
    <3> QED  BY <2>3, <3>1 DEF ArmDeadline, RequesterGoes
  <2>4. CASE PollClock(r)     BY <2>4 DEF PollClock, RequesterGoes
  <2>5. CASE StatApproved(r)  BY <2>5 DEF StatApproved, RequesterGoes
  <2>6. CASE StatDenied(r)    BY <2>6 DEF StatDenied, RequesterGoes
  <2>7. CASE Wake(r)          BY <2>7 DEF Wake, RequesterGoes
  <2>8. CASE Withdraw(r)      BY <2>8 DEF Withdraw, RequesterGoes
  <2> QED  BY <1>1, <2>1, <2>2, <2>3, <2>4, <2>5, <2>6, <2>7, <2>8
             DEF RequesterStep
<1>2. ASSUME NEW r \in Requests, ContextDone(r) \/ CrashRequester(r)
      PROVE  TypeInv'
  <2>1. CASE ContextDone(r)     BY <2>1 DEF ContextDone, RequesterGoes
  <2>2. CASE CrashRequester(r)  BY <2>2 DEF CrashRequester
  <2> QED  BY <1>2, <2>1, <2>2
<1>3. ASSUME NEW d \in Deciders, DeciderStep(d) PROVE TypeInv'
  <2> USE DEF DeciderGoes, DeciderReturns, DeciderIdle
  <2>1. CASE \E r \in Requests : SweepStat(d, r)
    BY <2>1 DEF SweepStat
  <2>2. CASE SweepLog(d)
    <3>1. chain' \in Seq(Events)
      BY <2>2, EventTypes, LogEventType DEF SweepLog
    <3> QED  BY <2>2, <3>1 DEF SweepLog
  <2>3. CASE SweepUnlink(d)
    <3>1. PICK f \in FileStates : file' = [file EXCEPT ![target[d]] = f]
      BY <2>3 DEF SweepUnlink
    <3> QED  BY <2>3, <3>1 DEF SweepUnlink
  <2>4. CASE SweepDone(d)
    <3>1. CASE DeciderReturns(d, "sweep")  BY <2>4, <3>1 DEF SweepDone
    <3>2. CASE call[d] # ListCall /\ DeciderGoes(d, "sweep", "locate")
      BY <2>4, <3>2 DEF SweepDone
    <3> QED  BY <2>4, <3>1, <3>2 DEF SweepDone
  <2>5. CASE Locate(d)
    <3>1. CASE DeciderReturns(d, "locate")  BY <2>5, <3>1 DEF Locate
    <3>2. CASE DeciderGoes(d, "locate", "claim")  BY <2>5, <3>2 DEF Locate
    <3> QED  BY <2>5, <3>1, <3>2 DEF Locate
  <2>6. CASE Claim(d)
    <3>1. CASE DeciderReturns(d, "claim") /\ UNCHANGED file
      BY <2>6, <3>1 DEF Claim
    <3>2. CASE /\ DeciderGoes(d, "claim", "stamp")
               /\ file' = [file EXCEPT ![call[d].req] = "claimed"]
      BY <2>6, <3>2 DEF Claim
    <3> QED  BY <2>6, <3>1, <3>2 DEF Claim
  <2>7. CASE StampClaim(d)    BY <2>7 DEF StampClaim
  <2>8. CASE LogDecision(d)
    <3>1. chain' \in Seq(Events)
      BY <2>8, EventTypes, LogEventType DEF LogDecision
    <3> QED  BY <2>8, <3>1 DEF LogDecision
  <2>9. CASE CreateMarker(d)
    <3>1. call[d].req \in Requests /\ call[d].verb \in Verbs
      BY <2>9 DEF CreateMarker, Calls
    <3>2. marker[call[d].req] \cup {call[d].verb} \in SUBSET Verbs  BY <3>1
    <3>3. marker' \in [Requests -> SUBSET Verbs]
      <4> HIDE DEF Verbs, FramesOK
      <4>1. CASE marker' = marker  BY <4>1
      <4>2. CASE marker' = [marker EXCEPT ![call[d].req] = @ \cup {call[d].verb}]
        BY <4>2, <3>1, <3>2
      <4> QED  BY <2>9, <4>1, <4>2 DEF CreateMarker
    <3>4. PICK p \in {"write", "revert"} : DeciderGoes(d, "create", p)
      BY <2>9 DEF CreateMarker
    <3> QED  BY <2>9, <3>3, <3>4 DEF CreateMarker
  <2>10. CASE WriteMarker(d)  BY <2>10 DEF WriteMarker
  <2>11. CASE UnlinkMarker(d)
    <3>1. call[d].req \in Requests  BY <2>11 DEF UnlinkMarker, Calls
    <3>2. marker[call[d].req] \ {call[d].verb} \in SUBSET Verbs  BY <3>1
    <3>3. marker' \in [Requests -> SUBSET Verbs]
      BY <2>11, <3>1, <3>2 DEF UnlinkMarker
    <3> QED  BY <2>11, <3>3 DEF UnlinkMarker
  <2>12. CASE LogReverted(d)
    <3>1. chain' \in Seq(Events)
      BY <2>12, EventTypes, LogEventType DEF LogReverted
    <3> QED  BY <2>12, <3>1 DEF LogReverted
  <2>13. CASE ReleaseClaim(d) BY <2>13 DEF ReleaseClaim
  <2>14. CASE RemoveClaim(d)
    <3>1. PICK f \in FileStates : file' = [file EXCEPT ![call[d].req] = f]
      BY <2>14 DEF RemoveClaim, Calls
    <3> QED  BY <2>14, <3>1 DEF RemoveClaim
  <2> QED  BY <1>3, <2>1, <2>2, <2>3, <2>4, <2>5, <2>6, <2>7, <2>8, <2>9,
              <2>10, <2>11, <2>12, <2>13, <2>14 DEF DeciderStep
<1>4. ASSUME NEW d \in Deciders, CrashDecider(d) PROVE TypeInv'
  BY <1>4 DEF CrashDecider, DeciderIdle
<1>5. ASSUME NEW d \in Deciders, NEW c \in Calls \cup {ListCall}, Begin(d, c)
      PROVE  TypeInv'
  BY <1>5 DEF Begin
<1>6. CASE Tick  BY <1>6 DEF Tick
<1>7. CASE UNCHANGED vars  BY <1>7 DEF vars
<1> QED  BY <1>1, <1>2, <1>3, <1>4, <1>5, <1>6, <1>7 DEF Next

\* Before anything happened the types hold.
LEMMA TypeInvInit == Init => TypeInv
  BY ConstantsAssumption
     DEF Init, TypeInv, TypeOK, FramesOK, FileStates, Sweeping, Claiming,
         Calls, ListCall

\* The state has its type (TypeOK), whatever interleaves, fails or dies.
THEOREM TypeCorrect == Spec => []TypeOK
<1>1. Init => TypeInv  BY TypeInvInit
<1>2. TypeInv => TypeOK  BY DEF TypeInv
<1> QED  BY <1>1, <1>2, TypeInvStep, PTL DEF Spec

-----------------------------------------------------------------------------
(* Claims: who is past the claiming rename, and where the file then is. *)

\* A decision past its claim finds the file under the claimed name, or swept
\* away: never pending, where another decision could claim it again.
ClaimsOK ==
    /\ \A r \in Requests : /\ rpc[r] = "new" => file[r] = "none"
                           /\ rpc[r] = "write" => file[r] = "partial"
    /\ \A d \in Deciders : dpc[d] \in Claiming =>
           /\ file[call[d].req] \in {"claimed", "none"}
           /\ rpc[call[d].req] \notin {"new", "write"}
    /\ OneDecider

\* A step that moves no file into or out of a name, no requester before its
\* post and no decision into Claiming keeps ClaimsOK.
LEMMA ClaimsFrame ==
    ASSUME TypeInv, ClaimsOK,
           UNCHANGED file,
           \A r \in Requests : rpc'[r] = rpc[r]
                               \/ rpc'[r] \notin {"new", "write"},
           \A d \in Deciders : dpc'[d] \in Claiming =>
               dpc[d] \in Claiming /\ call'[d] = call[d]
    PROVE  ClaimsOK'
  BY DEF TypeInv, TypeOK, FramesOK, ClaimsOK, OneDecider, Calls

\* Every step keeps ClaimsOK: the rename needs the pending name, and while a
\* decision is past its claim nobody can put that name back but the decision
\* itself, as it returns.
LEMMA ClaimsStep == TypeInv /\ ClaimsOK /\ [Next]_vars => ClaimsOK'
<1> SUFFICES ASSUME TypeInv, ClaimsOK, [Next]_vars PROVE ClaimsOK'
  OBVIOUS
<1> USE DEF fs, reqVars, decVars, Frame
<1> DEFINE Types == /\ file \in [Requests -> FileStates]
                    /\ rpc \in [Requests -> {"new"} \cup Posting \cup Polling
                                             \cup Leaving \cup Settled]
                    /\ dpc \in [Deciders -> {"idle", "locate", "claim"}
                                   \cup Sweeping \cup Claiming]
                    /\ call \in [Deciders -> Calls \cup {ListCall}]
                    /\ target \in [Deciders -> Requests \cup {NoOne}]
                    /\ FramesOK
<1>0. Types  BY DEF TypeInv, TypeOK
<1> USE <1>0
<1> HIDE DEF Types
<1>1. ASSUME NEW r \in Requests, RequesterStep(r) PROVE ClaimsOK'
  <2> USE DEF Types
  <2>1. CASE OpenPending(r)
    BY <2>1 DEF OpenPending, RequesterGoes, ClaimsOK, OneDecider, FramesOK, Calls
  <2>2. CASE WritePending(r)
    <3>1. PICK f \in {"partial", "pending"}, p \in {"arm", "failed"} :
             file' = [file EXCEPT ![r] = f] /\ rpc' = [rpc EXCEPT ![r] = p]
      BY <2>2 DEF WritePending, RequesterGoes
    <3> QED  BY <2>2, <3>1
          DEF WritePending, RequesterGoes, ClaimsOK, OneDecider, FramesOK, Calls
  <2>3. CASE Withdraw(r)
    <3>1. PICK p \in {"timedout", "canceled"} : rpc' = [rpc EXCEPT ![r] = p]
      BY <2>3 DEF Withdraw, RequesterGoes
    <3> QED  BY <2>3, <3>1
          DEF Withdraw, ClaimsOK, OneDecider, FramesOK, Calls, RequesterGoes
  <2>4. CASE \/ ArmDeadline(r) \/ PollClock(r) \/ StatApproved(r)
             \/ StatDenied(r) \/ Wake(r)
    <3>1. /\ UNCHANGED <<file, dpc, call>>
          /\ \E p \in {"poll", "statApproved", "expire", "granted", "statDenied",
                       "refused", "sleep"} : rpc' = [rpc EXCEPT ![r] = p]
      BY <2>4 DEF ArmDeadline, PollClock, StatApproved, StatDenied, Wake,
                  RequesterGoes
    <3> QED  BY <3>1, ClaimsFrame
  <2> QED  BY <1>1, <2>1, <2>2, <2>3, <2>4 DEF RequesterStep
<1>2. ASSUME NEW r \in Requests, ContextDone(r) \/ CrashRequester(r)
      PROVE  ClaimsOK'
  <2>1. /\ UNCHANGED <<file, dpc, call>>
        /\ \E p \in {"cancel", "dead"} : rpc' = [rpc EXCEPT ![r] = p]
    BY <1>2 DEF ContextDone, CrashRequester, RequesterGoes
  <2> QED  BY <2>1, ClaimsFrame DEF Types
<1>3. ASSUME NEW d \in Deciders, DeciderStep(d) PROVE ClaimsOK'
  <2> USE DEF Types
  <2>1. CASE \E q \in Requests : SweepStat(d, q)
    <3>1. UNCHANGED <<file, rpc, call>>
          /\ \E p \in {"expireLog", "sweep"} : dpc' = [dpc EXCEPT ![d] = p]
      BY <2>1 DEF SweepStat
    <3> QED  BY <3>1, ClaimsFrame DEF Claiming
  <2>2. CASE SweepLog(d)
    <3>1. UNCHANGED <<file, rpc, call>>
          /\ \E p \in {"expireUnlink", "sweep"} : dpc' = [dpc EXCEPT ![d] = p]
      BY <2>2 DEF SweepLog, DeciderGoes
    <3> QED  BY <3>1, ClaimsFrame DEF Claiming
  <2>3. CASE SweepUnlink(d)
    <3>1. UNCHANGED <<rpc, call>> /\ dpc' = [dpc EXCEPT ![d] = "sweep"]
          /\ target[d] \in Requests
      BY <2>3 DEF SweepUnlink, DeciderGoes, FramesOK
    <3> QED  BY <2>3, <3>1
          DEF SweepUnlink, ClaimsOK, OneDecider, FramesOK, Calls, Claiming
  <2>4. CASE SweepDone(d) \/ Locate(d)
    <3>1. UNCHANGED <<file, rpc>>
          /\ \E p \in {"idle", "locate", "claim"} : dpc' = [dpc EXCEPT ![d] = p]
          /\ \A e \in Deciders \ {d} : call'[e] = call[e]
      BY <2>4 DEF SweepDone, Locate, DeciderGoes, DeciderReturns, DeciderIdle
    <3> QED  BY <3>1, ClaimsFrame DEF Claiming
  <2>5. CASE Claim(d)
    <3>1. CASE file[call[d].req] # "pending"
      <4>1. UNCHANGED <<file, rpc>> /\ dpc' = [dpc EXCEPT ![d] = "idle"]
            /\ \A e \in Deciders \ {d} : call'[e] = call[e]
        BY <2>5, <3>1 DEF Claim, DeciderReturns, DeciderIdle
      <4> QED  BY <4>1, ClaimsFrame DEF Claiming
    <3>2. CASE file[call[d].req] = "pending"
      <4>1. /\ UNCHANGED <<rpc, call>>
            /\ dpc' = [dpc EXCEPT ![d] = "stamp"]
            /\ file' = [file EXCEPT ![call[d].req] = "claimed"]
            /\ call[d] \in Calls /\ call[d].req \in Requests
        BY <2>5, <3>2 DEF Claim, DeciderGoes, FramesOK, Calls
      <4> QED  BY <3>2, <4>1
            DEF ClaimsOK, OneDecider, FramesOK, Calls, Claiming
    <3> QED  BY <3>1, <3>2
  <2>6. CASE \/ StampClaim(d) \/ LogDecision(d) \/ CreateMarker(d)
             \/ WriteMarker(d) \/ UnlinkMarker(d) \/ LogReverted(d)
    <3>1. UNCHANGED <<file, rpc, call>> /\ dpc[d] \in Claiming
          /\ \E p \in Claiming : dpc' = [dpc EXCEPT ![d] = p]
      BY <2>6 DEF StampClaim, LogDecision, CreateMarker, WriteMarker,
                  UnlinkMarker, LogReverted, DeciderGoes, Claiming
    <3> QED  BY <3>1, ClaimsFrame
  <2>7. CASE ReleaseClaim(d) \/ RemoveClaim(d)
    <3>1. /\ UNCHANGED rpc
          /\ dpc[d] \in Claiming /\ dpc' = [dpc EXCEPT ![d] = "idle"]
          /\ call[d] \in Calls /\ call[d].req \in Requests
          /\ \A e \in Deciders \ {d} : call'[e] = call[e]
          /\ file[call[d].req] \in {"claimed", "none"}
      BY <2>7 DEF ReleaseClaim, RemoveClaim, DeciderReturns, DeciderIdle,
                  FramesOK, Calls, Claiming, ClaimsOK
    <3>2. \A r \in Requests : r # call[d].req => file'[r] = file[r]
      BY <2>7, <3>1 DEF ReleaseClaim, RemoveClaim
    <3>3. \A e \in Deciders : dpc'[e] \in Claiming =>
             /\ dpc[e] \in Claiming /\ call'[e] = call[e]
             /\ call[e].req \in Requests /\ call[e].req # call[d].req
      BY <3>1 DEF ClaimsOK, OneDecider, FramesOK, Calls, Claiming
    <3> QED  BY <3>1, <3>2, <3>3 DEF ClaimsOK, OneDecider
  <2> QED  BY <1>3, <2>1, <2>2, <2>3, <2>4, <2>5, <2>6, <2>7 DEF DeciderStep
<1>4. ASSUME NEW d \in Deciders, CrashDecider(d) PROVE ClaimsOK'
  <2>1. UNCHANGED <<file, rpc>> /\ dpc' = [dpc EXCEPT ![d] = "idle"]
        /\ \A e \in Deciders \ {d} : call'[e] = call[e]
    BY <1>4 DEF CrashDecider, DeciderIdle, Types
  <2> QED  BY <2>1, ClaimsFrame DEF Claiming, Types
<1>5. ASSUME NEW d \in Deciders, NEW c \in Calls \cup {ListCall}, Begin(d, c)
      PROVE  ClaimsOK'
  <2>1. UNCHANGED <<file, rpc>> /\ dpc' = [dpc EXCEPT ![d] = "sweep"]
        /\ \A e \in Deciders \ {d} : call'[e] = call[e]
    BY <1>5 DEF Begin, Types
  <2> QED  BY <2>1, ClaimsFrame DEF Claiming, Types
<1>6. CASE Tick \/ UNCHANGED vars
  <2>1. UNCHANGED <<file, rpc, dpc, call>>  BY <1>6 DEF Tick, vars
  <2> QED  BY <2>1, ClaimsFrame
<1> QED  BY <1>1, <1>2, <1>3, <1>4, <1>5, <1>6 DEF Next

\* OneDecider: at any time at most one call of DecideRequest is past the rename
\* that claims a given request.
THEOREM ClaimExclusive == Spec => []OneDecider
<1>1. Init => TypeInv  BY TypeInvInit
<1>2. Init => ClaimsOK  BY DEF Init, ClaimsOK, OneDecider, Claiming
<1>3. ClaimsOK => OneDecider  BY DEF ClaimsOK
<1> QED  BY <1>1, <1>2, <1>3, TypeInvStep, ClaimsStep, PTL DEF Spec

-----------------------------------------------------------------------------
(* The chain: what is on record before a marker, and before a verdict. *)

\* The entries of the chain stay, and nobody rewrites a pending request.
Grows ==
    /\ request' = request
    /\ \A i \in 1 .. Len(chain) : i \in 1 .. Len(chain') /\ chain'[i] = chain[i]

\* LogEvent only appends.
LEMMA LogEventGrows ==
    ASSUME chain \in Seq(Events), NEW e \in Events, NEW failed \in BOOLEAN,
           LogEvent(e, failed), request' = request
    PROVE  Grows
  BY DEF LogEvent, Grows

\* Every step leaves the chain's entries in place: the chain is append-only.
LEMMA ChainGrows == TypeInv /\ [Next]_vars => Grows
<1> SUFFICES ASSUME TypeInv, [Next]_vars PROVE Grows
  OBVIOUS
<1>0. chain \in Seq(Events) /\ FramesOK  BY DEF TypeInv, TypeOK
<1>1. CASE chain' = chain /\ request' = request  BY <1>0, <1>1 DEF Grows
<1>2. ASSUME NEW d \in Deciders, SweepLog(d) PROVE Grows
  BY <1>0, <1>2, EventTypes, LogEventGrows
     DEF SweepLog, DeciderGoes, FramesOK, reqVars
<1>3. ASSUME NEW d \in Deciders, LogDecision(d) PROVE Grows
  BY <1>0, <1>3, EventTypes, LogEventGrows
     DEF LogDecision, DeciderGoes, FramesOK, reqVars, Claiming
<1>4. ASSUME NEW d \in Deciders, LogReverted(d) PROVE Grows
  BY <1>0, <1>4, EventTypes, LogEventGrows
     DEF LogReverted, DeciderGoes, FramesOK, reqVars, Claiming
<1>5. ASSUME NEW r \in Requests,
             RequesterStep(r) \/ ContextDone(r) \/ CrashRequester(r)
      PROVE  chain' = chain /\ request' = request
  BY <1>5 DEF RequesterStep, OpenPending, WritePending, ArmDeadline, PollClock,
              StatApproved, StatDenied, Wake, Withdraw, ContextDone,
              CrashRequester
<1>6. ASSUME NEW d \in Deciders,
             \/ DeciderStep(d) /\ ~SweepLog(d) /\ ~LogDecision(d) /\ ~LogReverted(d)
             \/ CrashDecider(d)
             \/ \E c \in Calls \cup {ListCall} : Begin(d, c)
      PROVE  chain' = chain /\ request' = request
  BY <1>6 DEF DeciderStep, SweepStat, SweepUnlink, SweepDone, Locate, Claim,
              StampClaim, CreateMarker, WriteMarker, UnlinkMarker,
              ReleaseClaim, RemoveClaim, CrashDecider, Begin, reqVars
<1>7. CASE Tick \/ UNCHANGED vars  BY <1>1, <1>7 DEF Tick, vars, reqVars
<1> QED  BY <1>1, <1>2, <1>3, <1>4, <1>5, <1>6, <1>7 DEF Next

\* What is on record stays on record.
LEMMA RecordStays ==
    ASSUME Grows, NEW r, NEW v, DecidedOnRecord(r, v)
    PROVE  DecidedOnRecord(r, v)'
  BY DEF Grows, DecidedOnRecord, MayDecide

\* The checks a call passed and the entry it wrote hold for the rest of the call.
LEMMA CallStays ==
    ASSUME Grows, NEW d \in Deciders, call'[d] = call[d]
    PROVE  /\ MayDecide(call[d]) => MayDecide(call[d])'
           /\ DecidedOnRecord(call[d].req, call[d].verb) =>
                 DecidedOnRecord(call[d].req, call[d].verb)'
<1>1. MayDecide(call[d]) => MayDecide(call[d])'  BY DEF Grows, MayDecide
<1>2. DecidedOnRecord(call[d].req, call[d].verb) =>
         DecidedOnRecord(call[d].req, call[d].verb)'
  BY DEF Grows, DecidedOnRecord, MayDecide
<1> QED  BY <1>1, <1>2

\* The order of DecideRequest: the checks, then the chain, then the marker,
\* which is all the waiting shell looks at.
RecordsOK ==
    /\ \A d \in Deciders :
           /\ dpc[d] \in {"claim"} \cup Claiming => MayDecide(call[d])
           /\ dpc[d] \in {"create", "write", "finish"} =>
                 DecidedOnRecord(call[d].req, call[d].verb)
    /\ \A r \in Requests : \A v \in marker[r] : DecidedOnRecord(r, v)
    /\ VerdictOnRecord

\* A step that makes no marker, no verdict and no progress towards a marker
\* keeps RecordsOK.
LEMMA RecordsFrame ==
    ASSUME RecordsOK, Grows,
           \A r \in Requests : marker'[r] \subseteq marker[r],
           \A r \in Requests : rpc'[r] = rpc[r]
                               \/ rpc'[r] \notin {"granted", "refused"},
           \A d \in Deciders :
               /\ dpc'[d] \in {"claim"} \cup Claiming =>
                     dpc[d] \in {"claim"} \cup Claiming /\ call'[d] = call[d]
               /\ dpc'[d] \in {"create", "write", "finish"} =>
                     dpc[d] \in {"create", "write", "finish"} /\ call'[d] = call[d]
    PROVE  RecordsOK'
<1>1. \A d \in Deciders :
         /\ dpc'[d] \in {"claim"} \cup Claiming => MayDecide(call[d])'
         /\ dpc'[d] \in {"create", "write", "finish"} =>
               DecidedOnRecord(call[d].req, call[d].verb)'
  <2> SUFFICES ASSUME NEW d \in Deciders
               PROVE  /\ dpc'[d] \in {"claim"} \cup Claiming => MayDecide(call[d])'
                      /\ dpc'[d] \in {"create", "write", "finish"} =>
                            DecidedOnRecord(call[d].req, call[d].verb)'
    OBVIOUS
  <2>1. dpc'[d] \in {"claim"} \cup Claiming => MayDecide(call[d])'
    BY DEF RecordsOK, Grows, MayDecide
  <2>2. ASSUME dpc'[d] \in {"create", "write", "finish"}
        PROVE  DecidedOnRecord(call[d].req, call[d].verb)'
    <3>1. DecidedOnRecord(call[d].req, call[d].verb) /\ call'[d] = call[d]
      BY <2>2 DEF RecordsOK
    <3> QED  BY <3>1 DEF Grows, DecidedOnRecord, MayDecide
  <2> QED  BY <2>1, <2>2
<1>2. \A r \in Requests : \A v \in marker'[r] : DecidedOnRecord(r, v)'
  BY RecordStays DEF RecordsOK
<1>3. VerdictOnRecord'
  BY RecordStays DEF RecordsOK, VerdictOnRecord
<1> QED  BY <1>1, <1>2, <1>3 DEF RecordsOK

\* Every step keeps RecordsOK: the five that could break it are locatePending's
\* checks, the chain entry, the marker and the two stats of the poll loop.
LEMMA RecordsStep == TypeInv /\ RecordsOK /\ [Next]_vars => RecordsOK'
<1> SUFFICES ASSUME TypeInv, RecordsOK, [Next]_vars PROVE RecordsOK'
  OBVIOUS
<1>g. Grows  BY ChainGrows
<1>0. /\ marker \in [Requests -> SUBSET Verbs]
      /\ rpc \in [Requests -> {"new"} \cup Posting \cup Polling \cup Leaving
                              \cup Settled]
      /\ dpc \in [Deciders -> {"idle", "locate", "claim"} \cup Sweeping
                                \cup Claiming]
      /\ call \in [Deciders -> Calls \cup {ListCall}]
      /\ chain \in Seq(Events)
      /\ FramesOK
  BY DEF TypeInv, TypeOK
<1> USE DEF fs, reqVars, decVars, Frame
<1>1. ASSUME NEW r \in Requests, StatApproved(r) PROVE RecordsOK'
  <2>1. CASE "approve" \in marker[r]
    <3>1. DecidedOnRecord(r, "approve")'  BY <1>g, <2>1, RecordStays DEF RecordsOK
    <3>2. UNCHANGED <<marker, dpc, call>> /\ rpc' = [rpc EXCEPT ![r] = "granted"]
      BY <1>1, <2>1 DEF StatApproved, RequesterGoes
    <3>3. \A q \in Requests : \A v \in marker'[q] : DecidedOnRecord(q, v)'
      BY <1>g, <3>2, RecordStays DEF RecordsOK
    <3>4. VerdictOnRecord'
      BY <1>0, <1>g, <3>1, <3>2, RecordStays DEF RecordsOK, VerdictOnRecord
    <3>5. \A d \in Deciders :
             /\ dpc'[d] \in {"claim"} \cup Claiming => MayDecide(call[d])'
             /\ dpc'[d] \in {"create", "write", "finish"} =>
                   DecidedOnRecord(call[d].req, call[d].verb)'
      BY <1>g, <3>2 DEF RecordsOK, Grows, DecidedOnRecord, MayDecide
    <3> QED  BY <3>3, <3>4, <3>5 DEF RecordsOK
  <2>2. CASE "approve" \notin marker[r]
    <3>1. UNCHANGED <<marker, dpc, call>> /\ rpc' = [rpc EXCEPT ![r] = "statDenied"]
      BY <1>1, <2>2 DEF StatApproved, RequesterGoes
    <3> QED  BY <1>0, <1>g, <3>1, RecordsFrame
  <2> QED  BY <2>1, <2>2
<1>2. ASSUME NEW r \in Requests, StatDenied(r) PROVE RecordsOK'
  <2>1. CASE "deny" \in marker[r]
    <3>1. DecidedOnRecord(r, "deny")'  BY <1>g, <2>1, RecordStays DEF RecordsOK
    <3>2. UNCHANGED <<marker, dpc, call>> /\ rpc' = [rpc EXCEPT ![r] = "refused"]
      BY <1>2, <2>1 DEF StatDenied, RequesterGoes
    <3>3. \A q \in Requests : \A v \in marker'[q] : DecidedOnRecord(q, v)'
      BY <1>g, <3>2, RecordStays DEF RecordsOK
    <3>4. VerdictOnRecord'
      BY <1>0, <1>g, <3>1, <3>2, RecordStays DEF RecordsOK, VerdictOnRecord
    <3>5. \A d \in Deciders :
             /\ dpc'[d] \in {"claim"} \cup Claiming => MayDecide(call[d])'
             /\ dpc'[d] \in {"create", "write", "finish"} =>
                   DecidedOnRecord(call[d].req, call[d].verb)'
      BY <1>g, <3>2 DEF RecordsOK, Grows, DecidedOnRecord, MayDecide
    <3> QED  BY <3>3, <3>4, <3>5 DEF RecordsOK
  <2>2. CASE "deny" \notin marker[r]
    <3>1. UNCHANGED <<marker, dpc, call>> /\ rpc' = [rpc EXCEPT ![r] = "sleep"]
      BY <1>2, <2>2 DEF StatDenied, RequesterGoes
    <3> QED  BY <1>0, <1>g, <3>1, RecordsFrame
  <2> QED  BY <2>1, <2>2
<1>3. ASSUME NEW r \in Requests,
             \/ OpenPending(r) \/ WritePending(r) \/ ArmDeadline(r)
             \/ PollClock(r) \/ Wake(r) \/ Withdraw(r)
             \/ ContextDone(r) \/ CrashRequester(r)
      PROVE  RecordsOK'
  <2>1. /\ UNCHANGED <<marker, dpc, call>>
        /\ \E p \in {"write", "arm", "failed", "poll", "statApproved", "expire",
                     "timedout", "cancel", "canceled", "dead"} :
              rpc' = [rpc EXCEPT ![r] = p]
    BY <1>3 DEF OpenPending, WritePending, ArmDeadline, PollClock, Wake,
                Withdraw, ContextDone, CrashRequester, RequesterGoes
  <2> QED  BY <1>0, <1>g, <2>1, RecordsFrame
<1>4. ASSUME NEW d \in Deciders, Locate(d) PROVE RecordsOK'
  <2>1. CASE dpc' = [dpc EXCEPT ![d] = "idle"]
    <3>1. UNCHANGED <<marker, rpc>> /\ \A e \in Deciders \ {d} : call'[e] = call[e]
      BY <1>0, <1>4 DEF Locate, DeciderReturns, DeciderIdle, DeciderGoes
    <3> QED  BY <1>0, <1>g, <2>1, <3>1, RecordsFrame DEF Claiming
  <2>2. CASE dpc' # [dpc EXCEPT ![d] = "idle"]
    <3>1. /\ UNCHANGED <<marker, rpc, call>>
          /\ dpc' = [dpc EXCEPT ![d] = "claim"] /\ MayDecide(call[d])
      BY <1>4, <2>2 DEF Locate, DeciderGoes, DeciderReturns, DeciderIdle
    <3>2. \A e \in Deciders :
             /\ dpc'[e] \in {"claim"} \cup Claiming => MayDecide(call[e])'
             /\ dpc'[e] \in {"create", "write", "finish"} =>
                   DecidedOnRecord(call[e].req, call[e].verb)'
      BY <1>0, <1>g, <3>1
         DEF RecordsOK, Grows, DecidedOnRecord, MayDecide, Claiming
    <3>3. /\ \A q \in Requests : \A v \in marker'[q] : DecidedOnRecord(q, v)'
          /\ VerdictOnRecord'
      BY <1>g, <3>1, RecordStays DEF RecordsOK, VerdictOnRecord
    <3> QED  BY <3>2, <3>3 DEF RecordsOK
  <2> QED  BY <2>1, <2>2
<1>5. ASSUME NEW d \in Deciders, LogDecision(d) PROVE RecordsOK'
  <2>0. /\ UNCHANGED <<marker, rpc, call>> /\ dpc[d] = "log"
        /\ call[d] \in Calls /\ MayDecide(call[d])
    BY <1>0, <1>5 DEF LogDecision, DeciderGoes, FramesOK, Claiming, RecordsOK
  <2>1. CASE dpc' = [dpc EXCEPT ![d] = "release"]
    BY <1>0, <1>g, <2>0, <2>1, RecordsFrame DEF Claiming
  <2>2. CASE dpc' = [dpc EXCEPT ![d] = "create"] /\ chain' = Append(chain, Decision(call[d]))
    <3>1. DecidedOnRecord(call[d].req, call[d].verb)'
      <4>1. /\ Len(chain') = Len(chain) + 1 /\ Len(chain) \in Nat
            /\ chain'[Len(chain')] = Decision(call[d])
        BY <1>0, <2>0, <2>2, EventTypes
      <4>2. MayDecide(Decision(call[d]))'
        BY <1>g, <2>0 DEF MayDecide, Decision, Grows
      <4> QED  BY <2>0, <4>1, <4>2 DEF DecidedOnRecord, Decision, MayDecide
    <3>2. \A e \in Deciders :
             /\ dpc'[e] \in {"claim"} \cup Claiming => MayDecide(call[e])'
             /\ dpc'[e] \in {"create", "write", "finish"} =>
                   DecidedOnRecord(call[e].req, call[e].verb)'
      <4> SUFFICES ASSUME NEW e \in Deciders
                   PROVE  /\ dpc'[e] \in {"claim"} \cup Claiming => MayDecide(call[e])'
                          /\ dpc'[e] \in {"create", "write", "finish"} =>
                                DecidedOnRecord(call[e].req, call[e].verb)'
        OBVIOUS
      <4>1. CASE e = d
        BY <1>g, <2>0, <2>2, <3>1, <4>1 DEF MayDecide, Grows
      <4>2. CASE e # d
        BY <1>0, <1>g, <2>0, <2>2, <4>2, CallStays DEF RecordsOK
      <4> QED  BY <4>1, <4>2
    <3>3. /\ \A q \in Requests : \A v \in marker'[q] : DecidedOnRecord(q, v)'
          /\ VerdictOnRecord'
      BY <1>g, <2>0, RecordStays DEF RecordsOK, VerdictOnRecord
    <3> QED  BY <3>2, <3>3 DEF RecordsOK
  <2> QED  BY <1>5, <2>1, <2>2 DEF LogDecision, DeciderGoes, LogEvent
<1>6. ASSUME NEW d \in Deciders, CreateMarker(d) PROVE RecordsOK'
  <2>0. /\ UNCHANGED <<rpc, call>> /\ dpc[d] = "create"
        /\ call[d] \in Calls /\ call[d].req \in Requests
        /\ DecidedOnRecord(call[d].req, call[d].verb)
    BY <1>0, <1>6
       DEF CreateMarker, DeciderGoes, FramesOK, Claiming, RecordsOK, Calls
  <2>1. CASE dpc' = [dpc EXCEPT ![d] = "revert"] /\ marker' = marker
    BY <1>0, <1>g, <2>0, <2>1, RecordsFrame DEF Claiming
  <2>2. CASE /\ dpc' = [dpc EXCEPT ![d] = "write"]
             /\ marker' = [marker EXCEPT ![call[d].req] = @ \cup {call[d].verb}]
    <3>1. \A q \in Requests : \A v \in marker'[q] :
             v \in marker[q] \/ (q = call[d].req /\ v = call[d].verb)
      BY <1>0, <2>0, <2>2
    <3>2. \A q \in Requests : \A v \in marker'[q] : DecidedOnRecord(q, v)'
      BY <1>g, <2>0, <3>1, RecordStays DEF RecordsOK
    <3>3. \A e \in Deciders :
             /\ dpc'[e] \in {"claim"} \cup Claiming => MayDecide(call[e])'
             /\ dpc'[e] \in {"create", "write", "finish"} =>
                   DecidedOnRecord(call[e].req, call[e].verb)'
      BY <1>0, <1>g, <2>0, <2>2, CallStays DEF RecordsOK, Claiming
    <3>4. VerdictOnRecord'
      BY <1>g, <2>0, RecordStays DEF RecordsOK, VerdictOnRecord
    <3> QED  BY <3>2, <3>3, <3>4 DEF RecordsOK
  <2> QED  BY <1>6, <2>1, <2>2 DEF CreateMarker, DeciderGoes
<1>7. ASSUME NEW d \in Deciders, Claim(d) PROVE RecordsOK'
  <2>1. /\ UNCHANGED <<marker, rpc>> /\ dpc[d] = "claim"
        /\ \A e \in Deciders \ {d} : call'[e] = call[e]
        /\ \/ dpc' = [dpc EXCEPT ![d] = "idle"]
           \/ dpc' = [dpc EXCEPT ![d] = "stamp"] /\ call' = call
    BY <1>0, <1>7 DEF Claim, DeciderGoes, DeciderReturns, DeciderIdle
  <2> QED  BY <1>0, <1>g, <2>1, RecordsFrame DEF Claiming
<1>8. ASSUME NEW d \in Deciders, UnlinkMarker(d) PROVE RecordsOK'
  <2>1. /\ UNCHANGED <<rpc, call>> /\ dpc[d] = "unmark"
        /\ dpc' = [dpc EXCEPT ![d] = "revert"]
    BY <1>8 DEF UnlinkMarker, DeciderGoes
  <2>2. \A r \in Requests : marker'[r] \subseteq marker[r]
    BY <1>0, <1>8 DEF UnlinkMarker
  <2> QED  BY <1>0, <1>g, <2>1, <2>2, RecordsFrame DEF Claiming
<1>9. ASSUME NEW d \in Deciders,
             StampClaim(d) \/ WriteMarker(d) \/ LogReverted(d)
      PROVE  RecordsOK'
  <2>1. /\ UNCHANGED <<marker, rpc, call>>
        /\ \/ dpc[d] = "stamp" /\ dpc' = [dpc EXCEPT ![d] = "log"]
           \/ dpc[d] = "write" /\ dpc' = [dpc EXCEPT ![d] = "finish"]
           \/ dpc[d] = "write" /\ dpc' = [dpc EXCEPT ![d] = "unmark"]
           \/ dpc[d] = "revert" /\ dpc' = [dpc EXCEPT ![d] = "release"]
    BY <1>9 DEF StampClaim, WriteMarker, LogReverted, DeciderGoes
  <2> QED  BY <1>0, <1>g, <2>1, RecordsFrame DEF Claiming
<1>10. ASSUME NEW d \in Deciders,
              \/ \E q \in Requests : SweepStat(d, q)
              \/ SweepLog(d) \/ SweepUnlink(d) \/ SweepDone(d)
              \/ ReleaseClaim(d) \/ RemoveClaim(d) \/ CrashDecider(d)
              \/ \E c \in Calls \cup {ListCall} : Begin(d, c)
      PROVE  RecordsOK'
  <2>1. /\ UNCHANGED <<marker, rpc>>
        /\ \A e \in Deciders \ {d} : call'[e] = call[e]
        /\ \E p \in {"sweep", "expireLog", "expireUnlink", "idle", "locate"} :
              dpc' = [dpc EXCEPT ![d] = p]
    <3>1. CASE \E q \in Requests : SweepStat(d, q)  BY <3>1 DEF SweepStat
    <3>2. CASE SweepLog(d) \/ SweepUnlink(d)
      BY <3>2 DEF SweepLog, SweepUnlink, DeciderGoes
    <3>3. CASE SweepDone(d) \/ ReleaseClaim(d) \/ RemoveClaim(d) \/ CrashDecider(d)
      BY <1>0, <3>3 DEF SweepDone, ReleaseClaim, RemoveClaim, CrashDecider,
                        DeciderGoes, DeciderReturns, DeciderIdle
    <3>4. CASE \E c \in Calls \cup {ListCall} : Begin(d, c)
      BY <1>0, <3>4 DEF Begin
    <3> QED  BY <1>10, <3>1, <3>2, <3>3, <3>4
  <2> QED  BY <1>0, <1>g, <2>1, RecordsFrame DEF Claiming
<1>11. CASE Tick \/ UNCHANGED vars
  <2>1. UNCHANGED <<marker, rpc, dpc, call>>  BY <1>11 DEF Tick, vars
  <2> QED  BY <1>0, <1>g, <2>1, RecordsFrame
<1> QED  BY <1>1, <1>2, <1>3, <1>4, <1>5, <1>6, <1>7, <1>8, <1>9, <1>10, <1>11
            DEF Next, RequesterStep, DeciderStep

\* VerdictOnRecord: no shell runs a four-eyes command, and none is told it was
\* denied, without a chain entry for that verdict by a permitted approver other
\* than the requester, whatever is swept, fails, is reverted or dies.
THEOREM VerdictNeedsRecord == Spec => []VerdictOnRecord
<1>1. Init => TypeInv  BY TypeInvInit
<1>2. Init => RecordsOK  BY DEF Init, RecordsOK, VerdictOnRecord, Claiming
<1>3. RecordsOK => VerdictOnRecord  BY DEF RecordsOK
<1> QED  BY <1>1, <1>2, <1>3, TypeInvStep, RecordsStep, PTL DEF Spec

-----------------------------------------------------------------------------
(* The abstract specification: every step is a step of Approval or none.   *)

\* The outcomes and the ledger that the refinement mapping shows Approval.
Outcomes == [r \in Requests |-> OutcomeOf(rpc[r])]
Ledger   == {LedgerEntry(chain[i]) :
                i \in {j \in 1 .. Len(chain) : chain[j].kind = "DECISION"}}

\* MayDecide is Approval's Permitted, of the entry the ledger keeps.
LEMMA PermittedEntry ==
    \A c : MayDecide(c) => Approval!Permitted(LedgerEntry(c))
  BY DEF MayDecide, Approval!Permitted, Approval!NoOne, NoOne, LedgerEntry

\* A verdict on record is an entry of the ledger.
LEMMA LedgerHolds ==
    ASSUME NEW r \in Requests, NEW v, DecidedOnRecord(r, v)
    PROVE  \E e \in Ledger : e.req = r /\ e.verb = v /\ Approval!Permitted(e)
<1>1. PICK i \in 1 .. Len(chain) :
         /\ chain[i].kind = "DECISION" /\ chain[i].req = r
         /\ chain[i].verb = v /\ MayDecide(chain[i])
  BY DEF DecidedOnRecord
<1>2. LedgerEntry(chain[i]) \in Ledger  BY <1>1 DEF Ledger
<1>3. Approval!Permitted(LedgerEntry(chain[i]))  BY <1>1, PermittedEntry
<1> QED  BY <1>1, <1>2, <1>3 DEF LedgerEntry

\* What LogEvent may append, and what that adds to the ledger.
LEMMA LedgerGrows ==
    ASSUME chain \in Seq(Events), NEW e \in Events, chain' = Append(chain, e)
    PROVE  Ledger' = IF e.kind = "DECISION" THEN Ledger \cup {LedgerEntry(e)}
                                            ELSE Ledger
<1>1. /\ Len(chain) \in Nat /\ Len(chain') = Len(chain) + 1
      /\ chain'[Len(chain) + 1] = e
      /\ \A i \in 1 .. Len(chain) : chain'[i] = chain[i]
  OBVIOUS
<1>2. \A i \in 1 .. Len(chain') : i \in 1 .. Len(chain) \/ i = Len(chain) + 1
  BY <1>1
<1>3. 1 .. Len(chain) \subseteq 1 .. Len(chain') /\ Len(chain) + 1 \in 1 .. Len(chain')
  BY <1>1
<1>4. \A x : x \in Ledger' <=>
         \E i \in 1 .. Len(chain') : chain'[i].kind = "DECISION" /\ x = LedgerEntry(chain'[i])
  BY DEF Ledger
<1>5. \A x : x \in Ledger <=>
         \E i \in 1 .. Len(chain) : chain[i].kind = "DECISION" /\ x = LedgerEntry(chain[i])
  BY DEF Ledger
<1>6. \A x : x \in Ledger' <=>
         x \in Ledger \/ (e.kind = "DECISION" /\ x = LedgerEntry(e))
  <2> HIDE DEF Ledger
  <2> SUFFICES ASSUME NEW x PROVE x \in Ledger' <=>
         x \in Ledger \/ (e.kind = "DECISION" /\ x = LedgerEntry(e))
    OBVIOUS
  <2>1. ASSUME x \in Ledger'
        PROVE  x \in Ledger \/ (e.kind = "DECISION" /\ x = LedgerEntry(e))
    <3>1. PICK i \in 1 .. Len(chain') :
             chain'[i].kind = "DECISION" /\ x = LedgerEntry(chain'[i])
      BY <1>4, <2>1
    <3>2. CASE i \in 1 .. Len(chain)  BY <1>1, <1>5, <3>1, <3>2
    <3>3. CASE i = Len(chain) + 1     BY <1>1, <3>1, <3>3
    <3> QED  BY <1>2, <3>2, <3>3
  <2>2. ASSUME x \in Ledger PROVE x \in Ledger'
    <3>1. PICK i \in 1 .. Len(chain) :
             chain[i].kind = "DECISION" /\ x = LedgerEntry(chain[i])
      BY <1>5, <2>2
    <3>2. i \in 1 .. Len(chain') /\ chain'[i] = chain[i]  BY <1>1, <1>3
    <3> QED  BY <1>4, <3>1, <3>2
  <2>3. ASSUME e.kind = "DECISION", x = LedgerEntry(e) PROVE x \in Ledger'
    BY <1>1, <1>3, <1>4, <2>3
  <2> QED  BY <2>1, <2>2, <2>3
<1> QED  BY <1>6

\* A requester that moves on without a verdict posts, gives up or stutters.
LEMMA RequesterMaps ==
    ASSUME TypeInv, NEW r \in Requests, NEW p,
           UNCHANGED <<chain, request>>, rpc' = [rpc EXCEPT ![r] = p],
           \/ rpc[r] = "new" /\ OutcomeOf(p) = "waiting"
           \/ /\ rpc[r] \in Posting \cup Polling \cup Leaving
              /\ OutcomeOf(p) \in {"waiting", "closed"}
           \/ /\ rpc[r] \in Polling /\ p = "granted"
              /\ DecidedOnRecord(r, "approve")
           \/ /\ rpc[r] \in Polling /\ p = "refused"
              /\ DecidedOnRecord(r, "deny")
    PROVE  [Approval!Next]_Approval!vars
<1>0. rpc \in [Requests -> {"new"} \cup Posting \cup Polling \cup Leaving
                              \cup Settled]
  BY DEF TypeInv, TypeOK
<1>1. Outcomes' = [Outcomes EXCEPT ![r] = OutcomeOf(p)]
  <2>1. \A q \in Requests : OutcomeOf(rpc'[q]) =
           IF q = r THEN OutcomeOf(p) ELSE OutcomeOf(rpc[q])
    BY <1>0
  <2> QED  BY <2>1 DEF Outcomes
<1>2. Ledger' = Ledger  BY DEF Ledger
<1>3. Outcomes[r] = OutcomeOf(rpc[r])  BY DEF Outcomes
<1>4. OutcomeOf("new") = "none"
  BY DEF OutcomeOf, Posting, Polling, Leaving
<1>5. rpc[r] \in Posting \cup Polling \cup Leaving => OutcomeOf(rpc[r]) = "waiting"
  BY DEF OutcomeOf, Posting, Polling, Leaving
<1>6. OutcomeOf("granted") = "granted" /\ OutcomeOf("refused") = "refused"
  BY DEF OutcomeOf, Posting, Polling, Leaving
<1>m. \A a, b : Outcomes[r] = a /\ Outcomes' = [Outcomes EXCEPT ![r] = b]
                  => Approval!Moves(r, a, b)
  BY <1>2 DEF Approval!Moves, Outcomes, Ledger
<1>7. CASE rpc[r] = "new" /\ OutcomeOf(p) = "waiting"
  <2>1. Approval!Post(r)  BY <1>1, <1>3, <1>4, <1>7, <1>m DEF Approval!Post
  <2> QED  BY <2>1 DEF Approval!Next
<1>8. CASE rpc[r] \in Posting \cup Polling \cup Leaving /\ OutcomeOf(p) = "waiting"
  <2>1. Outcomes' = Outcomes  BY <1>1, <1>3, <1>5, <1>8 DEF Outcomes
  <2> QED  BY <1>2, <2>1 DEF Approval!vars, Outcomes, Ledger
<1>9. CASE rpc[r] \in Posting \cup Polling \cup Leaving /\ OutcomeOf(p) = "closed"
  <2>1. Approval!GiveUp(r)  BY <1>1, <1>3, <1>5, <1>9, <1>m DEF Approval!GiveUp
  <2> QED  BY <2>1 DEF Approval!Next
<1>10. CASE rpc[r] \in Polling /\ p = "granted" /\ DecidedOnRecord(r, "approve")
  <2>1. \E e \in Ledger : e.req = r /\ e.verb = "approve" /\ Approval!Permitted(e)
    BY <1>10, LedgerHolds
  <2>2. Approval!Grant(r)
    BY <1>1, <1>3, <1>5, <1>6, <1>10, <1>m, <2>1 DEF Approval!Grant, Ledger
  <2> QED  BY <2>2 DEF Approval!Next
<1>11. CASE rpc[r] \in Polling /\ p = "refused" /\ DecidedOnRecord(r, "deny")
  <2>1. \E e \in Ledger : e.req = r /\ e.verb = "deny" /\ Approval!Permitted(e)
    BY <1>11, LedgerHolds
  <2>2. Approval!Refuse(r)
    BY <1>1, <1>3, <1>5, <1>6, <1>11, <1>m, <2>1 DEF Approval!Refuse, Ledger
  <2> QED  BY <2>2 DEF Approval!Next
<1> QED  BY <1>7, <1>8, <1>9, <1>10, <1>11

\* Every step of a shell, a decider or the clock is a step of Approval, or
\* leaves what Approval sees as it is.
LEMMA StepMaps ==
    TypeInv /\ RecordsOK /\ [Next]_vars => [Approval!Next]_Approval!vars
<1> SUFFICES ASSUME TypeInv, RecordsOK, [Next]_vars
             PROVE  [Approval!Next]_Approval!vars
  OBVIOUS
<1>0. /\ rpc \in [Requests -> {"new"} \cup Posting \cup Polling \cup Leaving
                              \cup Settled]
      /\ chain \in Seq(Events) /\ FramesOK
  BY DEF TypeInv, TypeOK
<1>s. ASSUME UNCHANGED <<chain, request, rpc>>
      PROVE  [Approval!Next]_Approval!vars
  BY <1>s DEF Approval!vars
<1>a. ASSUME NEW e \in Events, chain' = Append(chain, e),
             e.kind # "DECISION", UNCHANGED <<request, rpc>>
      PROVE  [Approval!Next]_Approval!vars
  <2>1. Ledger' = Ledger  BY <1>0, <1>a, LedgerGrows
  <2> QED  BY <1>a, <2>1 DEF Approval!vars, Ledger
<1>1. ASSUME NEW r \in Requests,
             RequesterStep(r) \/ ContextDone(r) \/ CrashRequester(r)
      PROVE  [Approval!Next]_Approval!vars
  <2>1. UNCHANGED <<chain, request>>
    BY <1>1 DEF RequesterStep, OpenPending, WritePending, ArmDeadline, PollClock,
                StatApproved, StatDenied, Wake, Withdraw, ContextDone,
                CrashRequester
  <2>2. /\ \A p \in Posting \cup Polling \cup Leaving : OutcomeOf(p) = "waiting"
        /\ \A p \in {"timedout", "canceled", "failed", "dead"} :
              OutcomeOf(p) = "closed"
    BY DEF OutcomeOf, Posting, Polling, Leaving
  <2>3. CASE OpenPending(r)
    <3>1. rpc[r] = "new" /\ rpc' = [rpc EXCEPT ![r] = "write"]
      BY <2>3 DEF OpenPending, RequesterGoes
    <3>2. OutcomeOf("write") = "waiting"  BY <2>2 DEF Posting
    <3> QED  BY <2>1, <3>1, <3>2, RequesterMaps
  <2>4. CASE \/ WritePending(r) \/ ArmDeadline(r) \/ PollClock(r) \/ Wake(r)
             \/ Withdraw(r) \/ ContextDone(r) \/ CrashRequester(r)
    <3>1. PICK p \in Posting \cup Polling \cup Leaving
                    \cup {"timedout", "canceled", "failed", "dead"} :
             rpc' = [rpc EXCEPT ![r] = p]
      BY <2>4 DEF WritePending, ArmDeadline, PollClock, Wake, Withdraw,
                  ContextDone, CrashRequester, RequesterGoes,
                  Posting, Polling, Leaving
    <3>2. rpc[r] \in Posting \cup Polling \cup Leaving
      BY <2>4 DEF WritePending, ArmDeadline, PollClock, Wake, Withdraw,
                  ContextDone, CrashRequester, RequesterGoes,
                  Posting, Polling, Leaving
    <3>3. OutcomeOf(p) \in {"waiting", "closed"}  BY <2>2
    <3> QED  BY <2>1, <3>1, <3>2, <3>3, RequesterMaps
  <2>5. CASE StatApproved(r)
    <3>1. rpc[r] \in Polling  BY <2>5 DEF StatApproved, RequesterGoes, Polling
    <3>2. CASE "approve" \in marker[r]
      <4>1. rpc' = [rpc EXCEPT ![r] = "granted"]
        BY <2>5, <3>2 DEF StatApproved, RequesterGoes
      <4>2. DecidedOnRecord(r, "approve")  BY <3>2 DEF RecordsOK
      <4> QED  BY <2>1, <3>1, <4>1, <4>2, RequesterMaps
    <3>3. CASE "approve" \notin marker[r]
      <4>1. rpc' = [rpc EXCEPT ![r] = "statDenied"]
        BY <2>5, <3>3 DEF StatApproved, RequesterGoes
      <4>2. OutcomeOf("statDenied") = "waiting"  BY <2>2 DEF Polling
      <4> QED  BY <2>1, <3>1, <4>1, <4>2, RequesterMaps
    <3> QED  BY <3>2, <3>3
  <2>6. CASE StatDenied(r)
    <3>1. rpc[r] \in Polling  BY <2>6 DEF StatDenied, RequesterGoes, Polling
    <3>2. CASE "deny" \in marker[r]
      <4>1. rpc' = [rpc EXCEPT ![r] = "refused"]
        BY <2>6, <3>2 DEF StatDenied, RequesterGoes
      <4>2. DecidedOnRecord(r, "deny")  BY <3>2 DEF RecordsOK
      <4> QED  BY <2>1, <3>1, <4>1, <4>2, RequesterMaps
    <3>3. CASE "deny" \notin marker[r]
      <4>1. rpc' = [rpc EXCEPT ![r] = "sleep"]
        BY <2>6, <3>3 DEF StatDenied, RequesterGoes
      <4>2. OutcomeOf("sleep") = "waiting"  BY <2>2 DEF Polling
      <4> QED  BY <2>1, <3>1, <4>1, <4>2, RequesterMaps
    <3> QED  BY <3>2, <3>3
  <2> QED  BY <1>1, <2>3, <2>4, <2>5, <2>6 DEF RequesterStep
<1>2. ASSUME NEW d \in Deciders, LogDecision(d)
      PROVE  [Approval!Next]_Approval!vars
  <2>0. /\ UNCHANGED <<rpc, request>>
        /\ call[d] \in Calls /\ MayDecide(call[d])
    BY <1>0, <1>2 DEF LogDecision, DeciderGoes, FramesOK, Claiming, RecordsOK, reqVars
  <2>1. CASE chain' = chain  BY <1>s, <2>0, <2>1
  <2>2. CASE chain' = Append(chain, Decision(call[d]))
    <3>1. Decision(call[d]) \in Events /\ Decision(call[d]).kind = "DECISION"
      BY <2>0, EventTypes DEF Decision
    <3>2. LedgerEntry(Decision(call[d])) = LedgerEntry(call[d])
      BY DEF LedgerEntry, Decision
    <3>3. PICK e \in [req : Requests, approver : Users, surface : Surfaces,
                      verb : {"approve", "deny"}] : e = LedgerEntry(call[d])
      BY <2>0 DEF LedgerEntry, Calls, Verbs
    <3>4. Ledger' = Ledger \cup {e}
      BY <1>0, <2>2, <3>1, <3>2, <3>3, LedgerGrows
    <3>5. Approval!Permitted(e)  BY <2>0, <3>3, PermittedEntry
    <3>6. Approval!Decide(e)
      BY <2>0, <3>4, <3>5 DEF Approval!Decide, Ledger
    <3> QED  BY <3>6 DEF Approval!Next
  <2> QED  BY <1>2, <2>1, <2>2 DEF LogDecision, LogEvent
<1>3. ASSUME NEW d \in Deciders, LogReverted(d)
      PROVE  [Approval!Next]_Approval!vars
  <2>0. UNCHANGED <<rpc, request>> /\ call[d] \in Calls
    BY <1>0, <1>3 DEF LogReverted, DeciderGoes, FramesOK, Claiming, reqVars
  <2>1. Reverted(call[d]) \in Events /\ Reverted(call[d]).kind # "DECISION"
    BY <2>0, EventTypes DEF Reverted
  <2>2. chain' = chain \/ chain' = Append(chain, Reverted(call[d]))
    BY <1>3 DEF LogReverted, LogEvent
  <2> QED  BY <1>s, <1>a, <2>0, <2>1, <2>2
<1>4. ASSUME NEW d \in Deciders, SweepLog(d)
      PROVE  [Approval!Next]_Approval!vars
  <2>0. UNCHANGED <<rpc, request>> /\ target[d] \in Requests
    BY <1>0, <1>4 DEF SweepLog, DeciderGoes, FramesOK, reqVars
  <2>1. Expired(target[d]) \in Events /\ Expired(target[d]).kind # "DECISION"
    BY <2>0, EventTypes DEF Expired
  <2>2. chain' = chain \/ chain' = Append(chain, Expired(target[d]))
    BY <1>4 DEF SweepLog, LogEvent
  <2> QED  BY <1>s, <1>a, <2>0, <2>1, <2>2
<1>5. ASSUME NEW d \in Deciders,
             \/ DeciderStep(d) /\ ~SweepLog(d) /\ ~LogDecision(d) /\ ~LogReverted(d)
             \/ CrashDecider(d)
             \/ \E c \in Calls \cup {ListCall} : Begin(d, c)
      PROVE  [Approval!Next]_Approval!vars
  <2>1. UNCHANGED <<chain, request, rpc>>
    BY <1>5 DEF DeciderStep, SweepStat, SweepUnlink, SweepDone, Locate, Claim,
                StampClaim, CreateMarker, WriteMarker, UnlinkMarker,
                ReleaseClaim, RemoveClaim, CrashDecider, Begin, reqVars
  <2> QED  BY <1>s, <2>1
<1>6. CASE Tick \/ UNCHANGED vars  BY <1>s, <1>6 DEF Tick, vars, reqVars
<1> QED  BY <1>1, <1>2, <1>3, <1>4, <1>5, <1>6 DEF Next

\* ImplementsApproval: what shells and deciders do through files, sweeps,
\* failures and crashes is what the approval service of Approval does: a shell
\* is granted or refused on a permitted ledger entry or gives up, and the
\* ledger of decisions only grows.
THEOREM FilesImplementApproval == Spec => ImplementsApproval
<1>1. Init => TypeInv  BY TypeInvInit
<1>2. Init => RecordsOK  BY DEF Init, RecordsOK, VerdictOnRecord, Claiming
<1>3. Init => Approval!Init
  <2> SUFFICES ASSUME Init PROVE Approval!Init
    OBVIOUS
  <2>1. Outcomes = [r \in Requests |-> "none"]
    BY DEF Init, Outcomes, OutcomeOf, Posting, Polling, Leaving
  <2>2. Ledger = {}  BY DEF Init, Ledger
  <2> QED  BY <2>1, <2>2 DEF Init, Approval!Init, Outcomes, Ledger
<1> QED  BY <1>1, <1>2, <1>3, TypeInvStep, RecordsStep, StepMaps, PTL
         DEF Spec, ImplementsApproval, Approval!Spec

-----------------------------------------------------------------------------
(* Losses: a request that is gone was decided, or its loss is logged.      *)

Waiting == {"arm"} \cup Polling

\* The sweep logs before it unlinks, a decision whose claim is gone was swept,
\* and a decision that has made its marker still has it.
LossOK ==
    /\ \A d \in Deciders :
           /\ dpc[d] = "expireUnlink" => Recorded(Expired(target[d]))
           /\ dpc[d] \in Claiming /\ file[call[d].req] = "none" =>
                 Recorded(Expired(call[d].req))
           /\ dpc[d] \in {"write", "finish"} =>
                 call[d].verb \in marker[call[d].req]
    /\ NoSilentLoss

\* An expiry on record stays on record.
LEMMA ExpiryStays ==
    ASSUME Grows, NEW r, Recorded(Expired(r))
    PROVE  Recorded(Expired(r))'
  BY DEF Grows, Recorded, Expired

\* A step keeps LossOK when it takes no marker, starts no claim, and lets a file
\* go only if that is on record, decided, or nobody's business any more.
LEMMA LossFrame ==
    ASSUME TypeInv, LossOK, Grows,
           \A r \in Requests : marker[r] \subseteq marker'[r],
           \A r \in Requests : rpc'[r] \in Waiting =>
               rpc[r] \in Waiting \/ file'[r] # "none",
           \A r \in Requests : file'[r] = "none" /\ file[r] # "none" =>
               \/ Recorded(Expired(r))
               \/ /\ rpc'[r] \notin Waiting \/ marker[r] # {}
                  /\ \A d \in Deciders : dpc'[d] \in Claiming => call[d].req # r,
           \A d \in Deciders :
               /\ dpc'[d] = "expireUnlink" =>
                     dpc[d] = "expireUnlink" /\ target'[d] = target[d]
               /\ dpc'[d] \in Claiming => dpc[d] \in Claiming /\ call'[d] = call[d]
               /\ dpc'[d] \in {"write", "finish"} => dpc[d] \in {"write", "finish"}
    PROVE  LossOK'
<1>1. ASSUME NEW d \in Deciders, dpc'[d] = "expireUnlink"
      PROVE  Recorded(Expired(target[d]))'
  <2>1. PICK r : r = target[d] /\ Recorded(Expired(r))  BY <1>1 DEF LossOK
  <2>2. Recorded(Expired(r))' /\ target'[d] = r  BY <1>1, <2>1, ExpiryStays
  <2> QED  BY <2>2
<1>2. ASSUME NEW d \in Deciders, dpc'[d] \in Claiming
      PROVE  /\ file'[call'[d].req] = "none" => Recorded(Expired(call[d].req))'
             /\ dpc'[d] \in {"write", "finish"} =>
                   call'[d].verb \in marker'[call'[d].req]
  <2>1. /\ dpc[d] \in Claiming /\ call'[d] = call[d]
        /\ dpc'[d] \in {"write", "finish"} => dpc[d] \in {"write", "finish"}
    BY <1>2
  <2>2. PICK r \in Requests : r = call[d].req
    BY <2>1 DEF TypeInv, FramesOK, Calls
  <2>3. file'[r] = "none" => Recorded(Expired(r))
    BY <1>2, <2>1, <2>2 DEF LossOK
  <2>4. file'[r] = "none" => Recorded(Expired(r))'  BY <2>3, ExpiryStays
  <2>5. call'[d].req = r  BY <2>1, <2>2
  <2>6. dpc'[d] \in {"write", "finish"} => call'[d].verb \in marker'[r]
    BY <2>1, <2>2 DEF LossOK
  <2> QED  BY <2>4, <2>5, <2>6
<1>3. ASSUME NEW r \in Requests, file'[r] = "none", rpc'[r] \in Waiting
      PROVE  marker'[r] # {} \/ Recorded(Expired(r))'
  <2>1. marker[r] # {} \/ Recorded(Expired(r))
    BY <1>3 DEF LossOK, NoSilentLoss, Waiting
  <2> QED  BY <2>1, ExpiryStays
<1>4. NoSilentLoss'  BY <1>3 DEF NoSilentLoss, Waiting
<1>5. \A d \in Deciders : dpc'[d] \in {"write", "finish"} => dpc'[d] \in Claiming
  BY DEF Claiming
<1> QED  BY <1>1, <1>2, <1>4, <1>5 DEF LossOK

\* Every step keeps LossOK.
LEMMA LossStep == TypeInv /\ ClaimsOK /\ LossOK /\ [Next]_vars => LossOK'
<1> SUFFICES ASSUME TypeInv, ClaimsOK, LossOK, [Next]_vars PROVE LossOK'
  OBVIOUS
<1>g. Grows  BY ChainGrows
<1>0. /\ file \in [Requests -> FileStates]
      /\ marker \in [Requests -> SUBSET Verbs]
      /\ rpc \in [Requests -> {"new"} \cup Posting \cup Polling \cup Leaving
                              \cup Settled]
      /\ dpc \in [Deciders -> {"idle", "locate", "claim"} \cup Sweeping
                                \cup Claiming]
      /\ call \in [Deciders -> Calls \cup {ListCall}]
      /\ target \in [Deciders -> Requests \cup {NoOne}]
      /\ chain \in Seq(Events)
      /\ FramesOK
  BY DEF TypeInv, TypeOK
<1>c. \A d \in Deciders : dpc[d] \in Claiming =>
         /\ call[d] \in Calls /\ call[d].req \in Requests
         /\ file[call[d].req] \in {"claimed", "none"}
         /\ \A e \in Deciders :
               dpc[e] \in Claiming /\ e # d => call[e].req # call[d].req
  BY <1>0 DEF FramesOK, Calls, ClaimsOK, OneDecider
<1> USE DEF fs, reqVars, decVars, Frame
<1>1. ASSUME NEW r \in Requests, OpenPending(r) \/ WritePending(r)
      PROVE  LossOK'
  <2>1. /\ UNCHANGED <<marker, dpc, call, target>>
        /\ \E f \in {"partial", "pending"} : file' = [file EXCEPT ![r] = f]
        /\ \E p \in {"write", "arm", "failed"} : rpc' = [rpc EXCEPT ![r] = p]
    BY <1>1 DEF OpenPending, WritePending, RequesterGoes
  <2> QED  BY <1>0, <1>g, <2>1, LossFrame DEF Waiting
<1>2. ASSUME NEW r \in Requests, Withdraw(r) PROVE LossOK'
  <2>1. /\ UNCHANGED <<marker, dpc, call, target>>
        /\ file' = [file EXCEPT ![r] = IF @ = "pending" THEN "none" ELSE @]
        /\ \E p \in {"timedout", "canceled"} : rpc' = [rpc EXCEPT ![r] = p]
    BY <1>2 DEF Withdraw, RequesterGoes
  <2>2. /\ \A q \in Requests : rpc'[q] \in Waiting => rpc[q] \in Waiting
        /\ rpc'[r] \notin Waiting
    BY <1>0, <2>1 DEF Waiting, Polling
  <2>3. \A q \in Requests : file'[q] = "none" /\ file[q] # "none" =>
           q = r /\ file[r] = "pending"
    BY <1>0, <2>1
  <2> QED  BY <1>c, <1>g, <2>1, <2>2, <2>3, LossFrame
<1>3. ASSUME NEW r \in Requests,
             \/ ArmDeadline(r) \/ PollClock(r) \/ StatApproved(r)
             \/ StatDenied(r) \/ Wake(r) \/ ContextDone(r) \/ CrashRequester(r)
      PROVE  LossOK'
  <2>1. /\ UNCHANGED <<file, marker, dpc, call, target>>
        /\ \/ /\ rpc[r] \in Waiting
              /\ \E p \in {"poll", "statApproved", "expire", "granted",
                           "statDenied", "refused", "sleep", "cancel"} :
                    rpc' = [rpc EXCEPT ![r] = p]
           \/ rpc' = [rpc EXCEPT ![r] = "dead"]
    BY <1>3 DEF ArmDeadline, PollClock, StatApproved, StatDenied, Wake,
                ContextDone, CrashRequester, RequesterGoes, Waiting, Polling
  <2>2. \A q \in Requests : rpc'[q] \in Waiting => rpc[q] \in Waiting
    BY <1>0, <2>1 DEF Waiting, Polling
  <2> QED  BY <1>g, <2>1, <2>2, LossFrame
<1>4. ASSUME NEW d \in Deciders, SweepLog(d) PROVE LossOK'
  <2>1. /\ UNCHANGED <<file, marker, rpc, call, target>>
        /\ dpc[d] = "expireLog" /\ target[d] \in Requests
    BY <1>0, <1>4 DEF SweepLog, DeciderGoes, FramesOK
  <2>2. CASE dpc' = [dpc EXCEPT ![d] = "sweep"]
    BY <1>0, <1>g, <2>1, <2>2, LossFrame DEF Claiming
  <2>3. CASE /\ dpc' = [dpc EXCEPT ![d] = "expireUnlink"]
             /\ chain' = Append(chain, Expired(target[d]))
    <3>1. PICK r \in Requests : r = target[d]  BY <2>1
    <3>2. Recorded(Expired(r))'
      <4>1. /\ Len(chain') = Len(chain) + 1 /\ Len(chain) \in Nat
            /\ chain'[Len(chain')] = Expired(r)
        BY <1>0, <2>3, <3>1, EventTypes
      <4> QED  BY <4>1 DEF Recorded, Expired
    <3>3. ASSUME NEW e \in Deciders, dpc'[e] = "expireUnlink"
          PROVE  Recorded(Expired(target[e]))'
      <4>1. CASE e = d  BY <2>1, <3>1, <3>2, <4>1
      <4>2. CASE e # d
        <5>1. PICK q : q = target[e]  OBVIOUS
        <5>2. Recorded(Expired(q))  BY <1>0, <2>3, <3>3, <4>2, <5>1 DEF LossOK
        <5>3. Recorded(Expired(q))'  BY <1>g, <5>2, ExpiryStays
        <5> QED  BY <2>1, <5>1, <5>3
      <4> QED  BY <4>1, <4>2
    <3>4. ASSUME NEW e \in Deciders, dpc'[e] \in Claiming
          PROVE  /\ file'[call'[e].req] = "none" => Recorded(Expired(call[e].req))'
                 /\ dpc'[e] \in {"write", "finish"} =>
                       call'[e].verb \in marker'[call'[e].req]
      <4>1. dpc[e] = dpc'[e]  BY <1>0, <2>3, <3>4 DEF Claiming
      <4>2. PICK q : q = call[e].req  OBVIOUS
      <4>3. file[q] = "none" => Recorded(Expired(q))
        BY <3>4, <4>1, <4>2 DEF LossOK
      <4>4. file[q] = "none" => Recorded(Expired(q))'  BY <1>g, <4>3, ExpiryStays
      <4> QED  BY <2>1, <4>1, <4>2, <4>4 DEF LossOK
    <3>5. NoSilentLoss'
      BY <1>g, <2>1, ExpiryStays DEF LossOK, NoSilentLoss
    <3>6. \A e \in Deciders : dpc'[e] \in {"write", "finish"} => dpc'[e] \in Claiming
      BY DEF Claiming
    <3> QED  BY <3>3, <3>4, <3>5, <3>6 DEF LossOK
  <2> QED  BY <1>4, <2>2, <2>3 DEF SweepLog, DeciderGoes, LogEvent
<1>5. ASSUME NEW d \in Deciders, SweepUnlink(d) PROVE LossOK'
  <2>1. /\ UNCHANGED <<marker, rpc, call, target>>
        /\ dpc[d] = "expireUnlink" /\ dpc' = [dpc EXCEPT ![d] = "sweep"]
        /\ target[d] \in Requests /\ Recorded(Expired(target[d]))
        /\ file' = [file EXCEPT ![target[d]] = IF @ = "claimed" THEN "none" ELSE @]
    BY <1>0, <1>5 DEF SweepUnlink, DeciderGoes, FramesOK, LossOK
  <2>2. \A r \in Requests : file'[r] = "none" /\ file[r] # "none" =>
           Recorded(Expired(r))
    BY <1>0, <2>1
  <2> QED  BY <1>0, <1>g, <2>1, <2>2, LossFrame DEF Claiming
<1>6. ASSUME NEW d \in Deciders, Claim(d), file[call[d].req] = "pending"
      PROVE  LossOK'
  <2>1. /\ UNCHANGED <<marker, rpc, call, target>>
        /\ call[d] \in Calls /\ call[d].req \in Requests
        /\ dpc' = [dpc EXCEPT ![d] = "stamp"]
        /\ file' = [file EXCEPT ![call[d].req] = "claimed"]
    BY <1>0, <1>6 DEF Claim, DeciderGoes, FramesOK, Calls
  <2>2. ASSUME NEW e \in Deciders, dpc'[e] = "expireUnlink"
        PROVE  Recorded(Expired(target[e]))'
    <3>1. PICK q : q = target[e]  OBVIOUS
    <3>2. Recorded(Expired(q))  BY <1>0, <2>1, <2>2, <3>1 DEF LossOK
    <3>3. Recorded(Expired(q))'  BY <1>g, <3>2, ExpiryStays
    <3> QED  BY <2>1, <3>1, <3>3
  <2>3. ASSUME NEW e \in Deciders, dpc'[e] \in Claiming
        PROVE  /\ file'[call'[e].req] = "none" => Recorded(Expired(call[e].req))'
               /\ dpc'[e] \in {"write", "finish"} =>
                     call'[e].verb \in marker'[call'[e].req]
    <3>1. CASE e = d  BY <1>0, <2>1, <3>1
    <3>2. CASE e # d
      <4>1. dpc[e] = dpc'[e] /\ call'[e] = call[e]  BY <1>0, <2>1, <3>2
      <4>2. PICK q \in Requests : q = call[e].req  BY <1>c, <2>3, <4>1
      <4>3. file'[q] = "none" => Recorded(Expired(q))
        BY <1>0, <2>1, <2>3, <4>1, <4>2 DEF LossOK
      <4>4. file'[q] = "none" => Recorded(Expired(q))'
        BY <1>g, <4>3, ExpiryStays
      <4> QED  BY <2>1, <4>1, <4>2, <4>4 DEF LossOK
    <3> QED  BY <3>1, <3>2
  <2>4. NoSilentLoss'
    BY <1>0, <1>g, <2>1, ExpiryStays DEF LossOK, NoSilentLoss
  <2>5. \A e \in Deciders : dpc'[e] \in {"write", "finish"} => dpc'[e] \in Claiming
    BY DEF Claiming
  <2> QED  BY <2>2, <2>3, <2>4, <2>5 DEF LossOK
<1>7. ASSUME NEW d \in Deciders, CreateMarker(d) \/ UnlinkMarker(d)
      PROVE  LossOK'
  <2>1. /\ UNCHANGED <<file, rpc, call, target>>
        /\ dpc[d] \in Claiming /\ call[d].req \in Requests
        /\ \A r \in Requests : r # call[d].req => marker'[r] = marker[r]
        /\ \/ /\ dpc' = [dpc EXCEPT ![d] = "write"]
              /\ marker' = [marker EXCEPT ![call[d].req] = @ \cup {call[d].verb}]
           \/ dpc' = [dpc EXCEPT ![d] = "revert"]
    <3>1. dpc[d] \in Claiming  BY <1>7 DEF CreateMarker, UnlinkMarker, DeciderGoes, Claiming
    <3>2. call[d].req \in Requests  BY <1>c, <3>1
    <3>3. CASE CreateMarker(d)
      BY <1>0, <3>1, <3>2, <3>3 DEF CreateMarker, DeciderGoes
    <3>4. CASE UnlinkMarker(d)
      BY <1>0, <3>1, <3>2, <3>4 DEF UnlinkMarker, DeciderGoes
    <3> QED  BY <1>7, <3>3, <3>4
  <2>2. ASSUME NEW e \in Deciders, dpc'[e] = "expireUnlink"
        PROVE  Recorded(Expired(target[e]))'
    <3>1. PICK q : q = target[e]  OBVIOUS
    <3>2. Recorded(Expired(q))  BY <1>0, <2>1, <2>2, <3>1 DEF LossOK
    <3>3. Recorded(Expired(q))'  BY <1>g, <3>2, ExpiryStays
    <3> QED  BY <2>1, <3>1, <3>3
  <2>3. ASSUME NEW e \in Deciders, dpc'[e] \in Claiming
        PROVE  /\ file'[call'[e].req] = "none" => Recorded(Expired(call[e].req))'
               /\ dpc'[e] \in {"write", "finish"} =>
                     call'[e].verb \in marker'[call'[e].req]
    <3>1. dpc[e] \in Claiming  BY <1>0, <2>1, <2>3
    <3>2. PICK q \in Requests : q = call[e].req  BY <1>c, <3>1
    <3>3. file[q] = "none" => Recorded(Expired(q))  BY <3>1, <3>2 DEF LossOK
    <3>4. file[q] = "none" => Recorded(Expired(q))'  BY <1>g, <3>3, ExpiryStays
    <3>5. CASE e = d
      BY <1>0, <2>1, <3>2, <3>4, <3>5
    <3>6. CASE e # d
      <4>1. q # call[d].req /\ dpc'[e] = dpc[e]  BY <1>0, <1>c, <2>1, <3>1, <3>2, <3>6
      <4>2. marker'[q] = marker[q]  BY <2>1, <4>1
      <4> QED  BY <2>1, <3>2, <3>4, <4>1, <4>2 DEF LossOK
    <3> QED  BY <3>5, <3>6
  <2>4. NoSilentLoss'
    <3> SUFFICES ASSUME NEW r \in Requests, file[r] = "none", rpc[r] \in Waiting
                 PROVE  marker'[r] # {} \/ Recorded(Expired(r))'
      BY <2>1 DEF NoSilentLoss, Waiting
    <3>1. CASE r = call[d].req
      <4>1. Recorded(Expired(r))  BY <2>1, <3>1 DEF LossOK
      <4> QED  BY <1>g, <4>1, ExpiryStays
    <3>2. CASE r # call[d].req
      <4>1. marker[r] # {} \/ Recorded(Expired(r))
        BY DEF LossOK, NoSilentLoss, Waiting
      <4> QED  BY <1>g, <2>1, <3>2, <4>1, ExpiryStays
    <3> QED  BY <3>1, <3>2
  <2>5. \A e \in Deciders : dpc'[e] \in {"write", "finish"} => dpc'[e] \in Claiming
    BY DEF Claiming
  <2> QED  BY <2>2, <2>3, <2>4, <2>5 DEF LossOK
<1>8. ASSUME NEW d \in Deciders, RemoveClaim(d) PROVE LossOK'
  <2>1. /\ UNCHANGED <<marker, rpc>>
        /\ dpc[d] = "finish" /\ dpc' = [dpc EXCEPT ![d] = "idle"]
        /\ target' = [target EXCEPT ![d] = NoOne]
        /\ \A e \in Deciders \ {d} : call'[e] = call[e]
    BY <1>0, <1>8 DEF RemoveClaim, DeciderReturns, DeciderIdle
  <2>2. call[d].req \in Requests /\ marker[call[d].req] # {} /\ dpc[d] \in Claiming
    BY <1>c, <2>1 DEF Claiming, LossOK
  <2>3. \A r \in Requests : file'[r] = "none" /\ file[r] # "none" => r = call[d].req
    BY <1>0, <1>8, <2>2 DEF RemoveClaim
  <2>4. \A e \in Deciders : dpc'[e] \in Claiming =>
           dpc[e] \in Claiming /\ e # d /\ call[e].req # call[d].req
    BY <1>0, <1>c, <2>1, <2>2 DEF Claiming
  <2>5. \A e \in Deciders :
           /\ dpc'[e] = "expireUnlink" =>
                 dpc[e] = "expireUnlink" /\ target'[e] = target[e]
           /\ dpc'[e] \in {"write", "finish"} => dpc[e] \in {"write", "finish"}
    BY <1>0, <2>1
  <2> QED  BY <1>g, <2>1, <2>2, <2>3, <2>4, <2>5, LossFrame
<1>9. ASSUME NEW d \in Deciders,
             StampClaim(d) \/ LogDecision(d) \/ WriteMarker(d) \/ LogReverted(d)
      PROVE  LossOK'
  <2>1. /\ UNCHANGED <<file, marker, rpc, call, target>>
        /\ \/ dpc[d] = "write" /\ dpc' = [dpc EXCEPT ![d] = "finish"]
           \/ /\ dpc[d] \in Claiming
              /\ \E p \in {"log", "release", "create", "unmark"} :
                    dpc' = [dpc EXCEPT ![d] = p]
    BY <1>9 DEF StampClaim, LogDecision, WriteMarker, LogReverted, DeciderGoes,
                Claiming
  <2> QED  BY <1>0, <1>g, <2>1, LossFrame DEF Claiming
<1>10. ASSUME NEW d \in Deciders,
              \/ \E q \in Requests : SweepStat(d, q)
              \/ SweepDone(d) \/ Locate(d)
              \/ Claim(d) /\ file[call[d].req] # "pending"
              \/ ReleaseClaim(d) \/ CrashDecider(d)
              \/ \E c \in Calls \cup {ListCall} : Begin(d, c)
      PROVE  LossOK'
  <2>1. /\ UNCHANGED <<marker, rpc>>
        /\ \A e \in Deciders \ {d} : call'[e] = call[e] /\ target'[e] = target[e]
        /\ \E p \in {"sweep", "expireLog", "idle", "locate", "claim"} :
              dpc' = [dpc EXCEPT ![d] = p]
    <3>1. CASE \E q \in Requests : SweepStat(d, q)  BY <1>0, <3>1 DEF SweepStat
    <3>2. CASE \/ SweepDone(d) \/ Locate(d) \/ ReleaseClaim(d) \/ CrashDecider(d)
               \/ Claim(d) /\ file[call[d].req] # "pending"
      BY <1>0, <3>2 DEF SweepDone, Locate, Claim, ReleaseClaim, CrashDecider,
                        DeciderGoes, DeciderReturns, DeciderIdle
    <3>3. CASE \E c \in Calls \cup {ListCall} : Begin(d, c)
      BY <1>0, <3>3 DEF Begin
    <3> QED  BY <1>10, <3>1, <3>2, <3>3
  <2>2. \A r \in Requests : file'[r] = "none" => file[r] = "none"
    <3>1. CASE ReleaseClaim(d)
      BY <1>0, <3>1 DEF ReleaseClaim
    <3>2. CASE ~ReleaseClaim(d)
      BY <1>10, <3>2 DEF SweepStat, SweepDone, Locate, Claim, DeciderGoes,
                         DeciderReturns, CrashDecider, Begin
    <3> QED  BY <3>1, <3>2
  <2> QED  BY <1>0, <1>g, <2>1, <2>2, LossFrame DEF Claiming
<1>11. CASE Tick \/ UNCHANGED vars
  <2>1. UNCHANGED <<file, marker, rpc, dpc, call, target>>
    BY <1>11 DEF Tick, vars
  <2> QED  BY <1>g, <2>1, LossFrame
<1> QED  BY <1>1, <1>2, <1>3, <1>4, <1>5, <1>6, <1>7, <1>8, <1>9, <1>10, <1>11
            DEF Next, RequesterStep, DeciderStep

\* NoSilentLoss: whatever fails or dies, a request whose file is gone while its
\* shell still waits was decided, or its loss is on record.
THEOREM LossesAreLogged == Spec => []NoSilentLoss
<1>1. Init => TypeInv  BY TypeInvInit
<1>2. Init => ClaimsOK  BY DEF Init, ClaimsOK, OneDecider, Claiming
<1>3. Init => LossOK  BY DEF Init, LossOK, NoSilentLoss, Claiming, Polling
<1>4. LossOK => NoSilentLoss  BY DEF LossOK
<1> QED  BY <1>1, <1>2, <1>3, <1>4, TypeInvStep, ClaimsStep, LossStep, PTL
         DEF Spec

-----------------------------------------------------------------------------
(* Markers: a request that can still be decided has none.                  *)

\* The states of a call whose own marker may be there.
Marking == {"write", "unmark", "finish"}

\* As long as a half-written marker can be removed, a request goes back to its
\* pending name without a marker, and a call adds its own to none.
MarkersOK ==
    /\ \A r \in Requests :
           rpc[r] = "new" \/ file[r] \in {"partial", "pending"} => marker[r] = {}
    /\ \A d \in Deciders :
           /\ dpc[d] \in Claiming \ Marking => marker[call[d].req] = {}
           /\ dpc[d] \in Marking => marker[call[d].req] \subseteq {call[d].verb}
    /\ OneVerdict

\* A step that touches no marker, and opens no marked request and no claim of
\* one, keeps MarkersOK.
LEMMA MarkersFrame ==
    ASSUME MarkersOK, marker' = marker,
           \A r \in Requests : rpc'[r] = "new" => rpc[r] = "new",
           \A r \in Requests : file'[r] \in {"partial", "pending"} =>
               marker[r] = {},
           \A d \in Deciders :
               /\ dpc'[d] \in Claiming \ Marking =>
                     /\ call'[d] = call[d]
                     /\ marker[call[d].req] = {}
               /\ dpc'[d] \in Marking => dpc[d] \in Marking /\ call'[d] = call[d]
    PROVE  MarkersOK'
  BY DEF MarkersOK, OneVerdict

\* Every step keeps MarkersOK when the removal of a half-written marker works.
LEMMA MarkersStep ==
    ASSUME "unlinkMarker" \notin Faults
    PROVE  TypeInv /\ ClaimsOK /\ MarkersOK /\ [Next]_vars => MarkersOK'
<1> SUFFICES ASSUME TypeInv, ClaimsOK, MarkersOK, [Next]_vars PROVE MarkersOK'
  OBVIOUS
<1>0. /\ file \in [Requests -> FileStates]
      /\ marker \in [Requests -> SUBSET Verbs]
      /\ rpc \in [Requests -> {"new"} \cup Posting \cup Polling \cup Leaving
                              \cup Settled]
      /\ dpc \in [Deciders -> {"idle", "locate", "claim"} \cup Sweeping
                                \cup Claiming]
      /\ call \in [Deciders -> Calls \cup {ListCall}]
      /\ FramesOK
  BY DEF TypeInv, TypeOK
<1>c. \A d \in Deciders : dpc[d] \in Claiming =>
         /\ call[d] \in Calls /\ call[d].req \in Requests
         /\ call[d].verb \in Verbs
         /\ file[call[d].req] \in {"claimed", "none"}
         /\ rpc[call[d].req] # "new"
         /\ \A e \in Deciders :
               dpc[e] \in Claiming /\ e # d => call[e].req # call[d].req
  BY <1>0 DEF FramesOK, Calls, ClaimsOK, OneDecider
<1>m. /\ \A r \in Requests :
             rpc[r] = "new" \/ file[r] \in {"partial", "pending"} => marker[r] = {}
      /\ \A d \in Deciders :
             /\ dpc[d] \in Claiming \ Marking => marker[call[d].req] = {}
             /\ dpc[d] \in Marking => marker[call[d].req] \subseteq {call[d].verb}
  BY DEF MarkersOK
<1>w. Marking \subseteq Claiming  BY DEF Marking, Claiming
<1> USE DEF fs, reqVars, decVars, Frame
<1>1. ASSUME NEW r \in Requests,
             RequesterStep(r) \/ ContextDone(r) \/ CrashRequester(r)
      PROVE  MarkersOK'
  <2>1. /\ UNCHANGED <<marker, dpc, call>>
        /\ \E p \in Posting \cup Polling \cup Leaving \cup Settled :
              rpc' = [rpc EXCEPT ![r] = p]
    BY <1>1 DEF RequesterStep, OpenPending, WritePending, ArmDeadline, PollClock,
                StatApproved, StatDenied, Wake, Withdraw, ContextDone,
                CrashRequester, RequesterGoes, Posting, Polling, Leaving, Settled
  <2>2. "new" \notin Posting \cup Polling \cup Leaving \cup Settled
    BY DEF Posting, Polling, Leaving, Settled
  <2>3. \A q \in Requests : rpc'[q] = "new" => rpc[q] = "new"
    BY <1>0, <2>1, <2>2
  <2>4. \A q \in Requests : file'[q] \in {"partial", "pending"} => marker[q] = {}
    <3>1. CASE OpenPending(r)
      BY <1>0, <1>m, <3>1 DEF OpenPending, RequesterGoes
    <3>2. CASE WritePending(r)
      <4>1. file[r] = "partial"
        BY <3>2 DEF WritePending, RequesterGoes, ClaimsOK
      <4>2. \A q \in Requests : q # r => file'[q] = file[q]
        BY <1>0, <3>2 DEF WritePending
      <4> QED  BY <1>m, <4>1, <4>2
    <3>3. CASE Withdraw(r)  BY <1>0, <1>m, <3>3 DEF Withdraw
    <3>4. CASE \/ ArmDeadline(r) \/ PollClock(r) \/ StatApproved(r)
               \/ StatDenied(r) \/ Wake(r) \/ ContextDone(r) \/ CrashRequester(r)
      <4>1. file' = file
        BY <3>4 DEF ArmDeadline, PollClock, StatApproved, StatDenied, Wake,
                    ContextDone, CrashRequester
      <4> QED  BY <1>m, <4>1
    <3> QED  BY <1>1, <3>1, <3>2, <3>3, <3>4 DEF RequesterStep
  <2> QED  BY <1>m, <2>1, <2>3, <2>4, MarkersFrame
<1>2. ASSUME NEW d \in Deciders, Claim(d), file[call[d].req] = "pending"
      PROVE  MarkersOK'
  <2>1. /\ UNCHANGED <<marker, rpc, call>> /\ call[d].req \in Requests
        /\ dpc' = [dpc EXCEPT ![d] = "stamp"]
        /\ file' = [file EXCEPT ![call[d].req] = "claimed"]
    BY <1>0, <1>2 DEF Claim, DeciderGoes, FramesOK, Calls
  <2>2. \A q \in Requests : file'[q] \in {"partial", "pending"} => marker[q] = {}
    BY <1>0, <1>m, <2>1
  <2>3. marker[call[d].req] = {}  BY <1>2, <1>m, <2>1
  <2> QED  BY <1>0, <1>m, <2>1, <2>2, <2>3, MarkersFrame DEF Marking
<1>3. ASSUME NEW d \in Deciders, CreateMarker(d) PROVE MarkersOK'
  <2>1. /\ UNCHANGED <<file, rpc, call>> /\ dpc[d] = "create"
        /\ call[d].req \in Requests /\ marker[call[d].req] = {}
    BY <1>c, <1>m, <1>3 DEF CreateMarker, DeciderGoes, Claiming, Marking
  <2>2. CASE dpc' = [dpc EXCEPT ![d] = "revert"] /\ marker' = marker
    BY <1>0, <1>m, <2>1, <2>2, MarkersFrame DEF Claiming, Marking
  <2>3. CASE /\ dpc' = [dpc EXCEPT ![d] = "write"]
             /\ marker' = [marker EXCEPT ![call[d].req] = @ \cup {call[d].verb}]
    <3>1. PICK q \in Requests : q = call[d].req  BY <2>1
    <3>2. /\ marker'[q] = {call[d].verb}
          /\ \A r \in Requests : r # q => marker'[r] = marker[r]
      BY <1>0, <2>1, <2>3, <3>1
    <3>3. ASSUME NEW r \in Requests PROVE
             /\ rpc'[r] = "new" \/ file'[r] \in {"partial", "pending"} =>
                   marker'[r] = {}
             /\ marker'[r] # Verbs
      <4>1. CASE r = q
        BY <1>c, <2>1, <3>1, <3>2, <4>1 DEF Claiming, Verbs
      <4>2. CASE r # q
        BY <1>m, <2>1, <3>2, <4>2 DEF MarkersOK, OneVerdict
      <4> QED  BY <4>1, <4>2
    <3>4. ASSUME NEW e \in Deciders PROVE
             /\ dpc'[e] \in Claiming \ Marking => marker'[call'[e].req] = {}
             /\ dpc'[e] \in Marking => marker'[call'[e].req] \subseteq {call'[e].verb}
      <4>1. CASE e = d  BY <1>0, <2>1, <2>3, <3>1, <3>2, <4>1 DEF Marking
      <4>2. CASE e # d
        <5>1. dpc'[e] = dpc[e] /\ call'[e] = call[e]  BY <1>0, <2>1, <2>3, <4>2
        <5>2. dpc[e] \in Claiming => call[e].req \in Requests /\ call[e].req # q
          BY <1>c, <2>1, <3>1, <4>2 DEF Claiming
        <5> QED  BY <1>m, <1>w, <3>2, <5>1, <5>2
      <4> QED  BY <4>1, <4>2
    <3> QED  BY <3>3, <3>4 DEF MarkersOK, OneVerdict
  <2> QED  BY <1>3, <2>2, <2>3 DEF CreateMarker, DeciderGoes
<1>4. ASSUME NEW d \in Deciders, UnlinkMarker(d) PROVE MarkersOK'
  <2>1. /\ UNCHANGED <<file, rpc, call>> /\ dpc[d] = "unmark"
        /\ call[d].req \in Requests /\ marker[call[d].req] \subseteq {call[d].verb}
        /\ dpc' = [dpc EXCEPT ![d] = "revert"]
        /\ marker' = [marker EXCEPT ![call[d].req] = @ \ {call[d].verb}]
    BY <1>c, <1>m, <1>4 DEF UnlinkMarker, DeciderGoes, Claiming, Marking
  <2>2. PICK q \in Requests : q = call[d].req  BY <2>1
  <2>3. /\ marker'[q] = {}
        /\ \A r \in Requests : r # q => marker'[r] = marker[r]
    BY <1>0, <2>1, <2>2
  <2>4. ASSUME NEW r \in Requests PROVE
           /\ rpc'[r] = "new" \/ file'[r] \in {"partial", "pending"} =>
                 marker'[r] = {}
           /\ marker'[r] # Verbs
    <3>1. CASE r = q  BY <2>3, <3>1 DEF Verbs
    <3>2. CASE r # q  BY <1>m, <2>1, <2>3, <3>2 DEF MarkersOK, OneVerdict
    <3> QED  BY <3>1, <3>2
  <2>5. ASSUME NEW e \in Deciders PROVE
           /\ dpc'[e] \in Claiming \ Marking => marker'[call'[e].req] = {}
           /\ dpc'[e] \in Marking => marker'[call'[e].req] \subseteq {call'[e].verb}
    <3>1. CASE e = d  BY <1>0, <2>1, <2>2, <2>3, <3>1 DEF Marking
    <3>2. CASE e # d
      <4>1. dpc'[e] = dpc[e] /\ call'[e] = call[e]  BY <1>0, <2>1, <3>2
      <4>2. dpc[e] \in Claiming => call[e].req \in Requests /\ call[e].req # q
        BY <1>c, <2>1, <2>2, <3>2 DEF Claiming
      <4> QED  BY <1>m, <1>w, <2>3, <4>1, <4>2
    <3> QED  BY <3>1, <3>2
  <2> QED  BY <2>4, <2>5 DEF MarkersOK, OneVerdict
<1>5. ASSUME NEW d \in Deciders,
             StampClaim(d) \/ LogDecision(d) \/ WriteMarker(d) \/ LogReverted(d)
      PROVE  MarkersOK'
  <2>1. /\ UNCHANGED <<file, marker, rpc, call>>
        /\ \/ /\ dpc[d] = "write"
              /\ \E p \in {"finish", "unmark"} : dpc' = [dpc EXCEPT ![d] = p]
           \/ /\ dpc[d] \in {"stamp", "log", "revert"}
              /\ \E p \in {"log", "release", "create"} :
                    dpc' = [dpc EXCEPT ![d] = p]
    BY <1>5 DEF StampClaim, LogDecision, WriteMarker, LogReverted, DeciderGoes
  <2> QED  BY <1>0, <1>m, <2>1, MarkersFrame DEF Claiming, Marking
<1>6. ASSUME NEW d \in Deciders,
             \/ \E q \in Requests : SweepStat(d, q)
             \/ SweepLog(d) \/ SweepUnlink(d) \/ SweepDone(d) \/ Locate(d)
             \/ Claim(d) /\ file[call[d].req] # "pending"
             \/ ReleaseClaim(d) \/ RemoveClaim(d) \/ CrashDecider(d)
             \/ \E c \in Calls \cup {ListCall} : Begin(d, c)
      PROVE  MarkersOK'
  <2>1. /\ UNCHANGED <<marker, rpc>>
        /\ \A e \in Deciders \ {d} : call'[e] = call[e]
        /\ \E p \in {"sweep", "expireLog", "expireUnlink", "idle", "locate",
                     "claim"} : dpc' = [dpc EXCEPT ![d] = p]
    <3>1. CASE \E q \in Requests : SweepStat(d, q)  BY <1>0, <3>1 DEF SweepStat
    <3>2. CASE SweepLog(d) \/ SweepUnlink(d)
      BY <3>2 DEF SweepLog, SweepUnlink, DeciderGoes
    <3>3. CASE \/ SweepDone(d) \/ Locate(d) \/ ReleaseClaim(d) \/ RemoveClaim(d)
               \/ CrashDecider(d)
               \/ Claim(d) /\ file[call[d].req] # "pending"
      BY <1>0, <3>3 DEF SweepDone, Locate, Claim, ReleaseClaim, RemoveClaim,
                        CrashDecider, DeciderGoes, DeciderReturns, DeciderIdle
    <3>4. CASE \E c \in Calls \cup {ListCall} : Begin(d, c)
      BY <1>0, <3>4 DEF Begin
    <3> QED  BY <1>6, <3>1, <3>2, <3>3, <3>4
  <2>2. \A q \in Requests : file'[q] \in {"partial", "pending"} => marker[q] = {}
    <3>1. CASE ReleaseClaim(d)
      <4>1. marker[call[d].req] = {}
        BY <1>m, <3>1 DEF ReleaseClaim, DeciderReturns, Claiming, Marking
      <4> QED  BY <1>0, <1>m, <3>1, <4>1 DEF ReleaseClaim
    <3>2. CASE RemoveClaim(d)  BY <1>0, <1>m, <3>2 DEF RemoveClaim
    <3>3. CASE SweepUnlink(d)  BY <1>0, <1>m, <3>3 DEF SweepUnlink
    <3>4. CASE ~ReleaseClaim(d) /\ ~RemoveClaim(d) /\ ~SweepUnlink(d)
      <4>1. file' = file
        BY <1>6, <3>4 DEF SweepStat, SweepLog, SweepDone, Locate, Claim,
                          DeciderGoes, DeciderReturns, CrashDecider, Begin
      <4> QED  BY <1>m, <4>1
    <3> QED  BY <3>1, <3>2, <3>3, <3>4
  <2>3. \A e \in Deciders :
           dpc'[e] \in Claiming => e # d /\ dpc'[e] = dpc[e] /\ call'[e] = call[e]
    BY <1>0, <2>1 DEF Claiming
  <2> QED  BY <1>m, <1>w, <2>1, <2>2, <2>3, MarkersFrame
<1>7. CASE Tick \/ UNCHANGED vars
  <2>1. UNCHANGED <<file, marker, rpc, dpc, call>>  BY <1>7 DEF Tick, vars
  <2> QED  BY <1>m, <2>1, MarkersFrame
<1> QED  BY <1>1, <1>2, <1>3, <1>4, <1>5, <1>6, <1>7
         DEF Next, RequesterStep, DeciderStep

\* OneVerdict: approve and deny never both stand for one request, however
\* decisions follow, revert and crash, provided the removal of a half-written
\* marker works (writeExclusive0600 ignores its error).
THEOREM VerdictsExclude ==
    ASSUME "unlinkMarker" \notin Faults
    PROVE  Spec => []OneVerdict
<1>1. Init => TypeInv  BY TypeInvInit
<1>2. Init => ClaimsOK  BY DEF Init, ClaimsOK, OneDecider, Claiming
<1>3. Init => MarkersOK
  BY DEF Init, MarkersOK, OneVerdict, Claiming, Marking, Verbs
<1>4. MarkersOK => OneVerdict  BY DEF MarkersOK
<1> QED  BY <1>1, <1>2, <1>3, <1>4, TypeInvStep, ClaimsStep, MarkersStep, PTL
         DEF Spec

-----------------------------------------------------------------------------
(* Decisions: an entry of the chain takes effect, or is taken back.        *)

\* No call is past its claim of r.
Orphan(r) == \A d \in Deciders : dpc[d] \in Claiming => call[d].req # r

\* The states between the entry of a decision and its effect or its revert.
Carrying == {"create", "write", "unmark", "revert", "finish"}

CarriedBy(d, e) == dpc[d] \in Carrying /\ Decision(call[d]) = e

\* What became of the decision entered at i: a call carries it out, it was
\* taken back, its claim expired, or a call that made its marker or died left
\* it to the shell or the sweep.
AccountedFor(i) ==
    LET e == chain[i] IN
    \/ \E d \in Deciders : CarriedBy(d, e)
    \/ \E j \in i + 1 .. Len(chain) : chain[j] = Reverted(e)
    \/ Recorded(Expired(e.req))
    \/ /\ Orphan(e.req)
       /\ \/ file[e.req] = "claimed"
          \/ file[e.req] = "none" /\ e.verb \in marker[e.req]

\* Every decision on record is about a posted request and accounted for.
DecisionsOK ==
    \A i \in 1 .. Len(chain) : chain[i].kind = "DECISION" =>
        rpc[chain[i].req] # "new" /\ AccountedFor(i)

\* A decision that no call had to carry out stays accounted for while claims
\* start from pending files only, and files and markers that no call holds
\* change by a logged sweep only.
LEMMA AccountedFrame ==
    ASSUME TypeInv, Grows, NEW i \in 1 .. Len(chain),
           chain[i].kind = "DECISION", rpc[chain[i].req] # "new",
           AccountedFor(i),
           (\E d \in Deciders : CarriedBy(d, chain[i])) => AccountedFor(i)',
           \A d \in Deciders : dpc'[d] \in Claiming =>
               /\ call'[d] = call[d]
               /\ dpc[d] \in Claiming \/ file[call[d].req] = "pending",
           \A r \in Requests : file[r] = "claimed" /\ Orphan(r) =>
               file'[r] = "claimed" \/ Recorded(Expired(r)),
           \A r \in Requests : file[r] = "none" /\ rpc[r] # "new" =>
               file'[r] = "none",
           \A r \in Requests : Orphan(r) => marker[r] \subseteq marker'[r]
    PROVE  AccountedFor(i)'
<1>0. /\ chain \in Seq(Events) /\ chain[i] \in Events /\ chain[i].req \in Requests
      /\ i \in 1 .. Len(chain') /\ chain'[i] = chain[i]
  <2>1. chain \in Seq(Events)  BY DEF TypeInv, TypeOK
  <2>2. chain[i] \in Events  BY <2>1
  <2> QED  BY <2>1, <2>2 DEF Grows, Events
<1>1. PICK e : e = chain[i]  OBVIOUS
<1>2. e.req \in Requests /\ chain'[i] = e  BY <1>0, <1>1
<1>3. CASE \E d \in Deciders : CarriedBy(d, e)  BY <1>1, <1>3
<1>4. CASE \E j \in i + 1 .. Len(chain) : chain[j] = Reverted(e)
  <2>1. PICK j \in i + 1 .. Len(chain) : chain[j] = Reverted(e)  BY <1>4
  <2>2. j \in 1 .. Len(chain)  BY <1>0, <2>1
  <2>3. j \in i + 1 .. Len(chain') /\ chain'[j] = Reverted(e)
    BY <1>0, <2>1, <2>2 DEF Grows
  <2> QED  BY <1>2, <2>3 DEF AccountedFor, Reverted
<1>5. CASE Recorded(Expired(e.req))
  <2>1. Recorded(Expired(e.req))'  BY <1>5, ExpiryStays
  <2> QED  BY <1>2, <2>1 DEF AccountedFor
<1>6. CASE /\ Orphan(e.req) /\ rpc[e.req] # "new"
           /\ \/ file[e.req] = "claimed"
              \/ file[e.req] = "none" /\ e.verb \in marker[e.req]
  <2>1. Orphan(e.req)'
    <3> SUFFICES ASSUME NEW d \in Deciders, dpc'[d] \in Claiming
                 PROVE  call'[d].req # e.req
      BY DEF Orphan
    <3> QED  BY <1>6 DEF Orphan
  <2>2. CASE file[e.req] = "claimed" /\ Recorded(Expired(e.req))
    BY <1>5, <2>2
  <2>3. CASE file[e.req] = "claimed" /\ file'[e.req] = "claimed"
    BY <1>2, <2>1, <2>3 DEF AccountedFor
  <2>4. CASE file[e.req] = "none" /\ e.verb \in marker[e.req]
    <3>1. file'[e.req] = "none" /\ e.verb \in marker'[e.req]
      BY <1>2, <1>6, <2>4
    <3> QED  BY <1>2, <2>1, <3>1 DEF AccountedFor
  <2> QED  BY <1>2, <1>6, <2>2, <2>3, <2>4
<1> QED  BY <1>1, <1>3, <1>4, <1>5, <1>6 DEF AccountedFor

\* A decision carried out by a call that goes on stays accounted for.
LEMMA CarriedStays ==
    ASSUME Grows, NEW i \in 1 .. Len(chain),
           \A d \in Deciders : dpc[d] \in Carrying =>
               dpc'[d] \in Carrying /\ call'[d] = call[d]
    PROVE  (\E d \in Deciders : CarriedBy(d, chain[i])) => AccountedFor(i)'
<1>1. SUFFICES ASSUME NEW d \in Deciders, CarriedBy(d, chain[i])
               PROVE  AccountedFor(i)'
  OBVIOUS
<1>2. chain'[i] = chain[i]  BY DEF Grows
<1>3. CarriedBy(d, chain[i])'  BY <1>1, <1>2 DEF CarriedBy, Decision
<1> QED  BY <1>3 DEF AccountedFor

\* Every step keeps DecisionsOK when LogEvent fails only by dying.
LEMMA DecisionsStep ==
    ASSUME "auditLost" \notin Faults, "auditSync" \notin Faults
    PROVE  TypeInv /\ ClaimsOK /\ LossOK /\ DecisionsOK /\ [Next]_vars
               => DecisionsOK'
<1> SUFFICES ASSUME TypeInv, ClaimsOK, LossOK, DecisionsOK, [Next]_vars
             PROVE  DecisionsOK'
  OBVIOUS
<1>g. Grows  BY ChainGrows
<1>0. /\ file \in [Requests -> FileStates]
      /\ marker \in [Requests -> SUBSET Verbs]
      /\ rpc \in [Requests -> {"new"} \cup Posting \cup Polling \cup Leaving
                              \cup Settled]
      /\ dpc \in [Deciders -> {"idle", "locate", "claim"} \cup Sweeping
                                \cup Claiming]
      /\ call \in [Deciders -> Calls \cup {ListCall}]
      /\ target \in [Deciders -> Requests \cup {NoOne}]
      /\ chain \in Seq(Events)
      /\ FramesOK
  BY DEF TypeInv, TypeOK
<1>c. \A d \in Deciders : dpc[d] \in Claiming =>
         /\ call[d] \in Calls /\ call[d].req \in Requests
         /\ file[call[d].req] \in {"claimed", "none"}
         /\ rpc[call[d].req] # "new"
         /\ ~Orphan(call[d].req)
         /\ \A e \in Deciders :
               dpc[e] \in Claiming /\ e # d => call[e].req # call[d].req
  BY <1>0 DEF FramesOK, Calls, ClaimsOK, OneDecider, Orphan
<1>e. \A i \in 1 .. Len(chain) : chain[i] \in Events /\ chain[i].req \in Requests
  <2>1. \A i \in 1 .. Len(chain) : chain[i] \in Events  BY <1>0
  <2> QED  BY <2>1 DEF Events
<1>w. Carrying \subseteq Claiming  BY DEF Carrying, Claiming
<1>n. \A r \in Requests : rpc'[r] = "new" => rpc[r] = "new"
  <2>1. \A r \in Requests : RequesterStep(r) \/ ContextDone(r) \/ CrashRequester(r) =>
           \E p \in Posting \cup Polling \cup Leaving \cup Settled :
              rpc' = [rpc EXCEPT ![r] = p]
    BY DEF RequesterStep, OpenPending, WritePending, ArmDeadline, PollClock,
           StatApproved, StatDenied, Wake, Withdraw, ContextDone,
           CrashRequester, RequesterGoes, Posting, Polling, Leaving, Settled
  <2>2. "new" \notin Posting \cup Polling \cup Leaving \cup Settled
    BY DEF Posting, Polling, Leaving, Settled
  <2>3. ASSUME NEW r \in Requests,
               RequesterStep(r) \/ ContextDone(r) \/ CrashRequester(r)
        PROVE  \A q \in Requests : rpc'[q] = "new" => rpc[q] = "new"
    BY <1>0, <2>1, <2>2, <2>3
  <2>4. ASSUME NEW d \in Deciders,
               \/ DeciderStep(d) \/ CrashDecider(d)
               \/ \E c \in Calls \cup {ListCall} : Begin(d, c)
        PROVE  rpc' = rpc
    BY <2>4 DEF DeciderStep, SweepStat, SweepLog, SweepUnlink, SweepDone,
                Locate, Claim, StampClaim, LogDecision, CreateMarker,
                WriteMarker, UnlinkMarker, LogReverted, ReleaseClaim,
                RemoveClaim, CrashDecider, Begin, reqVars
  <2>5. CASE Tick \/ UNCHANGED vars  BY <2>5 DEF Tick, vars, reqVars
  <2> QED  BY <2>3, <2>4, <2>5 DEF Next
<1>s. ASSUME chain' = chain,
             \A i \in 1 .. Len(chain) :
                 chain[i].kind = "DECISION" /\ rpc[chain[i].req] # "new"
                 /\ AccountedFor(i) => AccountedFor(i)'
      PROVE  DecisionsOK'
  BY <1>e, <1>n, <1>s DEF DecisionsOK
<1>a. ASSUME NEW e \in Events, chain' = Append(chain, e),
             \A n \in Nat : n = Len(chain) + 1 /\ e.kind = "DECISION" =>
                 rpc[e.req] # "new" /\ AccountedFor(n)',
             \A i \in 1 .. Len(chain) :
                 chain[i].kind = "DECISION" /\ rpc[chain[i].req] # "new"
                 /\ AccountedFor(i) => AccountedFor(i)'
      PROVE  DecisionsOK'
  <2>1. /\ Len(chain) \in Nat /\ Len(chain') = Len(chain) + 1
        /\ chain'[Len(chain')] = e
    BY <1>0, <1>a
  <2>2. \A i \in 1 .. Len(chain') : i \in 1 .. Len(chain) \/ i = Len(chain')
    BY <2>1
  <2>3. ASSUME NEW i \in 1 .. Len(chain'), chain'[i].kind = "DECISION"
        PROVE  rpc'[chain'[i].req] # "new" /\ AccountedFor(i)'
    <3>1. CASE i \in 1 .. Len(chain)
      <4>1. chain'[i] = chain[i]  BY <1>g, <3>1 DEF Grows
      <4> QED  BY <1>a, <1>e, <1>n, <2>3, <3>1, <4>1 DEF DecisionsOK
    <3>2. CASE i = Len(chain')
      <4>1. e.req \in Requests  BY DEF Events
      <4>2. chain'[i] = e /\ i = Len(chain) + 1 /\ i \in Nat  BY <2>1, <3>2
      <4>3. rpc[e.req] # "new" /\ AccountedFor(i)'  BY <1>a, <2>3, <4>2
      <4> QED  BY <1>n, <4>1, <4>2, <4>3
    <3> QED  BY <2>2, <3>1, <3>2
  <2> QED  BY <2>3 DEF DecisionsOK
<1> USE DEF fs, reqVars, decVars, Frame
<1>1. ASSUME NEW r \in Requests,
             RequesterStep(r) \/ ContextDone(r) \/ CrashRequester(r)
      PROVE  DecisionsOK'
  <2>1. UNCHANGED <<marker, chain, dpc, call>>
    BY <1>1 DEF RequesterStep, OpenPending, WritePending, ArmDeadline, PollClock,
                StatApproved, StatDenied, Wake, Withdraw, ContextDone,
                CrashRequester
  <2>2. \A q \in Requests :
           /\ file[q] = "claimed" => file'[q] = "claimed"
           /\ file[q] = "none" /\ rpc[q] # "new" => file'[q] = "none"
    <3>1. CASE OpenPending(r)
      <4>1. rpc[r] = "new" /\ file[r] = "none"
        BY <3>1 DEF OpenPending, RequesterGoes, ClaimsOK
      <4> QED  BY <1>0, <3>1, <4>1 DEF OpenPending
    <3>2. CASE WritePending(r)
      <4>1. file[r] = "partial"
        BY <3>2 DEF WritePending, RequesterGoes, ClaimsOK
      <4>2. \A q \in Requests : q # r => file'[q] = file[q]
        BY <1>0, <3>2 DEF WritePending
      <4> QED  BY <4>1, <4>2
    <3>3. CASE Withdraw(r)  BY <1>0, <3>3 DEF Withdraw
    <3>4. CASE \/ ArmDeadline(r) \/ PollClock(r) \/ StatApproved(r)
               \/ StatDenied(r) \/ Wake(r) \/ ContextDone(r) \/ CrashRequester(r)
      BY <3>4 DEF ArmDeadline, PollClock, StatApproved, StatDenied, Wake,
                  ContextDone, CrashRequester
    <3> QED  BY <1>1, <3>1, <3>2, <3>3, <3>4 DEF RequesterStep
  <2>3. \A i \in 1 .. Len(chain) :
           (\E d \in Deciders : CarriedBy(d, chain[i])) => AccountedFor(i)'
    BY <1>g, <2>1, CarriedStays
  <2> QED  BY <1>g, <1>s, <2>1, <2>2, <2>3, AccountedFrame
<1>2. ASSUME NEW d \in Deciders,
             \/ \E q \in Requests : SweepStat(d, q)
             \/ SweepDone(d) \/ Locate(d)
             \/ Claim(d) /\ file[call[d].req] # "pending"
             \/ \E c \in Calls \cup {ListCall} : Begin(d, c)
      PROVE  DecisionsOK'
  <2>1. /\ UNCHANGED <<file, marker, chain>> /\ dpc[d] \notin Claiming
        /\ \A e \in Deciders \ {d} : call'[e] = call[e]
        /\ \E p \in {"sweep", "expireLog", "idle", "locate", "claim"} :
              dpc' = [dpc EXCEPT ![d] = p]
    <3>1. CASE \E q \in Requests : SweepStat(d, q)
      BY <1>0, <3>1 DEF SweepStat, Claiming
    <3>2. CASE \/ SweepDone(d) \/ Locate(d)
               \/ Claim(d) /\ file[call[d].req] # "pending"
      BY <1>0, <3>2 DEF SweepDone, Locate, Claim, DeciderGoes, DeciderReturns,
                        DeciderIdle, Claiming
    <3>3. CASE \E c \in Calls \cup {ListCall} : Begin(d, c)
      BY <1>0, <3>3 DEF Begin, Claiming
    <3> QED  BY <1>2, <3>1, <3>2, <3>3
  <2>2. \A e \in Deciders :
           /\ dpc'[e] \in Claiming => dpc[e] \in Claiming /\ call'[e] = call[e]
           /\ dpc[e] \in Carrying => dpc'[e] \in Carrying /\ call'[e] = call[e]
    BY <1>0, <1>w, <2>1 DEF Claiming
  <2>3. \A i \in 1 .. Len(chain) :
           (\E e \in Deciders : CarriedBy(e, chain[i])) => AccountedFor(i)'
    BY <1>g, <2>2, CarriedStays
  <2> QED  BY <1>g, <1>s, <2>1, <2>2, <2>3, AccountedFrame
<1>3. ASSUME NEW d \in Deciders, Claim(d), file[call[d].req] = "pending"
      PROVE  DecisionsOK'
  <2>1. /\ UNCHANGED <<marker, chain, call>> /\ call[d].req \in Requests
        /\ dpc[d] = "claim" /\ dpc' = [dpc EXCEPT ![d] = "stamp"]
        /\ file' = [file EXCEPT ![call[d].req] = "claimed"]
    BY <1>0, <1>3 DEF Claim, DeciderGoes, FramesOK, Calls
  <2>2. \A e \in Deciders :
           /\ dpc'[e] \in Claiming =>
                 dpc[e] \in Claiming \/ file[call[e].req] = "pending"
           /\ dpc[e] \in Carrying => dpc'[e] \in Carrying /\ call'[e] = call[e]
    BY <1>0, <1>3, <2>1 DEF Carrying
  <2>3. \A q \in Requests : /\ file[q] = "claimed" => file'[q] = "claimed"
                            /\ file[q] = "none" => file'[q] = "none"
    BY <1>0, <1>3, <2>1
  <2>4. \A i \in 1 .. Len(chain) :
           (\E e \in Deciders : CarriedBy(e, chain[i])) => AccountedFor(i)'
    BY <1>g, <2>2, CarriedStays
  <2> QED  BY <1>g, <1>s, <2>1, <2>2, <2>3, <2>4, AccountedFrame
<1>4. ASSUME NEW d \in Deciders, SweepUnlink(d) PROVE DecisionsOK'
  <2>1. /\ UNCHANGED <<marker, chain, call>>
        /\ dpc[d] = "expireUnlink" /\ dpc' = [dpc EXCEPT ![d] = "sweep"]
        /\ target[d] \in Requests /\ Recorded(Expired(target[d]))
        /\ file' = [file EXCEPT ![target[d]] = IF @ = "claimed" THEN "none" ELSE @]
    BY <1>0, <1>4 DEF SweepUnlink, DeciderGoes, FramesOK, LossOK
  <2>2. \A e \in Deciders :
           /\ dpc'[e] \in Claiming => dpc[e] \in Claiming
           /\ dpc[e] \in Carrying => dpc'[e] \in Carrying
    BY <1>0, <2>1 DEF Carrying, Claiming
  <2>3. \A q \in Requests :
           /\ file[q] = "claimed" => file'[q] = "claimed" \/ Recorded(Expired(q))
           /\ file[q] = "none" => file'[q] = "none"
    BY <1>0, <2>1
  <2>4. \A i \in 1 .. Len(chain) :
           (\E e \in Deciders : CarriedBy(e, chain[i])) => AccountedFor(i)'
    BY <1>g, <2>1, <2>2, CarriedStays
  <2> QED  BY <1>g, <1>s, <2>1, <2>2, <2>3, <2>4, AccountedFrame
<1>5. ASSUME NEW d \in Deciders, SweepLog(d) PROVE DecisionsOK'
  <2>1. /\ UNCHANGED <<file, marker, call>> /\ target[d] \in Requests
        /\ dpc[d] = "expireLog" /\ dpc' = [dpc EXCEPT ![d] = "expireUnlink"]
        /\ chain' = Append(chain, Expired(target[d]))
    BY <1>0, <1>5 DEF SweepLog, DeciderGoes, FramesOK, LogEvent
  <2>2. \A e \in Deciders :
           /\ dpc'[e] \in Claiming => dpc[e] \in Claiming
           /\ dpc[e] \in Carrying => dpc'[e] \in Carrying
    BY <1>0, <2>1 DEF Carrying, Claiming
  <2>3. \A i \in 1 .. Len(chain) :
           (\E e \in Deciders : CarriedBy(e, chain[i])) => AccountedFor(i)'
    BY <1>g, <2>1, <2>2, CarriedStays
  <2>4. \A i \in 1 .. Len(chain) :
           chain[i].kind = "DECISION" /\ rpc[chain[i].req] # "new"
           /\ AccountedFor(i) => AccountedFor(i)'
    BY <1>g, <2>1, <2>2, <2>3, AccountedFrame
  <2>5. Expired(target[d]) \in Events /\ Expired(target[d]).kind # "DECISION"
    BY <2>1, EventTypes DEF Expired
  <2> QED  BY <1>a, <2>1, <2>4, <2>5
<1>6. ASSUME NEW d \in Deciders, LogDecision(d) PROVE DecisionsOK'
  <2>1. /\ UNCHANGED <<file, marker, call>>
        /\ dpc[d] = "log" /\ dpc' = [dpc EXCEPT ![d] = "create"]
        /\ chain' = Append(chain, Decision(call[d]))
    BY <1>0, <1>6 DEF LogDecision, DeciderGoes, LogEvent
  <2>2. /\ Decision(call[d]) \in Events /\ Decision(call[d]).req = call[d].req
        /\ rpc[call[d].req] # "new"
    BY <1>c, <2>1, EventTypes DEF Claiming, Decision
  <2>3. \A e \in Deciders :
           /\ dpc'[e] \in Claiming => dpc[e] \in Claiming
           /\ dpc[e] \in Carrying => dpc'[e] \in Carrying
    BY <1>0, <2>1 DEF Carrying, Claiming
  <2>4. \A i \in 1 .. Len(chain) :
           (\E e \in Deciders : CarriedBy(e, chain[i])) => AccountedFor(i)'
    BY <1>g, <2>1, <2>3, CarriedStays
  <2>5. \A i \in 1 .. Len(chain) :
           chain[i].kind = "DECISION" /\ rpc[chain[i].req] # "new"
           /\ AccountedFor(i) => AccountedFor(i)'
    BY <1>g, <2>1, <2>3, <2>4, AccountedFrame
  <2>6. ASSUME NEW n \in Nat, n = Len(chain) + 1 PROVE AccountedFor(n)'
    <3>1. chain'[n] = Decision(call[d])  BY <1>0, <2>1, <2>2, <2>6
    <3>2. dpc'[d] \in Carrying /\ call'[d] = call[d]
      BY <1>0, <2>1 DEF Carrying
    <3>3. CarriedBy(d, chain[n])'
      BY <3>1, <3>2 DEF CarriedBy, Decision
    <3> QED  BY <3>3 DEF AccountedFor
  <2> QED  BY <1>a, <2>1, <2>2, <2>5, <2>6
<1>7. ASSUME NEW d \in Deciders, StampClaim(d) \/ WriteMarker(d)
      PROVE  DecisionsOK'
  <2>1. /\ UNCHANGED <<file, marker, chain, call>>
        /\ \/ dpc[d] = "stamp" /\ dpc' = [dpc EXCEPT ![d] = "log"]
           \/ /\ dpc[d] = "write"
              /\ \E p \in {"finish", "unmark"} : dpc' = [dpc EXCEPT ![d] = p]
    BY <1>7 DEF StampClaim, WriteMarker, DeciderGoes
  <2>2. \A e \in Deciders :
           /\ dpc'[e] \in Claiming => dpc[e] \in Claiming
           /\ dpc[e] \in Carrying => dpc'[e] \in Carrying
    BY <1>0, <2>1 DEF Carrying, Claiming
  <2>3. \A i \in 1 .. Len(chain) :
           (\E e \in Deciders : CarriedBy(e, chain[i])) => AccountedFor(i)'
    BY <1>g, <2>1, <2>2, CarriedStays
  <2> QED  BY <1>g, <1>s, <2>1, <2>2, <2>3, AccountedFrame
<1>8. ASSUME NEW d \in Deciders, CreateMarker(d) \/ UnlinkMarker(d)
      PROVE  DecisionsOK'
  <2>1. /\ UNCHANGED <<file, chain, call>> /\ dpc[d] \in {"create", "unmark"}
        /\ \E p \in {"write", "revert"} : dpc' = [dpc EXCEPT ![d] = p]
    BY <1>8 DEF CreateMarker, UnlinkMarker, DeciderGoes
  <2>2. \A e \in Deciders :
           /\ dpc'[e] \in Claiming => dpc[e] \in Claiming
           /\ dpc[e] \in Carrying => dpc'[e] \in Carrying
    BY <1>0, <2>1 DEF Carrying, Claiming
  <2>3. call[d].req \in Requests /\ ~Orphan(call[d].req)
    BY <1>c, <2>1 DEF Claiming
  <2>4. \A q \in Requests : q # call[d].req => marker'[q] = marker[q]
    BY <1>0, <1>8, <2>3 DEF CreateMarker, UnlinkMarker
  <2>5. \A q \in Requests : Orphan(q) => marker[q] \subseteq marker'[q]
    BY <2>3, <2>4
  <2>6. \A i \in 1 .. Len(chain) :
           (\E e \in Deciders : CarriedBy(e, chain[i])) => AccountedFor(i)'
    BY <1>g, <2>1, <2>2, CarriedStays
  <2> QED  BY <1>g, <1>s, <2>1, <2>2, <2>5, <2>6, AccountedFrame
<1>9. ASSUME NEW d \in Deciders, LogReverted(d) PROVE DecisionsOK'
  <2>1. /\ UNCHANGED <<file, marker, call>>
        /\ dpc[d] = "revert" /\ dpc' = [dpc EXCEPT ![d] = "release"]
        /\ chain' = Append(chain, Reverted(call[d]))
    BY <1>0, <1>9 DEF LogReverted, DeciderGoes, LogEvent
  <2>2. Reverted(call[d]) \in Events /\ Reverted(call[d]).kind # "DECISION"
    BY <1>c, <2>1, EventTypes DEF Claiming, Reverted
  <2>3. \A e \in Deciders : dpc'[e] \in Claiming => dpc[e] \in Claiming
    BY <1>0, <2>1 DEF Claiming
  <2>4. ASSUME NEW i \in 1 .. Len(chain), NEW e \in Deciders,
               CarriedBy(e, chain[i])
        PROVE  AccountedFor(i)'
    <3>1. chain'[i] = chain[i]  BY <1>g DEF Grows
    <3>2. CASE e = d
      <4>1. /\ Len(chain') = Len(chain) + 1 /\ Len(chain) \in Nat
            /\ chain'[Len(chain')] = Reverted(call[d])
        BY <1>0, <2>1, <2>2
      <4>2. Len(chain') \in i + 1 .. Len(chain')  BY <4>1
      <4>3. Reverted(call[d]) = Reverted(chain[i])
        BY <2>4, <3>2 DEF CarriedBy, Reverted, Decision
      <4> QED  BY <3>1, <4>1, <4>2, <4>3 DEF AccountedFor, Reverted
    <3>3. CASE e # d
      <4>1. dpc'[e] = dpc[e] /\ call'[e] = call[e]  BY <1>0, <2>1, <3>3
      <4>2. CarriedBy(e, chain[i])'
        BY <2>4, <3>1, <4>1 DEF CarriedBy, Decision
      <4> QED  BY <4>2 DEF AccountedFor
    <3> QED  BY <3>2, <3>3
  <2>5. \A i \in 1 .. Len(chain) :
           chain[i].kind = "DECISION" /\ rpc[chain[i].req] # "new"
           /\ AccountedFor(i) => AccountedFor(i)'
    BY <1>g, <2>1, <2>3, <2>4, AccountedFrame
  <2> QED  BY <1>a, <2>1, <2>2, <2>5
<1>10. ASSUME NEW d \in Deciders, ReleaseClaim(d) PROVE DecisionsOK'
  <2>1. /\ UNCHANGED <<marker, chain>>
        /\ dpc[d] = "release" /\ dpc' = [dpc EXCEPT ![d] = "idle"]
        /\ \A e \in Deciders \ {d} : call'[e] = call[e]
    BY <1>0, <1>10 DEF ReleaseClaim, DeciderReturns, DeciderIdle
  <2>2. \A e \in Deciders :
           /\ dpc'[e] \in Claiming => dpc[e] \in Claiming /\ call'[e] = call[e]
           /\ dpc[e] \in Carrying => dpc'[e] \in Carrying /\ call'[e] = call[e]
    BY <1>0, <2>1 DEF Carrying, Claiming
  <2>3. call[d].req \in Requests /\ ~Orphan(call[d].req)
    BY <1>c, <2>1 DEF Claiming
  <2>4. \A q \in Requests : /\ file[q] = "claimed" /\ Orphan(q) => file'[q] = "claimed"
                            /\ file[q] = "none" => file'[q] = "none"
    BY <1>0, <1>10, <2>3 DEF ReleaseClaim
  <2>5. \A i \in 1 .. Len(chain) :
           (\E e \in Deciders : CarriedBy(e, chain[i])) => AccountedFor(i)'
    BY <1>g, <2>2, CarriedStays
  <2> QED  BY <1>g, <1>s, <2>1, <2>2, <2>4, <2>5, AccountedFrame
<1>11. ASSUME NEW d \in Deciders, RemoveClaim(d) \/ CrashDecider(d)
       PROVE  DecisionsOK'
  <2>1. /\ UNCHANGED <<marker, chain>>
        /\ dpc' = [dpc EXCEPT ![d] = "idle"]
        /\ \A e \in Deciders \ {d} : call'[e] = call[e]
    BY <1>0, <1>11 DEF RemoveClaim, CrashDecider, DeciderReturns, DeciderIdle
  <2>2. \A e \in Deciders : dpc'[e] \in Claiming =>
           e # d /\ dpc[e] \in Claiming /\ call'[e] = call[e]
    BY <1>0, <2>1 DEF Claiming
  <2>3. /\ \A q \in Requests : file[q] = "claimed" /\ Orphan(q) => file'[q] = "claimed"
        /\ \A q \in Requests : file[q] = "none" => file'[q] = "none"
        /\ CrashDecider(d) => file' = file
        /\ dpc[d] \in Claiming =>
              file'[call[d].req] = file[call[d].req] \/ file'[call[d].req] = "none"
    <3>1. CASE CrashDecider(d)  BY <3>1 DEF CrashDecider
    <3>2. CASE RemoveClaim(d)
      <4>1. call[d].req \in Requests /\ ~Orphan(call[d].req) /\ dpc[d] = "finish"
        BY <1>c, <3>2 DEF RemoveClaim, DeciderReturns, Claiming
      <4>2. CrashDecider(d) => file' = file  BY DEF CrashDecider
      <4> QED  BY <1>0, <3>2, <4>1, <4>2 DEF RemoveClaim
    <3> QED  BY <1>11, <3>1, <3>2
  <2>4. ASSUME NEW i \in 1 .. Len(chain), chain[i].kind = "DECISION",
               NEW e \in Deciders, CarriedBy(e, chain[i])
        PROVE  AccountedFor(i)'
    <3>1. CASE e # d
      <4>1. dpc'[e] = dpc[e] /\ call'[e] = call[e]  BY <1>0, <2>1, <3>1
      <4>2. CarriedBy(e, chain[i])'
        BY <2>1, <2>4, <4>1 DEF CarriedBy, Decision
      <4> QED  BY <4>2 DEF AccountedFor
    <3>2. CASE e = d
      <4>1. PICK r \in Requests : r = call[d].req
        BY <1>c, <1>w, <2>4, <3>2 DEF CarriedBy
      <4>2. /\ chain[i].req = r /\ chain[i].verb = call[d].verb
            /\ dpc[d] \in Claiming
        BY <1>w, <2>4, <3>2, <4>1 DEF CarriedBy, Decision
      <4>3. CASE file[r] = "none"
        <5>1. Recorded(Expired(r))'
          BY <1>g, <4>1, <4>2, <4>3, ExpiryStays DEF LossOK
        <5> QED  BY <2>1, <4>2, <5>1 DEF AccountedFor
      <4>4. CASE file[r] = "claimed"
        <5>1. Orphan(r)'
          <6> SUFFICES ASSUME NEW q \in Deciders, dpc'[q] \in Claiming
                       PROVE  call'[q].req # r
            BY DEF Orphan
          <6> QED  BY <1>c, <2>2, <4>1, <4>2
        <5>2. CASE file'[r] = "claimed"
          BY <2>1, <4>2, <5>1, <5>2 DEF AccountedFor
        <5>3. CASE file'[r] # "claimed"
          <6>1. RemoveClaim(d) /\ file'[r] = "none"
            BY <1>11, <2>3, <4>1, <4>2, <4>4, <5>3
          <6>2. call[d].verb \in marker[r]
            BY <4>1, <6>1 DEF RemoveClaim, DeciderReturns, LossOK
          <6> QED  BY <2>1, <4>2, <5>1, <6>1, <6>2 DEF AccountedFor
        <5> QED  BY <5>2, <5>3
      <4> QED  BY <1>c, <4>1, <4>2, <4>3, <4>4
    <3> QED  BY <3>1, <3>2
  <2> QED  BY <1>g, <1>s, <2>1, <2>2, <2>3, <2>4, AccountedFrame
<1>12. CASE Tick \/ UNCHANGED vars
  <2>1. UNCHANGED <<file, marker, chain, rpc, dpc, call>>
    BY <1>12 DEF Tick, vars
  <2>2. \A i \in 1 .. Len(chain) :
           (\E e \in Deciders : CarriedBy(e, chain[i])) => AccountedFor(i)'
    BY <1>g, <2>1, CarriedStays
  <2> QED  BY <1>g, <1>s, <2>1, <2>2, AccountedFrame
<1> QED  BY <1>1, <1>2, <1>3, <1>4, <1>5, <1>6, <1>7, <1>8, <1>9, <1>10, <1>11,
            <1>12 DEF Next, RequesterStep, DeciderStep

\* EffectOrRevert: as long as LogEvent fails only with its process, every
\* decision on record has its marker, its revert, a claim still to sweep or an
\* expiry on record, or a call that still carries it out, through every crash
\* and every other failure of DecideRequest.
THEOREM DecisionsTakeEffect ==
    ASSUME "auditLost" \notin Faults, "auditSync" \notin Faults
    PROVE  Spec => []EffectOrRevert
<1>1. Init => TypeInv  BY TypeInvInit
<1>2. Init => ClaimsOK  BY DEF Init, ClaimsOK, OneDecider, Claiming
<1>3. Init => LossOK  BY DEF Init, LossOK, NoSilentLoss, Claiming, Polling
<1>4. Init => DecisionsOK  BY DEF Init, DecisionsOK
<1>5. DecisionsOK => EffectOrRevert
  <2>1. Carrying \subseteq Claiming  BY DEF Carrying, Claiming
  <2> QED  BY <2>1 DEF DecisionsOK, AccountedFor, CarriedBy, EffectOrRevert,
                      InProgress
<1> QED  BY <1>1, <1>2, <1>3, <1>4, <1>5, TypeInvStep, ClaimsStep, LossStep,
            DecisionsStep, PTL DEF Spec
=============================================================================
