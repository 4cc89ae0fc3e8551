------------------------------ MODULE SSHProofs ------------------------------
(***************************************************************************)
(* Machine-checked proofs about logins over SSH and the sessions they      *)
(* open: about Monitor, for every number of round trips, cancels and       *)
(* foreign frames, every body and every amount of output; about SSHKeys,   *)
(* for every file and every offer; about Listener, for every number of     *)
(* connections and channels; and about what a session runs: the lines of   *)
(* Shell, the command of ChildExec, the batch and the expect of StarExec.  *)
(***************************************************************************)
EXTENDS Monitor, SSHKeys, Listener, Shell, ChildExec, StarExec,
        FiniteSetTheorems, SequenceTheorems, TLAPS

InSlot == {"start", "gate", "run", "end"}

\* The client between the write of its request and the end of its call.
Asking == {"written", "active", "early", "wait"}
Calling == Asking \cup {"write", "over", "idling"}

Frames == [type : {"ping", "request", "cancel", "out", "answer"}, id : Ids \cup {0},
           body : Bodies \cup {"none"}, n : Nat]

CallType == [id : Ids \cup {0}, body : Bodies \cup {"none"}]
ClientType == [pc : {"new", "ping", "idle", "gone"} \cup Calling,
               call : CallType,
               got : 0 .. MaxOutput + 1, next : 1 .. MaxCalls + 1, broken : BOOLEAN]
AtomType == [active : Ids \cup {0}, writing : Ids \cup {0}, early : Ids \cup {0}]
SignalType == [pc : {"none", "read", "store", "recheck", "swap", "send"}, w : Ids \cup {0},
               id : Ids \cup {0}, calls : Nat]
ListenerType == [last : Ids \cup {0}, inflight : Ids \cup {0}, early : Ids \cup {0},
                 fresh : BOOLEAN, up : BOOLEAN, served : BOOLEAN]
RoutineType == [pc : InSlot \cup {"none", "respond", "done"}, body : Bodies \cup {"none"},
                ok : BOOLEAN, total : 0 .. MaxWritten, seq : 0 .. MaxOutput, cut : BOOLEAN]
HistType == [allowed : SUBSET [id : Ids, body : Bodies \cup {"none"}],
             accepted : SUBSET CallType,
             busied : BOOLEAN, meant : SUBSET (Ids \cup {0}), early : SUBSET Ids]

\* Types; the frames to the listener are pings, requests and cancels of some call.
ToListener == \A n \in 1 .. Len(toL) :
                 /\ toL[n].type \in {"ping", "request", "cancel"}
                 /\ toL[n].type # "ping" => toL[n].id \in Ids

ClientSet ==
    /\ cl.pc \in {"new", "ping", "idle"} => cl.call = NoCall /\ cl.got = 0
    /\ cl.pc \in Calling =>
          cl.call.id = cl.next - 1 /\ cl.call.id \in Ids /\ cl.call.body \in Bodies

SignalSet ==
    /\ sg.pc \in {"store", "recheck", "swap"} => sg.w # 0
    /\ sg.pc = "send" => sg.id # 0

MonTyped ==
    /\ cl \in ClientType /\ atom \in AtomType /\ sg \in SignalType
    /\ toL \in Seq(Frames) /\ toC \in Seq(Frames)
    /\ ls \in ListenerType /\ rt \in [Ids -> RoutineType]
    /\ finished \subseteq Ids
    /\ upset \in {"none", "write", "session", "client", "stray", "large"}
    /\ hist \in HistType
    /\ ToListener /\ ClientSet /\ SignalSet

\* The slot is that of the one request between begin and end, requests are begun in
\* sequence, and what runs or is answered as allowed was allowed.
SlotOf(i) ==
    /\ ls.inflight = i <=> rt[i].pc \in InSlot
    /\ rt[i].pc # "none" => i <= ls.last
    /\ rt[i].pc \in {"start", "gate"} => rt[i].seq = 0 /\ ~rt[i].ok
    /\ rt[i].pc = "run" => rt[i].body \in RunBodies
    /\ rt[i].pc = "run" \/ rt[i].ok => [id |-> i, body |-> rt[i].body] \in hist.allowed

Answered == \A n \in 1 .. Len(toC) : toC[n].type = "answer" /\ toC[n].n # 0 =>
                [id |-> toC[n].id, body |-> toC[n].body] \in hist.allowed

Begun == /\ \A r \in hist.allowed : r.id <= ls.last
         /\ \A i \in hist.early : i \in finished /\ i <= ls.last

Slots == /\ \A i \in Ids : SlotOf(i)
         /\ Answered /\ AcceptedWasAllowed /\ Begun /\ EarlyCancelDenies

\* The client's marks are those of its call, and every identifier that a Cancel read,
\* stored or sent is that of the call it looked at.
Marks == /\ atom.writing \in {0, cl.call.id}
         /\ atom.active # 0 => /\ atom.active = cl.call.id
                               /\ cl.pc \in {"active", "early", "wait", "over", "gone"}
Intended == /\ finished \subseteq hist.meant
            /\ atom.early # 0 => atom.early \in hist.meant
            /\ sg.pc = "read" /\ sg.w # 0 => sg.w \in hist.meant
            /\ sg.pc \in {"store", "recheck", "swap"} => sg.w \in hist.meant
            /\ sg.pc = "send" => sg.id \in hist.meant
            /\ \A n \in 1 .. Len(toL) : toL[n].type = "cancel" => toL[n].id \in hist.meant

\* The request i was written: it waits in the socket or was read.
OnWire(i) ==
    \/ i <= ls.last
    \/ \E n \in 1 .. Len(toL) : toL[n].type = "request" /\ toL[n].id = i

\* After an oversized request the client is broken, and between two calls for good.
GaveUp == upset = "large" => cl.broken /\ cl.pc \in {"over", "idling", "idle"}

Silent == /\ ~hist.busied /\ ls.early = 0
          /\ cl.pc = "gone" <=> upset = "client"
          /\ upset = "write" => ~ls.up
         /\ GaveUp

\* No cancel comes before its request.
Follows == \A n \in 1 .. Len(toL) : toL[n].type = "cancel" =>
              \/ toL[n].id <= ls.last
              \/ \E k \in 1 .. (n - 1) : toL[k].type = "request" /\ toL[k].id = toL[n].id

\* At most one request waits in the socket: the client's, the next one, the slot free.
OneRequest == \A n \in 1 .. Len(toL) : toL[n].type = "request" =>
                 /\ toL[n].id = ls.last + 1 /\ ls.inflight = 0
                 /\ cl.pc \in Asking \cup {"gone"}
                 /\ toL[n].id = cl.call.id /\ toL[n].body = cl.call.body
                 /\ \A m \in 1 .. Len(toL) : toL[m].type = "request" => m = n

\* What is marked as in flight, or is about to be canceled, was written.
Sent == /\ atom.active # 0 => OnWire(atom.active)
        /\ sg.pc = "swap" => OnWire(sg.w)
        /\ sg.pc = "send" => OnWire(sg.id)
        /\ cl.pc \in Asking => OnWire(cl.call.id)

\* As long as nobody else writes to the socket.
Order == upset # "stray" =>
    /\ Marks /\ Intended /\ Silent /\ Follows
    /\ ls.up => OneRequest /\ Sent

\* The n-th frame under way is the n-th Out frame the client has still to take.
Out(n) ==
    /\ toC[n].type = "out" /\ toC[n].id = cl.call.id /\ cl.call.body \in RunBodies
    /\ toC[n].n = cl.got + n /\ toC[n].n <= MaxOutput + 1

\* What is under way to the client in a call is the rest of its output, then its answer.
Replies ==
    LET k == rt[cl.call.id] IN
    /\ k.pc \in InSlot \cup {"respond"} => k.body = cl.call.body
    /\ k.pc \in {"none", "start", "gate"} => toC = <<>> /\ cl.got = 0
    /\ k.pc = "run" => cl.got + Len(toC) = k.seq
    /\ k.pc # "done" => \A n \in 1 .. Len(toC) : Out(n)
    /\ k.pc = "done" =>
          /\ Len(toC) >= 1
          /\ toC[Len(toC)].type = "answer" /\ toC[Len(toC)].id = cl.call.id
          /\ toC[Len(toC)].body = cl.call.body
          /\ \A n \in 1 .. (Len(toC) - 1) : Out(n)

\* The listener serves the client's call or nothing, in step with its identifiers.
Served ==
    /\ \A i \in Ids : cl.pc \notin Asking \/ i # cl.call.id => rt[i].pc \in {"none", "done"}
    /\ cl.pc \notin Asking => ls.last = IF cl.pc = "write" THEN cl.next - 2 ELSE cl.next - 1
    /\ cl.pc \in Asking => Replies /\ ls.last \in {cl.next - 2, cl.next - 1}

\* Nothing is under way outside a call but the first exchange of pings.
Still ==
    /\ cl.pc \in {"new", "idle"} \cup (Calling \ Asking) => toC = <<>>
    /\ cl.pc = "write" => cl.got = 0
    /\ cl.pc \in {"new", "ping"} => cl.next = 1
    /\ cl.pc = "new" => toL = <<>>
    /\ \A n \in 1 .. Len(toL) : toL[n].type = "ping" => cl.pc = "ping"
    /\ cl.pc = "ping" => \/ toC = <<>> /\ Len(toL) = 1 /\ toL[1].type = "ping"
                         \/ toL = <<>> /\ Len(toC) = 1 /\ toC[1].type = "ping"

\* The two ends of an undisturbed connection.
Talk == upset \in {"none", "session"} => ls.up /\ ~cl.broken /\ Served /\ Still

MonInv == MonTyped /\ Slots /\ Order /\ Talk

-----------------------------------------------------------------------------
(* Frames under way.                                                       *)

\* One frame more, or one less.
LEMMA AppendIs ==
    ASSUME NEW S, NEW l \in Seq(S), NEW f \in S
    PROVE  /\ Append(l, f) \in Seq(S) /\ Len(Append(l, f)) = Len(l) + 1
           /\ \A n \in 1 .. Len(l) : Append(l, f)[n] = l[n]
           /\ Append(l, f)[Len(l) + 1] = f
OBVIOUS

LEMMA TailIs ==
    ASSUME NEW S, NEW l \in Seq(S), l # <<>>
    PROVE  /\ Tail(l) \in Seq(S) /\ Len(Tail(l)) = Len(l) - 1 /\ Len(l) >= 1
           /\ \A n \in 1 .. Len(Tail(l)) : Tail(l)[n] = l[n + 1]
           /\ Head(l) = l[1] /\ Head(l) \in S
OBVIOUS

\* The bounds and the bodies.
LEMMA IdsAre ==
    /\ Ids \subseteq Nat \ {0} /\ 1 .. MaxCalls \subseteq Ids /\ 0 \in Nat
    /\ MaxCalls \in Nat \ {0} /\ MaxOutput \in Nat \ {0} /\ MaxWritten \in Nat
    /\ AuthBodies \subseteq Bodies /\ RunBodies \subseteq Bodies /\ "none" \notin Bodies
BY MonitorAssumption DEF Ids, Bodies

\* A call, and none.
LEMMA CallIs ==
    /\ NoCall \in CallType /\ NoCall.id = 0 /\ NoCall.body = "none"
    /\ \A i \in Ids, b \in Bodies : [id |-> i, body |-> b] \in CallType
BY DEF NoCall, CallType

-----------------------------------------------------------------------------
(* Types.                                                                  *)

\* What the client writes has its type.
LEMMA WriteTyped ==
    ASSUME MonTyped, NEW f \in Frames, f.type \in {"ping", "request", "cancel"},
           f.type # "ping" => f.id \in Ids, ClientWrites(f)
    PROVE  (toL \in Seq(Frames))' /\ ToListener'
<1>1. toL \in Seq(Frames) /\ ToListener  BY DEF MonTyped
<1>2. CASE toL' = toL  BY <1>1, <1>2 DEF ToListener
<1>3. CASE toL' = Append(toL, f)
  <2>1. /\ toL' \in Seq(Frames) /\ Len(toL') = Len(toL) + 1 /\ Len(toL) \in Nat
        /\ \A n \in 1 .. Len(toL) : toL'[n] = toL[n]
        /\ toL'[Len(toL) + 1] = f
    BY <1>1, <1>3, AppendIs
  <2> QED  BY <1>1, <2>1 DEF ToListener
<1> QED  BY <1>2, <1>3 DEF ClientWrites

LEMMA ClientTyped ==
    ASSUME MonTyped, ClientStep \/ \E b \in Bodies : StartCall(b)
    PROVE  MonTyped'
<1>0. /\ cl \in ClientType /\ atom \in AtomType /\ sg \in SignalType
      /\ toL \in Seq(Frames) /\ toC \in Seq(Frames)
      /\ ls \in ListenerType /\ rt \in [Ids -> RoutineType] /\ finished \subseteq Ids
      /\ upset \in {"none", "write", "session", "client", "stray", "large"} /\ hist \in HistType
      /\ ToListener /\ ClientSet /\ SignalSet
  BY DEF MonTyped
<1>s. UNCHANGED sg => SignalSet'  BY <1>0 DEF SignalSet
<1>t. UNCHANGED toL => ToListener'  BY <1>0 DEF ToListener
<1>i. 0 \in Nat /\ MaxCalls \in Nat /\ MaxOutput \in Nat /\ Ids \subseteq Nat  BY IdsAre
<1>g. 0 \in 0 .. MaxOutput + 1  BY <1>i
<1>1. CASE SendPing
  <2> DEFINE f == Frame("ping", 0, "none", 0)
  <2>1. f \in Frames /\ f.type = "ping"  BY IdsAre DEF Frame, Frames
  <2>0. ClientWrites(f)  BY <1>1 DEF SendPing
  <2> HIDE DEF f
  <2>2. (toL \in Seq(Frames))' /\ ToListener'  BY <2>0, <2>1, WriteTyped
  <2>3. cl' \in ClientType /\ ClientSet'
    BY <1>0, <1>1 DEF SendPing, ClientType, ClientSet, Calling, Asking, ListenerType
  <2> QED  BY <1>0, <1>s, <1>1, <2>2, <2>3 DEF SendPing, MonTyped
<1>2. CASE ReceivePing
  <2>1. toC' \in Seq(Frames)  BY <1>0, <1>2, TailIs DEF ReceivePing
  <2>2. cl' \in ClientType /\ ClientSet'
    BY <1>0, <1>2 DEF ReceivePing, ClientType, ClientSet, Calling, Asking
  <2> QED  BY <1>0, <1>s, <1>t, <1>2, <2>1, <2>2 DEF ReceivePing, MonTyped
<1>3. ASSUME NEW b \in Bodies, StartCall(b) PROVE MonTyped'
  <2> DEFINE call == [id |-> cl.next, body |-> b]
  <2>n. cl.next \in 1 .. MaxCalls + 1 /\ cl.next <= MaxCalls
    BY <1>0, <1>3 DEF StartCall, ClientType
  <2>0. cl.next \in Ids /\ cl.next + 1 \in 1 .. MaxCalls + 1 
    BY <2>n, <1>i, IdsAre
  <2>4. call \in CallType /\ call.id = cl.next /\ call.body \in Bodies  BY <2>0, CallIs
  <2>5. cl' = [cl EXCEPT !.pc = "write", !.call = call, !.got = 0, !.next = cl.next + 1]
    BY <1>0, <1>3 DEF StartCall, ClientType
  <2> HIDE DEF call
  <2>1. cl' \in ClientType  BY <1>0, <1>g, <2>0, <2>4, <2>5 DEF ClientType, Calling
  <2>6. cl'.pc = "write" /\ cl'.call = call /\ cl'.next = cl.next + 1
    BY <1>0, <2>5 DEF ClientType
  <2>3. ClientSet'  BY <2>n, <2>0, <2>4, <2>6 DEF ClientSet, Calling, Asking
  <2>2. atom' \in AtomType  BY <1>0, <1>3, <2>0 DEF StartCall, AtomType
  <2> QED  BY <1>0, <1>s, <1>t, <1>3, <2>1, <2>2, <2>3 DEF StartCall, MonTyped
<1>4. CASE WriteRequest
  <2>1. cl.call.id \in Ids /\ cl.call.body \in Bodies
    BY <1>0, <1>4 DEF WriteRequest, ClientSet, Calling
  <2> DEFINE f == Frame("request", cl.call.id, cl.call.body, 0)
  <2>2. f \in Frames /\ f.type = "request" /\ f.id \in Ids  BY <2>1, IdsAre DEF Frame, Frames
  <2>0. ClientWrites(f) \/ UNCHANGED toL  BY <1>4 DEF WriteRequest
  <2> HIDE DEF f
  <2>3. (toL \in Seq(Frames))' /\ ToListener'  BY <1>0, <1>t, <2>0, <2>2, WriteTyped
  <2>4. cl' \in ClientType /\ ClientSet'
    BY <1>0, <1>4 DEF WriteRequest, StillWhole, ClientType, ClientSet, Calling, Asking, ListenerType
  <2>5. atom' \in AtomType  BY <1>0, <1>4 DEF WriteRequest, AtomType
  <2> QED  BY <1>0, <1>s, <1>4, <2>3, <2>4, <2>5 DEF WriteRequest, MonTyped
<1>5. CASE MarkActive
  <2>1. cl' \in ClientType /\ ClientSet'
    BY <1>0, <1>5 DEF MarkActive, ClientType, ClientSet, Calling, Asking
  <2>3. cl.call.id \in Ids \cup {0}  BY <1>0 DEF ClientType, CallType
  <2>2. atom' \in AtomType  BY <1>0, <1>5, <2>3 DEF MarkActive, AtomType
  <2> QED  BY <1>0, <1>s, <1>t, <1>5, <2>1, <2>2 DEF MarkActive, MonTyped
<1>6. CASE TakeEarlyCancel
  <2>1. cl.call.id \in Ids  BY <1>0, <1>6 DEF TakeEarlyCancel, ClientSet, Calling, Asking
  <2> DEFINE f == Frame("cancel", cl.call.id, "none", 0)
  <2>2. f \in Frames /\ f.type = "cancel" /\ f.id \in Ids  BY <2>1, IdsAre DEF Frame, Frames
  <2>0. ClientWrites(f) \/ UNCHANGED toL  BY <1>6 DEF TakeEarlyCancel
  <2> HIDE DEF f
  <2>3. (toL \in Seq(Frames))' /\ ToListener'  BY <1>0, <1>t, <2>0, <2>2, WriteTyped
  <2>4. cl' \in ClientType /\ ClientSet'
    BY <1>0, <1>6 DEF TakeEarlyCancel, StillWhole, ClientType, ClientSet, Calling, Asking,
       ListenerType
  <2>5. atom' \in AtomType  BY <1>0, <1>6 DEF TakeEarlyCancel, AtomType
  <2> QED  BY <1>0, <1>s, <1>6, <2>3, <2>4, <2>5 DEF TakeEarlyCancel, MonTyped
<1>7. CASE Receive
  <2>1. toC' \in Seq(Frames)  BY <1>0, <1>7, TailIs DEF Receive
  <2>5. ASSUME toC # <<>>, MatchesOut(Head(toC)), cl' = [cl EXCEPT !.got = @ + 1]
       PROVE  cl' \in ClientType
    <3>1. cl.got \in 0 .. MaxOutput + 1  BY <1>0 DEF ClientType
    <3>4. Head(toC) \in Frames  BY <1>0, <2>5, TailIs
    <3>5. Head(toC).n \in Nat  BY <3>4 DEF Frames
    <3>2. cl.got + 1 \in 0 .. MaxOutput + 1  BY <1>i, <2>5, <3>1, <3>5 DEF MatchesOut
    <3>3. cl' = [cl EXCEPT !.got = cl.got + 1]  BY <1>0, <2>5 DEF ClientType
    <3> QED  BY <1>0, <3>2, <3>3 DEF ClientType
  <2>6. ASSUME \/ cl' = [cl EXCEPT !.pc = "over"]
               \/ cl' = [cl EXCEPT !.pc = "over", !.broken = TRUE]
        PROVE  cl' \in ClientType
    BY <1>0, <2>6 DEF ClientType, Calling
  <2>7. cl' \in ClientType  BY <1>7, <2>5, <2>6 DEF Receive
  <2>2. cl' \in ClientType /\ cl'.pc \in {"wait", "over"} /\ cl'.call = cl.call
        /\ cl'.next = cl.next
    BY <1>0, <1>7, <2>7 DEF Receive, ClientType
  <2>3. ClientSet'  BY <1>0, <1>7, <2>2 DEF Receive, ClientSet, Calling, Asking
  <2>4. hist' \in HistType
    <3>1. cl.call \in CallType  BY <1>0 DEF ClientType
    <3>2. UNCHANGED hist \/ hist' = [hist EXCEPT !.accepted = @ \cup {cl.call}]
      BY <1>7 DEF Receive
    <3>3. CASE hist' = [hist EXCEPT !.accepted = @ \cup {cl.call}]
      BY <1>0, <3>1, <3>3 DEF HistType
    <3> QED  BY <1>0, <3>2, <3>3
  <2> QED  BY <1>0, <1>s, <1>t, <1>7, <2>1, <2>2, <2>3, <2>4 DEF Receive, MonTyped
<1>8. CASE Idle
  <2>3. ASSUME cl.pc = "over", cl' = [cl EXCEPT !.pc = "idling"]
        PROVE  cl' \in ClientType /\ ClientSet'
    BY <1>0, <2>3 DEF ClientType, ClientSet, Calling
  <2>4. ASSUME cl' = [cl EXCEPT !.pc = "idle", !.call = NoCall, !.got = 0]
        PROVE  cl' \in ClientType /\ ClientSet'
    <3>2. cl' \in ClientType  BY <1>0, <1>g, <2>4, CallIs DEF ClientType
    <3>3. cl'.pc = "idle" /\ cl'.call = NoCall /\ cl'.got = 0  BY <1>0, <2>4 DEF ClientType
    <3> QED  BY <3>2, <3>3 DEF ClientSet, Calling, Asking
  <2>1. cl' \in ClientType /\ ClientSet'  BY <1>8, <2>3, <2>4 DEF Idle
  <2>2. atom' \in AtomType  BY <1>0, <1>8 DEF Idle, AtomType
  <2> QED  BY <1>0, <1>s, <1>t, <1>8, <2>1, <2>2 DEF Idle, MonTyped
<1> QED  BY <1>1, <1>2, <1>3, <1>4, <1>5, <1>6, <1>7, <1>8 DEF ClientStep

LEMMA CancelTyped ==
    ASSUME MonTyped, CancelReadsWriting \/ CancelStep PROVE MonTyped'
<1>0. /\ cl \in ClientType /\ atom \in AtomType /\ sg \in SignalType
      /\ toL \in Seq(Frames) /\ toC \in Seq(Frames)
      /\ ls \in ListenerType /\ rt \in [Ids -> RoutineType] /\ finished \subseteq Ids
      /\ upset \in {"none", "write", "session", "client", "stray", "large"} /\ hist \in HistType
      /\ ToListener /\ ClientSet /\ SignalSet
  BY DEF MonTyped
<1>c. UNCHANGED cl => ClientSet'  BY <1>0 DEF ClientSet
<1>t. UNCHANGED toL => ToListener'  BY <1>0 DEF ToListener
<1>h. hist' = [hist EXCEPT !.meant = @ \cup {cl.call.id}] => hist' \in HistType
  <2>1. cl.call.id \in Ids \cup {0}  BY <1>0 DEF ClientType, CallType
  <2> QED  BY <1>0, <2>1 DEF HistType
<1>1. CASE CancelReadsWriting
  <2>2. sg.calls + 1 \in Nat /\ atom.writing \in Ids \cup {0}
    BY <1>0 DEF SignalType, AtomType
  <2>3. sg' = [sg EXCEPT !.pc = "read", !.w = atom.writing, !.calls = sg.calls + 1]
    BY <1>0, <1>1 DEF CancelReadsWriting, SignalType
  <2>1. sg' \in SignalType /\ SignalSet'  BY <1>0, <2>2, <2>3 DEF SignalType, SignalSet
  <2> QED  BY <1>0, <1>c, <1>t, <1>h, <1>1, <2>1 DEF CancelReadsWriting, MonTyped
<1>2. CASE CancelReadsActive
  <2>1. sg' \in SignalType /\ SignalSet'
    BY <1>0, <1>2 DEF CancelReadsActive, SignalType, SignalSet, AtomType
  <2> QED  BY <1>0, <1>c, <1>t, <1>h, <1>2, <2>1 DEF CancelReadsActive, MonTyped
<1>3. CASE CancelStoresEarly
  <2>1. sg' \in SignalType /\ SignalSet' /\ atom' \in AtomType
    BY <1>0, <1>3 DEF CancelStoresEarly, SignalType, SignalSet, AtomType
  <2> QED  BY <1>0, <1>c, <1>t, <1>3, <2>1 DEF CancelStoresEarly, MonTyped
<1>4. CASE CancelRechecks
  <2>1. sg' \in SignalType /\ SignalSet' /\ atom' \in AtomType
    BY <1>0, <1>4 DEF CancelRechecks, SignalType, SignalSet, AtomType
  <2> QED  BY <1>0, <1>c, <1>t, <1>4, <2>1 DEF CancelRechecks, MonTyped
<1>5. CASE CancelSends
  <2>1. sg.id \in Ids  BY <1>0, <1>5 DEF CancelSends, SignalType, SignalSet
  <2> DEFINE f == Frame("cancel", sg.id, "none", 0)
  <2>2. f \in Frames /\ f.type = "cancel" /\ f.id \in Ids  BY <2>1, IdsAre DEF Frame, Frames
  <2>0. ClientWrites(f)  BY <1>5 DEF CancelSends
  <2> HIDE DEF f
  <2>3. (toL \in Seq(Frames))' /\ ToListener'  BY <2>0, <2>2, WriteTyped
  <2>4. cl' \in ClientType /\ ClientSet'
    BY <1>0, <1>5 DEF CancelSends, StillWhole, ClientType, ClientSet, ListenerType
  <2>5. sg' \in SignalType /\ SignalSet'  BY <1>0, <1>5 DEF CancelSends, SignalType, SignalSet
  <2> QED  BY <1>0, <1>5, <2>3, <2>4, <2>5 DEF CancelSends, MonTyped
<1> QED  BY <1>1, <1>2, <1>3, <1>4, <1>5 DEF CancelStep

\* The listener's loop takes the first frame.
LEMMA ReadIs ==
    ASSUME MonTyped, NEW t, Reading(t)
    PROVE  /\ (toL \in Seq(Frames))' /\ ToListener' /\ Len(toL) \in Nat \ {0}
           /\ Len(toL') = Len(toL) - 1 /\ \A n \in 1 .. Len(toL') : toL'[n] = toL[n + 1]
           /\ ls.up /\ Head(toL) = toL[1] /\ Head(toL) \in Frames /\ Head(toL).type = t
           /\ t # "ping" => Head(toL).id \in Ids
<1>1. toL \in Seq(Frames) /\ ToListener /\ toL # <<>> /\ toL' = Tail(toL) /\ ls.up
      /\ Head(toL).type = t
  BY DEF MonTyped, Reading
<1>2. /\ toL' \in Seq(Frames) /\ Len(toL') = Len(toL) - 1 /\ Len(toL) >= 1 /\ Len(toL) \in Nat
      /\ \A n \in 1 .. Len(toL') : toL'[n] = toL[n + 1]
      /\ Head(toL) = toL[1] /\ Head(toL) \in Frames
  BY <1>1, TailIs
<1>3. ToListener'
  <2>1. Len(toL') \in Nat /\ \A n \in 1 .. Len(toL') : n + 1 \in 1 .. Len(toL)  BY <1>2
  <2> QED  BY <1>1, <1>2, <2>1 DEF ToListener
<1>4. t # "ping" => Head(toL).id \in Ids
  <2>1. 1 \in 1 .. Len(toL)  BY <1>2
  <2> QED  BY <1>1, <1>2, <2>1 DEF ToListener
<1> QED  BY <1>1, <1>2, <1>3, <1>4

\* What the listener writes has its type.
LEMMA ListenTyped ==
    ASSUME MonTyped, NEW f \in Frames, ListenerWrites(f) PROVE (toC \in Seq(Frames))'
<1>1. toC \in Seq(Frames)  BY DEF MonTyped
<1> QED  BY <1>1, AppendIs DEF ListenerWrites

LEMMA LoopTyped ==
    ASSUME MonTyped, LoopStep \/ EarlyExpires PROVE MonTyped'
<1>0. /\ cl \in ClientType /\ atom \in AtomType /\ sg \in SignalType
      /\ toL \in Seq(Frames) /\ toC \in Seq(Frames)
      /\ ls \in ListenerType /\ rt \in [Ids -> RoutineType] /\ finished \subseteq Ids
      /\ upset \in {"none", "write", "session", "client", "stray", "large"} /\ hist \in HistType
      /\ ToListener /\ ClientSet /\ SignalSet
  BY DEF MonTyped
<1>c. UNCHANGED cl => ClientSet'  BY <1>0 DEF ClientSet
<1>s. UNCHANGED sg => SignalSet'  BY <1>0 DEF SignalSet
<1>t. UNCHANGED toL => ToListener'  BY <1>0 DEF ToListener
<1>i. 0 \in Nat /\ 1 \in Nat  OBVIOUS
<1>1. CASE ServePing
  <2> DEFINE f == Frame("ping", 0, "none", 0)
  <2>1. f \in Frames  BY <1>i DEF Frame, Frames
  <2>2. ListenerWrites(f)  BY <1>1 DEF ServePing
  <2> HIDE DEF f
  <2>3. (toL \in Seq(Frames))' /\ ToListener' /\ (toC \in Seq(Frames))'
    BY <1>1, <2>1, <2>2, ReadIs, ListenTyped DEF ServePing
  <2> QED  BY <1>0, <1>c, <1>s, <1>1, <2>3 DEF ServePing, MonTyped
<1>2. CASE ServeRequest
  <2> DEFINE i == Head(toL).id
  <2> DEFINE b == Head(toL).body
  <2>1. (toL \in Seq(Frames))' /\ ToListener' /\ Head(toL) \in Frames /\ i \in Ids
    BY <1>2, ReadIs DEF ServeRequest
  <2>2. b \in Bodies \cup {"none"}  BY <2>1 DEF Frames
  <2>3. \/ /\ ls' = [ls EXCEPT !.up = FALSE] /\ UNCHANGED <<toC, rt, finished, hist>>
        \/ /\ ls' = [ls EXCEPT !.last = i]
           /\ ListenerWrites(Frame("answer", i, b, 0))
           /\ hist' = [hist EXCEPT !.busied = TRUE] /\ UNCHANGED <<rt, finished>>
        \/ /\ BeginSlot(i) /\ rt' = [rt EXCEPT ![i] = [NoRoutine("start") EXCEPT !.body = b]]
           /\ UNCHANGED toC
    BY <1>2 DEF ServeRequest
  <2> HIDE DEF i, b
  <2>4. ls' \in ListenerType  BY <1>0, <2>1, <2>3 DEF BeginSlot, ListenerType
  <2>5. (toC \in Seq(Frames))'
    <3> DEFINE f == Frame("answer", i, b, 0)
    <3>1. f \in Frames  BY <1>i, <2>1, <2>2 DEF Frame, Frames
    <3>2. UNCHANGED toC \/ ListenerWrites(f)  BY <2>3
    <3> HIDE DEF f
    <3> QED  BY <1>0, <3>1, <3>2, ListenTyped
  <2>6. rt' \in [Ids -> RoutineType]
    <3> DEFINE r == [NoRoutine("start") EXCEPT !.body = b]
    <3>1. 0 \in 0 .. MaxWritten /\ 0 \in 0 .. MaxOutput  BY IdsAre
    <3>2. r \in RoutineType  BY <2>2, <3>1 DEF NoRoutine, RoutineType, InSlot
    <3>3. UNCHANGED rt \/ rt' = [rt EXCEPT ![i] = r]  BY <2>3
    <3> HIDE DEF r
    <3> QED  BY <1>0, <2>1, <3>2, <3>3
  <2>7. finished' \subseteq Ids /\ hist' \in HistType
    <3>1. \/ UNCHANGED <<finished, hist>>
          \/ UNCHANGED finished /\ hist' = [hist EXCEPT !.busied = TRUE]
          \/ finished' = finished \cup {i} /\ hist' = [hist EXCEPT !.early = @ \cup {i}]
      BY <2>3 DEF BeginSlot
    <3>2. CASE UNCHANGED finished /\ hist' = [hist EXCEPT !.busied = TRUE]
      BY <1>0, <3>2 DEF HistType
    <3>3. CASE finished' = finished \cup {i} /\ hist' = [hist EXCEPT !.early = @ \cup {i}]
      BY <1>0, <2>1, <3>3 DEF HistType
    <3> QED  BY <1>0, <3>1, <3>2, <3>3
  <2>8. UNCHANGED <<cl, atom, sg, upset>>  BY <1>2 DEF ServeRequest
  <2> QED  BY <1>0, <1>c, <1>s, <2>1, <2>4, <2>5, <2>6, <2>7, <2>8 DEF MonTyped
<1>3. CASE ServeCancel
  <2> DEFINE i == Head(toL).id
  <2>1. (toL \in Seq(Frames))' /\ ToListener' /\ i \in Ids  BY <1>3, ReadIs DEF ServeCancel
  <2>2. CancelID(i) /\ UNCHANGED <<cl, atom, sg, toC, rt, upset, hist>>  BY <1>3 DEF ServeCancel
  <2> HIDE DEF i
  <2>3. ls' \in ListenerType /\ finished' \subseteq Ids
    BY <1>0, <2>1, <2>2 DEF CancelID, ListenerType
  <2> QED  BY <1>0, <1>c, <1>s, <2>1, <2>2, <2>3 DEF MonTyped
<1>4. CASE LoopEOF \/ ServeReturns \/ EarlyExpires
  <2>1. ls' \in ListenerType
        /\ UNCHANGED <<cl, atom, sg, toL, toC, rt, finished, upset, hist>>
    BY <1>0, <1>4 DEF LoopEOF, ServeReturns, EarlyExpires, ListenerType
  <2> QED  BY <1>0, <1>c, <1>s, <1>t, <2>1 DEF MonTyped
<1> QED  BY <1>1, <1>2, <1>3, <1>4 DEF LoopStep

LEMMA RoutineTyped ==
    ASSUME MonTyped, NEW i \in Ids,
           RoutineStep(i) \/ GateAllows(i) \/ GateDenies(i) \/ Emit(i)
    PROVE  MonTyped'
<1>0. /\ cl \in ClientType /\ atom \in AtomType /\ sg \in SignalType
      /\ toL \in Seq(Frames) /\ toC \in Seq(Frames)
      /\ ls \in ListenerType /\ rt \in [Ids -> RoutineType] /\ finished \subseteq Ids
      /\ upset \in {"none", "write", "session", "client", "stray", "large"} /\ hist \in HistType
      /\ ToListener /\ ClientSet /\ SignalSet
  BY DEF MonTyped
<1>c. UNCHANGED cl => ClientSet'  BY <1>0 DEF ClientSet
<1>s. UNCHANGED sg => SignalSet'  BY <1>0 DEF SignalSet
<1>t. UNCHANGED toL => ToListener'  BY <1>0 DEF ToListener
<1>k. /\ 0 \in Nat /\ 1 \in Nat /\ MaxOutput \in Nat /\ MaxWritten \in Nat
      /\ 0 \in 0 .. MaxWritten /\ 0 \in 0 .. MaxOutput
  BY IdsAre
<1>r. /\ rt[i] \in RoutineType /\ rt[i].seq \in 0 .. MaxOutput /\ rt[i].total \in 0 .. MaxWritten
      /\ rt[i].body \in Bodies \cup {"none"}
  BY <1>0 DEF RoutineType
<1>u. UNCHANGED <<cl, atom, sg, toL, upset>>
  BY DEF RoutineStep, Check, RunReturns, EndSlot, GateAllows, GateDenies, Emit
<1>f. (rt[i].seq + 1 \in Nat) /\ Frame("out", i, "none", rt[i].seq + 1) \in Frames
  <2>1. rt[i].seq + 1 \in Nat  BY <1>k, <1>r
  <2> QED  BY <2>1 DEF Frame, Frames
<1>a. Frame("answer", i, rt[i].body, IF rt[i].ok THEN 1 ELSE 0) \in Frames
  BY <1>k, <1>r DEF Frame, Frames
<1>1. toC' \in Seq(Frames)
  <2>1. \/ UNCHANGED toC \/ ListenerWrites(Frame("out", i, "none", rt[i].seq + 1))
        \/ ListenerWrites(Frame("answer", i, rt[i].body, IF rt[i].ok THEN 1 ELSE 0))
    BY DEF RoutineStep, Check, RunReturns, EndSlot, GateAllows, GateDenies, Emit
  <2> QED  BY <1>0, <1>f, <1>a, <2>1, ListenTyped
<1>2. ls' \in ListenerType
  BY <1>0 DEF RoutineStep, Check, RunReturns, EndSlot, GateAllows, GateDenies, Emit, ListenerType
<1>3. finished' \subseteq Ids /\ hist' \in HistType
  <2>1. [id |-> i, body |-> rt[i].body] \in [id : Ids, body : Bodies \cup {"none"}]  BY <1>r
  <2>2. UNCHANGED finished
        /\ \/ UNCHANGED hist
           \/ hist' = [hist EXCEPT !.allowed = @ \cup {[id |-> i, body |-> rt[i].body]}]
    BY DEF RoutineStep, Check, RunReturns, EndSlot, GateAllows, GateDenies, Emit
  <2> QED  BY <1>0, <2>1, <2>2 DEF HistType
<1>4. rt' \in [Ids -> RoutineType]
  <2>1. ASSUME NEW p \in InSlot \cup {"none", "respond", "done"},
               rt' = [rt EXCEPT ![i].pc = p] PROVE rt' \in [Ids -> RoutineType]
    BY <1>0, <1>r, <2>1 DEF RoutineType
  <2>2. ASSUME NEW ok \in BOOLEAN, Answers(i, ok) PROVE rt' \in [Ids -> RoutineType]
    BY <1>0, <1>r, <2>2 DEF Answers, RoutineType, InSlot
  <2>3. CASE Emit(i)
    <3>1. rt[i].total + 1 \in 0 .. MaxWritten  BY <1>k, <1>r, <2>3 DEF Emit
    <3>2. Room(i) => rt[i].seq + 1 \in 0 .. MaxOutput  BY <1>k, <1>r DEF Room
    <3> DEFINE t == rt[i].total + 1
    <3> DEFINE s == rt[i].seq + 1
    <3>3. \/ Room(i) /\ rt' = [rt EXCEPT ![i].total = t, ![i].seq = s]
          \/ rt' = [rt EXCEPT ![i].total = t, ![i].cut = TRUE]
      BY <2>3 DEF Emit
    <3> HIDE DEF t, s
    <3>4. CASE Room(i) /\ rt' = [rt EXCEPT ![i].total = t, ![i].seq = s]
      <4>1. rt' = [rt EXCEPT ![i] = [rt[i] EXCEPT !.total = t, !.seq = s]]  BY <1>0, <3>4
      <4>2. [rt[i] EXCEPT !.total = t, !.seq = s] \in RoutineType
        BY <1>r, <3>1, <3>2, <3>4 DEF RoutineType, t, s
      <4> QED  BY <1>0, <4>1, <4>2
    <3>5. CASE rt' = [rt EXCEPT ![i].total = t, ![i].cut = TRUE]
      <4>1. rt' = [rt EXCEPT ![i] = [rt[i] EXCEPT !.total = t, !.cut = TRUE]]  BY <1>0, <3>5
      <4>2. [rt[i] EXCEPT !.total = t, !.cut = TRUE] \in RoutineType
        BY <1>r, <3>1 DEF RoutineType, t
      <4> QED  BY <1>0, <4>1, <4>2
    <3> QED  BY <3>3, <3>4, <3>5
  <2>4. CASE rt' = [rt EXCEPT ![i] = NoRoutine("done")]
    <3>1. NoRoutine("done") \in RoutineType  BY <1>k DEF NoRoutine, RoutineType, InSlot
    <3> QED  BY <1>0, <2>4, <3>1
  <2>5. \/ \E ok \in BOOLEAN : Answers(i, ok)
        \/ \E p \in {"gate", "run", "respond"} : rt' = [rt EXCEPT ![i].pc = p]
        \/ rt' = [rt EXCEPT ![i] = NoRoutine("done")] \/ Emit(i)
    BY DEF RoutineStep, Check, RunReturns, EndSlot, GateAllows, GateDenies
  <2> QED  BY <2>1, <2>2, <2>3, <2>4, <2>5 DEF InSlot
<1> QED  BY <1>0, <1>c, <1>s, <1>t, <1>u, <1>1, <1>2, <1>3, <1>4 DEF MonTyped

LEMMA WorldTyped ==
    ASSUME MonTyped, WriteFails \/ SessionGoes \/ ClientGoes \/ Stray PROVE MonTyped'
<1>0. /\ cl \in ClientType /\ atom \in AtomType /\ sg \in SignalType
      /\ toL \in Seq(Frames) /\ toC \in Seq(Frames)
      /\ ls \in ListenerType /\ rt \in [Ids -> RoutineType] /\ finished \subseteq Ids
      /\ upset \in {"none", "write", "session", "client", "stray", "large"} /\ hist \in HistType
      /\ ToListener /\ ClientSet /\ SignalSet
  BY DEF MonTyped
<1>c. UNCHANGED cl => ClientSet'  BY <1>0 DEF ClientSet
<1>s. UNCHANGED sg => SignalSet'  BY <1>0 DEF SignalSet
<1>t. UNCHANGED toL => ToListener'  BY <1>0 DEF ToListener
<1>1. CASE WriteFails \/ SessionGoes
  <2>1. ls' \in ListenerType  BY <1>0, <1>1 DEF WriteFails, SessionGoes, ListenerType
  <2> QED  BY <1>0, <1>c, <1>s, <1>t, <1>1, <2>1 DEF WriteFails, SessionGoes, MonTyped
<1>2. CASE ClientGoes
  <2>1. cl' \in ClientType /\ ClientSet'
    BY <1>0, <1>2 DEF ClientGoes, ClientType, ClientSet, Calling, Asking
  <2> QED  BY <1>0, <1>s, <1>t, <1>2, <2>1 DEF ClientGoes, MonTyped
<1>3. CASE Stray
  <2>1. \E f \in Frames : f.type \in {"request", "cancel"} /\ f.id \in Ids /\ toL' = Append(toL, f)
    <3>1. PICK i \in Ids : \/ \E b \in Bodies : toL' = Append(toL, Frame("request", i, b, 0))
                           \/ toL' = Append(toL, Frame("cancel", i, "none", 0))
      BY <1>3 DEF Stray
    <3>2. /\ Frame("cancel", i, "none", 0) \in Frames
          /\ \A b \in Bodies : Frame("request", i, b, 0) \in Frames
      BY IdsAre DEF Frame, Frames
    <3> QED  BY <3>1, <3>2 DEF Frame
  <2>2. PICK f \in Frames : f.type \in {"request", "cancel"} /\ f.id \in Ids
                            /\ ClientWrites(f)
    BY <1>3, <2>1 DEF Stray, ClientWrites
  <2>3. (toL \in Seq(Frames))' /\ ToListener'  BY <2>2, WriteTyped
  <2> QED  BY <1>0, <1>c, <1>s, <1>3, <2>3 DEF Stray, MonTyped
<1> QED  BY <1>1, <1>2, <1>3

-----------------------------------------------------------------------------
(* The slot, the answers and the record of what was allowed.               *)

OtherStep ==
    \/ ClientStep \/ (\E b \in Bodies : StartCall(b)) \/ CancelReadsWriting \/ CancelStep
    \/ ServePing \/ ServeCancel \/ LoopEOF \/ ServeReturns \/ EarlyExpires
    \/ WriteFails \/ SessionGoes \/ ClientGoes \/ Stray \/ UNCHANGED monitorVars

\* Only a request read and a goroutine's step touch the goroutines and the slot.
LEMMA OthersKeep ==
    ASSUME MonTyped, OtherStep
    PROVE  /\ rt' = rt /\ ls'.inflight = ls.inflight /\ ls'.last = ls.last
           /\ hist'.allowed = hist.allowed /\ hist'.early = hist.early
           /\ hist'.busied = hist.busied /\ hist.meant \subseteq hist'.meant
           /\ finished \subseteq finished'
<1>0. ls \in ListenerType /\ hist \in HistType  BY DEF MonTyped
<1>1. CASE ClientStep \/ \E b \in Bodies : StartCall(b)
  <2>1. rt' = rt /\ ls' = ls /\ finished' = finished
        /\ \/ hist' = hist
           \/ hist' = [hist EXCEPT !.accepted = @ \cup {cl.call}]
    BY <1>1 DEF ClientStep, SendPing, ReceivePing, WriteRequest, MarkActive, TakeEarlyCancel,
       Receive, Idle, StartCall
  <2> QED  BY <1>0, <2>1 DEF HistType
<1>2. CASE CancelReadsWriting \/ CancelStep
  <2>1. rt' = rt /\ ls' = ls /\ finished' = finished
        /\ \/ hist' = hist
           \/ hist' = [hist EXCEPT !.meant = @ \cup {cl.call.id}]
    BY <1>2 DEF CancelReadsWriting, CancelStep, CancelReadsActive, CancelStoresEarly,
       CancelRechecks, CancelSends
  <2> QED  BY <1>0, <2>1 DEF HistType
<1>3. CASE ServePing \/ ServeCancel \/ LoopEOF \/ ServeReturns \/ EarlyExpires
  <2>1. rt' = rt /\ hist' = hist /\ finished \subseteq finished'
        /\ \/ ls' = ls
           \/ ls' = [ls EXCEPT !.up = FALSE]
           \/ ls' = [ls EXCEPT !.served = TRUE]
           \/ ls' = [ls EXCEPT !.fresh = FALSE]
           \/ ls' = [ls EXCEPT !.early = Head(toL).id, !.fresh = TRUE]
    BY <1>3 DEF ServePing, ServeCancel, CancelID, LoopEOF, ServeReturns, EarlyExpires
  <2> QED  BY <1>0, <2>1 DEF ListenerType
<1>4. CASE WriteFails \/ SessionGoes \/ ClientGoes \/ Stray \/ UNCHANGED monitorVars
  <2>1. rt' = rt /\ hist' = hist /\ finished' = finished
        /\ (ls' = ls \/ ls' = [ls EXCEPT !.up = FALSE])
    BY <1>4 DEF WriteFails, SessionGoes, ClientGoes, Stray, monitorVars
  <2> QED  BY <1>0, <2>1 DEF ListenerType
<1> QED  BY <1>1, <1>2, <1>3, <1>4 DEF OtherStep

\* A goroutine's step concerns its own request.
LEMMA RoutineIs ==
    ASSUME MonTyped, NEW i \in Ids,
           RoutineStep(i) \/ GateAllows(i) \/ GateDenies(i) \/ Emit(i)
    PROVE  /\ \A j \in Ids \ {i} : rt'[j] = rt[j]
           /\ UNCHANGED <<cl, atom, sg, toL, finished, upset>>
           /\ ls'.last = ls.last /\ ls'.up = ls.up /\ ls'.early = ls.early
           /\ hist'.early = hist.early /\ hist'.meant = hist.meant
           /\ hist'.accepted = hist.accepted /\ hist'.busied = hist.busied
           /\ hist.allowed \subseteq hist'.allowed
           /\ \/ ls'.inflight = ls.inflight
              \/ rt[i].pc = "end"
<1>0. ls \in ListenerType /\ hist \in HistType /\ rt \in [Ids -> RoutineType]  BY DEF MonTyped
<1>1. \A j \in Ids \ {i} : rt'[j] = rt[j]
  BY <1>0 DEF RoutineStep, Check, RunReturns, EndSlot, GateAllows, GateDenies, Emit, Answers
<1>2. UNCHANGED <<cl, atom, sg, toL, finished, upset>>
  BY DEF RoutineStep, Check, RunReturns, EndSlot, GateAllows, GateDenies, Emit
<1>3. /\ ls'.last = ls.last /\ ls'.up = ls.up /\ ls'.early = ls.early
      /\ ls'.inflight = ls.inflight \/ rt[i].pc = "end"
  BY <1>0 DEF RoutineStep, Check, RunReturns, EndSlot, GateAllows, GateDenies, Emit, ListenerType
<1>4. /\ hist'.early = hist.early /\ hist'.meant = hist.meant
      /\ hist'.accepted = hist.accepted /\ hist'.busied = hist.busied
      /\ hist.allowed \subseteq hist'.allowed
  <2>1. \/ UNCHANGED hist
        \/ hist' = [hist EXCEPT !.allowed = @ \cup {[id |-> i, body |-> rt[i].body]}]
    BY DEF RoutineStep, Check, RunReturns, EndSlot, GateAllows, GateDenies, Emit
  <2> QED  BY <1>0, <2>1 DEF HistType
<1> QED  BY <1>1, <1>2, <1>3, <1>4

\* begin: the request is a new one.
LEMMA BeginIs ==
    ASSUME MonTyped, \A j \in Ids : SlotOf(j), NEW i \in Ids, InSequence(i)
    PROVE  rt[i].pc = "none" /\ ls.last < i /\ ls.last \in Nat
<1>0. ls.last \in Ids \cup {0} /\ i \in Nat \ {0}  BY IdsAre DEF MonTyped, ListenerType
<1>1. ls.last \in Nat  BY <1>0, IdsAre
<1>2. ls.last < i  BY <1>0, <1>1 DEF InSequence
<1>3. ~(i <= ls.last)  BY <1>0, <1>1, <1>2
<1> QED  BY <1>1, <1>2, <1>3 DEF SlotOf

\* The slot and the routines after one step.
LEMMA SlotStep ==
    ASSUME MonTyped, MonTyped', Slots, [MonitorNext]_monitorVars
    PROVE  (\A j \in Ids : SlotOf(j))' /\ Begun' /\ EarlyCancelDenies'
<1>0. /\ ls \in ListenerType /\ rt \in [Ids -> RoutineType] /\ hist \in HistType
      /\ rt' \in [Ids -> RoutineType] /\ finished \subseteq Ids /\ Ids \subseteq Nat \ {0}
      /\ ls.last \in Nat
  <2>1. ls.last \in Ids \cup {0}  BY DEF MonTyped, ListenerType
  <2> QED  BY <2>1, IdsAre DEF MonTyped
<1>1. /\ \A j \in Ids : SlotOf(j)
      /\ Begun /\ EarlyCancelDenies
  BY DEF Slots
<1>r. hist.allowed \subseteq [id : Ids, body : Bodies \cup {"none"}] /\ hist.early \subseteq Ids
  BY <1>0 DEF HistType
<1>2. CASE OtherStep
  <2>1. /\ rt' = rt /\ ls'.inflight = ls.inflight /\ ls'.last = ls.last
        /\ hist'.allowed = hist.allowed /\ hist'.early = hist.early
        /\ finished \subseteq finished'
    BY <1>2, OthersKeep
  <2>2. \A j \in Ids : SlotOf(j)'  BY <1>1, <2>1 DEF SlotOf
  <2> QED  BY <1>1, <2>1, <2>2 DEF Begun, EarlyCancelDenies
<1>3. CASE ServeRequest
  <2> DEFINE i == Head(toL).id
  <2> DEFINE b == Head(toL).body
  <2>1. i \in Ids  BY <1>3, ReadIs DEF ServeRequest
  <2>2. \/ /\ ls' = [ls EXCEPT !.up = FALSE] /\ UNCHANGED <<toC, rt, finished, hist>>
        \/ /\ InSequence(i) /\ ls' = [ls EXCEPT !.last = i]
           /\ hist' = [hist EXCEPT !.busied = TRUE] /\ UNCHANGED <<rt, finished>>
        \/ /\ InSequence(i) /\ SlotFree /\ BeginSlot(i)
           /\ rt' = [rt EXCEPT ![i] = [NoRoutine("start") EXCEPT !.body = b]]
    BY <1>3 DEF ServeRequest
  <2> HIDE DEF i, b
  <2>3. CASE ls' = [ls EXCEPT !.up = FALSE] /\ UNCHANGED <<toC, rt, finished, hist>>
    <3>1. ls'.inflight = ls.inflight /\ ls'.last = ls.last  BY <1>0, <2>3 DEF ListenerType
    <3>2. \A j \in Ids : SlotOf(j)'  BY <1>1, <2>3, <3>1 DEF SlotOf
    <3> QED  BY <1>1, <2>3, <3>1, <3>2 DEF Begun, EarlyCancelDenies
  <2>4. CASE /\ InSequence(i) /\ ls' = [ls EXCEPT !.last = i]
             /\ hist' = [hist EXCEPT !.busied = TRUE] /\ UNCHANGED <<rt, finished>>
    <3>1. ls'.inflight = ls.inflight /\ ls'.last = i /\ ls.last < i
          /\ hist'.allowed = hist.allowed /\ hist'.early = hist.early
      BY <1>0, <1>1, <2>1, <2>4, BeginIs DEF ListenerType, HistType
    <3>2. \A n \in Ids : n <= ls.last => n <= i
      <4>1. ls.last \in Nat /\ i \in Nat /\ ls.last < i  BY <1>0, <2>1, <3>1
      <4>2. \A n \in Nat : n <= ls.last => n <= i  BY <4>1
      <4> QED  BY <1>0, <4>2
    <3>3. \A j \in Ids : SlotOf(j)'  BY <1>1, <2>4, <3>1, <3>2 DEF SlotOf
    <3>4. Begun'  BY <1>1, <1>r, <2>4, <3>1, <3>2 DEF Begun
    <3> QED  BY <1>1, <2>4, <3>1, <3>3, <3>4 DEF EarlyCancelDenies
  <2>5. CASE /\ InSequence(i) /\ SlotFree /\ BeginSlot(i)
             /\ rt' = [rt EXCEPT ![i] = [NoRoutine("start") EXCEPT !.body = b]]
    <3>1. rt[i].pc = "none" /\ ls.last < i  BY <1>1, <2>1, <2>5, BeginIs
    <3>2. /\ ls'.inflight = i /\ ls'.last = i /\ ls.inflight = 0
      BY <1>0, <2>5 DEF BeginSlot, SlotFree, ListenerType
    <3>3. hist'.allowed = hist.allowed /\ finished \subseteq finished'
          /\ hist'.early \subseteq hist.early \cup {i}
          /\ (i \in hist'.early => i \in finished' \/ i \in hist.early)
      BY <1>0, <2>5 DEF BeginSlot, HistType
    <3>4. \A n \in Ids : n <= ls.last => n <= i /\ n # i  BY <1>0, <2>1, <3>1
    <3>5. /\ rt'[i].pc = "start" /\ rt'[i].seq = 0 /\ ~rt'[i].ok
          /\ \A j \in Ids \ {i} : rt'[j] = rt[j]
      BY <1>0, <2>1, <2>5 DEF NoRoutine
    <3>6. ASSUME NEW j \in Ids PROVE SlotOf(j)'
      <4>1. CASE j = i
        <5>1. i <= i  BY <1>0, <2>1
        <5> QED  BY <3>2, <3>5, <4>1, <5>1 DEF SlotOf, InSlot
      <4>2. CASE j # i
        <5>1. SlotOf(j) /\ ls.inflight # j /\ rt'[j] = rt[j]  BY <1>0, <1>1, <3>2, <3>5, <4>2
        <5> QED  BY <3>2, <3>3, <3>4, <4>2, <5>1 DEF SlotOf
      <4> QED  BY <4>1, <4>2
    <3>7. Begun'
      <4>1. i <= i  BY <1>0, <2>1
      <4>2. \A r \in hist'.allowed : r.id <= ls'.last  BY <1>1, <1>r, <3>2, <3>3, <3>4 DEF Begun
      <4>3. \A j \in hist'.early : j \in finished' /\ j <= ls'.last
        BY <1>1, <1>r, <3>2, <3>3, <3>4, <4>1 DEF Begun
      <4> QED  BY <4>2, <4>3 DEF Begun
    <3>8. EarlyCancelDenies'
      <4>1. \A r \in hist.allowed : r.id # i  BY <1>1, <1>r, <3>4 DEF Begun
      <4>2. ASSUME NEW j \in hist'.early
            PROVE  rt'[j].pc \notin {"gate", "run"} /\ \A r \in hist'.allowed : r.id # j
        <5>1. CASE j = i  BY <3>3, <3>5, <4>1, <5>1
        <5>2. CASE j # i
          <6>1. j \in hist.early /\ j \in Ids  BY <1>r, <3>3, <4>2, <5>2
          <6> QED  BY <1>1, <3>3, <3>5, <5>2, <6>1 DEF EarlyCancelDenies
        <5> QED  BY <5>1, <5>2
      <4> QED  BY <4>2 DEF EarlyCancelDenies
    <3> QED  BY <3>6, <3>7, <3>8
  <2> QED  BY <2>2, <2>3, <2>4, <2>5
<1>4. ASSUME NEW i \in Ids, RoutineStep(i) \/ GateAllows(i) \/ GateDenies(i) \/ Emit(i)
      PROVE  (\A j \in Ids : SlotOf(j))' /\ Begun' /\ EarlyCancelDenies'
  <2>1. /\ \A j \in Ids \ {i} : rt'[j] = rt[j]
        /\ UNCHANGED finished /\ ls'.last = ls.last
        /\ hist'.early = hist.early /\ hist.allowed \subseteq hist'.allowed
        /\ ls'.inflight = ls.inflight \/ rt[i].pc = "end"
    BY <1>4, RoutineIs
  <2>2. SlotOf(i) /\ rt[i] \in RoutineType  BY <1>0, <1>1
  <2>3. rt[i].pc # "none" /\ i <= ls.last
    <3>1. rt[i].pc # "none"
      BY <1>4 DEF RoutineStep, Check, RunReturns, EndSlot, GateAllows, GateDenies, Emit
    <3> QED  BY <2>2, <3>1 DEF SlotOf
  <2>4. /\ hist'.allowed \subseteq hist.allowed \cup {[id |-> i, body |-> rt[i].body]}
        /\ rt[i].pc # "gate" => hist'.allowed = hist.allowed
    BY <1>0, <1>4 DEF RoutineStep, Check, RunReturns, EndSlot, GateAllows, GateDenies, Emit, HistType
  <2>5. ASSUME NEW j \in Ids \ {i} PROVE SlotOf(j)'
    <3>1. SlotOf(j) /\ rt'[j] = rt[j]  BY <1>1, <2>1
    <3>2. CASE ls'.inflight = ls.inflight  BY <2>1, <3>1, <3>2 DEF SlotOf
    <3>3. CASE rt[i].pc = "end"
      <4>1. ls.inflight = i  BY <2>2, <3>3 DEF SlotOf, InSlot
      <4>2. ls'.inflight \in {0, i} /\ 0 \notin Ids
        BY <1>0, <1>4, <3>3, <4>1
        DEF RoutineStep, Check, RunReturns, EndSlot, GateAllows, GateDenies, Emit, ListenerType
      <4> QED  BY <2>1, <3>1, <4>1, <4>2 DEF SlotOf
    <3> QED  BY <2>1, <3>2, <3>3
  <2>6. SlotOf(i)'
    <3>1. CASE Check(i)
      <4>1. ls' = ls /\ hist' = hist /\ rt[i].pc = "start"  BY <3>1 DEF Check
      <4>2. rt'[i].pc \in {"end", "gate"} /\ ~rt'[i].ok /\ rt'[i].seq = rt[i].seq
        BY <1>0, <2>2, <3>1 DEF Check, Answers, SlotOf, RoutineType
      <4> QED  BY <2>2, <2>3, <4>1, <4>2 DEF SlotOf, InSlot
    <3>2. CASE RunReturns(i)
      <4>1. ls' = ls /\ hist' = hist /\ rt[i].pc = "run"  BY <3>2 DEF RunReturns
      <4>2. rt'[i].pc = "end" /\ rt'[i].body = rt[i].body
        BY <1>0, <2>2, <3>2 DEF RunReturns, Answers, RoutineType
      <4> QED  BY <2>2, <2>3, <4>1, <4>2 DEF SlotOf, InSlot
    <3>3. CASE EndSlot(i)
      <4>1. hist' = hist  BY <3>3 DEF EndSlot
      <4>2. CASE rt[i].pc = "end"
        <5>1. ls'.inflight = 0 /\ 0 \notin Ids
          BY <1>0, <2>2, <3>3, <4>2 DEF EndSlot, SlotOf, InSlot, ListenerType
        <5>2. rt'[i].pc = "respond" /\ rt'[i].body = rt[i].body /\ rt'[i].ok = rt[i].ok
          BY <1>0, <2>2, <3>3, <4>2 DEF EndSlot, RoutineType
        <5> QED  BY <2>1, <2>2, <2>3, <4>1, <4>2, <5>1, <5>2 DEF SlotOf, InSlot
      <4>3. CASE rt[i].pc = "respond"
        <5>1. ls' = ls /\ rt'[i].pc = "done" /\ ~rt'[i].ok
          BY <1>0, <3>3, <4>3 DEF EndSlot, NoRoutine
        <5> QED  BY <2>2, <2>3, <4>1, <4>3, <5>1 DEF SlotOf, InSlot
      <4> QED  BY <3>3, <4>2, <4>3 DEF EndSlot
    <3>4. CASE GateAllows(i)
      <4>1. ls' = ls /\ rt[i].pc = "gate"
            /\ [id |-> i, body |-> rt[i].body] \in hist'.allowed
        BY <1>0, <3>4 DEF GateAllows, HistType
      <4>2. rt'[i].pc \in {"end", "run"} /\ rt'[i].body = rt[i].body
            /\ (rt'[i].pc = "run" => rt[i].body \in RunBodies)
        BY <1>0, <2>2, <3>4 DEF GateAllows, Answers, RoutineType
      <4> QED  BY <2>2, <2>3, <4>1, <4>2 DEF SlotOf, InSlot
    <3>5. CASE GateDenies(i)
      <4>1. ls' = ls /\ hist' = hist /\ rt[i].pc = "gate"  BY <3>5 DEF GateDenies
      <4>2. rt'[i].pc = "end" /\ ~rt'[i].ok  BY <1>0, <3>5 DEF GateDenies, Answers
      <4> QED  BY <2>2, <2>3, <4>1, <4>2 DEF SlotOf, InSlot
    <3>6. CASE Emit(i)
      <4>1. ls' = ls /\ hist' = hist /\ rt[i].pc = "run"  BY <3>6 DEF Emit
      <4>2. rt'[i].pc = "run" /\ rt'[i].ok = rt[i].ok /\ rt'[i].body = rt[i].body
        BY <1>0, <2>2, <3>6 DEF Emit, RoutineType
      <4> QED  BY <2>2, <2>3, <4>1, <4>2 DEF SlotOf
    <3> QED  BY <1>4, <3>1, <3>2, <3>3, <3>4, <3>5, <3>6 DEF RoutineStep
  <2>7. Begun'  BY <1>1, <2>1, <2>3, <2>4 DEF Begun
  <2>8. EarlyCancelDenies'
    <3>1. ASSUME NEW j \in hist.early
          PROVE  rt'[j].pc \notin {"gate", "run"} /\ \A r \in hist'.allowed : r.id # j
      <4>1. j \in Ids /\ j \in finished /\ rt[j].pc \notin {"gate", "run"}
            /\ \A r \in hist.allowed : r.id # j
        BY <1>1, <1>r, <3>1 DEF Begun, EarlyCancelDenies
      <4>2. CASE j # i  BY <2>1, <2>4, <4>1, <4>2
      <4>3. CASE j = i
        <5>1. hist'.allowed = hist.allowed  BY <2>4, <4>1, <4>3
        <5>2. Check(i) \/ EndSlot(i)
          BY <1>4, <4>1, <4>3 DEF RoutineStep, RunReturns, GateAllows, GateDenies, Emit
        <5>3. rt'[i].pc \in {"end", "respond", "done"}
          <6>0. i \in Ids /\ i \in finished  BY <4>1, <4>3
          <6>1. CASE Check(i)
            BY <1>0, <2>2, <6>0, <6>1 DEF Check, Answers, CtxDone, RoutineType
          <6>2. CASE EndSlot(i)
            BY <1>0, <2>2, <6>0, <6>2 DEF EndSlot, NoRoutine, RoutineType
          <6> QED  BY <5>2, <6>1, <6>2
        <5> QED  BY <4>1, <4>3, <5>1, <5>3
      <4> QED  BY <4>2, <4>3
    <3> QED  BY <2>1, <3>1 DEF EarlyCancelDenies
  <2> QED  BY <2>5, <2>6, <2>7, <2>8
<1> QED  BY <1>2, <1>3, <1>4 DEF MonitorNext, LoopStep, OtherStep

\* Every step takes at most one frame from the client's stream or adds one; an
\* answer that allows is that of a request that was allowed.
LEMMA ToClientStep ==
    ASSUME MonTyped, Slots, [MonitorNext]_monitorVars
    PROVE  /\ hist.allowed \subseteq hist'.allowed
           /\ \/ toC' = toC
              \/ toC # <<>> /\ toC' = Tail(toC)
              \/ \E f \in Frames :
                    /\ toC' = Append(toC, f)
                    /\ f.type = "answer" /\ f.n # 0 =>
                          [id |-> f.id, body |-> f.body] \in hist.allowed
<1>0. /\ ls \in ListenerType /\ rt \in [Ids -> RoutineType] /\ hist \in HistType
      /\ toC \in Seq(Frames) /\ 0 \in Nat /\ 1 \in Nat
  BY DEF MonTyped
<1>1. hist.allowed \subseteq hist'.allowed
  <2>1. CASE OtherStep  BY <2>1, OthersKeep
  <2>2. CASE ServeRequest  BY <1>0, <2>2 DEF ServeRequest, BeginSlot, HistType
  <2>3. CASE \E i \in Ids : RoutineStep(i) \/ GateAllows(i) \/ GateDenies(i) \/ Emit(i)
    BY <2>3, RoutineIs
  <2> QED  BY <2>1, <2>2, <2>3 DEF MonitorNext, LoopStep, OtherStep
<1>2. CASE OtherStep
  <2>1. CASE ServePing
    <3> DEFINE f == Frame("ping", 0, "none", 0)
    <3>1. f \in Frames /\ f.type = "ping"  BY <1>0 DEF Frame, Frames
    <3>2. ListenerWrites(f)  BY <2>1 DEF ServePing
    <3> HIDE DEF f
    <3> QED  BY <1>1, <3>1, <3>2 DEF ListenerWrites
  <2>2. CASE ~ServePing
    <3>1. toC' = toC \/ (toC # <<>> /\ toC' = Tail(toC))
      BY <1>2, <2>2 DEF OtherStep, ClientStep, SendPing, ReceivePing, WriteRequest, MarkActive,
         TakeEarlyCancel, Receive, Idle, StartCall, CancelReadsWriting, CancelStep,
         CancelReadsActive, CancelStoresEarly, CancelRechecks, CancelSends, ServeCancel,
         LoopEOF, ServeReturns, EarlyExpires, WriteFails, SessionGoes, ClientGoes, Stray,
         monitorVars
    <3> QED  BY <1>1, <3>1
  <2> QED  BY <2>1, <2>2
<1>3. CASE ServeRequest
  <2> DEFINE f == Frame("answer", Head(toL).id, Head(toL).body, 0)
  <2>1. Head(toL) \in Frames  BY <1>3, ReadIs DEF ServeRequest
  <2>2. f \in Frames /\ f.n = 0  BY <1>0, <2>1 DEF Frame, Frames
  <2>3. toC' = toC \/ ListenerWrites(f)  BY <1>3 DEF ServeRequest
  <2> HIDE DEF f
  <2> QED  BY <1>1, <2>2, <2>3 DEF ListenerWrites
<1>4. ASSUME NEW i \in Ids, RoutineStep(i) \/ GateAllows(i) \/ GateDenies(i) \/ Emit(i)
      PROVE  \/ toC' = toC
             \/ \E f \in Frames :
                   /\ toC' = Append(toC, f)
                   /\ f.type = "answer" /\ f.n # 0 =>
                         [id |-> f.id, body |-> f.body] \in hist.allowed
  <2> DEFINE f == Frame("out", i, "none", rt[i].seq + 1)
  <2> DEFINE g == Frame("answer", i, rt[i].body, IF rt[i].ok THEN 1 ELSE 0)
  <2>1. rt[i].seq + 1 \in Nat /\ rt[i].body \in Bodies \cup {"none"} /\ i \in Ids \cup {0}
    BY <1>0, <1>4, IdsAre DEF RoutineType
  <2>2. f \in Frames /\ f.type = "out"  BY <1>0, <2>1 DEF Frame, Frames
  <2>3. g \in Frames /\ g.id = i /\ g.body = rt[i].body /\ (g.n # 0 => rt[i].ok)
    BY <1>0, <2>1 DEF Frame, Frames
  <2>4. rt[i].ok => [id |-> i, body |-> rt[i].body] \in hist.allowed
    BY DEF Slots, SlotOf
  <2>5. toC' = toC \/ ListenerWrites(f) \/ ListenerWrites(g)
    BY <1>4 DEF RoutineStep, Check, RunReturns, EndSlot, GateAllows, GateDenies, Emit
  <2> HIDE DEF f, g
  <2> QED  BY <2>2, <2>3, <2>4, <2>5 DEF ListenerWrites
<1> QED  BY <1>1, <1>2, <1>3, <1>4 DEF MonitorNext, LoopStep, OtherStep

LEMMA SlotsStep ==
    ASSUME MonTyped, MonTyped', Slots, [MonitorNext]_monitorVars PROVE Slots'
<1>1. (\A j \in Ids : SlotOf(j))' /\ Begun' /\ EarlyCancelDenies'  BY SlotStep
<1>0. toC \in Seq(Frames) /\ Answered /\ AcceptedWasAllowed /\ hist \in HistType
      /\ cl \in ClientType
  BY DEF MonTyped, Slots
<1>2. Answered'
  <2>1. CASE toC' = toC  BY <1>0, <2>1, ToClientStep DEF Answered
  <2>2. CASE toC # <<>> /\ toC' = Tail(toC)
    <3>1. /\ Len(toC) \in Nat /\ Len(toC') = Len(toC) - 1
          /\ \A n \in 1 .. Len(toC') : toC'[n] = toC[n + 1]
      BY <1>0, <2>2, TailIs
    <3>2. \A n \in 1 .. Len(toC') : n + 1 \in 1 .. Len(toC)  BY <3>1
    <3> QED  BY <1>0, <3>1, <3>2, ToClientStep DEF Answered
  <2>3. ASSUME NEW f \in Frames, toC' = Append(toC, f),
               f.type = "answer" /\ f.n # 0 => [id |-> f.id, body |-> f.body] \in hist.allowed
        PROVE  Answered'
    <3>1. /\ Len(toC) \in Nat /\ Len(toC') = Len(toC) + 1 /\ toC'[Len(toC) + 1] = f
          /\ \A n \in 1 .. Len(toC) : toC'[n] = toC[n]
      BY <1>0, <2>3, AppendIs
    <3>2. \A n \in 1 .. Len(toC') : n \in 1 .. Len(toC) \/ n = Len(toC) + 1  BY <3>1
    <3>3. hist.allowed \subseteq hist'.allowed  BY ToClientStep
    <3> QED  BY <1>0, <2>3, <3>1, <3>2, <3>3 DEF Answered
  <2> QED  BY <2>1, <2>2, <2>3, ToClientStep
<1>3. AcceptedWasAllowed'
  <2>1. hist.allowed \subseteq hist'.allowed  BY ToClientStep
  <2>2. CASE hist'.accepted = hist.accepted  BY <1>0, <2>1, <2>2 DEF AcceptedWasAllowed
  <2>3. CASE Receive
    <3>1. CASE hist' = hist  BY <1>0, <2>1, <3>1 DEF AcceptedWasAllowed
    <3>2. CASE hist' # hist
      <4>1. toC # <<>> /\ Matches(Head(toC)) /\ Head(toC).n # 0
            /\ hist' = [hist EXCEPT !.accepted = @ \cup {cl.call}]
        BY <2>3, <3>2 DEF Receive
      <4>2. Head(toC) = toC[1] /\ 1 \in 1 .. Len(toC)  BY <1>0, <4>1, TailIs
      <4>3. [id |-> cl.call.id, body |-> cl.call.body] \in hist.allowed
        BY <1>0, <4>1, <4>2 DEF Answered, Matches
      <4>4. cl.call = [id |-> cl.call.id, body |-> cl.call.body]
        <5>1. cl.call \in CallType  BY <1>0 DEF ClientType
        <5> QED  BY <5>1 DEF CallType
      <4> QED  BY <1>0, <2>1, <4>1, <4>3, <4>4 DEF AcceptedWasAllowed, HistType
    <3> QED  BY <3>1, <3>2
  <2>4. CASE OtherStep /\ ~Receive
    <3>1. \/ hist' = hist
          \/ hist' = [hist EXCEPT !.meant = @ \cup {cl.call.id}]
      BY <2>4 DEF OtherStep, ClientStep, SendPing, ReceivePing, WriteRequest, MarkActive,
         TakeEarlyCancel, Idle, StartCall, CancelReadsWriting, CancelStep, ServePing,
         CancelReadsActive, CancelStoresEarly, CancelRechecks, CancelSends, ServeCancel,
         LoopEOF, ServeReturns, EarlyExpires, WriteFails, SessionGoes, ClientGoes, Stray,
         monitorVars
    <3>2. hist'.accepted = hist.accepted  BY <1>0, <3>1 DEF HistType
    <3> QED  BY <2>2, <3>2
  <2>5. CASE ServeRequest
    <3>1. hist'.accepted = hist.accepted
      BY <1>0, <2>5 DEF ServeRequest, BeginSlot, HistType
    <3> QED  BY <2>2, <3>1
  <2>6. CASE \E i \in Ids : RoutineStep(i) \/ GateAllows(i) \/ GateDenies(i) \/ Emit(i)
    BY <2>2, <2>6, RoutineIs
  <2> QED  BY <2>3, <2>4, <2>5, <2>6 DEF MonitorNext, LoopStep, OtherStep
<1> QED  BY <1>1, <1>2, <1>3 DEF Slots

-----------------------------------------------------------------------------
(* Frames to the listener, as long as nobody else writes them.             *)

\* What a step does with the stream to the listener.
Writes(t, i, b) == ls.up /\ toL' = Append(toL, Frame(t, i, b, 0))

LEMMA ToListenerStep ==
    ASSUME MonTyped, [MonitorNext]_monitorVars, upset' # "stray"
    PROVE  \/ toL' = toL
           \/ SendPing /\ Writes("ping", 0, "none")
           \/ WriteRequest /\ Writes("request", cl.call.id, cl.call.body)
           \/ TakeEarlyCancel /\ atom.early = cl.call.id /\ Writes("cancel", cl.call.id, "none")
           \/ CancelSends /\ Writes("cancel", sg.id, "none")
           \/ ServePing \/ ServeRequest \/ ServeCancel
<1>1. CASE ClientStep \/ (\E b \in Bodies : StartCall(b)) \/ CancelReadsWriting \/ CancelStep
  BY <1>1, ZenonT(40) DEF ClientStep, SendPing, ReceivePing, WriteRequest, MarkActive, TakeEarlyCancel,
     Receive, Idle, StartCall, CancelReadsWriting, CancelStep, CancelReadsActive,
     CancelStoresEarly, CancelRechecks, CancelSends, ClientWrites, Writes
<1>2. CASE \E i \in Ids : RoutineStep(i) \/ GateAllows(i) \/ GateDenies(i) \/ Emit(i)
  BY <1>2, RoutineIs
<1>3. CASE LoopStep \/ EarlyExpires \/ WriteFails \/ SessionGoes \/ ClientGoes
           \/ UNCHANGED monitorVars
  BY <1>3 DEF LoopStep, LoopEOF, ServeReturns, EarlyExpires, WriteFails, SessionGoes,
     ClientGoes, monitorVars
<1>4. CASE Stray  BY <1>4 DEF Stray
<1> QED  BY <1>1, <1>2, <1>3, <1>4 DEF MonitorNext

\* The request at the head of an undisturbed stream is in sequence and finds the slot free.
LEMMA RequestIs ==
    ASSUME MonTyped, Slots, Order, upset # "stray", ServeRequest
    PROVE  /\ ls.up /\ Head(toL) = toL[1] /\ Head(toL).type = "request"
           /\ Head(toL).id = ls.last + 1 /\ Head(toL).id = cl.call.id
           /\ Head(toL).body = cl.call.body /\ cl.pc \in Asking \cup {"gone"}
           /\ Head(toL).id \in Ids /\ rt[Head(toL).id].pc = "none"
           /\ InSequence(Head(toL).id) /\ SlotFree /\ BeginSlot(Head(toL).id)
           /\ rt' = [rt EXCEPT ![Head(toL).id] =
                        [NoRoutine("start") EXCEPT !.body = Head(toL).body]]
           /\ toC' = toC /\ finished' = finished /\ hist' = hist
           /\ ls'.last = Head(toL).id /\ ls'.early = ls.early /\ ls'.up
           /\ \A n \in 1 .. Len(toL) : toL[n].type = "request" => n = 1
<1>1. /\ ls.up /\ Head(toL) = toL[1] /\ Head(toL).type = "request" /\ Head(toL).id \in Ids
      /\ Len(toL) \in Nat \ {0}
  BY ReadIs DEF ServeRequest
<1>2. 1 \in 1 .. Len(toL) /\ OneRequest /\ Silent  BY <1>1 DEF Order
<1>3. /\ Head(toL).id = ls.last + 1 /\ ls.inflight = 0 /\ cl.pc \in Asking \cup {"gone"}
      /\ Head(toL).id = cl.call.id /\ Head(toL).body = cl.call.body
      /\ \A n \in 1 .. Len(toL) : toL[n].type = "request" => n = 1
  BY <1>1, <1>2 DEF OneRequest
<1>4. InSequence(Head(toL).id) /\ SlotFree  BY <1>3 DEF InSequence, SlotFree
<1>5. rt[Head(toL).id].pc = "none"  BY <1>1, <1>4, BeginIs DEF Slots
<1>6. /\ BeginSlot(Head(toL).id) /\ UNCHANGED toC
      /\ rt' = [rt EXCEPT ![Head(toL).id] = [NoRoutine("start") EXCEPT !.body = Head(toL).body]]
  BY <1>4 DEF ServeRequest
<1>7. 0 \notin Ids /\ ls.early = 0 /\ ls \in ListenerType  BY <1>2, IdsAre DEF Silent, MonTyped
<1>8. finished' = finished /\ hist' = hist  BY <1>1, <1>6, <1>7 DEF BeginSlot
<1>9. ls'.last = Head(toL).id /\ ls'.early = ls.early /\ ls'.up
  BY <1>1, <1>6, <1>7 DEF BeginSlot, ListenerType
<1> QED  BY <1>1, <1>3, <1>4, <1>5, <1>6, <1>8, <1>9

\* The identifiers begun only grow, and a connection that was closed stays closed.
LEMMA LastGrows ==
    ASSUME MonTyped, Slots, [MonitorNext]_monitorVars
    PROVE  /\ ls.last \in Nat /\ ls'.last \in Nat /\ ls.last <= ls'.last
           /\ ls'.up => ls.up
<1>0. ls \in ListenerType /\ ls.last \in Nat
  <2>1. ls \in ListenerType /\ ls.last \in Ids \cup {0}  BY DEF MonTyped, ListenerType
  <2> QED  BY <2>1, IdsAre
<1>1. CASE ServeRequest
  <2> DEFINE i == Head(toL).id
  <2>1. i \in Ids /\ i \in Nat  BY <1>1, ReadIs, IdsAre DEF ServeRequest
  <2>2. ls'.last = ls.last \/ (InSequence(i) /\ ls'.last = i)
    BY <1>0, <1>1 DEF ServeRequest, BeginSlot, ListenerType
  <2>3. ls'.up => ls.up  BY <1>1 DEF ServeRequest, Reading
  <2>4. InSequence(i) => ls.last < i  BY <2>1, BeginIs DEF Slots
  <2> HIDE DEF i
  <2> QED  BY <1>0, <2>1, <2>2, <2>3, <2>4
<1>2. CASE OtherStep
  <2>1. ls'.last = ls.last  BY <1>2, OthersKeep
  <2>2. ls'.up => ls.up
    BY <1>0, <1>2 DEF OtherStep, ClientStep, SendPing, ReceivePing, WriteRequest, MarkActive,
       TakeEarlyCancel, Receive, Idle, StartCall, CancelReadsWriting, CancelStep,
       CancelReadsActive, CancelStoresEarly, CancelRechecks, CancelSends, ServePing,
       ServeCancel, CancelID, LoopEOF, ServeReturns, EarlyExpires, WriteFails, SessionGoes,
       ClientGoes, Stray, monitorVars, ListenerType
  <2> QED  BY <1>0, <2>1, <2>2
<1>3. CASE \E i \in Ids : RoutineStep(i) \/ GateAllows(i) \/ GateDenies(i) \/ Emit(i)
  BY <1>0, <1>3, RoutineIs
<1> QED  BY <1>1, <1>2, <1>3 DEF MonitorNext, LoopStep, OtherStep

\* What was written stays written.
LEMMA WireKeeps ==
    ASSUME MonTyped, Slots, Order, [MonitorNext]_monitorVars, upset # "stray",
           upset' # "stray", NEW i \in Ids, OnWire(i)
    PROVE  OnWire(i)'
<1>0. toL \in Seq(Frames) /\ i \in Nat  BY IdsAre DEF MonTyped
<1>1. ls.last \in Nat /\ ls'.last \in Nat /\ ls.last <= ls'.last  BY LastGrows
<1>2. CASE i <= ls.last
  <2>1. i <= ls'.last  BY <1>0, <1>1, <1>2
  <2> QED  BY <2>1 DEF OnWire
<1>3. ASSUME NEW n \in 1 .. Len(toL), toL[n].type = "request", toL[n].id = i
      PROVE  OnWire(i)'
  <2>1. CASE toL' = toL  BY <1>3, <2>1 DEF OnWire
  <2>2. ASSUME NEW t \in {"ping", "request", "cancel"}, NEW j, NEW b, Writes(t, j, b)
        PROVE  OnWire(i)'
    <3>1. n \in 1 .. Len(toL') /\ toL'[n] = toL[n]  BY <1>0, <1>3, <2>2 DEF Writes
    <3> QED  BY <1>3, <3>1 DEF OnWire
  <2>3. ASSUME NEW t, Reading(t), n # 1 PROVE OnWire(i)'
    <3>1. Len(toL) \in Nat /\ Len(toL') = Len(toL) - 1
          /\ \A k \in 1 .. Len(toL') : toL'[k] = toL[k + 1]
      BY <2>3, ReadIs
    <3>2. n - 1 \in 1 .. Len(toL') /\ n - 1 + 1 = n  BY <1>3, <2>3, <3>1
    <3>3. toL'[n - 1] = toL[n]  BY <3>1, <3>2
    <3> QED  BY <1>3, <3>2, <3>3 DEF OnWire
  <2>4. CASE ServePing \/ ServeCancel
    <3>1. n # 1
      <4>1. Reading("ping") \/ Reading("cancel")  BY <2>4 DEF ServePing, ServeCancel
      <4>2. Head(toL) = toL[1] /\ Head(toL).type # "request"  BY <4>1, ReadIs
      <4> QED  BY <1>3, <4>2
    <3> QED  BY <2>3, <2>4, <3>1 DEF ServePing, ServeCancel
  <2>5. CASE ServeRequest
    <3>1. Head(toL) = toL[1] /\ ls'.last = Head(toL).id  BY <2>5, RequestIs
    <3>2. CASE n = 1
      <4>1. i <= ls'.last  BY <1>0, <1>3, <3>1, <3>2
      <4> QED  BY <4>1 DEF OnWire
    <3>3. CASE n # 1  BY <2>3, <2>5, <3>3 DEF ServeRequest
    <3> QED  BY <3>2, <3>3
  <2> QED  BY <2>1, <2>2, <2>4, <2>5, ToListenerStep
<1> QED  BY <1>2, <1>3 DEF OnWire

\* A connection is disturbed once, or by an oversized request after its session went.
LEMMA UpsetIs ==
    ASSUME MonTyped, [MonitorNext]_monitorVars
    PROVE  /\ \/ upset' = upset
              \/ upset = "none" /\ (WriteFails \/ SessionGoes \/ ClientGoes \/ Stray)
              \/ upset' = "large" /\ upset \in {"none", "session"} /\ WriteRequest
           /\ upset' # "stray" => upset # "stray"
           /\ upset' \in {"none", "session"} => upset \in {"none", "session"}
<1>1. CASE ClientStep \/ (\E b \in Bodies : StartCall(b)) \/ CancelReadsWriting \/ CancelStep
  BY <1>1 DEF ClientStep, SendPing, ReceivePing, WriteRequest, MarkActive, TakeEarlyCancel,
     Receive, Idle, StartCall, CancelReadsWriting, CancelStep, CancelReadsActive,
     CancelStoresEarly, CancelRechecks, CancelSends
<1>2. CASE \E i \in Ids : RoutineStep(i) \/ GateAllows(i) \/ GateDenies(i) \/ Emit(i)
  BY <1>2, RoutineIs
<1>3. CASE LoopStep \/ EarlyExpires \/ UNCHANGED monitorVars
  BY <1>3 DEF LoopStep, ServePing, ServeRequest, ServeCancel, LoopEOF, ServeReturns,
     EarlyExpires, monitorVars
<1>4. CASE WriteFails \/ SessionGoes \/ ClientGoes \/ Stray
  BY <1>4 DEF WriteFails, SessionGoes, ClientGoes, Stray
<1> QED  BY <1>1, <1>2, <1>3, <1>4 DEF MonitorNext

\* Steps of the others leave the client and the signal goroutine alone.
LEMMA PeersKeep ==
    ASSUME MonTyped, [MonitorNext]_monitorVars,
           ~(ClientStep \/ (\E b \in Bodies : StartCall(b)) \/ CancelReadsWriting \/ CancelStep)
    PROVE  /\ UNCHANGED <<atom, sg>> /\ hist'.meant = hist.meant
           /\ cl' = cl \/ ClientGoes
<1>0. hist \in HistType  BY DEF MonTyped
<1>1. CASE \E i \in Ids : RoutineStep(i) \/ GateAllows(i) \/ GateDenies(i) \/ Emit(i)
  BY <1>1, RoutineIs
<1>2. CASE ServeRequest
  <2>1. UNCHANGED <<atom, sg, cl>>  BY <1>2 DEF ServeRequest
  <2>2. \/ hist' = hist \/ hist' = [hist EXCEPT !.busied = TRUE]
        \/ \E i \in Ids : hist' = [hist EXCEPT !.early = @ \cup {i}]
    BY <1>2, ReadIs DEF ServeRequest, BeginSlot
  <2> QED  BY <1>0, <2>1, <2>2 DEF HistType
<1>3. CASE ServePing \/ ServeCancel \/ LoopEOF \/ ServeReturns \/ EarlyExpires \/ WriteFails
           \/ SessionGoes \/ ClientGoes \/ Stray \/ UNCHANGED monitorVars
  BY <1>3 DEF ServePing, ServeCancel, LoopEOF, ServeReturns, EarlyExpires, WriteFails,
     SessionGoes, ClientGoes, Stray, monitorVars
<1> QED  BY <1>1, <1>2, <1>3 DEF MonitorNext, LoopStep

\* Cancel's steps concern the signal goroutine and cancelEarly.
LEMMA CancelIs ==
    ASSUME MonTyped, CancelReadsWriting \/ CancelStep
    PROVE  /\ cl'.pc = cl.pc /\ cl'.call = cl.call /\ cl'.next = cl.next /\ cl'.got = cl.got
           /\ cl' = cl \/ CancelSends
           /\ atom'.active = atom.active /\ atom'.writing = atom.writing
           /\ UNCHANGED <<toC, ls, rt, finished, upset>>
<1>0. cl \in ClientType /\ atom \in AtomType  BY DEF MonTyped
<1> QED
  BY <1>0 DEF CancelReadsWriting, CancelStep, CancelReadsActive, CancelStoresEarly,
     CancelRechecks, CancelSends, ClientType, AtomType

\* The marks after one step.
LEMMA MarksStep ==
    ASSUME MonTyped, Order, [MonitorNext]_monitorVars, upset' # "stray" PROVE Marks'
<1>0. cl \in ClientType /\ atom \in AtomType /\ upset # "stray" /\ Marks
  BY UpsetIs DEF MonTyped, Order
<1>1. CASE ClientStep
  <2>1. CASE SendPing \/ ReceivePing \/ WriteRequest \/ TakeEarlyCancel \/ Receive
    <3>1. cl'.call = cl.call /\ cl'.pc \in {"ping", "idle", "written", "over", "wait"}
          /\ (cl.pc = "wait" \/ cl.pc = "early" => cl'.pc \in {"wait", "over"})
          /\ cl.pc \in {"new", "ping", "write", "early", "wait"}
      BY <1>0, <2>1 DEF SendPing, ReceivePing, WriteRequest, TakeEarlyCancel, Receive, ClientType
    <3>2. atom'.active = atom.active /\ atom'.writing \in {0, atom.writing}
      BY <1>0, <2>1 DEF SendPing, ReceivePing, WriteRequest, TakeEarlyCancel, Receive, AtomType
    <3> QED  BY <1>0, <3>1, <3>2 DEF Marks
  <2>2. CASE MarkActive  BY <1>0, <2>2 DEF MarkActive, Marks, ClientType, AtomType
  <2>3. CASE Idle  BY <1>0, <2>3 DEF Idle, Marks, ClientType, AtomType
  <2> QED  BY <1>1, <2>1, <2>2, <2>3 DEF ClientStep
<1>2. ASSUME NEW b \in Bodies, StartCall(b) PROVE Marks'
  BY <1>0, <1>2 DEF StartCall, Marks, ClientType, AtomType
<1>3. CASE CancelReadsWriting \/ CancelStep  BY <1>0, <1>3, CancelIs DEF Marks
<1>4. CASE ~(ClientStep \/ (\E b \in Bodies : StartCall(b)) \/ CancelReadsWriting \/ CancelStep)
  <2>1. UNCHANGED atom /\ (cl' = cl \/ ClientGoes)  BY <1>4, PeersKeep
  <2>2. CASE ClientGoes
    <3>1. cl.pc \in {"idle", "wait"} /\ cl'.pc = "gone" /\ cl'.call = cl.call
      BY <1>0, <2>2 DEF ClientGoes, ClientType
    <3> QED  BY <1>0, <2>1, <3>1 DEF Marks
  <2> QED  BY <1>0, <2>1, <2>2 DEF Marks
<1> QED  BY <1>1, <1>2, <1>3, <1>4

\* Where a frame of the stream to the listener comes from.
LEMMA FramesFrom ==
    ASSUME MonTyped, [MonitorNext]_monitorVars, upset' # "stray"
    PROVE  \/ toL' = toL
           \/ /\ Len(toL) \in Nat /\ Len(toL') = Len(toL) + 1
              /\ \A n \in 1 .. Len(toL) : toL'[n] = toL[n]
              /\ LET f == toL'[Len(toL) + 1] IN
                 \/ SendPing /\ f.type = "ping"
                 \/ /\ WriteRequest /\ f.type = "request"
                    /\ f.id = cl.call.id /\ f.body = cl.call.body
                 \/ /\ TakeEarlyCancel /\ f.type = "cancel" /\ f.id = cl.call.id
                    /\ f.id = atom.early
                 \/ CancelSends /\ f.type = "cancel" /\ f.id = sg.id
              /\ ls.up
           \/ /\ ServePing \/ ServeRequest \/ ServeCancel
              /\ Len(toL) \in Nat \ {0} /\ Len(toL') = Len(toL) - 1
              /\ \A n \in 1 .. Len(toL') : toL'[n] = toL[n + 1]
              /\ ls.up
<1>0. toL \in Seq(Frames)  BY DEF MonTyped
<1>1. ASSUME NEW t, NEW i, NEW b, Writes(t, i, b)
      PROVE  /\ Len(toL) \in Nat /\ Len(toL') = Len(toL) + 1 /\ ls.up
             /\ \A n \in 1 .. Len(toL) : toL'[n] = toL[n]
             /\ toL'[Len(toL) + 1].type = t /\ toL'[Len(toL) + 1].id = i
             /\ toL'[Len(toL) + 1].body = b
  BY <1>0, <1>1 DEF Writes, Frame
<1>2. CASE ServePing \/ ServeRequest \/ ServeCancel
  BY <1>2, ReadIs DEF ServePing, ServeRequest, ServeCancel
<1> QED  BY <1>1, <1>2, ToListenerStep

\* What a Cancel means, after one step.
LEMMA IntendedStep ==
    ASSUME MonTyped, Slots, Order, [MonitorNext]_monitorVars, upset' # "stray" PROVE Intended'
<1>0. /\ cl \in ClientType /\ atom \in AtomType /\ sg \in SignalType /\ hist \in HistType
      /\ upset # "stray" /\ Marks /\ Intended /\ SignalSet /\ ClientSet
  BY UpsetIs DEF MonTyped, Order
<1>m. hist.meant \subseteq hist'.meant
  <2>1. CASE OtherStep  BY <2>1, OthersKeep
  <2>2. CASE ServeRequest  BY <1>0, <2>2, RequestIs
  <2>3. CASE \E i \in Ids : RoutineStep(i) \/ GateAllows(i) \/ GateDenies(i) \/ Emit(i)
    BY <2>3, RoutineIs
  <2> QED  BY <2>1, <2>2, <2>3 DEF MonitorNext, LoopStep, OtherStep
<1>1. finished' \subseteq hist'.meant
  <2>1. CASE finished' = finished  BY <1>0, <1>m, <2>1 DEF Intended
  <2>2. CASE ServeCancel
    <3>1. /\ Head(toL) = toL[1] /\ Head(toL).type = "cancel" /\ 1 \in 1 .. Len(toL)
      BY <2>2, ReadIs DEF ServeCancel
    <3>2. finished' \subseteq finished \cup {Head(toL).id}  BY <2>2 DEF ServeCancel, CancelID
    <3> QED  BY <1>0, <1>m, <3>1, <3>2 DEF Intended
  <2>3. CASE ServeRequest  BY <1>0, <2>1, <2>3, RequestIs
  <2>4. CASE \E i \in Ids : RoutineStep(i) \/ GateAllows(i) \/ GateDenies(i) \/ Emit(i)
    BY <2>1, <2>4, RoutineIs
  <2>5. CASE OtherStep /\ ~ServeCancel
    <3>1. finished' = finished
      BY <2>5 DEF OtherStep, ClientStep, SendPing, ReceivePing, WriteRequest, MarkActive,
         TakeEarlyCancel, Receive, Idle, StartCall, CancelReadsWriting, CancelStep,
         CancelReadsActive, CancelStoresEarly, CancelRechecks, CancelSends, ServePing,
         LoopEOF, ServeReturns, EarlyExpires, WriteFails, SessionGoes, ClientGoes, Stray,
         monitorVars
    <3> QED  BY <2>1, <3>1
  <2> QED  BY <2>2, <2>3, <2>4, <2>5 DEF MonitorNext, LoopStep, OtherStep
<1>2. /\ atom'.early # 0 => atom'.early \in hist'.meant
      /\ sg'.pc = "read" /\ sg'.w # 0 => sg'.w \in hist'.meant
      /\ sg'.pc \in {"store", "recheck", "swap"} => sg'.w \in hist'.meant
      /\ sg'.pc = "send" => sg'.id \in hist'.meant
  <2>1. CASE ClientStep \/ \E b \in Bodies : StartCall(b)
    <3>1. sg' = sg /\ atom'.early \in {0, atom.early}
      BY <1>0, <2>1 DEF ClientStep, SendPing, ReceivePing, WriteRequest, MarkActive,
         TakeEarlyCancel, Receive, Idle, StartCall, AtomType
    <3> QED  BY <1>0, <1>m, <3>1 DEF Intended
  <2>2. CASE CancelReadsWriting
    <3>1. sg'.pc = "read" /\ sg'.w = atom.writing /\ atom' = atom
          /\ cl.call.id \in hist'.meant
      BY <1>0, <2>2 DEF CancelReadsWriting, SignalType, HistType
    <3> QED  BY <1>0, <1>m, <3>1 DEF Intended, Marks
  <2>3. CASE CancelReadsActive
    <3>1. /\ sg.pc = "read" /\ sg'.w = sg.w /\ sg'.id = atom.active /\ atom' = atom
          /\ sg'.pc \in {"send", "none", "store"}
          /\ sg'.pc = "send" => atom.active # 0
          /\ sg'.pc = "store" => sg.w # 0
          /\ cl.call.id \in hist'.meant
      BY <1>0, <2>3 DEF CancelReadsActive, SignalType, HistType
    <3> QED  BY <1>0, <1>m, <3>1 DEF Intended, Marks
  <2>4. CASE CancelStoresEarly
    <3>1. sg.pc = "store" /\ sg'.pc = "recheck" /\ sg'.w = sg.w /\ atom'.early = sg.w
      BY <1>0, <2>4 DEF CancelStoresEarly, SignalType, AtomType
    <3> QED  BY <1>0, <1>m, <3>1 DEF Intended
  <2>5. CASE CancelRechecks
    <3>1. /\ sg.pc \in {"recheck", "swap"} /\ sg'.pc \in {"swap", "none", "send"} /\ sg'.w = sg.w
          /\ sg'.pc = "send" => sg'.id = sg.w
          /\ atom'.early \in {0, atom.early}
      BY <1>0, <2>5 DEF CancelRechecks, SignalType, AtomType
    <3> QED  BY <1>0, <1>m, <3>1 DEF Intended
  <2>6. CASE CancelSends
    <3>1. sg'.pc = "none" /\ atom' = atom  BY <1>0, <2>6 DEF CancelSends, SignalType
    <3> QED  BY <1>0, <1>m, <3>1 DEF Intended
  <2>7. CASE UNCHANGED <<atom, sg>>  BY <1>0, <1>m, <2>7 DEF Intended
  <2> QED  BY <2>1, <2>2, <2>3, <2>4, <2>5, <2>6, <2>7, PeersKeep DEF CancelStep
<1>3. \A n \in 1 .. Len(toL') : toL'[n].type = "cancel" => toL'[n].id \in hist'.meant
  <2>1. CASE toL' = toL  BY <1>0, <1>m, <2>1 DEF Intended
  <2>2. CASE /\ Len(toL) \in Nat /\ Len(toL') = Len(toL) + 1
             /\ \A n \in 1 .. Len(toL) : toL'[n] = toL[n]
             /\ toL'[Len(toL) + 1].type = "cancel" => toL'[Len(toL) + 1].id \in hist.meant
    <3>1. \A n \in 1 .. Len(toL') : n \in 1 .. Len(toL) \/ n = Len(toL) + 1  BY <2>2
    <3> QED  BY <1>0, <1>m, <2>2, <3>1 DEF Intended
  <2>3. CASE /\ Len(toL) \in Nat \ {0} /\ Len(toL') = Len(toL) - 1
             /\ \A n \in 1 .. Len(toL') : toL'[n] = toL[n + 1]
    <3>1. \A n \in 1 .. Len(toL') : n + 1 \in 1 .. Len(toL)  BY <2>3
    <3> QED  BY <1>0, <1>m, <2>3, <3>1 DEF Intended
  <2>4. TakeEarlyCancel /\ atom.early = cl.call.id => atom.early \in hist.meant
    <3>1. TakeEarlyCancel => cl.call.id # 0
      BY <1>0, IdsAre DEF TakeEarlyCancel, ClientSet, Calling, Asking
    <3> QED  BY <1>0, <3>1 DEF Intended
  <2>5. CancelSends => sg.id \in hist.meant  BY <1>0 DEF CancelSends, Intended
  <2> QED  BY <2>1, <2>2, <2>3, <2>4, <2>5, FramesFrom
<1> QED  BY <1>1, <1>2, <1>3 DEF Intended

LEMMA QuietStep ==
    ASSUME MonTyped, Slots, Order, [MonitorNext]_monitorVars, upset' # "stray" PROVE Silent'
<1>0. /\ cl \in ClientType /\ ls \in ListenerType /\ hist \in HistType
      /\ upset # "stray" /\ Silent /\ Follows /\ ls.last \in Nat
  BY UpsetIs, LastGrows DEF MonTyped, Order
<1>1. ~hist'.busied
  <2>1. CASE OtherStep  BY <1>0, <2>1, OthersKeep DEF Silent
  <2>2. CASE ServeRequest  BY <1>0, <2>2, RequestIs DEF Silent
  <2>3. CASE \E i \in Ids : RoutineStep(i) \/ GateAllows(i) \/ GateDenies(i) \/ Emit(i)
    BY <1>0, <2>3, RoutineIs DEF Silent
  <2> QED  BY <2>1, <2>2, <2>3 DEF MonitorNext, LoopStep, OtherStep
<1>2. ls'.early = 0
  <2>1. CASE ServeCancel
    <3>1. Head(toL) = toL[1] /\ Head(toL).type = "cancel" /\ Len(toL) \in Nat \ {0}
          /\ Head(toL).id \in Ids
      BY <2>1, ReadIs DEF ServeCancel
    <3>2. 1 \in 1 .. Len(toL) /\ 1 .. (1 - 1) = {}  BY <3>1
    <3>3. Head(toL).id <= ls.last  BY <1>0, <3>1, <3>2 DEF Follows
    <3>4. Head(toL).id # ls.last + 1
      <4>1. Head(toL).id \in Nat  BY <3>1, IdsAre
      <4> QED  BY <1>0, <3>3, <4>1
    <3>5. ls' = ls  BY <2>1, <3>4 DEF ServeCancel, CancelID
    <3> QED  BY <1>0, <3>5 DEF Silent
  <2>2. CASE ServeRequest  BY <1>0, <2>2, RequestIs DEF Silent
  <2>3. CASE \E i \in Ids : RoutineStep(i) \/ GateAllows(i) \/ GateDenies(i) \/ Emit(i)
    BY <1>0, <2>3, RoutineIs DEF Silent
  <2>4. CASE OtherStep /\ ~ServeCancel
    <3>1. ls'.early = ls.early
      BY <1>0, <2>4 DEF OtherStep, ClientStep, SendPing, ReceivePing, WriteRequest, MarkActive,
         TakeEarlyCancel, Receive, Idle, StartCall, CancelReadsWriting, CancelStep,
         CancelReadsActive, CancelStoresEarly, CancelRechecks, CancelSends, ServePing,
         LoopEOF, ServeReturns, EarlyExpires, WriteFails, SessionGoes, ClientGoes, Stray,
         monitorVars, ListenerType
    <3> QED  BY <1>0, <3>1 DEF Silent
  <2> QED  BY <2>1, <2>2, <2>3, <2>4 DEF MonitorNext, LoopStep, OtherStep
<1>3. cl'.pc = "gone" <=> upset' = "client"
  <2>1. CASE ClientGoes  BY <1>0, <2>1 DEF ClientGoes, ClientType
  <2>2. CASE ~ClientGoes
    <3>1. cl'.pc = "gone" <=> cl.pc = "gone"
      <4>1. CASE ClientStep \/ \E b \in Bodies : StartCall(b)
        BY <1>0, <4>1 DEF ClientStep, SendPing, ReceivePing, WriteRequest, MarkActive,
           TakeEarlyCancel, Receive, Idle, StartCall, ClientType
      <4>2. CASE CancelReadsWriting \/ CancelStep  BY <4>2, CancelIs
      <4> QED  BY <2>2, <4>1, <4>2, PeersKeep
    <3>2. upset' = "client" <=> upset = "client"
      BY <1>0, <2>2, UpsetIs DEF WriteFails, SessionGoes, Stray, Silent
    <3> QED  BY <1>0, <3>1, <3>2 DEF Silent
  <2> QED  BY <2>1, <2>2
<1>4. upset' = "write" => ~ls'.up
  <2>1. CASE WriteFails  BY <1>0, <2>1 DEF WriteFails, ListenerType
  <2>2. CASE ~WriteFails
    <3>1. upset' = "write" => upset = "write"
      BY <2>2, UpsetIs DEF SessionGoes, ClientGoes, Stray
    <3> QED  BY <1>0, <3>1, LastGrows DEF Silent
  <2> QED  BY <2>1, <2>2
<1>5. GaveUp'
  <2> SUFFICES ASSUME upset' = "large"
               PROVE  cl'.broken /\ cl'.pc \in {"over", "idling", "idle"}
    BY DEF GaveUp
  <2>1. CASE upset # "large"
    <3>1. WriteRequest /\ upset' # upset
      BY <2>1, UpsetIs DEF WriteFails, SessionGoes, ClientGoes, Stray
    <3> QED  BY <1>0, <3>1 DEF WriteRequest, ClientType
  <2>2. CASE upset = "large"
    <3>0. cl.broken /\ cl.pc \in {"over", "idling", "idle"}  BY <1>0, <2>2 DEF Silent, GaveUp
    <3>1. CASE ClientStep
      BY <1>0, <3>0, <3>1 DEF ClientStep, SendPing, ReceivePing, WriteRequest, MarkActive,
         TakeEarlyCancel, Receive, Idle, ClientType
    <3>2. ~\E b \in Bodies : StartCall(b)  BY <3>0 DEF StartCall
    <3>3. CASE CancelReadsWriting \/ CancelStep
      BY <1>0, <3>0, <3>3 DEF CancelReadsWriting, CancelStep, CancelReadsActive,
         CancelStoresEarly, CancelRechecks, CancelSends, StillWhole, ClientType
    <3>4. ~ClientGoes  BY <2>2 DEF ClientGoes
    <3> QED  BY <3>0, <3>1, <3>2, <3>3, <3>4, PeersKeep
  <2> QED  BY <2>1, <2>2
<1> QED  BY <1>1, <1>2, <1>3, <1>4, <1>5 DEF Silent

LEMMA FollowsStep ==
    ASSUME MonTyped, Slots, Order, [MonitorNext]_monitorVars, upset' # "stray" PROVE Follows'
<1>0. /\ upset # "stray" /\ Follows /\ (ls.up => Sent) /\ sg \in SignalType /\ SignalSet
      /\ toL \in Seq(Frames) /\ ToListener /\ ls.last \in Nat /\ ls'.last \in Nat
      /\ ls.last <= ls'.last /\ Ids \subseteq Nat
  BY UpsetIs, LastGrows, IdsAre DEF MonTyped, Order
<1>g. \A i \in Nat : i <= ls.last => i <= ls'.last  BY <1>0
<1>n. \A n \in 1 .. Len(toL) : toL[n].type = "cancel" => toL[n].id \in Nat
  BY <1>0 DEF ToListener
<1>1. CASE toL' = toL
  BY <1>0, <1>g, <1>n, <1>1 DEF Follows
<1>2. CASE /\ Len(toL) \in Nat /\ Len(toL') = Len(toL) + 1
           /\ \A n \in 1 .. Len(toL) : toL'[n] = toL[n]
           /\ toL'[Len(toL) + 1].type = "cancel" => OnWire(toL'[Len(toL) + 1].id)
           /\ ls'.last = ls.last
  <2>1. ASSUME NEW n \in 1 .. Len(toL'), toL'[n].type = "cancel"
        PROVE  \/ toL'[n].id <= ls'.last
               \/ \E k \in 1 .. (n - 1) : toL'[k].type = "request" /\ toL'[k].id = toL'[n].id
    <3>1. CASE n \in 1 .. Len(toL)
      <4>1. \A k \in 1 .. (n - 1) : toL'[k] = toL[k]  BY <1>2, <3>1
      <4> QED  BY <1>0, <1>2, <2>1, <3>1, <4>1 DEF Follows
    <3>2. CASE n = Len(toL) + 1
      <4>1. OnWire(toL'[n].id) /\ n - 1 = Len(toL)  BY <1>2, <2>1, <3>2
      <4> QED  BY <1>2, <4>1 DEF OnWire
    <3> QED  BY <1>2, <3>1, <3>2
  <2> QED  BY <2>1 DEF Follows
<1>3. CASE /\ ServePing \/ ServeRequest \/ ServeCancel
           /\ Len(toL) \in Nat \ {0} /\ Len(toL') = Len(toL) - 1
           /\ \A n \in 1 .. Len(toL') : toL'[n] = toL[n + 1]
  <2>h. toL[1].type = "request" => ls'.last = toL[1].id
    <3>1. CASE ServeRequest  BY <1>0, <3>1, RequestIs
    <3>2. CASE ServePing \/ ServeCancel
      <4>1. Reading("ping") \/ Reading("cancel")  BY <3>2 DEF ServePing, ServeCancel
      <4> QED  BY <4>1, ReadIs
    <3> QED  BY <1>3, <3>1, <3>2
  <2>1. ASSUME NEW n \in 1 .. Len(toL'), toL'[n].type = "cancel"
        PROVE  \/ toL'[n].id <= ls'.last
               \/ \E k \in 1 .. (n - 1) : toL'[k].type = "request" /\ toL'[k].id = toL'[n].id
    <3>1. n + 1 \in 1 .. Len(toL) /\ toL'[n] = toL[n + 1] /\ toL[n + 1].id \in Nat
          /\ n \in Nat \ {0}
      BY <1>3, <1>n, <2>1
    <3>2. \/ toL[n + 1].id <= ls.last
          \/ \E k \in 1 .. ((n + 1) - 1) : toL[k].type = "request" /\ toL[k].id = toL[n + 1].id
      BY <1>0, <2>1, <3>1 DEF Follows
    <3>3. CASE toL[n + 1].id <= ls.last  BY <1>g, <3>1, <3>3
    <3>4. ASSUME NEW k \in 1 .. n, toL[k].type = "request", toL[k].id = toL[n + 1].id
          PROVE  \/ toL'[n].id <= ls'.last
                 \/ \E m \in 1 .. (n - 1) : toL'[m].type = "request" /\ toL'[m].id = toL'[n].id
      <4>1. CASE k = 1  BY <1>0, <2>h, <3>1, <3>4, <4>1
      <4>2. CASE k # 1
        <5>1. k - 1 \in 1 .. (n - 1) /\ k - 1 \in 1 .. Len(toL') /\ (k - 1) + 1 = k
          BY <1>3, <3>1, <4>2
        <5>2. toL'[k - 1] = toL[k]  BY <1>3, <5>1
        <5> QED  BY <3>1, <3>4, <5>1, <5>2
      <4> QED  BY <4>1, <4>2
    <3>5. (n + 1) - 1 = n  BY <3>1
    <3> QED  BY <3>2, <3>3, <3>4, <3>5
  <2> QED  BY <2>1 DEF Follows
<1>4. ASSUME TakeEarlyCancel, ls.up PROVE OnWire(cl.call.id)
  BY <1>0, <1>4 DEF TakeEarlyCancel, Sent, Asking
<1>5. ASSUME CancelSends, ls.up PROVE OnWire(sg.id)
  BY <1>0, <1>5 DEF CancelSends, Sent
<1>6. SendPing \/ WriteRequest \/ TakeEarlyCancel \/ CancelSends => ls'.last = ls.last
  BY DEF SendPing, WriteRequest, TakeEarlyCancel, CancelSends
<1> QED  BY <1>1, <1>2, <1>3, <1>4, <1>5, <1>6, FramesFrom

\* The client's own request is the only one in the socket.
LEMMA OneRequestStep ==
    ASSUME MonTyped, Slots, Order, Talk, [MonitorNext]_monitorVars, upset' # "stray", ls'.up
    PROVE  OneRequest'
<1>0. /\ upset # "stray" /\ ls.up /\ OneRequest /\ Silent /\ cl \in ClientType
      /\ ls \in ListenerType /\ toL \in Seq(Frames) /\ ls.last \in Nat /\ ClientSet
  BY UpsetIs, LastGrows DEF MonTyped, Order
<1>1. CASE ServeRequest
  <2>1. \A n \in 1 .. Len(toL) : toL[n].type = "request" => n = 1  BY <1>0, <1>1, RequestIs
  <2>2. Len(toL) \in Nat \ {0} /\ Len(toL') = Len(toL) - 1
        /\ \A n \in 1 .. Len(toL') : toL'[n] = toL[n + 1]
    BY <1>1, ReadIs DEF ServeRequest
  <2>3. \A n \in 1 .. Len(toL') : n + 1 \in 1 .. Len(toL) /\ n + 1 # 1  BY <2>2
  <2> QED  BY <2>1, <2>2, <2>3 DEF OneRequest
<1>w. CASE WriteRequest /\ cl.call.body \in Oversized
  <2>1. cl.pc = "write" /\ toL' = toL  BY <1>w DEF WriteRequest
  <2>2. \A n \in 1 .. Len(toL) : toL[n].type # "request"
    BY <1>0, <2>1 DEF OneRequest, Asking
  <2> QED  BY <2>1, <2>2 DEF OneRequest
<1>2. CASE WriteRequest /\ cl.call.body \notin Oversized
  <2>1. cl.pc = "write" /\ cl'.pc = "written" /\ cl'.call = cl.call /\ ls' = ls /\ upset' = upset
    BY <1>0, <1>2 DEF WriteRequest, ClientType
  <2>2. upset \in {"none", "session"}
    <3>1. upset \in {"none", "write", "session", "client", "stray", "large"}  BY DEF MonTyped
    <3> QED  BY <1>0, <2>1, <3>1 DEF Silent, GaveUp
  <2>3. /\ cl.call.id = cl.next - 1 /\ cl.call.id \in Ids /\ ls.last = cl.next - 2
        /\ \A i \in Ids : rt[i].pc \in {"none", "done"}
    BY <1>0, <2>1, <2>2 DEF Talk, Served, ClientSet, Calling, Asking
  <2>4. ls.inflight = 0
    <3>1. ls.inflight \in Ids \cup {0}  BY <1>0 DEF ListenerType
    <3>2. \A i \in Ids : ls.inflight # i  BY <2>3 DEF Slots, SlotOf, InSlot
    <3> QED  BY <3>1, <3>2
  <2>5. cl.call.id = ls.last + 1
    <3>1. cl.next \in 1 .. MaxCalls + 1 /\ MaxCalls \in Nat  BY <1>0, IdsAre DEF ClientType
    <3> QED  BY <2>3, <3>1
  <2>6. \A n \in 1 .. Len(toL) : toL[n].type # "request"
    BY <1>0, <2>1 DEF OneRequest, Asking
  <2>7. /\ Len(toL) \in Nat /\ Len(toL') = Len(toL) + 1
        /\ \A n \in 1 .. Len(toL) : toL'[n] = toL[n]
        /\ toL'[Len(toL) + 1].id = cl.call.id /\ toL'[Len(toL) + 1].body = cl.call.body
    BY <1>0, <1>2, <2>1 DEF WriteRequest, ClientWrites, Frame
  <2>8. \A n \in 1 .. Len(toL') : n \in 1 .. Len(toL) \/ n = Len(toL) + 1  BY <2>7
  <2>9. \A n \in 1 .. Len(toL') : toL'[n].type = "request" => n = Len(toL) + 1
    BY <2>6, <2>7, <2>8
  <2> QED  BY <2>1, <2>4, <2>5, <2>7, <2>9 DEF OneRequest, Asking
<1>3. CASE ~(ServeRequest \/ WriteRequest)
  <2>1. ls'.last = ls.last /\ (ls.inflight = 0 => ls'.inflight = 0)
    <3>1. CASE OtherStep  BY <3>1, OthersKeep
    <3>2. CASE \E i \in Ids : RoutineStep(i) \/ GateAllows(i) \/ GateDenies(i) \/ Emit(i)
      <4>1. ls'.last = ls.last  BY <3>2, RoutineIs
      <4>2. ls' = ls \/ ls' = [ls EXCEPT !.inflight = 0]
            \/ \E i \in Ids : ls' = [ls EXCEPT !.inflight = IF @ = i THEN 0 ELSE @]
        BY <3>2 DEF RoutineStep, Check, RunReturns, EndSlot, GateAllows, GateDenies, Emit
      <4> QED  BY <1>0, <4>1, <4>2 DEF ListenerType
    <3> QED  BY <1>3, <3>1, <3>2 DEF MonitorNext, LoopStep, OtherStep
  <2>2. ASSUME NEW n \in 1 .. Len(toL), toL[n].type = "request"
        PROVE  cl'.pc \in Asking \cup {"gone"} /\ cl'.call = cl.call
    <3>1. toL[n].id = ls.last + 1 /\ cl.pc \in Asking \cup {"gone"} /\ toL[n].id = cl.call.id
      BY <1>0, <2>2 DEF OneRequest
    <3>2. CASE Receive
      <4>1. cl.pc = "wait" /\ upset \in {"none", "session"}
        <5>1. cl.pc = "wait" /\ upset \in {"none", "write", "session", "client", "stray", "large"}
          BY <3>2 DEF Receive, MonTyped
        <5> QED  BY <1>0, <5>1 DEF Silent, GaveUp
      <4>2. Replies /\ cl.call.id \in Ids
        BY <1>0, <4>1 DEF Talk, Served, Asking, ClientSet, Calling
      <4>3. rt[cl.call.id].pc = "none"
        <5>1. ~(cl.call.id <= ls.last)  BY <1>0, <3>1
        <5> QED  BY <4>2, <5>1 DEF Slots, SlotOf
      <4>4. toC = <<>>  BY <4>2, <4>3 DEF Replies
      <4> QED  BY <1>0, <3>2, <4>4 DEF Receive
    <3>3. CASE MarkActive \/ TakeEarlyCancel
      BY <1>0, <3>1, <3>3 DEF MarkActive, TakeEarlyCancel, ClientType, Asking
    <3>4. CASE SendPing \/ ReceivePing \/ Idle \/ \E b \in Bodies : StartCall(b)
      BY <3>1, <3>4 DEF SendPing, ReceivePing, Idle, StartCall, Asking
    <3>5. CASE CancelReadsWriting \/ CancelStep  BY <3>1, <3>5, CancelIs
    <3>6. CASE ClientGoes  BY <1>0, <3>6 DEF ClientGoes, ClientType
    <3>7. CASE cl' = cl  BY <3>1, <3>7
    <3> QED  BY <1>3, <3>2, <3>3, <3>4, <3>5, <3>6, <3>7, PeersKeep DEF ClientStep
  <2>3. ASSUME NEW n \in 1 .. Len(toL), toL[n].type = "request"
        PROVE  /\ toL[n].id = ls'.last + 1 /\ ls'.inflight = 0
               /\ cl'.pc \in Asking \cup {"gone"}
               /\ toL[n].id = cl'.call.id /\ toL[n].body = cl'.call.body
               /\ \A m \in 1 .. Len(toL) : toL[m].type = "request" => m = n
    BY <1>0, <2>1, <2>2, <2>3 DEF OneRequest
  <2>4. CASE toL' = toL  BY <2>3, <2>4 DEF OneRequest
  <2>5. CASE /\ Len(toL) \in Nat /\ Len(toL') = Len(toL) + 1
             /\ \A n \in 1 .. Len(toL) : toL'[n] = toL[n]
             /\ toL'[Len(toL) + 1].type # "request"
    <3>1. \A n \in 1 .. Len(toL') : toL'[n].type = "request" => n \in 1 .. Len(toL)
      BY <2>5
    <3> QED  BY <2>3, <2>5, <3>1 DEF OneRequest
  <2>6. CASE /\ Len(toL) \in Nat \ {0} /\ Len(toL') = Len(toL) - 1
             /\ \A n \in 1 .. Len(toL') : toL'[n] = toL[n + 1]
    <3>1. \A n \in 1 .. Len(toL') : n + 1 \in 1 .. Len(toL)  BY <2>6
    <3>2. \A n, m \in 1 .. Len(toL') : m + 1 = n + 1 => m = n  BY <2>6
    <3> QED  BY <2>3, <2>6, <3>1, <3>2 DEF OneRequest
  <2> QED  BY <1>3, <2>4, <2>5, <2>6, FramesFrom
<1> QED  BY <1>1, <1>w, <1>2, <1>3

LEMMA SentStep ==
    ASSUME MonTyped, MonTyped', Slots, Order, [MonitorNext]_monitorVars, upset' # "stray", ls'.up
    PROVE  Sent'
<1>0. /\ upset # "stray" /\ ls.up /\ Sent /\ Marks /\ cl \in ClientType
      /\ atom \in AtomType /\ sg \in SignalType /\ SignalSet /\ ClientSet
      /\ toL \in Seq(Frames) /\ 0 \notin Ids
  BY UpsetIs, LastGrows, IdsAre DEF MonTyped, Order
<1> DEFINE Wired(i) == \/ i <= ls'.last
                       \/ \E n \in 1 .. Len(toL') : toL'[n].type = "request" /\ toL'[n].id = i
<1>w. \A i \in Ids : OnWire(i) => Wired(i)
  <2>1. \A i \in Ids : OnWire(i) => OnWire(i)'  BY <1>0, WireKeeps
  <2> QED  BY <2>1 DEF OnWire
<1>a. /\ atom.active # 0 => Wired(atom.active)
      /\ sg.pc = "swap" => Wired(sg.w)
      /\ sg.pc = "send" => Wired(sg.id)
      /\ cl.pc \in Asking => Wired(cl.call.id)
  <2>1. /\ atom.active # 0 => atom.active \in Ids
        /\ sg.pc = "swap" => sg.w \in Ids
        /\ sg.pc = "send" => sg.id \in Ids
        /\ cl.pc \in Asking => cl.call.id \in Ids
    BY <1>0 DEF AtomType, SignalType, SignalSet, ClientSet, Calling
  <2> HIDE DEF Wired
  <2> QED  BY <1>0, <1>w, <2>1 DEF Sent
<1>s. ASSUME /\ atom'.active # 0 => Wired(atom'.active)
             /\ sg'.pc = "swap" => Wired(sg'.w)
             /\ sg'.pc = "send" => Wired(sg'.id)
             /\ cl'.pc \in Asking => Wired(cl'.call.id)
      PROVE  Sent'
  BY <1>s DEF Sent, OnWire
<1> HIDE DEF Wired
<1>0w. CASE WriteRequest /\ cl.call.body \in Oversized
  <2>1. cl'.pc = "over" /\ sg' = sg /\ atom'.active = atom.active
    BY <1>0, <1>0w DEF WriteRequest, ClientType, AtomType
  <2> QED  BY <1>a, <1>s, <2>1 DEF Asking
<1>1. CASE WriteRequest /\ cl.call.body \notin Oversized
  <2>1. /\ cl'.call = cl.call /\ cl'.pc = "written" /\ cl.pc = "write" /\ sg' = sg
        /\ atom'.active = atom.active
        /\ toL' = Append(toL, Frame("request", cl.call.id, cl.call.body, 0))
    BY <1>0, <1>1 DEF WriteRequest, ClientWrites, ClientType, AtomType
  <2>2. Len(toL') \in 1 .. Len(toL') /\ toL'[Len(toL')].type = "request"
        /\ toL'[Len(toL')].id = cl.call.id
    BY <1>0, <2>1 DEF Frame
  <2>3. Wired(cl.call.id)  BY <2>2 DEF Wired
  <2> QED  BY <1>a, <1>s, <2>1, <2>3
<1>2. CASE MarkActive
  <2>1. cl.pc \in Asking /\ cl'.call = cl.call /\ sg' = sg
        /\ atom'.active \in {atom.active, cl.call.id}
    BY <1>0, <1>2 DEF MarkActive, Asking, ClientType, AtomType
  <2> QED  BY <1>a, <1>s, <2>1
<1>3. CASE TakeEarlyCancel \/ Receive
  <2>1. cl.pc \in Asking /\ cl'.call = cl.call /\ sg' = sg /\ atom'.active = atom.active
    BY <1>0, <1>3 DEF TakeEarlyCancel, Receive, Asking, ClientType, AtomType
  <2> QED  BY <1>a, <1>s, <2>1
<1>4. CASE SendPing \/ ReceivePing \/ Idle \/ \E b \in Bodies : StartCall(b)
  <2>1. cl'.pc \notin Asking /\ sg' = sg
    <3>1. CASE SendPing \/ ReceivePing \/ Idle
      <4>1. cl'.pc \in {"ping", "idle", "idling"} /\ sg' = sg
        BY <1>0, <3>1 DEF SendPing, ReceivePing, Idle, ClientType
      <4> QED  BY <4>1 DEF Asking
    <3>2. CASE \E b \in Bodies : StartCall(b)
      BY <1>0, <3>2 DEF StartCall, Asking, ClientType
    <3> QED  BY <1>4, <3>1, <3>2
  <2>2. atom'.active # 0 => atom'.active = atom.active
    <3>1. CASE SendPing \/ ReceivePing \/ Idle
      BY <1>0, <3>1 DEF SendPing, ReceivePing, Idle, AtomType
    <3>2. CASE \E b \in Bodies : StartCall(b)  BY <1>0, <3>2 DEF StartCall, AtomType
    <3> QED  BY <1>4, <3>1, <3>2
  <2> QED  BY <1>a, <1>s, <2>1, <2>2
<1>5. CASE CancelReadsWriting \/ CancelStep
  <2>1. cl'.pc = cl.pc /\ cl'.call = cl.call /\ atom'.active = atom.active  BY <1>5, CancelIs
  <2>2. /\ sg'.pc = "swap" => sg'.w = atom.active /\ sg'.w # 0
        /\ sg'.pc = "send" => \/ sg'.id = atom.active /\ sg'.id # 0
                              \/ sg.pc = "swap" /\ sg'.id = sg.w
    <3>1. CASE CancelReadsWriting \/ CancelReadsActive \/ CancelStoresEarly \/ CancelSends
      BY <1>0, <3>1 DEF CancelReadsWriting, CancelReadsActive, CancelStoresEarly, CancelSends,
         SignalType
    <3>2. CASE CancelRechecks
      <4>1. \/ /\ sg.pc = "recheck" /\ sg.w # 0
               /\ sg' = [sg EXCEPT !.pc = IF atom.active = sg.w THEN "swap" ELSE "none"]
            \/ sg.pc = "swap" /\ sg' = [sg EXCEPT !.pc = "send", !.id = sg.w]
            \/ sg.pc = "swap" /\ sg' = [sg EXCEPT !.pc = "none"]
        BY <1>0, <3>2 DEF CancelRechecks, SignalSet
      <4>2. CASE /\ sg.pc = "recheck" /\ sg.w # 0
                 /\ sg' = [sg EXCEPT !.pc = IF atom.active = sg.w THEN "swap" ELSE "none"]
        <5>1. sg'.w = sg.w /\ sg'.pc = IF atom.active = sg.w THEN "swap" ELSE "none"
          BY <1>0, <4>2 DEF SignalType
        <5> QED  BY <4>2, <5>1
      <4>3. CASE sg.pc = "swap" /\ sg' = [sg EXCEPT !.pc = "send", !.id = sg.w]
        BY <1>0, <4>3 DEF SignalType
      <4>4. CASE sg' = [sg EXCEPT !.pc = "none"]  BY <1>0, <4>4 DEF SignalType
      <4> QED  BY <4>1, <4>2, <4>3, <4>4
    <3> QED  BY <1>5, <3>1, <3>2 DEF CancelStep
  <2> QED  BY <1>a, <1>s, <2>1, <2>2
<1>6. CASE UNCHANGED <<atom, sg>> /\ cl' = cl  BY <1>6, <1>a, <1>s
<1>7. CASE UNCHANGED <<atom, sg>> /\ ClientGoes
  <2>1. cl'.pc \notin Asking  BY <1>0, <1>7 DEF ClientGoes, ClientType, Asking
  <2> QED  BY <1>7, <1>a, <1>s, <2>1
<1> QED  BY <1>0w, <1>1, <1>2, <1>3, <1>4, <1>5, <1>6, <1>7, PeersKeep DEF ClientStep

LEMMA OrderStep ==
    ASSUME MonTyped, MonTyped', Slots, Order, Talk, [MonitorNext]_monitorVars PROVE Order'
BY MarksStep, IntendedStep, QuietStep, FollowsStep, OneRequestStep, SentStep DEF Order

-----------------------------------------------------------------------------
(* The two ends of an undisturbed connection.                              *)

\* What an undisturbed connection knows.
LEMMA TalkIs ==
    ASSUME MonInv, upset \in {"none", "session"}
    PROVE  /\ cl \in ClientType /\ ls \in ListenerType /\ rt \in [Ids -> RoutineType]
           /\ toL \in Seq(Frames) /\ toC \in Seq(Frames) /\ ClientSet /\ SignalSet
           /\ ls.up /\ ~cl.broken /\ Served /\ Still /\ cl.pc # "gone"
           /\ OneRequest /\ Sent /\ ls.last \in Nat /\ cl.next \in Nat \ {0} /\ cl.got \in Nat
           /\ \A i \in Ids : SlotOf(i)
<1>1. upset # "stray" /\ upset # "client"  OBVIOUS
<1>2. ls.last \in Ids \cup {0}  BY DEF MonInv, MonTyped, ListenerType
<1>3. ls.last \in Nat  BY <1>2, IdsAre
<1>4. cl \in ClientType  BY DEF MonInv, MonTyped
<1>5. cl.next \in 1 .. MaxCalls + 1 /\ cl.got \in 0 .. MaxOutput + 1  BY <1>4 DEF ClientType
<1>6. cl.next \in Nat \ {0} /\ cl.got \in Nat  BY <1>5, IdsAre
<1>7. cl.pc # "gone"  BY <1>1 DEF MonInv, Order, Silent
<1> QED  BY <1>1, <1>3, <1>4, <1>6, <1>7 DEF MonInv, MonTyped, Talk, Order, Slots

\* The connection stays open.
LEMMA UpStep ==
    ASSUME MonInv, [MonitorNext]_monitorVars, upset' \in {"none", "session"} PROVE ls'.up
<1>0. upset \in {"none", "session"} /\ ls.up /\ cl.pc # "gone" /\ ls \in ListenerType
  BY UpsetIs, TalkIs DEF MonInv
<1>1. CASE ServeRequest  BY <1>0, <1>1, RequestIs DEF MonInv
<1>2. CASE \E i \in Ids : RoutineStep(i) \/ GateAllows(i) \/ GateDenies(i) \/ Emit(i)
  BY <1>0, <1>2, RoutineIs DEF MonInv
<1>3. CASE OtherStep
  BY <1>0, <1>3 DEF OtherStep, ClientStep, SendPing, ReceivePing, WriteRequest, MarkActive,
     TakeEarlyCancel, Receive, Idle, StartCall, CancelReadsWriting, CancelStep,
     CancelReadsActive, CancelStoresEarly, CancelRechecks, CancelSends, ServePing,
     ServeCancel, CancelID, LoopEOF, ServeReturns, EarlyExpires, WriteFails, SessionGoes,
     ClientGoes, Stray, monitorVars, ListenerType
<1> QED  BY <1>1, <1>2, <1>3 DEF MonitorNext, LoopStep, OtherStep

\* No Cancel is sent before the first request.
LEMMA NoCancelYet ==
    ASSUME MonInv, upset \in {"none", "session"}, cl.pc \in {"new", "ping"}
    PROVE  sg.pc # "send"
<1>0. /\ Sent /\ OneRequest /\ Served /\ Still /\ ls.up /\ SignalSet /\ ls.last \in Nat
      /\ sg \in SignalType
  BY TalkIs DEF MonInv, MonTyped
<1>1. ls.last = 0  BY <1>0 DEF Served, Still, Asking
<1>2. SUFFICES ASSUME sg.pc = "send" PROVE FALSE  OBVIOUS
<1>3. sg.id \in Ids /\ OnWire(sg.id)  BY <1>0, <1>2 DEF SignalSet, SignalType, Sent
<1>4. ~(sg.id <= ls.last)
  <2>1. sg.id \in Nat \ {0}  BY <1>3, IdsAre
  <2> QED  BY <1>1, <2>1
<1>5. \A n \in 1 .. Len(toL) : toL[n].type # "request"  BY <1>0 DEF OneRequest, Asking
<1> QED  BY <1>3, <1>4, <1>5 DEF OnWire

\* Pings, and the start of a call.
LEMMA TalkOpens ==
    ASSUME MonInv, upset \in {"none", "session"},
           SendPing \/ ReceivePing \/ Idle \/ \E b \in Bodies : StartCall(b)
    PROVE  ~cl'.broken /\ Served' /\ Still'
<1>0. /\ cl \in ClientType /\ toL \in Seq(Frames) /\ toC \in Seq(Frames)
      /\ ls.up /\ ~cl.broken /\ Served /\ Still
      /\ cl.next \in Nat \ {0} /\ ls.last \in Nat /\ ClientSet
  BY TalkIs
<1>1. CASE SendPing
  <2>1. cl.pc = "new" /\ cl'.pc = "ping" /\ ~cl'.broken /\ cl'.next = cl.next
        /\ UNCHANGED <<ls, rt, toC>>
    BY <1>0, <1>1 DEF SendPing, ClientType
  <2>2. toL = <<>> /\ toC = <<>> /\ cl.next = 1  BY <1>0, <2>1 DEF Still
  <2>3. Len(toL') = 1 /\ toL'[1].type = "ping"
    BY <1>0, <1>1, <2>2 DEF SendPing, ClientWrites, Frame
  <2>4. Served'  BY <1>0, <2>1 DEF Served, Asking
  <2>5. Still'  BY <1>0, <2>1, <2>2, <2>3 DEF Still, Calling, Asking
  <2> QED  BY <2>1, <2>4, <2>5
<1>2. CASE ReceivePing
  <2>1. cl.pc = "ping" /\ toC # <<>>  BY <1>0, <1>2 DEF ReceivePing
  <2>2. toL = <<>> /\ Len(toC) = 1 /\ toC[1].type = "ping"  BY <1>0, <2>1 DEF Still
  <2>3. toC' = <<>> /\ Head(toC) = toC[1]  BY <1>0, <1>2, <2>1, <2>2 DEF ReceivePing
  <2>4. cl'.pc = "idle" /\ ~cl'.broken /\ cl'.next = cl.next /\ UNCHANGED <<ls, rt, toL>>
    BY <1>0, <1>2, <2>1, <2>2, <2>3 DEF ReceivePing, ClientType
  <2>5. Served'  BY <1>0, <2>1, <2>4 DEF Served, Asking
  <2>6. Still'  BY <2>2, <2>3, <2>4 DEF Still, Calling, Asking
  <2> QED  BY <2>4, <2>5, <2>6
<1>3. CASE Idle
  <2>1. /\ cl.pc \in {"over", "idling"} /\ cl'.pc \in {"idling", "idle"} /\ ~cl'.broken
        /\ cl'.next = cl.next /\ UNCHANGED <<ls, rt, toL, toC>>
    BY <1>0, <1>3 DEF Idle, ClientType
  <2>2. Served'  BY <1>0, <2>1 DEF Served, Asking
  <2>3. Still'  BY <1>0, <2>1 DEF Still, Calling, Asking
  <2> QED  BY <2>1, <2>2, <2>3
<1>4. ASSUME NEW b \in Bodies, StartCall(b) PROVE ~cl'.broken /\ Served' /\ Still'
  <2>1. /\ cl.pc = "idle" /\ cl'.pc = "write" /\ ~cl'.broken /\ cl'.got = 0
        /\ UNCHANGED <<ls, rt, toL, toC>>
    BY <1>0, <1>4 DEF StartCall, ClientType
  <2>2. cl'.next = cl.next + 1  BY <1>0, <1>4 DEF StartCall, ClientType
  <2>3. ls.last = cl.next - 1 /\ cl.next - 1 = cl'.next - 2
    BY <1>0, <2>1, <2>2 DEF Served, Asking
  <2>4. Served'  BY <1>0, <2>1, <2>3 DEF Served, Asking
  <2>5. Still'  BY <1>0, <2>1 DEF Still, Calling, Asking
  <2> QED  BY <2>1, <2>4, <2>5
<1> QED  BY <1>1, <1>2, <1>3, <1>4

\* A call: its request, its Cancel and its replies.
LEMMA TalkCalls ==
    ASSUME MonInv, upset \in {"none", "session"}, upset' \in {"none", "session"},
           WriteRequest \/ MarkActive \/ TakeEarlyCancel \/ Receive
    PROVE  ~cl'.broken /\ Served' /\ Still'
<1>0. /\ cl \in ClientType /\ toL \in Seq(Frames) /\ toC \in Seq(Frames)
      /\ rt \in [Ids -> RoutineType]
      /\ ls.up /\ ~cl.broken /\ Served /\ Still /\ \A i \in Ids : SlotOf(i)
      /\ cl.next \in Nat \ {0} /\ cl.got \in Nat /\ ls.last \in Nat /\ ClientSet
  BY TalkIs
<1>i. cl.call.id = cl.next - 1 /\ cl.call.id \in Ids
  BY <1>0 DEF WriteRequest, MarkActive, TakeEarlyCancel, Receive, ClientSet, Calling, Asking
<1>1. CASE WriteRequest
  <2>1. /\ cl.pc = "write" /\ cl'.pc = "written" /\ ~cl'.broken /\ cl'.call = cl.call
        /\ cl'.next = cl.next /\ cl'.got = cl.got /\ UNCHANGED <<ls, rt, toC>>
        /\ toL' = Append(toL, Frame("request", cl.call.id, cl.call.body, 0))
    BY <1>0, <1>1 DEF WriteRequest, StillWhole, ClientWrites, ClientType
  <2>2. toC = <<>> /\ cl.got = 0 /\ ls.last = cl.next - 2
        /\ \A i \in Ids : rt[i].pc \in {"none", "done"}
    BY <1>0, <2>1 DEF Still, Served, Calling, Asking
  <2>3. rt[cl.call.id].pc = "none"
    <3>1. ~(cl.call.id <= ls.last)  BY <1>0, <1>i, <2>2
    <3> QED  BY <1>0, <1>i, <2>2, <3>1 DEF SlotOf
  <2>4. Replies'  BY <2>1, <2>2, <2>3 DEF Replies, InSlot
  <2>5. Served'  BY <2>1, <2>2, <2>4 DEF Served, Asking
  <2>6. \A n \in 1 .. Len(toL') : toL'[n].type # "ping"
    <3>1. \A n \in 1 .. Len(toL) : toL[n].type # "ping"  BY <1>0, <2>1 DEF Still
    <3>2. /\ Len(toL) \in Nat /\ Len(toL') = Len(toL) + 1
          /\ \A n \in 1 .. Len(toL) : toL'[n] = toL[n]
          /\ toL'[Len(toL) + 1].type = "request"
      BY <1>0, <2>1 DEF Frame
    <3>3. \A n \in 1 .. Len(toL') : n \in 1 .. Len(toL) \/ n = Len(toL) + 1  BY <3>2
    <3> QED  BY <3>1, <3>2, <3>3
  <2>7. Still'  BY <2>1, <2>6 DEF Still, Calling, Asking
  <2> QED  BY <2>1, <2>5, <2>7
<1>2. CASE MarkActive \/ TakeEarlyCancel
  <2>1. /\ cl.pc \in Asking /\ cl.pc # "ping" /\ cl'.pc \in Asking /\ ~cl'.broken
        /\ cl'.call = cl.call /\ cl'.next = cl.next /\ cl'.got = cl.got
        /\ UNCHANGED <<ls, rt, toC>>
    BY <1>0, <1>2 DEF MarkActive, TakeEarlyCancel, StillWhole, Asking, ClientType
  <2>2. toL' = toL \/ toL' = Append(toL, Frame("cancel", cl.call.id, "none", 0))
    BY <1>2 DEF MarkActive, TakeEarlyCancel, ClientWrites
  <2>3. Replies'  BY <1>0, <2>1 DEF Served, Replies, Out
  <2>4. Served'  BY <1>0, <2>1, <2>3 DEF Served
  <2>5. \A n \in 1 .. Len(toL') : toL'[n].type # "ping"
    <3>1. \A n \in 1 .. Len(toL) : toL[n].type # "ping"  BY <1>0, <2>1 DEF Still
    <3>2. CASE toL' = Append(toL, Frame("cancel", cl.call.id, "none", 0))
      <4>2. /\ Len(toL) \in Nat /\ Len(toL') = Len(toL) + 1
            /\ \A n \in 1 .. Len(toL) : toL'[n] = toL[n]
            /\ toL'[Len(toL) + 1].type = "cancel"
        BY <1>0, <3>2 DEF Frame
      <4>3. \A n \in 1 .. Len(toL') : n \in 1 .. Len(toL) \/ n = Len(toL) + 1  BY <4>2
      <4> QED  BY <3>1, <4>2, <4>3
    <3> QED  BY <2>2, <3>1, <3>2
  <2>6. Still'  BY <2>1, <2>5 DEF Still, Calling, Asking
  <2> QED  BY <2>1, <2>4, <2>6
<1>3. CASE Receive
  <2>1. cl.pc = "wait" /\ toC # <<>> /\ toC' = Tail(toC) /\ UNCHANGED <<ls, rt, toL>>
    BY <1>0, <1>3 DEF Receive
  <2>2. /\ Len(toC) \in Nat \ {0} /\ Head(toC) = toC[1] /\ Len(toC') = Len(toC) - 1
        /\ \A n \in 1 .. Len(toC') : toC'[n] = toC[n + 1]
    BY <1>0, <2>1, TailIs
  <2>3. Replies /\ ls.last \in {cl.next - 2, cl.next - 1}
        /\ \A i \in Ids : i # cl.call.id => rt[i].pc \in {"none", "done"}
    BY <1>0, <2>1 DEF Served, Asking
  <2>n. \A n \in 1 .. Len(toL) : toL[n].type # "ping"  BY <1>0, <2>1 DEF Still
  <2>4. CASE Out(1) /\ (rt[cl.call.id].pc = "done" => Len(toC) > 1)
    <3>1. MatchesOut(Head(toC)) /\ ~Matches(Head(toC))
      BY <2>2, <2>4 DEF Out, MatchesOut, Matches
    <3>2. cl' = [cl EXCEPT !.got = @ + 1]  BY <1>3, <2>1, <3>1 DEF Receive
    <3>3. /\ cl'.pc = "wait" /\ ~cl'.broken /\ cl'.call = cl.call /\ cl'.next = cl.next
      BY <1>0, <2>1, <3>2 DEF ClientType
    <3>4. cl'.got = cl.got + 1  BY <1>0, <3>2 DEF ClientType
    <3>5. \A n \in 1 .. Len(toC') : n + 1 \in 1 .. Len(toC) /\ (Out(n + 1) => Out(n)')
      <4>1. SUFFICES ASSUME NEW n \in 1 .. Len(toC')
                     PROVE  n + 1 \in 1 .. Len(toC) /\ (Out(n + 1) => Out(n)')
        OBVIOUS
      <4>2. n + 1 \in 1 .. Len(toC) /\ toC'[n] = toC[n + 1] /\ n \in Nat  BY <2>2
      <4>3. \A g \in Nat : g + (n + 1) = (g + 1) + n  BY <4>2
      <4>4. cl.got + (n + 1) = cl'.got + n  BY <1>0, <3>4, <4>3
      <4> QED  BY <3>3, <4>2, <4>4 DEF Out
    <3>6. Replies'
      <4> DEFINE k == rt[cl.call.id]
      <4>1. k \in RoutineType /\ k.pc \notin {"none", "start", "gate"}
        BY <1>0, <1>i, <2>1, <2>3 DEF Replies
      <4>2. rt'[cl'.call.id] = k  BY <2>1, <3>3
      <4>3. k.pc \in InSlot \cup {"respond"} => k.body = cl'.call.body
        BY <2>3, <3>3 DEF Replies
      <4>4. k.pc = "run" => cl'.got + Len(toC') = k.seq
        BY <1>0, <2>2, <2>3, <3>4 DEF Replies
      <4>5. k.pc # "done" => \A n \in 1 .. Len(toC') : Out(n)'
        BY <2>3, <3>5 DEF Replies
      <4>6. k.pc = "done" =>
              /\ Len(toC') >= 1
              /\ toC'[Len(toC')].type = "answer" /\ toC'[Len(toC')].id = cl'.call.id
              /\ toC'[Len(toC')].body = cl'.call.body
              /\ \A n \in 1 .. (Len(toC') - 1) : Out(n)'
        <5>1. SUFFICES ASSUME k.pc = "done"
                       PROVE  /\ Len(toC') >= 1
                              /\ toC'[Len(toC')].type = "answer"
                              /\ toC'[Len(toC')].id = cl'.call.id
                              /\ toC'[Len(toC')].body = cl'.call.body
                              /\ \A n \in 1 .. (Len(toC') - 1) : Out(n)'
          OBVIOUS
        <5>2. Len(toC') >= 1 /\ Len(toC') + 1 = Len(toC)  BY <2>2, <2>4, <5>1
        <5>3. toC'[Len(toC')] = toC[Len(toC)]  BY <2>2, <5>2
        <5>4. \A n \in 1 .. (Len(toC') - 1) : n \in 1 .. Len(toC') /\ n + 1 \in 1 .. (Len(toC) - 1)
          BY <2>2, <5>2
        <5> QED  BY <2>3, <3>3, <3>5, <5>1, <5>2, <5>3, <5>4 DEF Replies
      <4> HIDE DEF k
      <4> QED  BY <4>1, <4>2, <4>3, <4>4, <4>5, <4>6 DEF Replies
    <3>7. Served'  BY <2>1, <2>3, <3>3, <3>6 DEF Served, Asking
    <3>8. Still'  BY <2>1, <2>n, <3>3 DEF Still, Calling, Asking
    <3> QED  BY <3>3, <3>7, <3>8
  <2>5. CASE rt[cl.call.id].pc = "done" /\ Len(toC) = 1
    <3>1. Matches(Head(toC)) /\ ~MatchesOut(Head(toC))
      BY <2>2, <2>3, <2>5 DEF Replies, Matches, MatchesOut
    <3>2. cl' = [cl EXCEPT !.pc = "over"]  BY <1>3, <2>1, <3>1 DEF Receive
    <3>3. cl'.pc = "over" /\ ~cl'.broken /\ cl'.call = cl.call /\ cl'.next = cl.next
      BY <1>0, <3>2 DEF ClientType
    <3>4. toC' = <<>>  BY <1>0, <2>1, <2>5
    <3>5. ls.last = cl.next - 1
      <4>1. cl.call.id <= ls.last  BY <1>0, <1>i, <2>5 DEF SlotOf
      <4> QED  BY <1>0, <1>i, <2>3, <4>1
    <3>6. Served'  BY <2>1, <2>3, <2>5, <3>3, <3>5 DEF Served, Asking
    <3>7. Still'  BY <2>1, <2>n, <3>3, <3>4 DEF Still, Calling, Asking
    <3> QED  BY <3>3, <3>6, <3>7
  <2>6. \/ (Out(1) /\ (rt[cl.call.id].pc = "done" => Len(toC) > 1))
        \/ (rt[cl.call.id].pc = "done" /\ Len(toC) = 1)
    <3>1. 1 \in 1 .. Len(toC) /\ (Len(toC) # 1 => Len(toC) > 1 /\ 1 \in 1 .. (Len(toC) - 1))
      BY <2>2
    <3>2. CASE rt[cl.call.id].pc = "done"
      <4>1. Len(toC) # 1 => Out(1)  BY <2>3, <3>1, <3>2 DEF Replies
      <4> QED  BY <3>1, <3>2, <4>1
    <3>3. CASE rt[cl.call.id].pc # "done"
      <4>1. Out(1)  BY <2>3, <3>1, <3>3 DEF Replies
      <4> QED  BY <3>3, <4>1
    <3> QED  BY <3>2, <3>3
  <2> QED  BY <2>4, <2>5, <2>6
<1> QED  BY <1>1, <1>2, <1>3

\* Cancel only adds a cancel to the stream.
LEMMA TalkCancels ==
    ASSUME MonInv, upset \in {"none", "session"}, CancelReadsWriting \/ CancelStep
    PROVE  ~cl'.broken /\ Served' /\ Still'
<1>0. /\ cl \in ClientType /\ toL \in Seq(Frames)
      /\ ls.up /\ ~cl.broken /\ Served /\ Still
  BY TalkIs
<1>1. /\ cl'.pc = cl.pc /\ cl'.call = cl.call /\ cl'.next = cl.next /\ cl'.got = cl.got
      /\ UNCHANGED <<toC, ls, rt>>
  BY CancelIs DEF MonInv
<1>2. ~cl'.broken
  <2>1. CASE CancelSends  BY <1>0, <2>1 DEF CancelSends, StillWhole, ClientType
  <2> QED  BY <1>0, <2>1, CancelIs DEF MonInv
<1>3. Served'
  <2>1. cl.pc \in Asking => Replies'  BY <1>0, <1>1 DEF Served, Replies, Out
  <2> QED  BY <1>0, <1>1, <2>1 DEF Served
<1>4. Still'
  <2>1. CASE toL' = toL  BY <1>0, <1>1, <2>1 DEF Still
  <2>2. CASE CancelSends
    <3>1. cl.pc \notin {"new", "ping"}  BY <2>2, NoCancelYet DEF CancelSends
    <3>2. /\ Len(toL) \in Nat /\ Len(toL') = Len(toL) + 1
          /\ \A n \in 1 .. Len(toL) : toL'[n] = toL[n]
          /\ toL'[Len(toL) + 1].type = "cancel"
      BY <1>0, <2>2 DEF CancelSends, ClientWrites, Frame
    <3>3. \A n \in 1 .. Len(toL') : n \in 1 .. Len(toL) \/ n = Len(toL) + 1  BY <3>2
    <3>4. \A n \in 1 .. Len(toL') : toL'[n].type # "ping"
      BY <1>0, <3>1, <3>2, <3>3 DEF Still
    <3> QED  BY <1>0, <1>1, <3>1, <3>4 DEF Still
  <2>3. toL' = toL \/ CancelSends
    BY DEF CancelReadsWriting, CancelStep, CancelReadsActive, CancelStoresEarly, CancelRechecks
  <2> QED  BY <2>1, <2>2, <2>3
<1> QED  BY <1>2, <1>3, <1>4

\* The listener takes a frame.
LEMMA TalkReads ==
    ASSUME MonInv, upset \in {"none", "session"}, ServePing \/ ServeRequest \/ ServeCancel
    PROVE  ~cl'.broken /\ Served' /\ Still'
<1>0. /\ cl \in ClientType /\ toL \in Seq(Frames) /\ toC \in Seq(Frames)
      /\ rt \in [Ids -> RoutineType] /\ ls \in ListenerType
      /\ ls.up /\ ~cl.broken /\ Served /\ Still /\ cl.pc # "gone"
      /\ cl.next \in Nat \ {0} /\ cl.got \in Nat /\ ls.last \in Nat /\ ClientSet
      /\ UNCHANGED cl
  BY TalkIs DEF ServePing, ServeRequest, ServeCancel
<1>r. /\ Len(toL) \in Nat \ {0} /\ Len(toL') = Len(toL) - 1 /\ Head(toL) = toL[1]
      /\ 1 \in 1 .. Len(toL)
      /\ \A n \in 1 .. Len(toL') : n + 1 \in 1 .. Len(toL) /\ toL'[n] = toL[n + 1]
      /\ toL' \in Seq(Frames)
  <2>1. PICK t : Reading(t)  BY DEF ServePing, ServeRequest, ServeCancel
  <2>2. /\ Len(toL) \in Nat \ {0} /\ Len(toL') = Len(toL) - 1 /\ Head(toL) = toL[1]
        /\ \A n \in 1 .. Len(toL') : toL'[n] = toL[n + 1]
        /\ toL' \in Seq(Frames)
    BY <2>1, ReadIs DEF MonInv
  <2> QED  BY <2>2
<1>1. CASE ServePing
  <2>1. cl.pc = "ping"
    <3>1. Head(toL).type = "ping"  BY <1>1 DEF ServePing, Reading
    <3> QED  BY <1>0, <1>r, <3>1 DEF Still
  <2>2. toC = <<>> /\ Len(toL) = 1  BY <1>0, <1>r, <2>1 DEF Still
  <2>3. toL' = <<>>  BY <1>r, <2>2
  <2>4. Len(toC') = 1 /\ toC'[1].type = "ping"
    BY <1>0, <1>1, <2>2 DEF ServePing, ListenerWrites, Frame
  <2>5. UNCHANGED <<ls, rt>>  BY <1>1 DEF ServePing
  <2>6. Served'  BY <1>0, <2>1, <2>5 DEF Served, Asking
  <2>7. Still'  BY <1>0, <2>1, <2>3, <2>4 DEF Still, Calling, Asking
  <2> QED  BY <1>0, <2>6, <2>7
<1>p. CASE ServeRequest \/ ServeCancel
  <2>1. Head(toL).type # "ping" /\ cl.pc # "ping" /\ cl.pc # "new"
    <3>1. Head(toL).type \in {"request", "cancel"} /\ toL # <<>>
      BY <1>p DEF ServeRequest, ServeCancel, Reading
    <3> QED  BY <1>0, <1>r, <3>1 DEF Still
  <2>2. toC' = toC
    <3>1. CASE ServeRequest  BY <3>1, RequestIs DEF MonInv
    <3> QED  BY <1>p, <3>1 DEF ServeCancel
  <2>3. Still'  BY <1>0, <1>r, <2>1, <2>2 DEF Still
  <2>4. CASE ServeCancel
    <3>1. ls'.last = ls.last /\ rt' = rt
      BY <1>0, <2>4 DEF ServeCancel, CancelID, ListenerType
    <3>2. cl.pc \in Asking => Replies'  BY <1>0, <2>2, <3>1 DEF Served, Replies, Out
    <3>3. Served'  BY <1>0, <3>1, <3>2 DEF Served
    <3> QED  BY <1>0, <2>3, <3>3
  <2>5. CASE ServeRequest
    <3> DEFINE i == cl.call.id
    <3>1. /\ Head(toL).id = i /\ Head(toL).body = cl.call.body /\ cl.pc \in Asking \cup {"gone"}
          /\ i \in Ids /\ rt[i].pc = "none" /\ ls'.last = i
          /\ rt' = [rt EXCEPT ![i] = [NoRoutine("start") EXCEPT !.body = cl.call.body]]
      BY <2>5, RequestIs DEF MonInv
    <3>2. cl.pc \in Asking /\ i = cl.next - 1  BY <1>0, <3>1 DEF ClientSet, Calling
    <3>3. /\ rt'[i].pc = "start" /\ rt'[i].body = cl.call.body
          /\ \A j \in Ids \ {i} : rt'[j] = rt[j]
      BY <1>0, <3>1 DEF NoRoutine
    <3>4. toC = <<>> /\ cl.got = 0  BY <1>0, <3>1, <3>2 DEF Served, Replies
    <3>5. Replies'  BY <1>0, <2>2, <3>3, <3>4 DEF Replies
    <3>6. Served'  BY <1>0, <3>1, <3>2, <3>3, <3>5 DEF Served
    <3> QED  BY <1>0, <2>3, <3>6
  <2> QED  BY <1>p, <2>4, <2>5
<1> QED  BY <1>1, <1>p

\* The goroutine of the client's request, the only one there is.
LEMMA TalkServes ==
    ASSUME MonInv, upset \in {"none", "session"}, NEW i \in Ids,
           RoutineStep(i) \/ GateAllows(i) \/ GateDenies(i) \/ Emit(i)
    PROVE  ~cl'.broken /\ Served' /\ Still'
<1>0. /\ cl \in ClientType /\ toC \in Seq(Frames) /\ rt \in [Ids -> RoutineType]
      /\ ls.up /\ ~cl.broken /\ Served /\ Still
      /\ cl.got \in Nat /\ SlotOf(i)
  BY TalkIs
<1>1. /\ UNCHANGED <<cl, toL>> /\ ls'.last = ls.last
      /\ \A j \in Ids \ {i} : rt'[j] = rt[j]
  BY RoutineIs DEF MonInv
<1>2. rt[i].pc \in InSlot \cup {"respond"}
  BY DEF RoutineStep, Check, RunReturns, EndSlot, GateAllows, GateDenies, Emit, InSlot
<1>3. cl.pc \in Asking /\ i = cl.call.id  BY <1>0, <1>2 DEF Served, InSlot
<1>4. Still'  BY <1>0, <1>1, <1>3 DEF Still, Calling, Asking
<1>r. /\ rt[i] \in RoutineType /\ rt[i].body = cl.call.body
      /\ rt[i].pc \in {"start", "gate"} => toC = <<>> /\ cl.got = 0
      /\ rt[i].pc = "run" => cl.got + Len(toC) = rt[i].seq
      /\ \A n \in 1 .. Len(toC) : Out(n)
      /\ rt[i].seq \in 0 .. MaxOutput /\ MaxOutput \in Nat
  <2>1. Replies  BY <1>0, <1>3 DEF Served
  <2>2. rt[i] \in RoutineType /\ rt[i].seq \in 0 .. MaxOutput  BY <1>0 DEF RoutineType
  <2> QED  BY <1>2, <1>3, <2>1, <2>2, IdsAre DEF Replies, InSlot
<1>o. ASSUME NEW n \in Nat, Out(n), toC'[n] = toC[n] PROVE Out(n)'
  BY <1>1, <1>o DEF Out
\* One Out frame more.
<1>a. ASSUME rt[i].pc = "run", rt[i].seq + 1 <= MaxOutput + 1,
             ListenerWrites(Frame("out", i, "none", rt[i].seq + 1))
      PROVE  Len(toC') = Len(toC) + 1 /\ \A n \in 1 .. Len(toC') : Out(n)'
  <2>1. /\ Len(toC) \in Nat /\ Len(toC') = Len(toC) + 1
        /\ \A n \in 1 .. Len(toC) : toC'[n] = toC[n]
        /\ toC'[Len(toC) + 1].type = "out" /\ toC'[Len(toC) + 1].id = i
        /\ toC'[Len(toC) + 1].n = rt[i].seq + 1
    BY <1>0, <1>a DEF ListenerWrites, Frame
  <2>2. cl.got + (Len(toC) + 1) = rt[i].seq + 1
    <3>1. cl.got + Len(toC) = rt[i].seq  BY <1>r, <1>a
    <3> QED  BY <1>0, <2>1, <3>1
  <2>3. cl.call.body \in RunBodies  BY <1>0, <1>r, <1>a DEF SlotOf
  <2>m. PICK m \in Nat : m = Len(toC) + 1  BY <2>1
  <2>4. Out(m)'
    <3>2. /\ toC'[m].type = "out" /\ toC'[m].id = cl'.call.id /\ cl'.call.body \in RunBodies
          /\ toC'[m].n = cl'.got + m /\ toC'[m].n <= MaxOutput + 1
      BY <1>1, <1>3, <1>a, <2>1, <2>2, <2>3, <2>m
    <3> QED  BY <3>2 DEF Out
  <2>5. \A n \in 1 .. Len(toC') : n \in 1 .. Len(toC) \/ n = m  BY <2>1, <2>m
  <2>6. \A n \in 1 .. Len(toC) : n \in Nat /\ Out(n)'  BY <1>r, <1>o, <2>1
  <2> QED  BY <2>1, <2>4, <2>5, <2>6
<1>k. ASSUME rt'[i].pc \in {"run", "end", "respond"}, rt'[i].body = cl.call.body,
             rt'[i].pc = "run" => cl'.got + Len(toC') = rt'[i].seq,
             \A n \in 1 .. Len(toC') : Out(n)'
      PROVE  Replies'
  <2>1. cl'.call.id = i /\ cl'.call.body = cl.call.body  BY <1>1, <1>3
  <2> QED  BY <1>k, <2>1 DEF Replies
<1>5. Replies'
  <2>1. CASE Check(i) \/ GateDenies(i) \/ (GateAllows(i) /\ rt'[i].pc # "run")
    <3>1. rt[i].pc \in {"start", "gate"} /\ rt'[i].pc \in {"end", "gate"}
          /\ rt'[i].body = rt[i].body /\ toC' = toC
      BY <1>0, <1>r, <2>1 DEF Check, GateDenies, GateAllows, Answers, RoutineType
    <3> QED  BY <1>1, <1>3, <1>r, <3>1 DEF Replies, InSlot
  <2>2. CASE GateAllows(i) /\ rt'[i].pc = "run"
    <3>1. rt[i].pc = "gate" /\ rt'[i].seq = rt[i].seq /\ rt'[i].body = rt[i].body /\ toC' = toC
      BY <1>0, <1>r, <2>2 DEF GateAllows, Answers, RoutineType
    <3>2. rt'[i].seq = 0 /\ toC' = <<>> /\ cl'.got = 0 /\ Len(toC') = 0
      BY <1>0, <1>1, <1>r, <3>1 DEF SlotOf
    <3> QED  BY <1>1, <1>3, <1>r, <2>2, <3>1, <3>2 DEF Replies, InSlot
  <2>3. CASE Emit(i)
    <3>1. rt[i].pc = "run" /\ rt'[i].pc = "run" /\ rt'[i].body = rt[i].body
          /\ \/ /\ Room(i) /\ rt'[i].seq = rt[i].seq + 1
                /\ ListenerWrites(Frame("out", i, "none", rt[i].seq + 1))
             \/ rt'[i].seq = rt[i].seq /\ toC' = toC
      BY <1>0, <1>r, <2>3 DEF Emit, RoutineType
    <3>2. CASE rt'[i].seq = rt[i].seq /\ toC' = toC
      <4>1. \A n \in 1 .. Len(toC') : Out(n)'  BY <1>r, <1>o, <3>2
      <4>2. cl'.got + Len(toC') = rt'[i].seq  BY <1>1, <1>r, <3>1, <3>2
      <4> QED  BY <1>k, <1>r, <3>1, <4>1, <4>2
    <3>3. CASE /\ Room(i) /\ rt'[i].seq = rt[i].seq + 1
               /\ ListenerWrites(Frame("out", i, "none", rt[i].seq + 1))
      <4>1. rt[i].seq + 1 <= MaxOutput + 1  BY <1>r, <3>3 DEF Room
      <4>2. Len(toC') = Len(toC) + 1 /\ \A n \in 1 .. Len(toC') : Out(n)'
        BY <1>a, <3>1, <3>3, <4>1
      <4>3. cl'.got + Len(toC') = rt'[i].seq
        <5>1. Len(toC) \in Nat /\ cl.got \in Nat /\ cl.got + Len(toC) = rt[i].seq
          BY <1>0, <1>r, <3>1
        <5>2. cl'.got = cl.got  BY <1>1
        <5>3. rt'[i].seq = rt[i].seq + 1  BY <3>3
        <5>4. Len(toC') = Len(toC) + 1  BY <4>2
        <5> QED  BY <5>1, <5>2, <5>3, <5>4
      <4> QED  BY <1>k, <1>r, <3>1, <4>2, <4>3
    <3> QED  BY <3>1, <3>2, <3>3
  <2>4. CASE RunReturns(i)
    <3>1. rt[i].pc = "run" /\ rt'[i].pc = "end" /\ rt'[i].body = rt[i].body
      BY <1>0, <1>r, <2>4 DEF RunReturns, Answers, RoutineType
    <3>2. toC' = toC \/ ListenerWrites(Frame("out", i, "none", rt[i].seq + 1))
      BY <2>4 DEF RunReturns
    <3>3. \A n \in 1 .. Len(toC') : Out(n)'
      <4>1. CASE toC' = toC
        <5>1. \A n \in 1 .. Len(toC) : n \in Nat  BY <1>0
        <5> QED  BY <1>r, <1>o, <4>1, <5>1
      <4>2. rt[i].seq + 1 <= MaxOutput + 1  BY <1>r
      <4> QED  BY <1>a, <3>1, <3>2, <4>1, <4>2
    <3> QED  BY <1>k, <1>r, <3>1, <3>3
  <2>5. CASE EndSlot(i) /\ rt[i].pc = "end"
    <3>1. rt'[i].pc = "respond" /\ rt'[i].body = rt[i].body /\ toC' = toC
      BY <1>0, <1>r, <2>5 DEF EndSlot, RoutineType
    <3>2. \A n \in 1 .. Len(toC) : n \in Nat  BY <1>0
    <3>3. \A n \in 1 .. Len(toC') : Out(n)'  BY <1>r, <1>o, <3>1, <3>2
    <3> QED  BY <1>k, <1>r, <3>1, <3>3
  <2>6. CASE EndSlot(i) /\ rt[i].pc = "respond"
    <3>1. rt'[i].pc = "done"  BY <1>0, <2>6 DEF EndSlot, NoRoutine
    <3>2. ListenerWrites(Frame("answer", i, rt[i].body, IF rt[i].ok THEN 1 ELSE 0))
      BY <2>6 DEF EndSlot
    <3>3. /\ Len(toC) \in Nat /\ Len(toC') = Len(toC) + 1
          /\ \A n \in 1 .. Len(toC) : toC'[n] = toC[n]
          /\ toC'[Len(toC) + 1].type = "answer" /\ toC'[Len(toC) + 1].id = i
          /\ toC'[Len(toC) + 1].body = rt[i].body
      BY <1>0, <3>2 DEF ListenerWrites, Frame
    <3>4. Len(toC') - 1 = Len(toC) /\ Len(toC') >= 1 /\ Len(toC') = Len(toC) + 1  BY <3>3
    <3>5. \A n \in 1 .. (Len(toC') - 1) : Out(n)'
      <4>1. \A n \in 1 .. Len(toC) : n \in Nat /\ toC'[n] = toC[n]  BY <3>3
      <4> QED  BY <1>r, <1>o, <3>4, <4>1
    <3>6. toC'[Len(toC')].type = "answer" /\ toC'[Len(toC')].id = cl'.call.id
          /\ toC'[Len(toC')].body = cl'.call.body
      BY <1>1, <1>3, <1>r, <3>3
    <3> QED  BY <1>1, <1>3, <3>1, <3>4, <3>5, <3>6 DEF Replies, InSlot
  <2> QED  BY <2>1, <2>2, <2>3, <2>4, <2>5, <2>6 DEF RoutineStep, EndSlot
<1>6. Served'  BY <1>0, <1>1, <1>3, <1>5 DEF Served
<1> QED  BY <1>0, <1>1, <1>4, <1>6

LEMMA TalkStep ==
    ASSUME MonInv, [MonitorNext]_monitorVars PROVE Talk'
<1> SUFFICES ASSUME upset' \in {"none", "session"}
             PROVE  ls'.up /\ ~cl'.broken /\ Served' /\ Still'
  BY DEF Talk
<1>0. upset \in {"none", "session"} /\ ls'.up  BY UpsetIs, UpStep DEF MonInv
<1>t. /\ ~cl.broken /\ Served /\ Still /\ cl.pc # "gone" /\ ls.up /\ ls \in ListenerType
  BY <1>0, TalkIs
<1>1. CASE ClientStep \/ \E b \in Bodies : StartCall(b)
  BY <1>0, <1>1, TalkOpens, TalkCalls DEF ClientStep
<1>2. CASE CancelReadsWriting \/ CancelStep  BY <1>0, <1>2, TalkCancels
<1>3. CASE ServePing \/ ServeRequest \/ ServeCancel  BY <1>0, <1>3, TalkReads
<1>4. CASE \E i \in Ids : RoutineStep(i) \/ GateAllows(i) \/ GateDenies(i) \/ Emit(i)
  BY <1>0, <1>4, TalkServes
<1>5. CASE EarlyExpires \/ SessionGoes \/ UNCHANGED monitorVars
  <2>1. ls'.last = ls.last /\ UNCHANGED <<cl, rt, toC, toL>>
    BY <1>t, <1>5 DEF EarlyExpires, SessionGoes, monitorVars, ListenerType
  <2>2. cl.pc \in Asking => Replies'  BY <1>t, <2>1 DEF Served, Replies, Out
  <2>3. Served'  BY <1>t, <2>1, <2>2 DEF Served
  <2>4. Still'  BY <1>t, <2>1 DEF Still
  <2> QED  BY <1>0, <1>t, <2>1, <2>3, <2>4
<1>6. ~(LoopEOF \/ ServeReturns \/ WriteFails \/ ClientGoes \/ Stray)
  BY <1>0, <1>t DEF LoopEOF, ServeReturns, WriteFails, ClientGoes, Stray
<1> QED  BY <1>0, <1>1, <1>2, <1>3, <1>4, <1>5, <1>6 DEF MonitorNext, LoopStep

-----------------------------------------------------------------------------
(* The invariant and what it gives.                                        *)

LEMMA MonInitInv == MonitorInit => MonInv
<1> SUFFICES ASSUME MonitorInit PROVE MonInv  OBVIOUS
<1> USE DEF MonitorInit
<1>n. /\ 0 \in 0 .. MaxWritten /\ 0 \in 0 .. MaxOutput /\ 0 \in 0 .. MaxOutput + 1
      /\ 1 \in 1 .. MaxCalls + 1
  BY IdsAre
<1>c. /\ cl.pc = "new" /\ cl.call = NoCall /\ cl.got = 0 /\ cl.next = 1 /\ ~cl.broken
      /\ atom.active = 0 /\ atom.writing = 0 /\ atom.early = 0 /\ sg.pc = "none"
      /\ toL = <<>> /\ toC = <<>> /\ ls.last = 0 /\ ls.inflight = 0 /\ ls.early = 0 /\ ls.up
      /\ \A i \in Ids : rt[i].pc = "none" /\ ~rt[i].ok
      /\ finished = {} /\ upset = "none"
      /\ ~hist.busied /\ hist.allowed = {} /\ hist.accepted = {} /\ hist.early = {}
  BY DEF NoRoutine
<1>1. MonTyped
  <2>1. cl \in ClientType  BY <1>n, CallIs DEF ClientType
  <2>2. atom \in AtomType /\ sg \in SignalType  BY DEF AtomType, SignalType
  <2>3. ls \in ListenerType /\ hist \in HistType  BY DEF ListenerType, HistType
  <2>4. rt \in [Ids -> RoutineType]  BY <1>n DEF NoRoutine, RoutineType, InSlot
  <2>5. toL \in Seq(Frames) /\ toC \in Seq(Frames) /\ ToListener  BY DEF ToListener
  <2>6. ClientSet /\ SignalSet  BY <1>c DEF ClientSet, SignalSet, Calling, Asking
  <2> QED  BY <1>c, <2>1, <2>2, <2>3, <2>4, <2>5, <2>6 DEF MonTyped
<1>2. Slots
  <2>1. \A i \in Ids : SlotOf(i)
    <3>1. 0 \notin Ids  BY IdsAre
    <3> QED  BY <1>c, <3>1 DEF SlotOf, InSlot
  <2>2. Answered  BY <1>c DEF Answered
  <2> QED  BY <1>c, <2>1, <2>2 DEF Slots, AcceptedWasAllowed, Begun, EarlyCancelDenies
<1>3. Order
  <2>1. Marks /\ Intended /\ Silent  BY <1>c DEF Marks, Intended, Silent, GaveUp
  <2>2. Follows /\ OneRequest /\ Sent  BY <1>c DEF Follows, OneRequest, Sent, Asking
  <2> QED  BY <2>1, <2>2 DEF Order
<1>4. Talk
  <2>1. Served  BY <1>c DEF Served, Asking
  <2>2. Still  BY <1>c DEF Still
  <2> QED  BY <1>c, <2>1, <2>2 DEF Talk
<1> QED  BY <1>1, <1>2, <1>3, <1>4 DEF MonInv

LEMMA MonTypedStep ==
    ASSUME MonTyped, [MonitorNext]_monitorVars PROVE MonTyped'
<1>1. CASE UNCHANGED monitorVars
  BY <1>1 DEF monitorVars, MonTyped, ToListener, ClientSet, SignalSet
<1> QED
  BY <1>1, ClientTyped, CancelTyped, LoopTyped, RoutineTyped, WorldTyped DEF MonitorNext

LEMMA MonInvStep ==
    ASSUME MonInv, [MonitorNext]_monitorVars PROVE MonInv'
<1>1. MonTyped'  BY MonTypedStep DEF MonInv
<1> QED  BY <1>1, SlotsStep, OrderStep, TalkStep DEF MonInv

LEMMA MonSafe == MonitorSpec => []MonInv
BY MonInitInv, MonInvStep, PTL DEF MonitorSpec

\* The slot is the only one: at most one request is between begin and end.
LEMMA OneSlot ==
    ASSUME MonTyped, Slots PROVE OneInFlight
<1> DEFINE R == {i \in Ids : rt[i].pc \in InSlot}
<1>1. R \subseteq {ls.inflight}  BY DEF Slots, SlotOf
<1> HIDE DEF R
<1>2. Cardinality(R) <= 1
  <2>1. CASE R = {}  BY <2>1, FS_EmptySet
  <2>2. CASE R # {}
    <3>1. R = {ls.inflight}  BY <1>1, <2>2
    <3>2. Cardinality({ls.inflight}) = 1  BY FS_Singleton
    <3> QED  BY <3>1, <3>2
  <2> QED  BY <2>1, <2>2
<1> QED  BY <1>2 DEF OneInFlight, InSlot, R

\* Client and listener agree on every request: one at a time is between begin and
\* end, what the client takes as allowed was allowed under that identifier and digest,
\* its requests never find the slot held, and undisturbed the two never fall out of
\* step (Authorize and Run, begin, end).
THEOREM AnswersAgree == MonitorSpec => []AnswersInStep
<1>1. MonInv => AnswersInStep
  <2> SUFFICES ASSUME MonInv PROVE AnswersInStep  OBVIOUS
  <2>1. MonTyped /\ Slots /\ Order /\ Talk  BY DEF MonInv
  <2>2. MonitorTypeOK
    <3>1. cl \in ClientType /\ atom \in AtomType /\ sg \in SignalType /\ ls \in ListenerType
          /\ rt \in [Ids -> RoutineType] /\ finished \subseteq Ids
      BY <2>1 DEF MonTyped
    <3>2. cl.pc \in {"new", "ping", "idle", "write", "written", "active", "early", "wait",
                     "over", "idling", "gone"}
      BY <3>1 DEF ClientType, Calling, Asking
    <3>3. cl.got <= MaxOutput + 1
      <4>1. cl.got \in 0 .. MaxOutput + 1  BY <3>1 DEF ClientType
      <4> QED  BY <4>1, IdsAre
    <3>4. {atom.active, atom.writing, atom.early, sg.w, sg.id, ls.last, ls.inflight, ls.early}
             \subseteq Ids \cup {0}
      BY <3>1 DEF AtomType, SignalType, ListenerType
    <3>5. \A i \in Ids : rt[i].total <= MaxWritten /\ rt[i].seq <= MaxOutput
      <4>1. \A i \in Ids : rt[i].total \in 0 .. MaxWritten /\ rt[i].seq \in 0 .. MaxOutput
        BY <3>1 DEF RoutineType
      <4> QED  BY <4>1, IdsAre
    <3> QED  BY <3>1, <3>2, <3>3, <3>4, <3>5 DEF MonitorTypeOK
  <2>3. AcceptedWasAllowed /\ OneInFlight  BY <2>1, OneSlot DEF Slots
  <2>4. NeverBusy /\ InStep  BY <2>1 DEF NeverBusy, InStep, Order, Silent, Talk
  <2> QED  BY <2>2, <2>3, <2>4 DEF AnswersInStep
<1> QED  BY <1>1, MonSafe, PTL

\* A Cancel ends only a request that was under way when Cancel looked, follows its
\* request on the wire, and once remembered keeps its request from the gate (Cancel,
\* cancelID, begin).
THEOREM CancelsEndTheirOwn == MonitorSpec => []CancelsMeant
<1>1. MonInv => CancelsMeant
  BY DEF MonInv, CancelsMeant, CancelsOnlyMeant, CancelFollowsRequest, Order, Intended, Follows,
     Slots
<1> QED  BY <1>1, MonSafe, PTL

-----------------------------------------------------------------------------
(* Who may log in.                                                         *)

\* What the listener has is what loadAuthorizedKeys makes of usable lines.
KeysInv ==
    /\ uids \in [LoginNames -> {"root", "user", "none"}]
    /\ keys = loadAuthorizedKeys(keys.lines)
    /\ \A l \in keys.lines : ~Refused(l)
    /\ KeysSafety

LEMMA KeysStart == SSHKeysInit => KeysInv
BY DEF SSHKeysInit, KeysInv, NoKeys, loadAuthorizedKeys, KeysSafety, LoginByRecord, WholeFile,
       GroupsAsSigned, NoRootByName

\* A key or certificate the set accepts has its line in the file.
LEMMA AuthenticatedByLine ==
    ASSUME NEW name \in LoginNames, NEW o \in Offers, keys = loadAuthorizedKeys(keys.lines),
           Authenticate(name, o), o.cert => o.principals # {}
    PROVE  IF o.cert
           THEN /\ \E l \in keys.lines : l.authority /\ l.key = o.ca
                /\ name \in o.principals /\ o.inTime
           ELSE \E l \in keys.lines : ~l.authority /\ l.key = o.key /\ name \in l.names
<1>1. /\ keys.authorities = {l.key : l \in {x \in keys.lines : x.authority}}
      /\ keys.users = UNION {{l.key} \X l.names : l \in {x \in keys.lines : ~x.authority}}
  BY DEF loadAuthorizedKeys
<1>2. CASE o.cert
  BY <1>1, <1>2 DEF Authenticate
<1>3. CASE ~o.cert
  <2>1. <<o.key, name>> \in keys.users
    BY <1>3 DEF Authenticate
  <2>2. PICK l \in keys.lines : ~l.authority /\ <<o.key, name>> \in {l.key} \X l.names
    BY <2>1, <1>1
  <2> QED
    BY <2>2, <1>3
<1> QED
  BY <1>2, <1>3

LEMMA KeysStep == KeysInv /\ [SSHKeysNext]_sshVars => KeysInv'
<1> SUFFICES ASSUME KeysInv, [SSHKeysNext]_sshVars PROVE KeysInv'
  OBVIOUS
<1> USE DEF KeysInv, KeysSafety
<1>1. ASSUME NEW l \in FileLines, Edit(l) PROVE KeysInv'
  BY <1>1 DEF Edit, loadAuthorizedKeys, LoginByRecord, WholeFile, GroupsAsSigned, NoRootByName,
              Refused, parseUserOption
<1>2. ASSUME NEW n \in LoginNames, NEW u \in {"root", "user", "none"}, Account(n, u) PROVE KeysInv'
  BY <1>2 DEF Account, loadAuthorizedKeys, LoginByRecord, WholeFile, GroupsAsSigned, NoRootByName,
              Refused, parseUserOption
<1>3. CASE EnableSSH
  <2>1. /\ keys' = loadAuthorizedKeys(authFile)
        /\ keys'.lines = authFile
        /\ \A l \in authFile : ~Refused(l)
    BY <1>3 DEF EnableSSH, loadAuthorizedKeys
  <2>2. WholeFile'
    BY <2>1 DEF WholeFile, Refused, parseUserOption
  <2>3. (\A l \in keys.lines : ~Refused(l))'
    BY <2>1 DEF Refused, parseUserOption
  <2> QED
    BY <1>3, <2>1, <2>2, <2>3 DEF EnableSSH, loadAuthorizedKeys, LoginByRecord, GroupsAsSigned,
                                  NoRootByName
<1>4. CASE DisableSSH
  BY <1>4 DEF DisableSSH, NoKeys, loadAuthorizedKeys, LoginByRecord, WholeFile, GroupsAsSigned,
              NoRootByName
<1>5. ASSUME NEW n \in LoginNames, NEW o \in Offers, NEW r \in BOOLEAN, publicKeyCallback(n, o, r)
      PROVE  KeysInv'
  <2> DEFINE g == [name |-> n, offer |-> o, groups |-> GroupsOf(o), lines |-> keys.lines,
                   uid |-> uids[n], revoked |-> r]
  <2>1. /\ granted' = granted \cup {g}
        /\ UNCHANGED <<authFile, keys, listens, permitRoot, uids>>
    BY <1>5 DEF publicKeyCallback
  <2>2. LoginByRecord'
    <3>1. IF o.cert
          THEN /\ \E l \in keys.lines : l.authority /\ l.key = o.ca
               /\ n \in o.principals /\ o.inTime
          ELSE \E l \in keys.lines : ~l.authority /\ l.key = o.key /\ n \in l.names
      BY <1>5, AuthenticatedByLine DEF publicKeyCallback
    <3>2. g.offer = o /\ g.name = n /\ g.lines = keys.lines
      OBVIOUS
    <3> HIDE DEF g
    <3> QED
      BY <2>1, <3>1, <3>2 DEF LoginByRecord
  <2>3. GroupsAsSigned'
    BY <2>1 DEF GroupsAsSigned, GroupsOf
  <2>4. NoRootByName'
    <3>1. permitRoot \/ uids[n] = "user"
      BY <1>5 DEF publicKeyCallback, loginIsRoot
    <3> QED
      BY <2>1, <3>1 DEF NoRootByName
  <2> QED
    BY <2>1, <2>2, <2>3, <2>4 DEF WholeFile, loadAuthorizedKeys, Refused, parseUserOption
<1>6. CASE UNCHANGED sshVars
  BY <1>6 DEF sshVars, loadAuthorizedKeys, LoginByRecord, WholeFile, GroupsAsSigned, NoRootByName,
              Refused, parseUserOption
<1> QED
  BY <1>1, <1>2, <1>3, <1>4, <1>5, <1>6 DEF SSHKeysNext

\* publicKeyCallback grants a login only by a line of the file the listener was enabled
\* with, with the groups the authority signed, and none that is root where root may
\* not log in, however the file and the accounts are edited meanwhile.
THEOREM LoginsAreListed == SSHKeysSpec => []KeysSafety
<1>1. SSHKeysInit => KeysInv
  BY KeysStart
<1>2. KeysInv /\ [SSHKeysNext]_sshVars => KeysInv'
  BY KeysStep
<1>3. KeysInv => KeysSafety
  BY DEF KeysInv
<1> QED
  BY <1>1, <1>2, <1>3, PTL DEF SSHKeysSpec

-----------------------------------------------------------------------------
(* The listener: slots and records.                                        *)

ConnSteps == {"none", "handshake", "audit", "open", "closed"}
ChanSteps == {"none", "setup", "wait", "audit", "start", "running", "drain", "close", "release",
              "over"}
ChanType == [pc : ChanSteps, conn : Conns \cup {"none"}, open : BOOLEAN, shell : BOOLEAN,
             env : BOOLEAN, master : BOOLEAN]

ListenerTyped ==
    /\ conn \in [Conns -> ConnSteps] /\ chan \in [SessionChans -> ChanType]
    /\ connSlots \in [Conns -> Nat] /\ userSlots \in Nat /\ preAuth \in Nat
    /\ registered \subseteq SessionChans

Greeting == {c \in Conns : conn[c] = "handshake"}
Holders == {k \in SessionChans : chan[k].pc \notin {"none", "over"}}
HeldOn(c) == {k \in Holders : chan[k].conn = c}

GreetingCounted ==
    IsFiniteSet(Greeting) /\ preAuth = Cardinality(Greeting) /\ preAuth <= PreAuth

HeldCounted ==
    /\ IsFiniteSet(Holders) /\ userSlots = Cardinality(Holders) /\ userSlots <= PerUser
    /\ \A k \in Holders : chan[k].conn \in Conns
    /\ \A c \in Conns : connSlots[c] = Cardinality(HeldOn(c)) /\ connSlots[c] <= PerConn

\* A channel that is set up or served belongs to a connection whose login is logged.
ListenerLogged ==
    /\ \A c \in Conns : conn[c] = "open" => <<"login", c>> \in logged
    /\ \A k \in Holders : <<"login", chan[k].conn>> \in logged
    /\ \A k \in SessionChans : chan[k].pc \in {"start", "running"} => <<"start", k>> \in logged

ListenerInv == ListenerTyped /\ GreetingCounted /\ HeldCounted /\ ListenerLogged

\* What ListenerInv says of the model's properties.
LEMMA ListenerSafe ==
    ListenerInv => ListenerTypeOK /\ PreAuthExact /\ SlotsExact /\ RunsOnRecord
<1> SUFFICES ASSUME ListenerInv
             PROVE  ListenerTypeOK /\ PreAuthExact /\ SlotsExact /\ RunsOnRecord
  OBVIOUS
<1>1. ListenerTypeOK
  BY ListenerAssumption
     DEF ListenerInv, ListenerTyped, GreetingCounted, ListenerTypeOK, ConnSteps, ChanSteps, ChanType
<1>2. PreAuthExact
  BY DEF ListenerInv, GreetingCounted, Greeting, PreAuthExact
<1>3. SlotsExact
  BY DEF ListenerInv, HeldCounted, Holders, HeldOn, SlotsExact
<1>4. RunsOnRecord
  BY DEF ListenerInv, ListenerLogged, Holders, RunsOnRecord
<1> QED
  BY <1>1, <1>2, <1>3, <1>4

LEMMA ListenerStart == ListenerInit => ListenerInv
<1> SUFFICES ASSUME ListenerInit PROVE ListenerInv
  OBVIOUS
<1>1. ListenerTyped
  BY DEF ListenerInit, ListenerTyped, ConnSteps, ChanSteps, ChanType
<1>2. Greeting = {} /\ Holders = {} /\ \A c \in Conns : HeldOn(c) = {}
  BY DEF ListenerInit, Greeting, Holders, HeldOn
<1>3. GreetingCounted
  BY <1>2, FS_EmptySet, ListenerAssumption DEF ListenerInit, GreetingCounted
<1>4. HeldCounted
  <2>1. userSlots = 0 /\ \A c \in Conns : connSlots[c] = 0
    BY DEF ListenerInit
  <2> QED
    BY <1>2, <2>1, FS_EmptySet, ListenerAssumption DEF HeldCounted
<1>5. ListenerLogged
  BY <1>2 DEF ListenerInit, ListenerLogged
<1> QED
  BY <1>1, <1>3, <1>4, <1>5 DEF ListenerInv

\* A step that keeps every channel's connection, and takes none up or off.
LEMMA HeldKept ==
    ASSUME ListenerInv, UNCHANGED <<connSlots, userSlots>>,
           \A k \in SessionChans :
              /\ chan'[k].pc \in {"none", "over"} <=> chan[k].pc \in {"none", "over"}
              /\ chan'[k].conn = chan[k].conn
    PROVE  HeldCounted' /\ Holders' = Holders
<1>1. Holders' = Holders
  BY DEF Holders
<1>2. \A k \in Holders : chan'[k].conn = chan[k].conn
  BY DEF Holders
<1>3. ASSUME NEW c \in Conns
      PROVE  connSlots'[c] = Cardinality({k \in Holders' : chan'[k].conn = c}) /\ connSlots'[c] <= PerConn
  <2>1. {k \in Holders' : chan'[k].conn = c} = HeldOn(c)
    BY <1>1, <1>2 DEF HeldOn
  <2> QED
    BY <2>1 DEF ListenerInv, HeldCounted
<1> QED
  BY <1>1, <1>2, <1>3 DEF ListenerInv, HeldCounted, HeldOn

\* A channel that ends gives its slots back.
LEMMA HeldLess ==
    ASSUME ListenerInv, NEW k \in SessionChans, k \in Holders, Goto(k, "over"), Release(k)
    PROVE  HeldCounted' /\ Holders' = Holders \ {k} /\ connSlots' \in [Conns -> Nat] /\ userSlots' \in Nat
<1> DEFINE c == chan[k].conn
<1>1. /\ c \in Conns /\ IsFiniteSet(Holders) /\ userSlots = Cardinality(Holders)
      /\ \A d \in Conns : connSlots[d] = Cardinality(HeldOn(d)) /\ connSlots[d] <= PerConn
      /\ connSlots \in [Conns -> Nat] /\ userSlots \in Nat /\ userSlots <= PerUser
  BY DEF ListenerInv, HeldCounted, ListenerTyped
<1>2. /\ \A j \in SessionChans : chan'[j].conn = chan[j].conn
      /\ \A j \in SessionChans : j # k => chan'[j].pc = chan[j].pc
      /\ chan'[k].pc = "over"
  BY DEF Goto, ListenerInv, ListenerTyped, ChanType
<1>3. Holders' = Holders \ {k}
  BY <1>2 DEF Holders
<1>4. \A d \in Conns : IsFiniteSet(HeldOn(d))
  BY <1>1, FS_Subset DEF HeldOn
<1>5. k \in HeldOn(c)
  BY DEF HeldOn
<1>6. /\ IsFiniteSet(Holders') /\ Cardinality(Holders') = userSlots - 1
  BY <1>1, <1>3, FS_RemoveElement
<1>7. ASSUME NEW d \in Conns
      PROVE  connSlots'[d] = Cardinality({j \in Holders' : chan'[j].conn = d})
  <2>1. CASE d = c
    <3>1. {j \in Holders' : chan'[j].conn = d} = HeldOn(c) \ {k}
      BY <1>2, <1>3, <2>1 DEF HeldOn, Holders
    <3>2. Cardinality(HeldOn(c) \ {k}) = Cardinality(HeldOn(c)) - 1
      BY <1>1, <1>4, <1>5, FS_RemoveElement
    <3>3. connSlots'[c] = connSlots[c] - 1
      BY <1>1 DEF Release
    <3> QED
      BY <1>1, <2>1, <3>1, <3>2, <3>3
  <2>2. CASE d # c
    <3>1. {j \in Holders' : chan'[j].conn = d} = HeldOn(d)
      BY <1>2, <1>3, <2>2 DEF HeldOn, Holders
    <3>2. connSlots'[d] = connSlots[d]
      BY <1>1, <2>2 DEF Release
    <3> QED
      BY <1>1, <3>1, <3>2
  <2> QED
    BY <2>1, <2>2
<1>8. Cardinality(Holders') \in Nat /\ \A d \in Conns : Cardinality({j \in Holders' : chan'[j].conn = d}) \in Nat
  <2>1. \A d \in Conns : IsFiniteSet({j \in Holders' : chan'[j].conn = d})
    BY <1>6, FS_Subset
  <2> QED
    BY <1>6, <2>1, FS_CardinalityType
<1>9. userSlots' = userSlots - 1 /\ connSlots' = [connSlots EXCEPT ![c] = connSlots[c] - 1]
  BY DEF Release
<1>10. \A d \in Conns : connSlots'[d] <= PerConn
  <2>1. \A d \in Conns : connSlots'[d] = connSlots[d] \/ connSlots'[d] = connSlots[d] - 1
    BY <1>1, <1>9
  <2> QED
    BY <1>1, <2>1, ListenerAssumption
<1>11. connSlots' \in [Conns -> Nat]
  BY <1>1, <1>7, <1>8, <1>9
<1>12. userSlots' \in Nat /\ userSlots' <= PerUser
  BY <1>1, <1>6, <1>8, <1>9, ListenerAssumption
<1>13. \A j \in Holders' : chan'[j].conn \in Conns
  BY <1>2, <1>3 DEF ListenerInv, HeldCounted, Holders
<1> QED
  BY <1>3, <1>6, <1>7, <1>9, <1>10, <1>11, <1>12, <1>13 DEF HeldCounted, HeldOn

\* A channel that is opened takes one slot of its connection and one of the user.
LEMMA HeldMore ==
    ASSUME ListenerInv, NEW c \in Conns, NEW k \in SessionChans, At(k, "none"), SlotsLeft(c),
           connSlots' = [connSlots EXCEPT ![c] = @ + 1], userSlots' = userSlots + 1,
           chan' = [chan EXCEPT ![k].pc = "setup", ![k].conn = c]
    PROVE  HeldCounted' /\ Holders' = Holders \cup {k}
<1>1. /\ IsFiniteSet(Holders) /\ userSlots = Cardinality(Holders)
      /\ \A d \in Conns : connSlots[d] = Cardinality(HeldOn(d)) /\ connSlots[d] <= PerConn
      /\ connSlots \in [Conns -> Nat] /\ userSlots \in Nat /\ userSlots < PerUser
      /\ connSlots[c] < PerConn
  BY DEF ListenerInv, HeldCounted, ListenerTyped, SlotsLeft
<1>2. /\ \A j \in SessionChans : j # k => chan'[j].pc = chan[j].pc /\ chan'[j].conn = chan[j].conn
      /\ chan'[k].pc = "setup" /\ chan'[k].conn = c
  BY DEF ListenerInv, ListenerTyped, ChanType
<1>3. Holders' = Holders \cup {k} /\ k \notin Holders
  BY <1>2 DEF Holders, At
<1>4. \A d \in Conns : IsFiniteSet(HeldOn(d)) /\ k \notin HeldOn(d)
  BY <1>1, <1>3, FS_Subset DEF HeldOn
<1>5. IsFiniteSet(Holders') /\ Cardinality(Holders') = userSlots + 1
  BY <1>1, <1>3, FS_AddElement
<1>6. ASSUME NEW d \in Conns
      PROVE  /\ connSlots'[d] = Cardinality({j \in Holders' : chan'[j].conn = d})
             /\ connSlots'[d] <= PerConn
  <2>1. CASE d = c
    <3>1. {j \in Holders' : chan'[j].conn = d} = HeldOn(c) \cup {k}
      BY <1>2, <1>3, <2>1 DEF HeldOn, Holders
    <3>2. Cardinality(HeldOn(c) \cup {k}) = Cardinality(HeldOn(c)) + 1
      BY <1>4, FS_AddElement
    <3>3. connSlots'[c] = connSlots[c] + 1
      BY <1>1
    <3>4. connSlots[c] + 1 <= PerConn
      BY <1>1, ListenerAssumption
    <3> QED
      BY <1>1, <2>1, <3>1, <3>2, <3>3, <3>4
  <2>2. CASE d # c
    <3>1. {j \in Holders' : chan'[j].conn = d} = HeldOn(d)
      BY <1>2, <1>3, <2>2 DEF HeldOn, Holders
    <3>2. connSlots'[d] = connSlots[d]
      BY <1>1, <2>2
    <3> QED
      BY <1>1, <3>1, <3>2
  <2> QED
    BY <2>1, <2>2
<1>7. \A j \in Holders' : chan'[j].conn \in Conns
  BY <1>2, <1>3 DEF ListenerInv, HeldCounted, Holders
<1>8. userSlots' <= PerUser
  BY <1>1, ListenerAssumption
<1> QED
  BY <1>3, <1>5, <1>6, <1>7, <1>8 DEF HeldCounted, HeldOn

LEMMA ConnStep ==
    ASSUME ListenerInv, NEW c \in Conns, Accept(c) \/ Handshake(c) \/ AuditLogin(c) \/ ConnDrops(c)
    PROVE  ListenerInv'
<1>1. /\ ListenerTyped /\ IsFiniteSet(Greeting) /\ preAuth = Cardinality(Greeting)
      /\ preAuth <= PreAuth /\ PreAuth \in Nat
  BY ListenerAssumption DEF ListenerInv, GreetingCounted
<1>2. CASE Accept(c)
  <2>1. HeldCounted' /\ Holders' = Holders
    BY <1>2, HeldKept DEF Accept, chans
  <2>2. ListenerTyped'
    BY <1>1, <1>2 DEF Accept, chans, ListenerTyped, ConnSteps, PreAuthFree
  <2>3. GreetingCounted'
    <3>1. CASE PreAuthFree /\ preAuth' = preAuth + 1 /\ conn' = [conn EXCEPT ![c] = "handshake"]
      <4>1. Greeting' = Greeting \cup {c} /\ c \notin Greeting
        BY <1>1, <1>2, <3>1 DEF Greeting, Accept, ListenerTyped
      <4>2. IsFiniteSet(Greeting') /\ Cardinality(Greeting') = Cardinality(Greeting) + 1
        BY <1>1, <4>1, FS_AddElement
      <4> QED
        BY <1>1, <3>1, <4>2 DEF GreetingCounted, PreAuthFree, ListenerTyped
    <3>2. CASE conn' = [conn EXCEPT ![c] = "closed"] /\ UNCHANGED preAuth
      <4>1. Greeting' = Greeting
        BY <1>1, <1>2, <3>2 DEF Greeting, Accept, ListenerTyped
      <4> QED
        BY <1>1, <3>2, <4>1 DEF GreetingCounted
    <3> QED
      BY <1>2, <3>1, <3>2 DEF Accept
  <2>4. ListenerLogged'
    BY <1>1, <1>2, <2>1 DEF Accept, chans, ListenerInv, ListenerLogged, ListenerTyped
  <2> QED
    BY <2>1, <2>2, <2>3, <2>4 DEF ListenerInv
<1>3. CASE Handshake(c)
  <2>1. HeldCounted' /\ Holders' = Holders
    BY <1>3, HeldKept DEF Handshake, chans
  <2>2. PICK to \in {"audit", "closed"} : conn' = [conn EXCEPT ![c] = to]
    BY <1>3 DEF Handshake
  <2>3. Greeting' = Greeting \ {c} /\ c \in Greeting
    BY <1>1, <1>3, <2>2 DEF Greeting, Handshake, ListenerTyped
  <2>4. IsFiniteSet(Greeting') /\ Cardinality(Greeting') = preAuth - 1
    BY <1>1, <2>3, FS_RemoveElement
  <2>5. Cardinality(Greeting') \in Nat
    BY <2>4, FS_CardinalityType
  <2>6. preAuth' = preAuth - 1
    BY <1>3 DEF Handshake
  <2>7. GreetingCounted'
    BY <1>1, <2>4, <2>6 DEF GreetingCounted, ListenerTyped
  <2>8. ListenerTyped'
    BY <1>1, <1>3, <2>2, <2>4, <2>5, <2>6 DEF Handshake, chans, ListenerTyped, ConnSteps
  <2>9. ListenerLogged'
    BY <1>1, <1>3, <2>1, <2>2 DEF Handshake, chans, ListenerInv, ListenerLogged, ListenerTyped
  <2> QED
    BY <2>1, <2>7, <2>8, <2>9 DEF ListenerInv
<1>4. CASE AuditLogin(c)
  <2>1. HeldCounted' /\ Holders' = Holders
    BY <1>4, HeldKept DEF AuditLogin, chans
  <2>2. ListenerTyped'
    BY <1>1, <1>4 DEF AuditLogin, chans, ListenerTyped, ConnSteps
  <2>3. Greeting' = Greeting
    BY <1>1, <1>4 DEF Greeting, AuditLogin, ListenerTyped
  <2>4. GreetingCounted'
    BY <1>1, <1>4, <2>3 DEF AuditLogin, GreetingCounted
  <2>5. ListenerLogged'
    BY <1>1, <1>4, <2>1 DEF AuditLogin, chans, ListenerInv, ListenerLogged, ListenerTyped
  <2> QED
    BY <2>1, <2>2, <2>4, <2>5 DEF ListenerInv
<1>5. CASE ConnDrops(c)
  <2>1. \A k \in SessionChans :
           /\ chan'[k].pc = chan[k].pc /\ chan'[k].conn = chan[k].conn
           /\ chan'[k] \in ChanType
    BY <1>1, <1>5, ZenonT(40) DEF ConnDrops, ListenerTyped, ChanType
  <2>2. HeldCounted' /\ Holders' = Holders
    BY <1>5, <2>1, HeldKept DEF ConnDrops
  <2>3. ListenerTyped'
    <3>1. chan' \in [SessionChans -> ChanType]
      BY <1>5, <2>1 DEF ConnDrops
    <3> QED
      BY <1>1, <1>5, <3>1 DEF ConnDrops, ListenerTyped, ConnSteps
  <2>4. Greeting' = Greeting
    BY <1>1, <1>5 DEF Greeting, ConnDrops, ListenerTyped
  <2>5. GreetingCounted'
    BY <1>1, <1>5, <2>4 DEF ConnDrops, GreetingCounted
  <2>6. ListenerLogged'
    BY <1>1, <1>5, <2>1, <2>2 DEF ConnDrops, ListenerInv, ListenerLogged, ListenerTyped, Holders
  <2> QED
    BY <2>2, <2>3, <2>5, <2>6 DEF ListenerInv
<1> QED
  BY <1>2, <1>3, <1>4, <1>5

\* A step of one channel that takes or gives no slot: its control state moves among
\* those that hold one, and what it writes to the log comes with its step.
LEMMA ChannelStep ==
    ASSUME ListenerInv, NEW k \in SessionChans, k \in Holders,
           UNCHANGED <<conn, preAuth, connSlots, userSlots>>,
           NEW r \in ChanType, chan' = [chan EXCEPT ![k] = r],
           r.pc \notin {"none", "over"}, r.conn = chan[k].conn,
           registered' \subseteq SessionChans, logged \subseteq logged',
           r.pc \in {"start", "running"} => <<"start", k>> \in logged'
    PROVE  ListenerInv'
<1>1. /\ \A j \in SessionChans : j # k => chan'[j] = chan[j]
      /\ chan'[k] = r
  BY DEF ListenerInv, ListenerTyped
<1>2. HeldCounted' /\ Holders' = Holders
  <2>1. \A j \in SessionChans :
           /\ chan'[j].pc \in {"none", "over"} <=> chan[j].pc \in {"none", "over"}
           /\ chan'[j].conn = chan[j].conn
    BY <1>1 DEF Holders
  <2> QED
    BY <2>1, HeldKept
<1>3. ListenerTyped'
  BY DEF ListenerInv, ListenerTyped
<1>4. GreetingCounted'
  BY DEF ListenerInv, GreetingCounted, Greeting
<1>5. ListenerLogged'
  <2>1. \A j \in Holders : chan'[j].conn = chan[j].conn
    BY <1>1 DEF Holders
  <2>2. \A j \in SessionChans : chan'[j].pc \in {"start", "running"} => <<"start", j>> \in logged'
    BY <1>1 DEF ListenerInv, ListenerLogged
  <2> QED
    BY <1>2, <2>1, <2>2 DEF ListenerInv, ListenerLogged
<1> QED
  BY <1>2, <1>3, <1>4, <1>5 DEF ListenerInv

\* A channel that ends and gives its slots back.
LEMMA ReleaseStep ==
    ASSUME ListenerInv, NEW k \in SessionChans, k \in Holders, Goto(k, "over"), Release(k),
           UNCHANGED <<conn, preAuth, registered, logged>>
    PROVE  ListenerInv'
<1>1. HeldCounted' /\ Holders' = Holders \ {k} /\ connSlots' \in [Conns -> Nat] /\ userSlots' \in Nat
  BY HeldLess
<1>2. /\ \A j \in SessionChans : chan'[j].conn = chan[j].conn
      /\ \A j \in SessionChans : j # k => chan'[j] = chan[j]
      /\ chan'[k].pc = "over" /\ chan' \in [SessionChans -> ChanType]
  BY DEF Goto, ListenerInv, ListenerTyped, ChanType, ChanSteps
<1>3. ListenerTyped'
  BY <1>1, <1>2 DEF ListenerInv, ListenerTyped
<1>4. GreetingCounted'
  BY DEF ListenerInv, GreetingCounted, Greeting
<1>5. ListenerLogged'
  BY <1>1, <1>2 DEF ListenerInv, ListenerLogged, Holders
<1> QED
  BY <1>1, <1>3, <1>4, <1>5 DEF ListenerInv

LEMMA SessionChanStep ==
    ASSUME ListenerInv, NEW k \in SessionChans,
           \/ SetupFails(k) \/ Register(k) \/ RequestShell(k) \/ RequestEnv(k) \/ ClientCloses(k)
           \/ SessionStep(k) \/ ProcessExits(k)
    PROVE  ListenerInv'
<1>0. ListenerTyped /\ ListenerLogged /\ chan[k] \in ChanType
  BY DEF ListenerInv, ListenerTyped
<1>1. CASE SetupFails(k)
  BY <1>1, ReleaseStep DEF SetupFails, At, Holders
<1>2. ASSUME Register(k) PROVE ListenerInv'
  <2> DEFINE r == [chan[k] EXCEPT !.pc = "wait", !.master = TRUE]
  <2>1. r \in ChanType /\ r.pc \notin {"none", "over"} /\ r.conn = chan[k].conn
    BY <1>0, <1>2 DEF Register, At, ChanType, ChanSteps
  <2>2. chan' = [chan EXCEPT ![k] = r] /\ k \in Holders
    BY <1>0, <1>2 DEF Register, At, Holders
  <2>3. /\ UNCHANGED <<conn, preAuth, connSlots, userSlots, logged>>
        /\ registered' \subseteq SessionChans
    BY <1>0, <1>2 DEF Register, ListenerTyped
  <2>4. r.pc \in {"start", "running"} => <<"start", k>> \in logged
    BY <1>0, <1>2 DEF Register, At, ListenerLogged
  <2> HIDE DEF r
  <2> QED
    BY <2>1, <2>2, <2>3, <2>4, ChannelStep
<1>3. ASSUME RequestShell(k) PROVE ListenerInv'
  <2> DEFINE r == [chan[k] EXCEPT !.shell = TRUE]
  <2>1. r \in ChanType /\ r.pc \notin {"none", "over"} /\ r.conn = chan[k].conn
    BY <1>0, <1>3 DEF RequestShell, Serving, ChanType, ChanSteps
  <2>2. chan' = [chan EXCEPT ![k] = r] /\ k \in Holders
    BY <1>0, <1>3 DEF RequestShell, Serving, Holders
  <2>3. /\ UNCHANGED <<conn, preAuth, connSlots, userSlots, logged>>
        /\ registered' \subseteq SessionChans
    BY <1>0, <1>3 DEF RequestShell, ListenerTyped
  <2>4. r.pc \in {"start", "running"} => <<"start", k>> \in logged
    BY <1>0, <1>3 DEF RequestShell, Serving, ListenerLogged
  <2> HIDE DEF r
  <2> QED
    BY <2>1, <2>2, <2>3, <2>4, ChannelStep
<1>4. ASSUME RequestEnv(k) PROVE ListenerInv'
  <2> DEFINE r == [chan[k] EXCEPT !.env = TRUE]
  <2>1. r \in ChanType /\ r.pc \notin {"none", "over"} /\ r.conn = chan[k].conn
    BY <1>0, <1>4 DEF RequestEnv, Serving, ChanType, ChanSteps
  <2>2. chan' = [chan EXCEPT ![k] = r] /\ k \in Holders
    BY <1>0, <1>4 DEF RequestEnv, Serving, Holders
  <2>3. /\ UNCHANGED <<conn, preAuth, connSlots, userSlots, logged>>
        /\ registered' \subseteq SessionChans
    BY <1>0, <1>4 DEF RequestEnv, ListenerTyped
  <2>4. r.pc \in {"start", "running"} => <<"start", k>> \in logged
    BY <1>0, <1>4 DEF RequestEnv, Serving, ListenerLogged
  <2> HIDE DEF r
  <2> QED
    BY <2>1, <2>2, <2>3, <2>4, ChannelStep
<1>5. ASSUME ClientCloses(k) PROVE ListenerInv'
  <2> DEFINE r == [chan[k] EXCEPT !.open = FALSE]
  <2>1. r \in ChanType /\ r.pc \notin {"none", "over"} /\ r.conn = chan[k].conn
    BY <1>0, <1>5 DEF ClientCloses, Serving, ChanType, ChanSteps
  <2>2. chan' = [chan EXCEPT ![k] = r] /\ k \in Holders
    BY <1>0, <1>5 DEF ClientCloses, Serving, Holders
  <2>3. /\ UNCHANGED <<conn, preAuth, connSlots, userSlots, logged>>
        /\ registered' \subseteq SessionChans
    BY <1>0, <1>5 DEF ClientCloses, ListenerTyped
  <2>4. r.pc \in {"start", "running"} => <<"start", k>> \in logged
    BY <1>0, <1>5 DEF ClientCloses, Serving, ListenerLogged
  <2> HIDE DEF r
  <2> QED
    BY <2>1, <2>2, <2>3, <2>4, ChannelStep
<1>6. ASSUME AwaitShell(k) PROVE ListenerInv'
  <2> DEFINE r == [chan[k] EXCEPT !.pc = IF chan[k].shell THEN "audit" ELSE "close"]
  <2>1. r \in ChanType /\ r.pc \notin {"none", "over"} /\ r.conn = chan[k].conn
    BY <1>0, <1>6 DEF AwaitShell, At, Goto, ChanType, ChanSteps
  <2>2. chan' = [chan EXCEPT ![k] = r] /\ k \in Holders
    BY <1>0, <1>6 DEF AwaitShell, At, Goto, Holders
  <2>3. /\ UNCHANGED <<conn, preAuth, connSlots, userSlots, logged>>
        /\ registered' \subseteq SessionChans
    BY <1>0, <1>6 DEF AwaitShell, ListenerTyped
  <2>4. r.pc \in {"start", "running"} => <<"start", k>> \in logged
    BY <1>0, <1>6 DEF AwaitShell, At, Goto, ListenerLogged
  <2> HIDE DEF r
  <2> QED
    BY <2>1, <2>2, <2>3, <2>4, ChannelStep
<1>7. ASSUME HangUp(k) PROVE ListenerInv'
  <2> DEFINE r == [chan[k] EXCEPT !.master = FALSE]
  <2>1. r \in ChanType /\ r.pc \notin {"none", "over"} /\ r.conn = chan[k].conn
    BY <1>0, <1>7 DEF HangUp, ChanType, ChanSteps
  <2>2. chan' = [chan EXCEPT ![k] = r] /\ k \in Holders
    BY <1>0, <1>7 DEF HangUp, Holders
  <2>3. /\ UNCHANGED <<conn, preAuth, connSlots, userSlots, logged>>
        /\ registered' \subseteq SessionChans
    BY <1>0, <1>7 DEF HangUp, ListenerTyped
  <2>4. r.pc \in {"start", "running"} => <<"start", k>> \in logged
    BY <1>0, <1>7 DEF HangUp, ListenerLogged
  <2> HIDE DEF r
  <2> QED
    BY <2>1, <2>2, <2>3, <2>4, ChannelStep
<1>8. ASSUME ProcessExits(k) PROVE ListenerInv'
  <2> DEFINE r == [chan[k] EXCEPT !.pc = "drain"]
  <2>1. r \in ChanType /\ r.pc \notin {"none", "over"} /\ r.conn = chan[k].conn
    BY <1>0, <1>8 DEF ProcessExits, At, Goto, ChanType, ChanSteps
  <2>2. chan' = [chan EXCEPT ![k] = r] /\ k \in Holders
    BY <1>0, <1>8 DEF ProcessExits, At, Goto, Holders
  <2>3. /\ UNCHANGED <<conn, preAuth, connSlots, userSlots, logged>>
        /\ registered' \subseteq SessionChans
    BY <1>0, <1>8 DEF ProcessExits, ListenerTyped
  <2>4. r.pc \in {"start", "running"} => <<"start", k>> \in logged
    BY <1>0, <1>8 DEF ProcessExits, At, Goto, ListenerLogged
  <2> HIDE DEF r
  <2> QED
    BY <2>1, <2>2, <2>3, <2>4, ChannelStep
<1>9. ASSUME EndSession(k) PROVE ListenerInv'
  <2> DEFINE r == [chan[k] EXCEPT !.pc = "close"]
  <2>1. r \in ChanType /\ r.pc \notin {"none", "over"} /\ r.conn = chan[k].conn
    BY <1>0, <1>9 DEF EndSession, At, Goto, ChanType, ChanSteps
  <2>2. chan' = [chan EXCEPT ![k] = r] /\ k \in Holders
    BY <1>0, <1>9 DEF EndSession, At, Goto, Holders
  <2>3. /\ UNCHANGED <<conn, preAuth, connSlots, userSlots, logged>>
        /\ registered' \subseteq SessionChans
    BY <1>0, <1>9 DEF EndSession, ListenerTyped
  <2>4. r.pc \in {"start", "running"} => <<"start", k>> \in logged
    BY <1>0, <1>9 DEF EndSession, At, Goto, ListenerLogged
  <2> HIDE DEF r
  <2> QED
    BY <2>1, <2>2, <2>3, <2>4, ChannelStep
<1>10. ASSUME AuditStart(k) PROVE ListenerInv'
  <2>1. PICK pc \in {"start", "close"} : Goto(k, pc) /\ (pc = "start" => <<"start", k>> \in logged')
    BY <1>0, <1>10 DEF AuditStart, At, Goto, ListenerLogged
  <2> DEFINE r == [chan[k] EXCEPT !.pc = pc]
  <2>2. r \in ChanType /\ r.pc = pc /\ r.conn = chan[k].conn
    BY <1>0 DEF ChanType, ChanSteps
  <2>3. chan' = [chan EXCEPT ![k] = r] /\ k \in Holders
    BY <1>0, <1>10, <2>1 DEF AuditStart, At, Goto, Holders
  <2>4. /\ UNCHANGED <<conn, preAuth, connSlots, userSlots, registered>>
        /\ logged \subseteq logged'
    BY <1>10 DEF AuditStart
  <2> HIDE DEF r
  <2> QED
    BY <1>0, <2>1, <2>2, <2>3, <2>4, ChannelStep DEF ListenerTyped
<1>11. ASSUME Spawn(k) PROVE ListenerInv'
  <2>1. PICK pc \in {"running", "drain"} : Goto(k, pc) /\ (pc = "running" => <<"start", k>> \in logged')
    BY <1>0, <1>11 DEF Spawn, At, Goto, ListenerLogged
  <2> DEFINE r == [chan[k] EXCEPT !.pc = pc]
  <2>2. r \in ChanType /\ r.pc = pc /\ r.conn = chan[k].conn
    BY <1>0 DEF ChanType, ChanSteps
  <2>3. chan' = [chan EXCEPT ![k] = r] /\ k \in Holders
    BY <1>0, <1>11, <2>1 DEF Spawn, At, Goto, Holders
  <2>4. /\ UNCHANGED <<conn, preAuth, connSlots, userSlots, registered>>
        /\ logged \subseteq logged'
    BY <1>11 DEF Spawn
  <2> HIDE DEF r
  <2> QED
    BY <1>0, <2>1, <2>2, <2>3, <2>4, ChannelStep DEF ListenerTyped
<1>12. ASSUME CloseSession(k) PROVE ListenerInv'
  <2>1. CASE At(k, "release")
    BY <1>12, <2>1, ReleaseStep DEF CloseSession, At, Holders
  <2>2. CASE At(k, "close")
    <3> DEFINE r == [chan[k] EXCEPT !.pc = "release", !.master = FALSE, !.open = FALSE]
    <3>1. r \in ChanType /\ r.pc = "release" /\ r.conn = chan[k].conn
      BY <1>0 DEF ChanType, ChanSteps
    <3>2. chan' = [chan EXCEPT ![k] = r] /\ k \in Holders
      BY <1>0, <1>12, <2>2 DEF CloseSession, At, Holders
    <3> QED
      BY <1>0, <1>12, <2>2, <3>1, <3>2, ChannelStep DEF CloseSession, At, ListenerTyped
  <2> QED
    BY <1>12, <2>1, <2>2 DEF CloseSession
<1> QED
  BY <1>1, <1>2, <1>3, <1>4, <1>5, <1>6, <1>7, <1>8, <1>9, <1>10, <1>11, <1>12 DEF SessionStep

LEMMA OpenStep ==
    ASSUME ListenerInv, NEW c \in Conns, NEW k \in SessionChans, OpenSession(c, k)
    PROVE  ListenerInv'
<1>1. /\ ListenerTyped /\ ListenerLogged /\ chan[k] \in ChanType
      /\ conn[c] = "open" /\ At(k, "none")
      /\ UNCHANGED <<conn, preAuth, registered, logged>>
  BY DEF ListenerInv, ListenerTyped, OpenSession
<1>2. GreetingCounted'
  BY <1>1 DEF ListenerInv, GreetingCounted, Greeting
<1>3. ASSUME SlotsLeft(c), connSlots' = [connSlots EXCEPT ![c] = @ + 1],
             userSlots' = userSlots + 1, chan' = [chan EXCEPT ![k].pc = "setup", ![k].conn = c]
      PROVE  ListenerInv'
  <2>1. HeldCounted' /\ Holders' = Holders \cup {k}
    BY <1>1, <1>3, HeldMore
  <2>2. /\ \A j \in SessionChans : j # k => chan'[j] = chan[j]
        /\ chan'[k].pc = "setup" /\ chan'[k].conn = c /\ chan' \in [SessionChans -> ChanType]
    BY <1>1, <1>3 DEF ListenerTyped, ChanType, ChanSteps
  <2>3. ListenerTyped'
    BY <1>1, <1>3, <2>2 DEF ListenerTyped
  <2>4. ListenerLogged'
    BY <1>1, <2>1, <2>2 DEF ListenerLogged, Holders
  <2> QED
    BY <1>2, <2>1, <2>3, <2>4 DEF ListenerInv
<1>4. ASSUME Goto(k, "over"), UNCHANGED <<connSlots, userSlots>> PROVE ListenerInv'
  <2>1. /\ \A j \in SessionChans : j # k => chan'[j] = chan[j]
        /\ chan'[k].pc = "over" /\ chan'[k].conn = chan[k].conn
        /\ chan' \in [SessionChans -> ChanType]
    BY <1>1, <1>4 DEF Goto, ListenerTyped, ChanType, ChanSteps
  <2>2. HeldCounted' /\ Holders' = Holders
    <3>1. \A j \in SessionChans :
             /\ chan'[j].pc \in {"none", "over"} <=> chan[j].pc \in {"none", "over"}
             /\ chan'[j].conn = chan[j].conn
      BY <1>1, <2>1 DEF At
    <3> QED
      BY <1>4, <3>1, HeldKept
  <2>3. ListenerTyped'
    BY <1>1, <1>4, <2>1 DEF ListenerTyped
  <2>4. ListenerLogged'
    BY <1>1, <2>1, <2>2 DEF ListenerLogged, Holders
  <2> QED
    BY <1>2, <2>2, <2>3, <2>4 DEF ListenerInv
<1> QED
  BY <1>3, <1>4 DEF OpenSession

LEMMA ListenerStep == ListenerInv /\ [ListenerNext]_listenerVars => ListenerInv'
<1> SUFFICES ASSUME ListenerInv, [ListenerNext]_listenerVars PROVE ListenerInv'
  OBVIOUS
<1>1. ASSUME UNCHANGED <<conn, preAuth, chans, logged>> PROVE ListenerInv'
  BY <1>1 DEF chans, ListenerInv, ListenerTyped, GreetingCounted, Greeting, HeldCounted, Holders,
              HeldOn, ListenerLogged
<1>2. CASE StopAccepting \/ UNCHANGED listenerVars
  BY <1>1, <1>2 DEF StopAccepting, listenerVars, chans
<1> QED
  BY <1>2, ConnStep, OpenStep, SessionChanStep DEF ListenerNext

\* What a client set before its shell was accepted is not changed afterwards.
LEMMA EnvStep ==
    ASSUME ListenerTyped, [ListenerNext]_listenerVars, NEW k \in SessionChans, chan[k].shell
    PROVE  chan'[k].env = chan[k].env
<1> USE DEF ListenerTyped, ChanType
<1>1. CASE UNCHANGED chan
  BY <1>1
<1>2. ASSUME NEW c \in Conns, ConnDrops(c) PROVE chan'[k].env = chan[k].env
  BY <1>2 DEF ConnDrops
<1>3. ASSUME NEW c \in Conns, NEW j \in SessionChans, OpenSession(c, j)
      PROVE  chan'[k].env = chan[k].env
  BY <1>3 DEF OpenSession, Goto
<1>4. ASSUME NEW j \in SessionChans, SetupFails(j) \/ Register(j) \/ RequestShell(j) \/ ClientCloses(j)
      PROVE  chan'[k].env = chan[k].env
  BY <1>4 DEF SetupFails, Register, RequestShell, ClientCloses, Goto
<1>5. ASSUME NEW j \in SessionChans, RequestEnv(j) PROVE chan'[k].env = chan[k].env
  BY <1>5 DEF RequestEnv
<1>6. ASSUME NEW j \in SessionChans, SessionStep(j) \/ ProcessExits(j)
      PROVE  chan'[k].env = chan[k].env
  BY <1>6 DEF SessionStep, AwaitShell, AuditStart, Spawn, HangUp, EndSession, CloseSession,
              ProcessExits, Goto
<1> QED
  BY <1>1, <1>2, <1>3, <1>4, <1>5, <1>6
     DEF ListenerNext, listenerVars, Accept, Handshake, AuditLogin, StopAccepting, chans

\* Handshakes, sessions of a connection and sessions of a login name are counted
\* exactly and never above their caps: a slot comes back on every way out of
\* handshake and serveSessionChannel, for any number of connections and channels.
THEOREM SlotsAreExact == ListenerSpec => [](ListenerTypeOK /\ PreAuthExact /\ SlotsExact)
<1>1. ListenerInit => ListenerInv
  BY ListenerStart
<1>2. ListenerInv /\ [ListenerNext]_listenerVars => ListenerInv'
  BY ListenerStep
<1>3. ListenerInv => ListenerTypeOK /\ PreAuthExact /\ SlotsExact
  BY ListenerSafe
<1> QED
  BY <1>1, <1>2, <1>3, PTL DEF ListenerSpec

\* A session process is started only with the login of its connection and its own
\* start in the audit log (SSH_LOGIN_OK, SSH_SESSION_START).
THEOREM ProcessesAreOnRecord == ListenerSpec => []RunsOnRecord
<1>1. ListenerInit => ListenerInv
  BY ListenerStart
<1>2. ListenerInv /\ [ListenerNext]_listenerVars => ListenerInv'
  BY ListenerStep
<1>3. ListenerInv => RunsOnRecord
  BY ListenerSafe
<1> QED
  BY <1>1, <1>2, <1>3, PTL DEF ListenerSpec

\* Once the shell request is accepted no later env request reaches the session.
THEOREM EnvStaysFrozen == ListenerSpec => EnvFrozen
<1>1. ListenerInit => ListenerInv
  BY ListenerStart
<1>2. ListenerInv /\ [ListenerNext]_listenerVars => ListenerInv'
  BY ListenerStep
<1>3. ListenerInv /\ [ListenerNext]_listenerVars
         => [\A k \in SessionChans : chan[k].shell => chan'[k].env = chan[k].env]_listenerVars
  BY EnvStep DEF ListenerInv
<1> QED
  BY <1>1, <1>2, <1>3, PTL DEF ListenerSpec, EnvFrozen

-----------------------------------------------------------------------------
(* Shell.                                                                  *)

Fresh == {"gate", "begin"}
Busy == {"run", "confirm"}
Resting == {"prompt", "trap", "ended"}

\* The rest of a body: its last statements, in their order.
RestOf(q, w) ==
    q \in Seq(Elements(w)) /\ Len(q) <= Len(w) /\ \A i \in 1 .. Len(q) : q[i] = w[Len(w) - Len(q) + i]

\* A line and a chunk as they are written.
ChunkSound(c) == \A b \in BodyNames : c[b] \in Seq(Elements(c[b]))
LineSound(l) == l \in Seq(Elements(l)) /\ Apart(l) /\ \A n \in 1 .. Len(l) : ChunkSound(l[n])

\* At rest the session shows nothing; the trap is run without being shown.
RestSound ==
    /\ spot # "star" => thread = Quiet
    /\ spot \in Resting => shows = NoCommand
    /\ spot \notin Resting => line # <<>> /\ ~story.stopped
    /\ \A n \in 1 .. Len(line) : line[n].form = "trap" =>
          n = 1 /\ shows = NoCommand /\ spot \in Busy \cup {"gate", "end"}
    /\ trapExit = <<>> \/ trapExit \in Traps

\* The body that runs, and why it was entered.
BodySound ==
    /\ DOMAIN body = {"name", "todo"} /\ DOMAIN story = {"ended", "denied", "stopped"}
    /\ spot \notin Busy => body.name \in {"none", "a"}
    /\ spot \in Busy => /\ body.name \in BodyNames
                        /\ RestOf(body.todo, Chunk[body.name])
                        /\ Chunk[body.name] \in Elements(ShellBodies(Chunk))
                        /\ Decls(Chunk) \subseteq DOMAIN gates
    /\ spot = "confirm" => body.todo # <<>> /\ Head(body.todo).kind = "confirm"
    /\ BranchForCause

Ungated(q) == \A i \in 1 .. Len(q) : q[i].kind # "decl" => q[i] \notin DOMAIN gates

\* What was gated was gated once, and what is still to come was not: the later chunks, the
\* other bodies of this one, and what is left of the body but for its declarations.
GateSound ==
    /\ ran \subseteq DOMAIN gates /\ \A s \in DOMAIN gates : gates[s] = 1
    /\ \A n \in 1 .. Len(line), b \in BodyNames : n > 1 \/ spot \in Fresh =>
          \A i \in 1 .. Len(line[n][b]) : line[n][b][i] \notin DOMAIN gates
    /\ spot \in Busy => /\ Ungated(body.todo)
                        /\ body.name = "a" => Ungated(Chunk["b"]) /\ Ungated(Chunk["c"])

ShellInv == LineSound(line) /\ RestSound /\ BodySound /\ GateSound

LEMMA ShellStart == ShellInit => ShellInv
<1> SUFFICES ASSUME ShellInit PROVE ShellInv
  OBVIOUS
<1>1. line = <<>> /\ Len(line) = 0 /\ DOMAIN gates = {} /\ ran = {} /\ spot = "prompt" /\ body = NoBody
  BY DEF ShellInit
<1>2. LineSound(line)
  BY <1>1 DEF LineSound, Apart
<1>3. RestSound
  BY <1>1 DEF RestSound, ShellInit, Resting
<1>4. BodySound
  BY <1>1 DEF BodySound, ShellInit, Busy, NoBody, NoStory, BranchForCause
<1>5. GateSound
  BY <1>1 DEF GateSound, Busy, Fresh
<1> QED
  BY <1>2, <1>3, <1>4, <1>5 DEF ShellInv

\* A line without its first chunk.
LEMMA TailSound ==
  ASSUME NEW l, LineSound(l), l # <<>>
  PROVE  /\ LineSound(Tail(l)) /\ Len(Tail(l)) = Len(l) - 1 /\ Len(l) \in Nat \ {0} /\ Head(l) = l[1]
         /\ \A n \in 1 .. Len(Tail(l)) : n + 1 \in 2 .. Len(l) /\ Tail(l)[n] = l[n + 1]
<1> DEFINE t == Tail(l)
<1>1. /\ t \in Seq(Elements(l)) /\ Len(t) = Len(l) - 1 /\ Len(l) \in Nat \ {0} /\ Head(l) = l[1]
      /\ \A n \in 1 .. Len(t) : n + 1 \in 2 .. Len(l) /\ t[n] = l[n + 1]
  BY DEF LineSound
<1> HIDE DEF t
<1>2. t \in Seq(Elements(t))
  BY <1>1, SMTT(20) DEF Elements
<1>3. \A n \in 1 .. Len(t) : ChunkSound(t[n])
  BY <1>1 DEF LineSound
<1>4. Apart(t)
  <2> SUFFICES ASSUME NEW n \in 1 .. Len(t), NEW m \in 1 .. Len(t), NEW b \in BodyNames, NEW d \in BodyNames,
                      NEW i \in 1 .. Len(t[n][b]), NEW j \in 1 .. Len(t[m][d]), t[n][b][i] = t[m][d][j]
               PROVE  n = m /\ b = d /\ i = j
    BY DEF Apart
  <2>1. t[n] = l[n + 1] /\ t[m] = l[m + 1] /\ n + 1 \in 1 .. Len(l) /\ m + 1 \in 1 .. Len(l)
    BY <1>1
  <2>2. n + 1 = m + 1 /\ b = d /\ i = j
    BY <2>1 DEF LineSound, Apart
  <2> QED
    BY <2>2
<1> QED
  BY <1>1, <1>2, <1>3, <1>4 DEF LineSound, t

\* The rest of a body without its first statement.
LEMMA TailRest ==
  ASSUME NEW w, w \in Seq(Elements(w)), NEW q, RestOf(q, w), q # <<>>
  PROVE  /\ RestOf(Tail(q), w) /\ Len(Tail(q)) = Len(q) - 1 /\ Len(q) \in 1 .. Len(w) /\ Len(w) \in Nat
         /\ Head(q) = w[Len(w) - Len(q) + 1]
         /\ \A i \in 1 .. Len(Tail(q)) : Tail(q)[i] = q[i + 1]
<1>1. q \in Seq(Elements(w)) /\ Len(w) \in Nat
  BY DEF RestOf
<1>2. /\ Tail(q) \in Seq(Elements(w)) /\ Len(Tail(q)) = Len(q) - 1 /\ Len(q) \in Nat \ {0} /\ Head(q) = q[1]
      /\ \A i \in 1 .. Len(Tail(q)) : i + 1 \in 1 .. Len(q) /\ Tail(q)[i] = q[i + 1]
  BY <1>1
<1>3. Len(q) <= Len(w) /\ \A i \in 1 .. Len(q) : q[i] = w[Len(w) - Len(q) + i]
  BY DEF RestOf
<1>4. \A i \in 1 .. Len(Tail(q)) : Tail(q)[i] = w[Len(w) - Len(Tail(q)) + i]
  <2> SUFFICES ASSUME NEW i \in 1 .. Len(Tail(q)) PROVE Tail(q)[i] = w[Len(w) - Len(Tail(q)) + i]
    OBVIOUS
  <2>1. Tail(q)[i] = q[i + 1] /\ i + 1 \in 1 .. Len(q)
    BY <1>2
  <2>2. q[i + 1] = w[Len(w) - Len(q) + (i + 1)]
    BY <1>3, <2>1
  <2>3. Len(w) - Len(q) + (i + 1) = Len(w) - Len(Tail(q)) + i
    BY <1>1, <1>2
  <2> QED
    BY <2>1, <2>2, <2>3
<1>5. Head(q) = w[Len(w) - Len(q) + 1]
  BY <1>2, <1>3
<1> QED
  BY <1>1, <1>2, <1>3, <1>4, <1>5 DEF RestOf

\* A statement of the first chunk that is gated now is at no other place of the line.
LEMMA GatesApart ==
  ASSUME LineSound(line), line # <<>>, NEW b \in BodyNames, NEW k \in 1 .. Len(Chunk[b])
  PROVE  /\ \A n \in 1 .. Len(line), d \in BodyNames : n > 1 \/ d # b =>
               \A i \in 1 .. Len(line[n][d]) : line[n][d][i] # Chunk[b][k]
         /\ \A i \in 1 .. Len(Chunk[b]) : i # k => Chunk[b][i] # Chunk[b][k]
<1>1. Chunk = line[1] /\ 1 \in 1 .. Len(line)
  BY DEF Chunk, LineSound
<1>2. ASSUME NEW n \in 1 .. Len(line), NEW d \in BodyNames, NEW i \in 1 .. Len(line[n][d]), line[n][d][i] = Chunk[b][k]
      PROVE  n = 1 /\ d = b /\ i = k
  BY <1>1, <1>2 DEF LineSound, Apart
<1> QED
  BY <1>1, <1>2

\* The statements of a body that is parsed are in that body and no other.
LEMMA BodiesAre ==
  ASSUME NEW c, NEW q \in Elements(ShellBodies(c)) PROVE \E b \in BodyNames : q = c[b]
BY DEF ShellBodies, Elements, BodyNames

\* A line that stays as it is stays well written.
LEMMA LineStays == LineSound(line') => LineSound(line)'
BY DEF LineSound, Apart, ChunkSound

\* What the loop does between statements changes neither the text nor the gates.
LEMMA BodyKeeps ==
  ASSUME ShellInv, UNCHANGED <<line, gates, ran>>, RestSound', BodySound',
         spot' \in Fresh => spot \in Fresh,
         spot' \in Busy => spot \in Busy /\ body' = body
  PROVE  ShellInv'
<1>1. Chunk' = Chunk
  BY DEF Chunk
<1>2. GateSound'
  BY <1>1 DEF ShellInv, GateSound, Ungated, Busy
<1>3. LineSound(line)'
  BY LineStays DEF ShellInv
<1> QED
  BY <1>2, <1>3 DEF ShellInv

\* What does not touch the body, the text or the gates.
LEMMA LoopKeeps ==
  ASSUME ShellInv,
         CancelShown \/ CtrlC \/ interrupt \/ handleTrap \/ Leave \/ evalStarlarkInterruptible
         \/ beginSessionCommand \/ UNCHANGED shellVars
  PROVE  ShellInv'
<1>0. RestSound /\ BodySound
  BY DEF ShellInv
<1>1. UNCHANGED <<line, gates, ran>>
  BY DEF CancelShown, CtrlC, interrupt, handleTrap, Leave, evalStarlarkInterruptible, beginSessionCommand,
     shellVars, loopVars, ghostVars
<1>2. Chunk' = Chunk
  BY <1>1 DEF Chunk
<1>3. UNCHANGED body
  BY DEF CancelShown, CtrlC, interrupt, handleTrap, Leave, evalStarlarkInterruptible, beginSessionCommand,
     shellVars, loopVars, ghostVars
<1>4. CASE CancelShown \/ CtrlC \/ interrupt \/ handleTrap \/ UNCHANGED shellVars
  <2>1. spot' = spot /\ story' = story
    BY <1>4 DEF CancelShown, CtrlC, interrupt, handleTrap, shellVars, loopVars, ghostVars
  <2>2. BodySound'
    BY <1>0, <1>1, <1>2, <1>3, <2>1 DEF BodySound, BranchForCause
  <2>3. /\ spot # "star" => thread' = Quiet
        /\ shows = NoCommand => shows' = NoCommand
        /\ trapExit' = <<>> \/ trapExit' \in Traps
    BY <1>0, <1>4 DEF RestSound, CancelShown, CtrlC, interrupt, handleTrap, shellVars, loopVars, ghostVars, NoCommand, Quiet
  <2>4. RestSound'
    BY <1>0, <1>1, <2>1, <2>3 DEF RestSound
  <2> QED
    BY <1>1, <1>3, <2>1, <2>2, <2>4, BodyKeeps DEF Busy, Fresh
<1>5. CASE Leave \/ evalStarlarkInterruptible
  <2>1. /\ \/ spot = "prompt" /\ spot' = "trap" /\ thread' = thread
           \/ spot = "star" /\ spot' = "end" /\ thread' = Quiet
        /\ UNCHANGED <<story, shows, trapExit>>
    BY <1>5 DEF Leave, evalStarlarkInterruptible, ghostVars
  <2>2. BodySound'
    BY <1>0, <1>1, <1>2, <1>3, <2>1 DEF BodySound, BranchForCause, Busy
  <2>3. RestSound'
    BY <1>0, <1>1, <2>1 DEF RestSound, Resting, Busy
  <2> QED
    BY <1>1, <1>3, <2>1, <2>2, <2>3, BodyKeeps DEF Busy, Fresh
<1>6. CASE beginSessionCommand
  <2>1. /\ spot = "begin" /\ spot' \in {"star", "gate", "end"}
        /\ spot' # "star" => thread' = thread
        /\ story' = [story EXCEPT !.ended = [b \in {} |-> "ok"]] /\ trapExit' = trapExit
    BY <1>6 DEF beginSessionCommand
  <2>2. BodySound'
    BY <1>0, <1>1, <1>2, <1>3, <2>1 DEF BodySound, BranchForCause, Busy
  <2>3. DOMAIN story = {"ended", "denied", "stopped"}
    BY <1>0 DEF BodySound
  <2>4. story'.stopped = story.stopped
    BY <2>1, <2>3
  <2>5. RestSound'
    BY <1>0, <1>1, <2>1, <2>4 DEF RestSound, Resting, Busy
  <2> QED
    BY <1>1, <1>3, <2>1, <2>2, <2>5, BodyKeeps DEF Busy, Fresh
<1> QED
  BY <1>4, <1>5, <1>6

\* A new line is written as the assumption says, and no statement of it was gated.
LEMMA LineArrives ==
  ASSUME ShellInv, line' \in Lines \/ \E t \in Traps : line' = TrapLine(t),
         line' \in Lines => spot' = "begin" /\ trapExit' = trapExit,
         line' \notin Lines => spot' = "gate" /\ shows = NoCommand /\ trapExit' = <<>>,
         spot \in Resting, gates' = [s \in {} |-> 0], ran' = {}, story' = NoStory,
         UNCHANGED <<shows, thread, body>>
  PROVE  ShellInv'
<1>0. RestSound /\ BodySound
  BY DEF ShellInv
<1>1. /\ line' # <<>> /\ line' \in Seq(Elements(line')) /\ Apart(line')
      /\ \A c \in Elements(line') : \A b \in BodyNames : c[b] \in Seq(Elements(c[b]))
      /\ line' \in Lines => \A c \in Elements(line') : c.form \in {"plain", "source", "star", "try", "if"}
  BY ShellAssumption
<1>2. \A n \in 1 .. Len(line') : line'[n] \in Elements(line')
  BY DEF Elements
<1>3. LineSound(line)'
  <2>1. LineSound(line')
    BY <1>1, <1>2 DEF LineSound, ChunkSound
  <2> QED
    BY <2>1, LineStays
<1>4. \A n \in 1 .. Len(line') : line'[n].form = "trap" => n = 1 /\ spot' = "gate" /\ shows' = NoCommand
  <2> SUFFICES ASSUME NEW n \in 1 .. Len(line'), line'[n].form = "trap"
               PROVE  n = 1 /\ spot' = "gate" /\ shows' = NoCommand
    OBVIOUS
  <2>1. line' \notin Lines
    BY <1>1, <1>2
  <2>2. Len(line') = 1
    BY <2>1 DEF TrapLine
  <2> QED
    BY <2>1, <2>2
<1>5. RestSound'
  BY <1>0, <1>1, <1>4 DEF RestSound, Resting, Busy, NoStory
<1>6. BodySound'
  BY <1>0 DEF BodySound, BranchForCause, Busy, NoStory, Resting
<1>7. GateSound'
  <2>1. DOMAIN gates' = {}
    OBVIOUS
  <2> QED
    BY <2>1 DEF GateSound, Busy
<1> QED
  BY <1>3, <1>5, <1>6, <1>7 DEF ShellInv

LEMMA PrepareKeeps == ASSUME ShellInv, prepareBody PROVE ShellInv'
<1>0. LineSound(line) /\ RestSound /\ BodySound /\ GateSound
  BY DEF ShellInv
<1>1. /\ spot = "gate" /\ spot' \in {"run", "end"} /\ body' = [name |-> "a", todo |-> Chunk.a]
      /\ UNCHANGED <<line, shows, thread, trapExit, ran>> /\ line # <<>>
  BY <1>0 DEF prepareBody, RestSound, Resting
<1>2. /\ DOMAIN gates \subseteq DOMAIN gates' /\ DOMAIN gates' \subseteq DOMAIN gates \cup Decls(Chunk)
      /\ \A s \in DOMAIN gates' : gates'[s] = 1
      /\ spot' = "run" => Decls(Chunk) \subseteq DOMAIN gates'
      /\ DOMAIN story' = {"ended", "denied", "stopped"} /\ story'.stopped = story.stopped
  <2>1. PICK bad \in BOOLEAN :
           /\ gates' = IF bad THEN gates
                       ELSE [s \in DOMAIN gates \cup Decls(Chunk) |-> IF s \in Decls(Chunk) THEN 1 ELSE gates[s]]
           /\ spot' = IF bad THEN "end" ELSE "run"
           /\ story' = [story EXCEPT !.denied = @ \/ bad]
    BY DEF prepareBody
  <2>2. DOMAIN story = {"ended", "denied", "stopped"}
    BY <1>0 DEF BodySound
  <2>3. DOMAIN story' = {"ended", "denied", "stopped"} /\ story'.stopped = story.stopped
    BY <2>1, <2>2
  <2>4. \A s \in DOMAIN gates : gates[s] = 1
    BY <1>0 DEF GateSound
  <2> QED
    BY <2>1, <2>3, <2>4
<1>3. Chunk' = Chunk /\ Chunk = line[1] /\ 1 \in 1 .. Len(line) /\ ChunkSound(Chunk)
  BY <1>0, <1>1 DEF Chunk, LineSound
<1>4. Chunk.a \in Elements(ShellBodies(Chunk))
  BY DEF ShellBodies, Elements
<1>5. RestOf(Chunk.a, Chunk.a)
  <2>1. Chunk.a \in Seq(Elements(Chunk.a))
    BY <1>3 DEF ChunkSound, BodyNames
  <2> QED
    BY <2>1 DEF RestOf
<1>6. BodySound'
  BY <1>1, <1>2, <1>3, <1>4, <1>5 DEF BodySound, BranchForCause, Busy, BodyNames
<1>7. RestSound'
  BY <1>0, <1>1, <1>2 DEF RestSound, Resting, Busy
<1>8. \A s \in Decls(Chunk) : s.kind = "decl" /\ \E b \in BodyNames : \E k \in 1 .. Len(Chunk[b]) : s = Chunk[b][k]
  <2> SUFFICES ASSUME NEW s \in Decls(Chunk)
               PROVE  s.kind = "decl" /\ \E b \in BodyNames : \E k \in 1 .. Len(Chunk[b]) : s = Chunk[b][k]
    OBVIOUS
  <2>1. PICK q \in Elements(ShellBodies(Chunk)) : s \in Elements(q)
    BY DEF Decls
  <2>2. PICK b \in BodyNames : q = Chunk[b]
    BY BodiesAre
  <2> QED
    BY <2>1, <2>2 DEF Decls, Elements
<1>9. GateSound'
  <2>1. \A n \in 1 .. Len(line), b \in BodyNames : n > 1 =>
          \A i \in 1 .. Len(line[n][b]) : line[n][b][i] \notin Decls(Chunk)
    <3> SUFFICES ASSUME NEW n \in 1 .. Len(line), NEW b \in BodyNames, n > 1, NEW i \in 1 .. Len(line[n][b]),
                        line[n][b][i] \in Decls(Chunk)
                 PROVE  FALSE
      OBVIOUS
    <3>1. PICK d \in BodyNames : \E k \in 1 .. Len(Chunk[d]) : line[n][b][i] = Chunk[d][k]
      BY <1>8
    <3> QED
      BY <1>0, <1>1, <3>1, GatesApart
  <2>2. \A b \in BodyNames : Ungated(Chunk[b])'
    <3> SUFFICES ASSUME NEW b \in BodyNames, NEW i \in 1 .. Len(Chunk[b]), Chunk[b][i].kind # "decl"
                 PROVE  Chunk[b][i] \notin DOMAIN gates'
      BY <1>3 DEF Ungated
    <3>1. Chunk[b][i] \notin DOMAIN gates
      BY <1>0, <1>1, <1>3 DEF GateSound, Fresh
    <3> QED
      BY <1>2, <1>8, <3>1
  <2>3. \A n \in 1 .. Len(line), b \in BodyNames : n > 1 =>
          \A i \in 1 .. Len(line[n][b]) : line[n][b][i] \notin DOMAIN gates'
    BY <1>0, <1>2, <2>1 DEF GateSound
  <2>4. ran' \subseteq DOMAIN gates' /\ \A s \in DOMAIN gates' : gates'[s] = 1
    BY <1>0, <1>1, <1>2 DEF GateSound
  <2>5. body'.todo = Chunk["a"] /\ spot' \notin Fresh
    BY <1>1 DEF Fresh
  <2>6. Ungated(body.todo)'
    BY <1>3, <2>2, <2>5 DEF Ungated, BodyNames
  <2>7. Ungated(Chunk["b"])' /\ Ungated(Chunk["c"])'
    BY <2>2 DEF BodyNames
  <2> QED
    BY <1>1, <2>3, <2>4, <2>5, <2>6, <2>7 DEF GateSound
<1>10. LineSound(line)'
  BY <1>0, <1>1, LineStays
<1> QED
  BY <1>6, <1>7, <1>9, <1>10 DEF ShellInv

\* A statement has ended: it was gated now, or before, or did not run.
LEMMA StatementEnds ==
  ASSUME ShellInv, spot \in Busy, spot' = "run", body.todo # <<>>, NEW r, Then(r),
         UNCHANGED <<line, shows, thread, trapExit>>,
         \/ gates' = gates /\ ran' = ran
         \/ gates' = gates /\ Head(body.todo).kind = "decl" /\ ran' = ran \cup {Head(body.todo)}
         \/ gates' = Gated(Head(body.todo)) /\ Head(body.todo).kind # "decl" /\ ran' = ran \cup {Head(body.todo)}
  PROVE  ShellInv'
<1> DEFINE s == Head(body.todo)  w == Chunk[body.name]
<1>0. LineSound(line) /\ RestSound /\ BodySound /\ GateSound
  BY DEF ShellInv
<1>1. /\ body.name \in BodyNames /\ RestOf(body.todo, w) /\ w \in Elements(ShellBodies(Chunk)) /\ line # <<>>
      /\ Decls(Chunk) \subseteq DOMAIN gates /\ DOMAIN body = {"name", "todo"} /\ DOMAIN story = {"ended", "denied", "stopped"}
  BY <1>0 DEF BodySound, RestSound, Busy, Resting
<1>2. Chunk' = Chunk /\ Chunk = line[1] /\ 1 \in 1 .. Len(line) /\ ChunkSound(Chunk)
  BY <1>0, <1>1 DEF Chunk, LineSound
<1>3. w \in Seq(Elements(w)) /\ Len(w) \in Nat
  BY <1>1, <1>2 DEF ChunkSound
<1>4. /\ RestOf(Tail(body.todo), w) /\ Len(Tail(body.todo)) = Len(body.todo) - 1 /\ Len(body.todo) \in 1 .. Len(w)
      /\ s = w[Len(w) - Len(body.todo) + 1]
      /\ \A i \in 1 .. Len(Tail(body.todo)) : Tail(body.todo)[i] = body.todo[i + 1]
  BY <1>1, <1>3, TailRest
<1>k. Len(body.todo) \in 1 .. Len(w) /\ Len(w) - Len(body.todo) + 1 \in 1 .. Len(w)
  <2>1. Len(body.todo) \in 1 .. Len(w)
    BY <1>4
  <2> HIDE DEF w
  <2> QED
    BY <1>3, <2>1
<1>5. /\ DOMAIN body' = {"name", "todo"} /\ body'.name = body.name /\ body'.todo \in {<<>>, Tail(body.todo)}
      /\ DOMAIN story' = {"ended", "denied", "stopped"} /\ story'.stopped = story.stopped /\ story'.ended = story.ended
  BY <1>1 DEF Then
<1>6. /\ DOMAIN gates \subseteq DOMAIN gates' /\ DOMAIN gates' \subseteq DOMAIN gates \cup {s}
      /\ s.kind = "decl" => gates' = gates
      /\ s.kind = "decl" => s \in Decls(Chunk)
      /\ ran' = ran \/ ran' = ran \cup {s}
      /\ ran' = ran \/ gates' = Gated(s) \/ s \in Decls(Chunk)
  <2>1. s \in Elements(w)
    BY <1>k, <1>4 DEF Elements
  <2>2. s.kind = "decl" => s \in Decls(Chunk)
    BY <1>1, <2>1 DEF Decls
  <2>3. DOMAIN Gated(s) = DOMAIN gates \cup {s}
    BY DEF Gated, Set
  <2> QED
    BY <2>2, <2>3
<1>7. \A x \in DOMAIN gates' : gates'[x] = 1
  <2>1. \A x \in DOMAIN gates : gates[x] = 1
    BY <1>0 DEF GateSound
  <2>2. CASE gates' = gates
    BY <2>1, <2>2
  <2>3. CASE gates' = Gated(s) /\ s.kind # "decl"
    <3>1. s \notin DOMAIN gates
      <4>1. s = body.todo[1] /\ 1 \in 1 .. Len(body.todo)
        BY <1>1, <1>4 DEF RestOf
      <4> QED
        BY <1>0, <2>3, <4>1 DEF GateSound, Ungated
    <3> QED
      BY <2>1, <2>3, <3>1 DEF Gated, Set
  <2> QED
    BY <2>2, <2>3
<1>8. ran' \subseteq DOMAIN gates'
  <2>1. ran \subseteq DOMAIN gates
    BY <1>0 DEF GateSound
  <2>2. gates' = Gated(s) => s \in DOMAIN gates'
    BY DEF Gated, Set
  <2> QED
    BY <1>1, <1>6, <2>1, <2>2
<1> HIDE DEF s, w
<1>9. RestSound'
  BY <1>0, <1>1, <1>5 DEF RestSound, Resting, Busy
<1>10. RestOf(<<>>, w) /\ RestOf(body'.todo, w)
  <2>1. RestOf(<<>>, w)
    BY <1>3 DEF RestOf
  <2> QED
    BY <1>4, <1>5, <2>1
<1>11. BodySound'
  <2>1. BranchForCause'
    BY <1>0, <1>2, <1>5 DEF BodySound, BranchForCause
  <2>2. Chunk'[body'.name] = w
    BY <1>2, <1>5 DEF w
  <2>3. Decls(Chunk)' = Decls(Chunk) /\ ShellBodies(Chunk)' = ShellBodies(Chunk)
    BY <1>2 DEF Decls, ShellBodies, Elements
  <2>4. Decls(Chunk)' \subseteq DOMAIN gates'
    BY <1>1, <1>6, <2>3
  <2>5. RestOf(body.todo, Chunk[body.name])'
    BY <1>10, <2>2 DEF RestOf, Elements
  <2>6. Elements(ShellBodies(Chunk))' = Elements(ShellBodies(Chunk))
    BY <2>3 DEF Elements
  <2> QED
    BY <1>1, <1>5, <2>1, <2>2, <2>4, <2>5, <2>6 DEF BodySound, Busy
<1>12. GateSound'
  <2> DEFINE k == Len(w) - Len(body.todo) + 1
  <2>1. k \in 1 .. Len(w) /\ s = w[k]
    BY <1>k, <1>4
  <2>2. /\ \A n \in 1 .. Len(line), d \in BodyNames : n > 1 \/ d # body.name =>
             \A i \in 1 .. Len(line[n][d]) : line[n][d][i] # s
        /\ \A i \in 1 .. Len(w) : i # k => w[i] # s
    BY <1>0, <1>1, <2>1, GatesApart DEF w
  <2>3. \A n \in 1 .. Len(line), b \in BodyNames : n > 1 =>
          \A i \in 1 .. Len(line[n][b]) : line[n][b][i] \notin DOMAIN gates'
    BY <1>0, <1>6, <2>2 DEF GateSound
  <2>4. Ungated(body.todo)'
    <3> SUFFICES ASSUME NEW i \in 1 .. Len(body'.todo), body'.todo[i].kind # "decl"
                 PROVE  body'.todo[i] \notin DOMAIN gates'
      BY DEF Ungated
    <3>1. body'.todo = Tail(body.todo) /\ i \in 1 .. Len(Tail(body.todo))
      BY <1>5
    <3>2. body'.todo[i] = body.todo[i + 1] /\ i + 1 \in 1 .. Len(body.todo)
      BY <1>3, <1>4, <3>1
    <3>3. body'.todo[i] \notin DOMAIN gates
      BY <1>0, <3>2 DEF GateSound, Ungated
    <3>4. body.todo[i + 1] = w[Len(w) - Len(body.todo) + (i + 1)]
      BY <1>1, <3>2 DEF RestOf, w
    <3>5. Len(w) - Len(body.todo) + (i + 1) \in 1 .. Len(w) /\ Len(w) - Len(body.todo) + (i + 1) # k
      BY <1>3, <1>4, <3>2
    <3> QED
      BY <1>6, <2>2, <3>2, <3>3, <3>4, <3>5
  <2>5. ASSUME body.name = "a", NEW b \in {"b", "c"} PROVE Ungated(Chunk[b])'
    <3>1. Ungated(Chunk[b])
      BY <1>0, <2>5 DEF GateSound
    <3>2. \A i \in 1 .. Len(Chunk[b]) : Chunk[b][i] # s
      BY <1>2, <2>2, <2>5 DEF BodyNames
    <3> QED
      BY <1>2, <1>6, <3>1, <3>2 DEF Ungated
  <2>6. body.name = "a" => Ungated(Chunk["b"])' /\ Ungated(Chunk["c"])'
    BY <2>5
  <2>7. spot' \notin Fresh
    BY DEF Fresh
  <2> QED
    BY <1>5, <1>7, <1>8, <2>3, <2>4, <2>6, <2>7 DEF GateSound
<1>13. LineSound(line)'
  BY <1>0, LineStays
<1> QED
  BY <1>9, <1>11, <1>12, <1>13 DEF ShellInv

LEMMA CommandKeeps == ASSUME ShellInv, callHandler \/ runConfirm PROVE ShellInv'
<1> DEFINE s == Head(body.todo)
<1>0. LineSound(line) /\ RestSound /\ BodySound /\ GateSound
  BY DEF ShellInv
<1>1. spot \in Busy /\ body.todo # <<>> /\ UNCHANGED <<line, shows, thread, trapExit>>
  BY <1>0 DEF callHandler, runConfirm, BodySound, Busy
<1>2. ASSUME spot' = "confirm", UNCHANGED <<body, story, gates, ran>>, s.kind = "confirm" PROVE ShellInv'
  <2>1. Chunk' = Chunk
    BY <1>1 DEF Chunk
  <2>2. BodySound'
    BY <1>0, <1>1, <1>2, <2>1 DEF BodySound, BranchForCause, Busy
  <2>3. RestSound'
    BY <1>0, <1>1, <1>2 DEF RestSound, Resting, Busy
  <2> QED
    BY <1>1, <1>2, <2>2, <2>3, BodyKeeps DEF Busy, Fresh
<1>3. CASE callHandler
  <2>1. spot = "run"
    BY <1>3 DEF callHandler
  <2>2. CASE spot' = "confirm"
    BY <1>2, <1>3, <2>1, <2>2 DEF callHandler
  <2>3. CASE spot' # "confirm"
    <3>1. spot' = "run"
      BY <1>3, <2>1, <2>3 DEF callHandler
    <3>2. \E r : /\ Then(r)
                 /\ \/ gates' = gates /\ ran' = ran
                    \/ gates' = gates /\ s.kind = "decl" /\ ran' = ran \cup {s}
                    \/ gates' = Gated(s) /\ s.kind # "decl" /\ ran' = ran \cup {s}
      BY <1>3, <2>3 DEF callHandler
    <3>3. PICK r : /\ Then(r)
                   /\ \/ gates' = gates /\ ran' = ran
                      \/ gates' = gates /\ s.kind = "decl" /\ ran' = ran \cup {s}
                      \/ gates' = Gated(s) /\ s.kind # "decl" /\ ran' = ran \cup {s}
      BY <3>2
    <3> QED
      BY <1>1, <3>1, <3>3, StatementEnds
  <2> QED
    BY <2>2, <2>3
<1>4. CASE runConfirm
  <2>1. s.kind = "confirm" /\ spot' = "run"
    BY <1>0, <1>4 DEF runConfirm, BodySound
  <2>2. \E r : /\ Then(r)
               /\ \/ gates' = gates /\ ran' = ran
                  \/ gates' = Gated(s) /\ ran' = ran \cup {s}
    BY <1>4 DEF runConfirm
  <2>3. PICK r : /\ Then(r)
                 /\ \/ gates' = gates /\ ran' = ran
                    \/ gates' = Gated(s) /\ ran' = ran \cup {s}
    BY <2>2
  <2> QED
    BY <1>1, <2>1, <2>3, StatementEnds
<1> QED
  BY <1>3, <1>4

LEMMA FlowKeeps == ASSUME ShellInv, RunFlow PROVE ShellInv'
<1>0. LineSound(line) /\ RestSound /\ BodySound /\ GateSound
  BY DEF ShellInv
<1>1. /\ spot = "run" /\ UNCHANGED <<line, shows, thread, trapExit, gates, ran>> /\ line # <<>> /\ ~story.stopped
      /\ story' = [story EXCEPT !.ended = Set(@, body.name, res)]
  BY <1>0 DEF RunFlow, RestSound, Resting
<1>2. Chunk' = Chunk /\ Chunk = line[1] /\ 1 \in 1 .. Len(line) /\ ChunkSound(Chunk)
  BY <1>0, <1>1 DEF Chunk, LineSound
<1>3. DOMAIN story = {"ended", "denied", "stopped"} /\ DOMAIN body = {"name", "todo"}
  BY <1>0 DEF BodySound
<1>4. /\ DOMAIN story' = {"ended", "denied", "stopped"} /\ story'.stopped = story.stopped
      /\ story'.ended = Set(story.ended, body.name, res)
  BY <1>1, <1>3
<1>5. CASE NextBody = "none"
  <2>1. spot' = "end" /\ body' = NoBody
    BY <1>5 DEF RunFlow
  <2>2. BodySound'
    BY <1>4, <2>1 DEF BodySound, BranchForCause, Busy, NoBody
  <2>3. RestSound'
    BY <1>0, <1>1, <1>4, <2>1 DEF RestSound, Resting, Busy
  <2>4. GateSound'
    BY <1>0, <1>1, <2>1 DEF GateSound, Busy, Fresh
  <2>5. LineSound(line)'
    BY <1>0, <1>1, LineStays
  <2> QED
    BY <2>2, <2>3, <2>4, <2>5 DEF ShellInv
<1>6. CASE NextBody # "none"
  <2>1. PICK b : b = NextBody
    OBVIOUS
  <2>2. spot' = spot /\ body' = [name |-> b, todo |-> Chunk[b]]
    BY <1>6, <2>1 DEF RunFlow
  <2>3. /\ body.name = "a" /\ b \in {"b", "c"}
        /\ Chunk[b] \in Elements(ShellBodies(Chunk))
        /\ res = IF Chunk.form = "if" /\ b = "b" THEN "ok" ELSE "fail"
    <3>1. \/ Chunk.form = "try" /\ body.name = "a" /\ res = "fail" /\ b = "b"
          \/ Chunk.form = "if" /\ body.name = "a" /\ res = "ok" /\ b = "b"
          \/ Chunk.form = "if" /\ body.name = "a" /\ res = "fail" /\ Chunk.c # <<>> /\ b = "c"
      BY <1>6, <2>1 DEF NextBody
    <3>2. Chunk["b"] = Chunk.b /\ Chunk["c"] = Chunk.c
      OBVIOUS
    <3>3. Chunk.form = "try" => Chunk.b \in Elements(ShellBodies(Chunk))
      BY DEF ShellBodies, Elements
    <3>4. Chunk.form = "if" => Chunk.b \in Elements(ShellBodies(Chunk))
      BY DEF ShellBodies, Elements
    <3>5. Chunk.form = "if" /\ Chunk.c # <<>> => Chunk.c \in Elements(ShellBodies(Chunk))
      BY DEF ShellBodies, Elements
    <3> QED
      BY <3>1, <3>2, <3>3, <3>4, <3>5
  <2>4. BranchForCause'
    BY <1>2, <1>4, <2>2, <2>3 DEF BranchForCause, Set
  <2>5. Chunk[b] \in Seq(Elements(Chunk[b]))
    BY <1>2, <2>3 DEF ChunkSound, BodyNames
  <2>6. body'.name = b /\ body'.todo = Chunk[b] /\ DOMAIN body' = {"name", "todo"} /\ b \in BodyNames
    BY <2>2, <2>3 DEF BodyNames
  <2>7. RestOf(Chunk[b], Chunk[b])
    BY <2>5 DEF RestOf
  <2>8. BodySound'
    <3>1. RestOf(body.todo, Chunk[body.name])'
      BY <1>2, <2>6, <2>7 DEF RestOf, Elements
    <3>2. (Chunk[body.name] \in Elements(ShellBodies(Chunk)))'
      BY <1>2, <2>3, <2>6 DEF Elements, ShellBodies
    <3>3. Decls(Chunk) \subseteq DOMAIN gates
      BY <1>0, <1>1 DEF BodySound, Busy
    <3>4. Decls(Chunk)' \subseteq DOMAIN gates'
      BY <1>1, <1>2, <3>3 DEF Decls, Elements, ShellBodies
    <3> QED
      BY <1>1, <1>4, <2>2, <2>4, <2>6, <3>1, <3>2, <3>4 DEF BodySound, Busy
  <2>9. RestSound'
    BY <1>0, <1>1, <1>4, <2>2 DEF RestSound, Resting, Busy
  <2>10. GateSound'
    <3>1. Ungated(Chunk["b"]) /\ Ungated(Chunk["c"])
      BY <1>0, <1>1, <2>3 DEF GateSound, Busy
    <3>2. Ungated(body.todo)'
      BY <1>1, <1>2, <2>3, <2>6, <3>1 DEF Ungated
    <3>3. body'.name # "a" /\ spot' \notin Fresh
      BY <1>1, <2>2, <2>3, <2>6 DEF Fresh
    <3> QED
      BY <1>0, <1>1, <3>2, <3>3 DEF GateSound
  <2>11. LineSound(line)'
    BY <1>0, <1>1, LineStays
  <2> QED
    BY <2>8, <2>9, <2>10, <2>11 DEF ShellInv
<1> QED
  BY <1>5, <1>6

LEMMA ChunkEnds == ASSUME ShellInv, EndChunk \/ TrapEnds PROVE ShellInv'
<1>0. LineSound(line) /\ RestSound /\ BodySound /\ GateSound
  BY DEF ShellInv
<1>1. /\ spot = "end" /\ UNCHANGED <<body, thread, trapExit, gates, ran>> /\ thread = Quiet
      /\ line # <<>> /\ ~story.stopped /\ DOMAIN story = {"ended", "denied", "stopped"} /\ body.name \in {"none", "a"}
  BY <1>0 DEF EndChunk, TrapEnds, RestSound, BodySound, Resting, Busy, ghostVars
<1>2. Chunk = line[1] /\ 1 \in 1 .. Len(line)
  BY <1>0, <1>1 DEF Chunk, LineSound
<1>3. /\ shows' = NoCommand /\ DOMAIN story' = {"ended", "denied", "stopped"} /\ line' \in {<<>>, Tail(line)}
      /\ spot' \in {"trap", "prompt", "begin", "ended"}
      /\ spot' = "begin" => line' # <<>> /\ ~story'.stopped /\ Chunk.form # "trap"
  <2>1. CASE EndChunk
    <3>1. PICK stops \in BOOLEAN :
             /\ story' = [story EXCEPT !.stopped = @ \/ stops]
             /\ line' = IF stops THEN <<>> ELSE Tail(line)
             /\ spot' = IF res = "exit" /\ ~held /\ Chunk.form # "source" THEN "trap" ELSE IF line' = <<>> THEN "prompt" ELSE "begin"
      BY <2>1 DEF EndChunk
    <3>2. shows' = NoCommand /\ Chunk.form # "trap"
      BY <2>1 DEF EndChunk
    <3>3. DOMAIN story' = {"ended", "denied", "stopped"} /\ story'.stopped = (story.stopped \/ stops)
      BY <1>1, <3>1
    <3> QED
      BY <1>1, <3>1, <3>2, <3>3
  <2>2. CASE TrapEnds
    <3>1. /\ Chunk.form = "trap" /\ spot' = "ended" /\ line' = <<>> /\ story' = story /\ shows' = shows
      BY <2>2 DEF TrapEnds, ghostVars
    <3>2. shows = NoCommand
      BY <1>0, <1>2, <3>1 DEF RestSound
    <3> QED
      BY <1>1, <3>1, <3>2
  <2> QED
    BY <2>1, <2>2
<1>4. /\ LineSound(Tail(line)) /\ Len(Tail(line)) = Len(line) - 1 /\ Len(line) \in Nat \ {0}
      /\ \A n \in 1 .. Len(Tail(line)) : n + 1 \in 2 .. Len(line) /\ Tail(line)[n] = line[n + 1]
  BY <1>0, <1>1, TailSound
<1>5. LineSound(line') /\ \A n \in 1 .. Len(line') : n + 1 \in 2 .. Len(line) /\ line'[n] = line[n + 1]
  <2>1. LineSound(<<>>)
    BY DEF LineSound, Apart
  <2>2. CASE line' = <<>>
    <3>1. 1 .. Len(line') = {}
      BY <2>2
    <3> QED
      BY <2>1, <2>2, <3>1
  <2>3. CASE line' = Tail(line)
    BY <1>4, <2>3
  <2> QED
    BY <1>3, <2>2, <2>3
<1>6. LineSound(line)'
  BY <1>5, LineStays
<1>7. \A n \in 1 .. Len(line') : line'[n].form # "trap"
  BY <1>0, <1>4, <1>5 DEF RestSound
<1>8. RestSound'
  BY <1>0, <1>1, <1>3, <1>7 DEF RestSound, Resting, Busy
<1>9. BodySound'
  BY <1>0, <1>1, <1>3 DEF BodySound, BranchForCause, Busy
<1>10. GateSound'
  <2>1. \A n \in 1 .. Len(line'), b \in BodyNames : \A i \in 1 .. Len(line'[n][b]) : line'[n][b][i] \notin DOMAIN gates
    <3> SUFFICES ASSUME NEW n \in 1 .. Len(line'), NEW b \in BodyNames, NEW i \in 1 .. Len(line'[n][b])
                 PROVE  line'[n][b][i] \notin DOMAIN gates
      OBVIOUS
    <3>1. line'[n] = line[n + 1] /\ n + 1 \in 1 .. Len(line) /\ n + 1 > 1
      BY <1>4, <1>5
    <3> QED
      BY <1>0, <3>1 DEF GateSound
  <2> QED
    BY <1>0, <1>1, <1>3, <2>1 DEF GateSound, Busy
<1> QED
  BY <1>6, <1>8, <1>9, <1>10 DEF ShellInv

LEMMA ShellKeeps == ShellInv /\ [ShellNext]_shellVars => ShellInv'
<1> SUFFICES ASSUME ShellInv, [ShellNext]_shellVars PROVE ShellInv'
  OBVIOUS
<1>0. RestSound
  BY DEF ShellInv
<1>1. CASE ReadLine
  BY <1>1, LineArrives DEF ReadLine, Resting
<1>2. CASE RunTrap
  <2>1. CASE trapExit = <<>>
    <3>1. spot = "trap" /\ spot' = "ended" /\ UNCHANGED <<line, trapExit, gates, ran, story, body, shows, thread>>
      BY <1>2, <2>1 DEF RunTrap, ghostVars
    <3>2. RestSound'
      BY <1>0, <3>1 DEF RestSound, Resting, Busy
    <3>3. BodySound'
      BY <3>1 DEF ShellInv, BodySound, BranchForCause, Busy
    <3> QED
      BY <3>1, <3>2, <3>3, BodyKeeps DEF Busy, Fresh
  <2>2. CASE trapExit # <<>>
    <3>1. /\ spot = "trap" /\ spot' = "gate" /\ line' = TrapLine(trapExit) /\ trapExit' = <<>>
          /\ gates' = [s \in {} |-> 0] /\ ran' = {} /\ story' = NoStory /\ UNCHANGED <<body, shows, thread>>
      BY <1>2, <2>2 DEF RunTrap
    <3>2. trapExit \in Traps /\ shows = NoCommand
      BY <1>0, <2>2, <3>1 DEF RestSound, Resting
    <3>3. line' \notin Lines
      <4>1. line'[1].form = "trap" /\ Len(line') = 1
        BY <3>1 DEF TrapLine
      <4>2. line'[1] \in Elements(line')
        BY <4>1 DEF Elements
      <4> QED
        BY <4>1, <4>2, ShellAssumption
    <3> QED
      BY <3>1, <3>2, <3>3, LineArrives DEF Resting
  <2> QED
    BY <2>1, <2>2
<1> QED
  BY <1>1, <1>2, LoopKeeps, PrepareKeeps, CommandKeeps, FlowKeeps, ChunkEnds DEF ShellNext, ReplStep

\* For every line and trap, however their statements end and whoever cancels: what ran was
\* gated, once; a branch was entered for its cause; nothing ran after the chunk that
\* stopped a paste; and at the prompt nothing of the line is left.
THEOREM LinesRunAsWritten == ShellSpec => [](RanGatedOnce /\ BranchForCause /\ PasteStops /\ PromptClean)
<1>1. ShellInv => RanGatedOnce
  BY DEF ShellInv, GateSound, RanGatedOnce
<1>2. ShellInv => BranchForCause
  BY DEF ShellInv, BodySound
<1>3. ShellInv => PasteStops /\ PromptClean
  BY DEF ShellInv, RestSound, PasteStops, PromptClean, Resting
<1> QED
  BY ShellStart, ShellKeeps, <1>1, <1>2, <1>3, PTL DEF ShellSpec

-----------------------------------------------------------------------------
(* ChildExec.                                                              *)

\* Where the handler is, and what it has by then.
HandlerSound ==
    /\ how \in {"pty", "plain", "group"}
    /\ hpc \in {"look", "prepare", "raw", "start"} => copier = "off" /\ ~refused
    /\ hpc \in {"raw", "drain", "join"} => how = "pty"
    /\ hpc \in {"wait", "drain", "join"} => starts = 1 /\ copier # "off" /\ ~refused
    /\ hpc \in {"wait", "drain"} => ~ttyExpired /\ master # "closed"
    /\ hpc \in {"look", "prepare", "raw", "start", "wait", "drain", "join", "out"}

\* The terminal is raw only for a run on the pseudo terminal that is not over.
TerminalSound ==
    /\ mode # "cooked" => how = "pty" /\ hpc \in {"start", "wait", "drain", "join"}
    /\ pump # "off" => how = "pty" /\ hpc \notin {"look", "prepare", "raw", "start"}
    /\ hpc = "out" => pump \in {"off", "done"} /\ copier \in {"off", "done"}
    /\ copier \in {"off", "on", "done"}

\* Before the start there is no process and no output; when the copy ended in time there
\* is nobody left to write.
OutputSound ==
    /\ copier = "off" => /\ child = "none" /\ kid = "none" /\ killer = "none" /\ starts = 0
                         /\ master = "none" /\ ~ttyExpired /\ shown = wrote
    /\ copier # "off" => starts = 1 /\ ~refused
    /\ copier = "done" /\ ~ttyExpired => ~Held /\ shown = wrote
    /\ copier = "on" /\ master = "closed" => ttyExpired

ChildInv == HandlerSound /\ TerminalSound /\ OutputSound

LEMMA ChildStart == ChildInit => ChildInv
  BY DEF ChildInit, ChildInv, HandlerSound, TerminalSound, OutputSound

LEMMA ChildKeeps == ChildInv /\ [ChildNext]_childVars => ChildInv'
<1> SUFFICES ASSUME ChildInv, [ChildNext]_childVars PROVE ChildInv'
  OBVIOUS
<1> USE DEF ChildInv, HandlerSound, TerminalSound, OutputSound
<1>1. CASE LookPath
  BY <1>1 DEF LookPath, procVars, ioVars, Held
<1>2. CASE PrepareChild
  BY <1>2 DEF PrepareChild, ioVars, Held
<1>3. CASE MakeRaw
  BY <1>3 DEF MakeRaw, procVars, ioVars, Held
<1>4. CASE StartChild
  <2>1. CASE child' = "up"
    BY <1>4, <2>1 DEF StartChild
  <2>2. CASE child' # "up"
    BY <1>4, <2>2 DEF StartChild, Held
  <2> QED
    BY <2>1, <2>2
<1>5. CASE Wait
  BY <1>5 DEF Wait, procVars, Held
<1>6. CASE DrainOutput
  BY <1>6 DEF DrainOutput, procVars, Held
<1>7. CASE Join
  BY <1>7 DEF Join, procVars, ioVars, Held
<1>8. CASE AfterFunc
  BY <1>8 DEF AfterFunc, ioVars, Held
<1>9. CASE CopyStep
  BY <1>9 DEF CopyStep, Copy, CopyEnds, procVars, Held
<1>10. CASE KeyStep
  BY <1>10 DEF KeyStep, pumpTerminalInput, PumpWrite, PumpTo, procVars, Held
<1>11. CASE ChildWrites
  BY <1>11 DEF ChildWrites, procVars, Held
<1>12. CASE ChildReads \/ TypeKey
  BY <1>12 DEF ChildReads, TypeKey, procVars, Held
<1>13. CASE ChildForks
  BY <1>13 DEF ChildForks, ioVars, Held
<1>14. CASE ChildExits
  BY <1>14 DEF ChildExits, ioVars, Held
<1>15. CASE ContextDone
  BY <1>15 DEF ContextDone, ioVars, Held
<1>16. CASE UNCHANGED childVars
  BY <1>16 DEF childVars, procVars, ioVars, Held
<1> QED
  BY <1>1, <1>2, <1>3, <1>4, <1>5, <1>6, <1>7, <1>8, <1>9, <1>10, <1>11, <1>12, <1>13, <1>14, <1>15, <1>16
     DEF ChildNext, RunStep

\* Whatever the handlers, the context, the operator and the processes that are left do, in
\* any order: a command is started once at most, the terminal and its keys are handed back,
\* and what was written in time is what the session shows.
THEOREM ChildrenAreContained == ChildSpec => [](StartedOnce /\ TerminalHandedBack /\ OutputWhole)
<1>1. ChildInv => StartedOnce /\ TerminalHandedBack
  BY DEF ChildInv, HandlerSound, TerminalSound, OutputSound, StartedOnce, TerminalHandedBack
<1>2. ChildInv => OutputWhole
  BY DEF ChildInv, HandlerSound, TerminalSound, OutputSound, OutputWhole
<1> QED
  BY ChildStart, ChildKeeps, <1>1, <1>2, PTL DEF ChildSpec

-----------------------------------------------------------------------------
(* StarExec: a batch.                                                      *)

Commanded == {"got", "run", "result", "fail"}

\* What a worker has: nothing, or a command that was given out and is not the failure that
\* is kept. Its result is the command's own, unless the batch killed it.
WorkSound(r) ==
    r = NoWork \/
    /\ r.pc \in Commanded /\ r.cmd \in 1 .. next - 1 /\ r.cmd # failed
    /\ r.pc = "result" => outcome[r.cmd] \in {"ok", "error"} \/ Dead
    /\ r.pc = "fail" => outcome[r.cmd] = "error"

\* While the context lives, a command that was given out went well or is with a worker.
GivenOut ==
    ~Dead => \A i \in 1 .. next - 1 :
        outcome[i] = "ok" \/ \E w \in Workers : worker[w].cmd = i

\* No two workers have the same command.
OneWorkerEach == \A w, v \in Workers :
    worker[w] # NoWork /\ worker[v] # NoWork /\ worker[w].cmd = worker[v].cmd => w = v

BatchInv ==
    /\ DOMAIN worker = Workers /\ DOMAIN outcome = Cmds /\ next \in 1 .. NumCmds + 1
    /\ failed \in 0 .. next - 1
    /\ \A w \in Workers : WorkSound(worker[w]) /\ DOMAIN worker[w] = {"cmd", "pc"}
    /\ GivenOut /\ OneWorkerEach /\ ListComplete /\ CauseIsReal
    /\ asked => Dead
    /\ batch # "run" => \A w \in Workers : worker[w] = NoWork

LEMMA BatchStart == BatchInit => BatchInv
<1> SUFFICES ASSUME BatchInit PROVE BatchInv
  OBVIOUS
<1>1. /\ next = 1 /\ failed = 0 /\ DOMAIN worker = Workers /\ DOMAIN outcome = Cmds /\ ~asked /\ batch = "check"
      /\ \A w \in Workers : worker[w] = NoWork
  BY DEF BatchInit
<1>2. DOMAIN NoWork = {"cmd", "pc"}
  BY DEF NoWork
<1> QED
  BY <1>1, <1>2, StarExecAssumption DEF BatchInv, WorkSound, GivenOut, OneWorkerEach, ListComplete, CauseIsReal

\* The worker w goes on to r, with the command it has.
LEMMA WorkerMoves ==
  ASSUME BatchInv, NEW w \in Workers, NEW r, worker' = [worker EXCEPT ![w] = r], batch' = batch, batch = "run",
         UNCHANGED <<next, cancelled, asked>>, DOMAIN outcome' = Cmds, Dead => Dead',
         DOMAIN r = {"cmd", "pc"}, worker[w] # NoWork, WorkSound(r)',
         r = NoWork \/ r.cmd = worker[w].cmd,
         failed' = failed \/ (failed = 0 /\ failed' = worker[w].cmd /\ r = NoWork),
         \A i \in Cmds : i # worker[w].cmd => outcome'[i] = outcome[i],
         r = NoWork => outcome'[worker[w].cmd] = "ok" \/ Dead',
         failed' # 0 => Dead' /\ outcome'[failed'] = "error"
  PROVE  BatchInv'
<1> DEFINE q == worker[w]
<1>1. DOMAIN worker' = Workers /\ worker'[w] = r /\ \A v \in Workers : v # w => worker'[v] = worker[v]
  BY DEF BatchInv
<1>2. WorkSound(q) /\ q.cmd \in 1 .. next - 1 /\ next \in 1 .. NumCmds + 1 /\ NumCmds \in Nat
  BY StarExecAssumption DEF BatchInv, WorkSound
<1>3. \A v \in Workers : v # w => WorkSound(worker[v])'
  <2> SUFFICES ASSUME NEW v \in Workers, v # w, worker[v] # NoWork PROVE WorkSound(worker[v])'
    BY <1>1 DEF WorkSound
  <2>1. WorkSound(worker[v]) /\ worker[v].cmd # q.cmd /\ worker'[v] = worker[v]
    BY <1>1 DEF BatchInv, OneWorkerEach
  <2>2. worker[v].cmd \in Cmds /\ outcome'[worker[v].cmd] = outcome[worker[v].cmd] /\ worker[v].cmd # failed'
    BY <1>2, <2>1 DEF WorkSound, Cmds
  <2> QED
    BY <2>1, <2>2 DEF WorkSound
<1>4. GivenOut'
  <2> SUFFICES ASSUME ~Dead', NEW i \in 1 .. next - 1
               PROVE  outcome'[i] = "ok" \/ \E v \in Workers : worker'[v].cmd = i
    BY DEF GivenOut
  <2>1. CASE i = q.cmd
    BY <1>1, <2>1
  <2>2. CASE i # q.cmd
    <3>1. outcome[i] = "ok" \/ \E v \in Workers : worker[v].cmd = i
      BY DEF BatchInv, GivenOut
    <3>2. i \in Cmds
      BY <1>2 DEF Cmds
    <3> QED
      BY <1>1, <2>2, <3>1, <3>2
  <2> QED
    BY <2>1, <2>2
<1>5. OneWorkerEach'
  BY <1>1 DEF BatchInv, OneWorkerEach
<1>6. failed' \in 0 .. next - 1 /\ ListComplete' /\ CauseIsReal'
  BY <1>2 DEF BatchInv, ListComplete, CauseIsReal
<1> QED
  BY <1>1, <1>3, <1>4, <1>5, <1>6 DEF BatchInv

LEMMA BatchKeeps == BatchInv /\ [BatchNext]_batchVars => BatchInv'
<1> SUFFICES ASSUME BatchInv, [BatchNext]_batchVars PROVE BatchInv'
  OBVIOUS
<1>0. /\ NumCmds \in Nat /\ next \in 1 .. NumCmds + 1 /\ failed \in 0 .. next - 1
      /\ DOMAIN NoWork = {"cmd", "pc"} /\ NoWork.pc = "wait" /\ NoWork.cmd = 0
  BY StarExecAssumption DEF BatchInv, NoWork
<1>1. CASE preflightParallel \/ DeadlineHits \/ ThreadCancel \/ threadCancelled \/ UNCHANGED batchVars
  BY <1>0, <1>1 DEF preflightParallel, DeadlineHits, ThreadCancel, threadCancelled, batchVars, BatchInv,
     WorkSound, GivenOut, OneWorkerEach, ListComplete, CauseIsReal, Dead
<1>2. CASE FeederStops
  BY <1>0, <1>2 DEF FeederStops, BatchInv, WorkSound, GivenOut, OneWorkerEach, ListComplete, CauseIsReal, Dead
<1>3. CASE runParallel
  <2>1. /\ \A w \in Workers : worker[w] = NoWork
        /\ next = NumCmds + 1 /\ UNCHANGED <<ended_by, failed, next, worker, outcome, cancelled, asked>>
    BY <1>3 DEF runParallel
  <2>2. ListComplete'
    <3> SUFFICES ASSUME batch' = "list", NEW i \in Cmds PROVE outcome[i] = "ok"
      BY <2>1 DEF ListComplete
    <3>1. ~Dead
      BY <1>3 DEF runParallel, Outcome
    <3>2. i \in 1 .. next - 1
      BY <1>0, <2>1 DEF Cmds
    <3>3. outcome[i] = "ok" \/ \E w \in Workers : worker[w].cmd = i
      BY <3>1, <3>2 DEF BatchInv, GivenOut
    <3> QED
      BY <1>0, <2>1, <3>2, <3>3
  <2> QED
    BY <2>1, <2>2 DEF BatchInv, WorkSound, GivenOut, OneWorkerEach, CauseIsReal, Dead
<1>4. ASSUME NEW w \in Workers, Feed(w) PROVE BatchInv'
  <2> DEFINE r == [cmd |-> next, pc |-> "got"]
  <2>1. /\ batch = "run" /\ next \in 1 .. NumCmds /\ worker[w] = NoWork /\ next' = next + 1
        /\ UNCHANGED <<batch, ended_by, failed, outcome, cancelled, asked>>
    BY <1>0, <1>4 DEF Feed
  <2>2. DOMAIN worker' = Workers /\ worker'[w] = r /\ \A v \in Workers : v # w => worker'[v] = worker[v]
    BY <1>4 DEF Feed, BatchInv
  <2>3. DOMAIN r = {"cmd", "pc"} /\ r.cmd = next /\ r.pc = "got" /\ r # NoWork
    BY <1>0
  <2> HIDE DEF r
  <2>4. \A v \in Workers : WorkSound(worker[v])'
    <3> SUFFICES ASSUME NEW v \in Workers PROVE WorkSound(worker[v])'
      OBVIOUS
    <3>1. CASE v = w
      BY <1>0, <2>1, <2>2, <2>3, <3>1 DEF WorkSound, Commanded
    <3>2. CASE v # w
      <4>1. WorkSound(worker[v]) /\ worker'[v] = worker[v]
        BY <2>2, <3>2 DEF BatchInv
      <4> QED
        BY <1>0, <2>1, <4>1 DEF WorkSound, Dead
    <3> QED
      BY <3>1, <3>2
  <2>5. GivenOut'
    <3> SUFFICES ASSUME ~Dead, NEW i \in 1 .. next
                 PROVE  outcome[i] = "ok" \/ \E v \in Workers : worker'[v].cmd = i
      BY <1>0, <2>1 DEF GivenOut, Dead
    <3>1. CASE i = next
      BY <2>2, <2>3, <3>1
    <3>2. CASE i # next
      <4>1. i \in 1 .. next - 1 /\ i # 0
        BY <1>0, <3>2
      <4>2. outcome[i] = "ok" \/ \E v \in Workers : worker[v].cmd = i
        BY <4>1 DEF BatchInv, GivenOut
      <4> QED
        BY <1>0, <2>1, <2>2, <4>1, <4>2
    <3> QED
      BY <3>1, <3>2
  <2>6. OneWorkerEach'
    <3>1. \A v \in Workers : worker[v] # NoWork => worker[v].cmd # next
      BY <1>0 DEF BatchInv, WorkSound
    <3> QED
      BY <2>1, <2>2, <2>3, <3>1 DEF BatchInv, OneWorkerEach
  <2>7. \A v \in Workers : DOMAIN worker'[v] = {"cmd", "pc"}
    BY <2>2, <2>3 DEF BatchInv
  <2> QED
    BY <1>0, <2>1, <2>2, <2>4, <2>5, <2>6, <2>7 DEF BatchInv, ListComplete, CauseIsReal, Dead
<1>5. ASSUME NEW w \in Workers, StartCmd(w) \/ runGatedShell(w) \/ Report(w) \/ fail(w) PROVE BatchInv'
  <2> DEFINE q == worker[w]
  <2>1. /\ q.pc \in Commanded /\ q # NoWork
    BY <1>0, <1>5 DEF StartCmd, runGatedShell, Report, fail, Commanded
  <2>2. /\ WorkSound(q) /\ DOMAIN q = {"cmd", "pc"} /\ batch = "run" /\ q.cmd \in 1 .. next - 1 /\ q.cmd \in Cmds
        /\ DOMAIN outcome = Cmds /\ DOMAIN worker = Workers /\ CauseIsReal
    BY <1>0, <2>1 DEF BatchInv, WorkSound, Cmds
  <2>3. UNCHANGED <<batch, next, cancelled, asked>>
    BY <1>5 DEF StartCmd, runGatedShell, Report, fail
  <2>w. WorkSound(NoWork)'
    BY DEF WorkSound
  <2>f. q.cmd # failed /\ failed \in 0 .. next - 1 /\ q.cmd \in 1 .. next' - 1
    BY <2>1, <2>2, <2>3, <1>0 DEF WorkSound
  <2>4. CASE StartCmd(w)
    <3>0. PICK r : r = IF Dead THEN NoWork ELSE [q EXCEPT !.pc = "run"]
      OBVIOUS
    <3>1. worker' = [worker EXCEPT ![w] = r] /\ UNCHANGED <<ended_by, failed, outcome>>
      BY <2>2, <2>4, <3>0 DEF StartCmd
    <3>2. DOMAIN r = {"cmd", "pc"} /\ (Dead => r = NoWork) /\ (~Dead => r.pc = "run" /\ r.cmd = q.cmd)
      BY <1>0, <2>2, <3>0
    <3>3. WorkSound(r)'
      BY <2>2, <2>3, <2>f, <3>1, <3>2 DEF WorkSound, Commanded
    <3>4. failed' # 0 => Dead' /\ outcome'[failed'] = "error"
      BY <2>2, <3>1 DEF CauseIsReal, Dead
    <3>5. DOMAIN outcome' = Cmds /\ (Dead => Dead') /\ (r = NoWork => Dead') /\ (r = NoWork \/ r.cmd = q.cmd)
      BY <2>2, <3>1, <3>2, <1>0 DEF Dead
    <3> HIDE DEF q
    <3> QED
      BY <2>1, <2>2, <2>3, <3>1, <3>2, <3>3, <3>4, <3>5, WorkerMoves DEF q
  <2>5. CASE runGatedShell(w)
    <3>0. PICK r : r = [q EXCEPT !.pc = "result"]
      OBVIOUS
    <3>1. worker' = [worker EXCEPT ![w] = r] /\ UNCHANGED <<ended_by, failed>>
      BY <2>2, <2>5, <3>0 DEF runGatedShell
    <3>2. PICK o \in {"ok", "error"} \cup (IF Dead THEN {"killed"} ELSE {}) : outcome' = [outcome EXCEPT ![q.cmd] = o]
      BY <2>5 DEF runGatedShell
    <3>3. /\ DOMAIN outcome' = Cmds /\ outcome'[q.cmd] = o /\ (o \in {"ok", "error"} \/ Dead)
          /\ \A i \in Cmds : i # q.cmd => outcome'[i] = outcome[i]
      BY <2>2, <3>2
    <3>4. DOMAIN r = {"cmd", "pc"} /\ r.pc = "result" /\ r.cmd = q.cmd
      BY <2>2, <3>0
    <3>5. WorkSound(r)'
      BY <2>2, <2>3, <2>f, <3>1, <3>3, <3>4 DEF WorkSound, Commanded, Dead
    <3>6. failed # q.cmd /\ (failed # 0 => failed \in Cmds)
      BY <1>0, <2>1, <2>2 DEF WorkSound, Cmds
    <3>7. r # NoWork
      BY <1>0, <3>4
    <3>8. failed' # 0 => Dead' /\ outcome'[failed'] = "error"
      BY <2>2, <3>1, <3>3, <3>6 DEF CauseIsReal, Dead
    <3>9. Dead => Dead'
      BY <3>1 DEF Dead
    <3> HIDE DEF q
    <3> QED
      BY <2>1, <2>2, <2>3, <3>1, <3>3, <3>4, <3>5, <3>7, <3>8, <3>9, WorkerMoves DEF q
  <2>6. CASE Report(w)
    <3>0. PICK r : r = IF outcome[q.cmd] = "ok" \/ Dead THEN NoWork ELSE [q EXCEPT !.pc = "fail"]
      OBVIOUS
    <3>1. worker' = [worker EXCEPT ![w] = r] /\ UNCHANGED <<ended_by, failed, outcome>> /\ q.pc = "result"
      BY <2>2, <2>6, <3>0 DEF Report
    <3>2. /\ DOMAIN r = {"cmd", "pc"} /\ (outcome[q.cmd] = "ok" \/ Dead => r = NoWork)
          /\ ~(outcome[q.cmd] = "ok" \/ Dead) => r.pc = "fail" /\ r.cmd = q.cmd /\ outcome[q.cmd] = "error"
      BY <1>0, <2>1, <2>2, <3>0, <3>1 DEF WorkSound
    <3>3. WorkSound(r)'
      BY <2>2, <2>3, <2>f, <3>1, <3>2, <1>0 DEF WorkSound, Commanded
    <3>4. r = NoWork => outcome'[q.cmd] = "ok" \/ Dead'
      BY <1>0, <3>1, <3>2 DEF Dead
    <3>5. failed' # 0 => Dead' /\ outcome'[failed'] = "error"
      BY <2>2, <3>1 DEF CauseIsReal, Dead
    <3>6. DOMAIN outcome' = Cmds /\ (Dead => Dead') /\ (r = NoWork \/ r.cmd = q.cmd)
      BY <2>2, <3>1, <3>2 DEF Dead
    <3> HIDE DEF q
    <3> QED
      BY <2>1, <2>2, <2>3, <3>1, <3>2, <3>3, <3>4, <3>5, <3>6, WorkerMoves DEF q
  <2>7. CASE fail(w)
    <3>1. /\ worker' = [worker EXCEPT ![w] = NoWork] /\ UNCHANGED outcome /\ q.pc = "fail"
          /\ failed' = IF failed = 0 THEN q.cmd ELSE failed
          /\ ended_by' = IF failed = 0 /\ ~Dead THEN "fail" ELSE ended_by
      BY <2>2, <2>7 DEF fail
    <3>2. outcome[q.cmd] = "error" /\ Dead'
      BY <2>1, <2>2, <3>1 DEF WorkSound, CauseIsReal, Dead
    <3>3. failed' # 0 => outcome'[failed'] = "error"
      BY <2>2, <3>1, <3>2 DEF CauseIsReal
    <3> QED
      BY <1>0, <2>1, <2>2, <2>3, <2>w, <3>1, <3>2, <3>3, WorkerMoves
  <2> QED
    BY <1>5, <2>4, <2>5, <2>6, <2>7
<1> QED
  BY <1>1, <1>2, <1>3, <1>4, <1>5 DEF BatchNext

\* For any number of commands and workers: a batch that returns a list ran all of its
\* commands well, and the failure it reports is a command's own.
THEOREM BatchesAreWhole == BatchInit /\ [][BatchNext]_batchVars => [](ListComplete /\ CauseIsReal)
<1>1. BatchInv => ListComplete /\ CauseIsReal
  BY DEF BatchInv
<1> QED
  BY BatchStart, BatchKeeps, <1>1, PTL

-----------------------------------------------------------------------------
(* StarExec: expect.                                                       *)

\* The text is numbered from the first chunk on: what was returned, then what is in the
\* buffer, then what nobody has read.
ExpectInv ==
    /\ taken \in Seq(Nat) /\ buffer \in Seq(Nat) /\ printed \in Seq(Nat)
    /\ chunks = Len(taken) + Len(buffer) + Len(printed)
    /\ \A i \in 1 .. Len(taken) : taken[i] = i
    /\ \A i \in 1 .. Len(buffer) : buffer[i] = Len(taken) + i
    /\ \A i \in 1 .. Len(printed) : printed[i] = Len(taken) + Len(buffer) + i

LEMMA ExpectKeeps == ExpectInv /\ [ExpectNext]_expectVars => ExpectInv'
<1> SUFFICES ASSUME ExpectInv, [ExpectNext]_expectVars PROVE ExpectInv'
  OBVIOUS
<1>0. /\ taken \in Seq(Nat) /\ buffer \in Seq(Nat) /\ printed \in Seq(Nat) /\ chunks \in Nat
      /\ Len(taken) \in Nat /\ Len(buffer) \in Nat /\ Len(printed) \in Nat
  BY DEF ExpectInv
<1>l. /\ Len(taken) \in Nat /\ Len(buffer) \in Nat /\ Len(printed) \in Nat
      /\ chunks = Len(taken) + Len(buffer) + Len(printed)
  BY <1>0 DEF ExpectInv
<1>t. \A i \in 1 .. Len(taken) : taken[i] = i
  BY DEF ExpectInv
<1>b. \A i \in 1 .. Len(buffer) : buffer[i] = Len(taken) + i
  BY DEF ExpectInv
<1>p. \A i \in 1 .. Len(printed) : printed[i] = Len(taken) + Len(buffer) + i
  BY DEF ExpectInv
<1>1. CASE Prints
  <2>1. printed' = Append(printed, chunks + 1) /\ chunks' = chunks + 1 /\ UNCHANGED <<buffer, taken>>
    BY <1>1 DEF Prints
  <2>2. /\ printed' \in Seq(Nat) /\ Len(printed') = Len(printed) + 1
        /\ \A i \in 1 .. Len(printed') : printed'[i] = IF i = Len(printed) + 1 THEN chunks + 1 ELSE printed[i]
    BY <1>0, <2>1
  <2>3. \A i \in 1 .. Len(printed') : printed'[i] = Len(taken) + Len(buffer) + i
    <3> SUFFICES ASSUME NEW i \in 1 .. Len(printed') PROVE printed'[i] = Len(taken) + Len(buffer) + i
      OBVIOUS
    <3>1. i = Len(printed) + 1 \/ i \in 1 .. Len(printed)
      BY <1>l, <2>2
    <3>2. CASE i = Len(printed) + 1
      BY <1>l, <2>2, <3>2
    <3>3. CASE i \in 1 .. Len(printed)
      <4>1. i # Len(printed) + 1
        BY <1>l, <3>3
      <4>2. printed'[i] = printed[i]
        BY <2>2, <4>1
      <4> QED
        BY <1>p, <3>3, <4>2
    <3> QED
      BY <3>1, <3>2, <3>3
  <2>4. chunks' = Len(taken) + Len(buffer) + Len(printed')
    BY <1>0, <2>1, <2>2 DEF ExpectInv
  <2> QED
    BY <2>1, <2>2, <2>3, <2>4 DEF ExpectInv
<1>2. CASE readInto
  <2>1. printed # <<>> /\ printed' = Tail(printed) /\ buffer' = Append(buffer, Head(printed)) /\ UNCHANGED <<taken, chunks>>
    BY <1>2 DEF readInto
  <2>2. /\ printed' \in Seq(Nat) /\ Len(printed') = Len(printed) - 1 /\ Head(printed) = printed[1] /\ Head(printed) \in Nat
        /\ \A i \in 1 .. Len(printed') : printed'[i] = printed[i + 1]
    BY <1>0, <2>1
  <2>3. /\ buffer' \in Seq(Nat) /\ Len(buffer') = Len(buffer) + 1
        /\ \A i \in 1 .. Len(buffer') : buffer'[i] = IF i = Len(buffer) + 1 THEN printed[1] ELSE buffer[i]
    BY <1>0, <2>1, <2>2
  <2>4. 1 \in 1 .. Len(printed)
    BY <1>0, <2>2
  <2>5. \A i \in 1 .. Len(printed') : printed'[i] = Len(taken) + Len(buffer') + i
    BY <1>0, <2>2, <2>3, SMTT(20) DEF ExpectInv
  <2>6. \A i \in 1 .. Len(buffer') : buffer'[i] = Len(taken) + i
    <3> SUFFICES ASSUME NEW i \in 1 .. Len(buffer') PROVE buffer'[i] = Len(taken) + i
      OBVIOUS
    <3>1. i = Len(buffer) + 1 \/ i \in 1 .. Len(buffer)
      BY <1>l, <2>3
    <3>2. CASE i = Len(buffer) + 1
      <4>1. printed[1] = Len(taken) + Len(buffer) + 1
        BY <1>p, <2>4
      <4> QED
        BY <1>l, <2>3, <3>2, <4>1
    <3>3. CASE i \in 1 .. Len(buffer)
      <4>1. i # Len(buffer) + 1
        BY <1>l, <3>3
      <4>2. buffer'[i] = buffer[i]
        BY <2>3, <4>1
      <4> QED
        BY <1>b, <3>3, <4>2
    <3> QED
      BY <3>1, <3>2, <3>3
  <2>7. chunks = Len(taken) + Len(buffer') + Len(printed')
    BY <1>0, <2>2, <2>3 DEF ExpectInv
  <2> QED
    BY <2>1, <2>2, <2>3, <2>5, <2>6, <2>7 DEF ExpectInv
<1>3. CASE builtinExpect
  <2>1. PICK n \in 1 .. Len(buffer) : /\ taken' = taken \o SubSeq(buffer, 1, n)
                                      /\ buffer' = SubSeq(buffer, n + 1, Len(buffer))
    BY <1>3 DEF builtinExpect
  <2>0. UNCHANGED <<printed, chunks>>
    BY <1>3 DEF builtinExpect
  <2>n. n \in 1 .. Len(buffer) /\ n \in Nat
    BY <1>l, <2>1
  <2>2. /\ buffer' \in Seq(Nat) /\ Len(buffer') = Len(buffer) - n
        /\ \A i \in 1 .. Len(buffer') : buffer'[i] = buffer[n + i]
    BY <1>0, <2>1, SMTT(20)
  <2>3. PICK q : q = SubSeq(buffer, 1, n)
    OBVIOUS
  <2>4. q \in Seq(Nat) /\ Len(q) = n /\ \A i \in 1 .. n : q[i] = buffer[i]
    BY <1>0, <2>1, <2>3
  <2>5. /\ taken' \in Seq(Nat) /\ Len(taken') = Len(taken) + n
        /\ \A i \in 1 .. Len(taken') : taken'[i] = IF i <= Len(taken) THEN taken[i] ELSE q[i - Len(taken)]
    BY <1>0, <2>1, <2>3, <2>4, SMTT(20)
  <2>6. Len(taken') + Len(buffer') = Len(taken) + Len(buffer)
    BY <1>0, <2>2, <2>5
  <2>7. \A i \in 1 .. Len(taken') : taken'[i] = i
    <3> SUFFICES ASSUME NEW i \in 1 .. Len(taken') PROVE taken'[i] = i
      OBVIOUS
    <3>1. CASE i <= Len(taken)
      BY <1>l, <1>t, <2>5, <3>1, SMTT(20)
    <3>2. CASE ~(i <= Len(taken))
      <4>1. i - Len(taken) \in 1 .. n /\ i - Len(taken) \in 1 .. Len(buffer)
        BY <1>l, <2>n, <2>5, <3>2
      <4>2. buffer[i - Len(taken)] = Len(taken) + (i - Len(taken))
        BY <4>1 DEF ExpectInv
      <4>3. taken'[i] = q[i - Len(taken)]
        BY <2>5, <3>2
      <4>4. q[i - Len(taken)] = buffer[i - Len(taken)]
        BY <2>4, <4>1
      <4>5. Len(taken) + (i - Len(taken)) = i
        BY <1>l, <2>5
      <4> QED
        BY <4>2, <4>3, <4>4, <4>5
    <3> QED
      BY <3>1, <3>2
  <2>8. \A i \in 1 .. Len(buffer') : buffer'[i] = Len(taken') + i
    <3> SUFFICES ASSUME NEW i \in 1 .. Len(buffer') PROVE buffer'[i] = Len(taken') + i
      OBVIOUS
    <3>1. n + i \in 1 .. Len(buffer) /\ buffer'[i] = buffer[n + i]
      <4>1. n + i \in 1 .. Len(buffer)
        BY <1>l, <2>n, <2>2
      <4> QED
        BY <2>2, <4>1
    <3>2. buffer[n + i] = Len(taken) + (n + i)
      BY <3>1 DEF ExpectInv
    <3>3. i \in Nat /\ Len(taken) + (n + i) = (Len(taken) + n) + i
      BY <1>l, <2>n, <2>2
    <3> QED
      BY <2>5, <3>1, <3>2, <3>3
  <2>9. chunks = Len(taken) + Len(buffer) + Len(printed) /\ \A i \in 1 .. Len(printed) : printed[i] = Len(taken) + Len(buffer) + i
    BY DEF ExpectInv
  <2> QED
    BY <2>0, <2>2, <2>5, <2>6, <2>7, <2>8, <2>9 DEF ExpectInv
<1>4. CASE builtinClose \/ UNCHANGED expectVars
  BY <1>4 DEF builtinClose, expectVars, ExpectInv
<1> QED
  BY <1>1, <1>2, <1>3, <1>4 DEF ExpectNext

\* However much the process prints and whatever part of it each match takes: the text that
\* was returned, is in the buffer and is unread is what was printed, once and in order.
THEOREM ExpectLosesNothing == ExpectInit /\ [][ExpectNext]_expectVars => []ExpectConserves
<1>1. ExpectInit => ExpectInv
  BY DEF ExpectInit, ExpectInv
<1>2. ExpectInv => ExpectConserves
  <2> SUFFICES ASSUME ExpectInv PROVE ExpectConserves
    OBVIOUS
  <2>1. /\ taken \in Seq(Nat) /\ buffer \in Seq(Nat) /\ printed \in Seq(Nat)
        /\ Len(taken) \in Nat /\ Len(buffer) \in Nat /\ Len(printed) \in Nat
        /\ chunks = Len(taken) + Len(buffer) + Len(printed)
    BY DEF ExpectInv
  <2>2. PICK q : q = taken \o buffer
    OBVIOUS
  <2>3. /\ q \in Seq(Nat) /\ Len(q) = Len(taken) + Len(buffer)
        /\ \A i \in 1 .. Len(q) : q[i] = i
    BY <2>1, <2>2 DEF ExpectInv
  <2>4. PICK r : r = q \o printed
    OBVIOUS
  <2>5. /\ r \in Seq(Nat) /\ Len(r) = chunks
        /\ \A i \in 1 .. chunks : r[i] = IF i <= Len(q) THEN q[i] ELSE printed[i - Len(q)]
    <3>1. r \in Seq(Nat) /\ Len(r) = Len(q) + Len(printed)
      BY <2>1, <2>3, <2>4, ConcatProperties
    <3>2. \A i \in 1 .. Len(q) + Len(printed) : (q \o printed)[i] = IF i <= Len(q) THEN q[i] ELSE printed[i - Len(q)]
      BY <2>1, <2>3
    <3>3. Len(q) + Len(printed) = chunks
      BY <2>1, <2>3
    <3> QED
      BY <2>4, <3>1, <3>2, <3>3
  <2>6. \A i \in 1 .. chunks : r[i] = i
    <3>l. /\ Len(q) = Len(taken) + Len(buffer) /\ Len(taken) \in Nat /\ Len(buffer) \in Nat
          /\ Len(printed) \in Nat /\ chunks = Len(q) + Len(printed) /\ \A i \in 1 .. Len(q) : q[i] = i
      BY <2>1, <2>3
    <3> SUFFICES ASSUME NEW i \in 1 .. chunks, ~(i <= Len(q)) PROVE printed[i - Len(q)] = i
      <4> SUFFICES ASSUME NEW i \in 1 .. chunks PROVE r[i] = i
        OBVIOUS
      <4>1. r[i] = IF i <= Len(q) THEN q[i] ELSE printed[i - Len(q)]
        BY <2>5
      <4>2. i <= Len(q) => i \in 1 .. Len(q)
        BY <3>l
      <4> QED
        BY <3>l, <4>1, <4>2
    <3>1. i - Len(q) \in 1 .. Len(printed)
      BY <3>l
    <3>2. printed[i - Len(q)] = Len(taken) + Len(buffer) + (i - Len(q))
      BY <3>1 DEF ExpectInv
    <3> QED
      BY <3>l, <3>2
  <2>7. r = [i \in 1 .. chunks |-> i]
    BY <2>1, <2>5, <2>6
  <2> QED
    BY <2>2, <2>4, <2>7 DEF ExpectConserves
<1> QED
  BY <1>1, <1>2, ExpectKeeps, PTL
=============================================================================
