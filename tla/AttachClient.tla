---------------------------- MODULE AttachClient ----------------------------
(***************************************************************************)
(* The terminal of adsshadm snoop (ee/cmd/adsshadm/snoop.go): a goroutine    *)
(* that reads the keyboard, the loop that reads the frames of the server, a  *)
(* watcher that sends the window size, and one that closes the stream when   *)
(* the command is interrupted. pump returns only when the keyboard goroutine *)
(* is gone, and the terminal is put back after pump.                         *)
(***************************************************************************)
EXTENDS Naturals, Sequences

CONSTANTS
  MaxKeys,  \* bound: chunks the user types
  MaxFrames \* bound: frames the server sends

ASSUME AttachClientAssumption == MaxKeys \in Nat /\ MaxFrames \in Nat

VARIABLES
  rw,         \* --rw?
  keysTyped,  \* chunks in the terminal: "keys" or, with Ctrl-] in it, "detach"
  keysLeft,   \* chunks still to be typed
  reader,     \* the keyboard goroutine
  loop,       \* pump's frame loop, and what snoopTerminal does after it
  wmu,        \* holder of the write lock, or "free"
  link,       \* the stream: is it open, does the server read it?
  frames,     \* frames on their way to the client
  framesLeft, \* frames the server may still send
  keysSent,   \* frames the client wrote
  detached,   \* is the detached channel closed?
  deadline,   \* has stopIn interrupted the keyboard read?
  ctxDone,    \* has a signal ended the context?
  raw,        \* is the terminal raw?
  stolen      \* chunks read from the terminal after the attach was over

clientVars == <<rw, keysTyped, keysLeft, reader, loop, wmu, link, frames, framesLeft, keysSent,
                detached, deadline, ctxDone, raw, stolen>>

-----------------------------------------------------------------------------
(* The world around the client                                              *)

Type == \E k \in {"keys", "detach"} :
  /\ keysLeft > 0
  /\ keysLeft' = keysLeft - 1 /\ keysTyped' = Append(keysTyped, k)
  /\ UNCHANGED <<rw, reader, loop, wmu, link, frames, framesLeft, keysSent, detached, deadline, ctxDone, raw, stolen>>

ServerSends == \E f \in {"out", "close", "unknown"} :
  /\ link.open /\ framesLeft > 0
  /\ framesLeft' = framesLeft - 1 /\ frames' = Append(frames, f)
  /\ UNCHANGED <<rw, keysTyped, keysLeft, reader, loop, wmu, link, keysSent, detached, deadline, ctxDone, raw, stolen>>

\* The server stops reading, or starts again: a write of the client blocks.
ServerStalls ==
  /\ link.open
  /\ link' = [link EXCEPT !.reads = ~@]
  /\ UNCHANGED <<rw, keysTyped, keysLeft, reader, loop, wmu, frames, framesLeft, keysSent, detached, deadline, ctxDone, raw, stolen>>

ServerHangsUp ==
  /\ link.open
  /\ link' = [open |-> FALSE, reads |-> FALSE]
  /\ UNCHANGED <<rw, keysTyped, keysLeft, reader, loop, wmu, frames, framesLeft, keysSent, detached, deadline, ctxDone, raw, stolen>>

Signal ==
  /\ ~ctxDone /\ ctxDone' = TRUE
  /\ UNCHANGED <<rw, keysTyped, keysLeft, reader, loop, wmu, link, frames, framesLeft, keysSent, detached, deadline, raw, stolen>>

\* The goroutine of snoopTerminal that waits for the context.
CloseOnSignal ==
  /\ ctxDone /\ link.open /\ loop # "over"
  /\ link' = [open |-> FALSE, reads |-> FALSE]
  /\ UNCHANGED <<rw, keysTyped, keysLeft, reader, loop, wmu, frames, framesLeft, keysSent, detached, deadline, ctxDone, raw, stolen>>

-----------------------------------------------------------------------------
(* The keyboard goroutine                                                   *)

Take(who) == wmu = "free" /\ wmu' = who
\* A write under the lock ends: it is taken by a server that reads, or fails.
WriteEnds(who, f) ==
  /\ wmu = who /\ wmu' = "free"
  /\ \/ link.open /\ link.reads /\ keysSent' = Append(keysSent, f)
     \/ ~link.open /\ UNCHANGED keysSent

AfterKeys(k) ==
  CASE k = "detach" -> IF rw THEN "before" ELSE "closing"
    [] OTHER -> IF rw THEN "send" ELSE "read"

\* The reader may stay behind: what it reads then is taken from the prompt.
ReadKeys ==
  /\ reader = "read" /\ keysTyped # <<>>
  /\ keysTyped' = Tail(keysTyped)
  /\ stolen' = stolen + (IF loop = "over" THEN 1 ELSE 0)
  /\ reader' = AfterKeys(Head(keysTyped))
  /\ UNCHANGED <<rw, keysLeft, loop, wmu, link, frames, framesLeft, keysSent, detached, deadline, ctxDone, raw>>

ReadInterrupted ==
  /\ reader = "read" /\ deadline
  /\ reader' = "done"
  /\ UNCHANGED <<rw, keysTyped, keysLeft, loop, wmu, link, frames, framesLeft, keysSent, detached, deadline, ctxDone, raw, stolen>>

ReaderTakes ==
  /\ reader \in {"send", "before", "closing"} /\ Take("reader")
  /\ UNCHANGED <<rw, keysTyped, keysLeft, reader, loop, link, frames, framesLeft, keysSent, detached, deadline, ctxDone, raw, stolen>>

\* A send that fails ends the goroutine, except the one before Ctrl-].
ReaderSent ==
  /\ reader \in {"send", "before", "closing"}
  /\ WriteEnds("reader", IF reader = "closing" THEN "detach" ELSE "in")
  /\ reader' = IF reader = "send" THEN (IF link.open THEN "read" ELSE "done")
               ELSE IF reader = "before" THEN "closing" ELSE "detach"
  /\ UNCHANGED <<rw, keysTyped, keysLeft, loop, link, frames, framesLeft, detached, deadline, ctxDone, raw, stolen>>

\* Waits for the answer of the server.
CtrlBracket_Waits ==
  /\ reader = "detach" /\ reader' = "done"
  /\ detached' = TRUE
  /\ UNCHANGED <<rw, keysTyped, keysLeft, loop, wmu, link, frames, framesLeft, keysSent, deadline, ctxDone, raw, stolen>>

\* "Unblock the frame loop even if the server never answers."
CtrlBracket ==
  /\ reader = "detach" /\ reader' = "done"
  /\ detached' = TRUE
  /\ link' = [open |-> FALSE, reads |-> FALSE]
  /\ UNCHANGED <<rw, keysTyped, keysLeft, loop, wmu, frames, framesLeft, keysSent, deadline, ctxDone, raw, stolen>>

-----------------------------------------------------------------------------
(* The frame loop                                                           *)

\* The frames that were sent before the stream closed are still read.
ReadFrame ==
  /\ loop = "read" /\ frames # <<>>
  /\ frames' = Tail(frames)
  /\ loop' = CASE Head(frames) = "out" -> "read"
               [] Head(frames) = "close" -> "stop"
               [] OTHER -> "protocol"
  /\ UNCHANGED <<rw, keysTyped, keysLeft, reader, wmu, link, framesLeft, keysSent, detached, deadline, ctxDone, raw, stolen>>

\* End of the stream: detached, closed by the server, or interrupted.
ReadEnds ==
  /\ loop = "read" /\ frames = <<>> /\ ~link.open
  /\ loop' = "stop"
  /\ UNCHANGED <<rw, keysTyped, keysLeft, reader, wmu, link, frames, framesLeft, keysSent, detached, deadline, ctxDone, raw, stolen>>

LoopTakes ==
  /\ loop = "protocol" /\ Take("loop")
  /\ UNCHANGED <<rw, keysTyped, keysLeft, reader, loop, link, frames, framesLeft, keysSent, detached, deadline, ctxDone, raw, stolen>>

LoopSent ==
  /\ loop = "protocol" /\ WriteEnds("loop", "close")
  /\ loop' = "stop"
  /\ UNCHANGED <<rw, keysTyped, keysLeft, reader, link, frames, framesLeft, detached, deadline, ctxDone, raw, stolen>>

StopIn ==
  /\ loop = "stop" /\ loop' = "wait"
  /\ deadline' = TRUE
  /\ UNCHANGED <<rw, keysTyped, keysLeft, reader, wmu, link, frames, framesLeft, keysSent, detached, ctxDone, raw, stolen>>

\* pump returns without waiting for the goroutine.
PumpReturns_NoWait ==
  /\ loop = "wait" /\ loop' = "restore"
  /\ UNCHANGED <<rw, keysTyped, keysLeft, reader, wmu, link, frames, framesLeft, keysSent, detached, deadline, ctxDone, raw, stolen>>

PumpReturns ==
  /\ loop = "wait" /\ reader = "done"
  /\ loop' = "restore"
  /\ UNCHANGED <<rw, keysTyped, keysLeft, reader, wmu, link, frames, framesLeft, keysSent, detached, deadline, ctxDone, raw, stolen>>

\* The deferred calls: blocking mode and the terminal are restored, the stream is closed.
Restore ==
  /\ loop = "restore" /\ loop' = "over"
  /\ raw' = FALSE /\ link' = [open |-> FALSE, reads |-> FALSE]
  /\ UNCHANGED <<rw, keysTyped, keysLeft, reader, wmu, frames, framesLeft, keysSent, detached, deadline, ctxDone, stolen>>

\* The watcher of SIGWINCH shares lockedConn, not pump's lock; whole frames only.
SendSize ==
  /\ rw /\ loop # "over" /\ link.open /\ link.reads /\ Len(keysSent) < MaxKeys + 2
  /\ keysSent' = Append(keysSent, "resize")
  /\ UNCHANGED <<rw, keysTyped, keysLeft, reader, loop, wmu, link, frames, framesLeft, detached, deadline, ctxDone, raw, stolen>>

-----------------------------------------------------------------------------
ClientInit ==
  /\ rw \in BOOLEAN
  /\ keysTyped = <<>> /\ keysLeft = MaxKeys
  /\ reader = "read" /\ loop = "read" /\ wmu = "free"
  /\ link = [open |-> TRUE, reads |-> TRUE]
  /\ frames = <<>> /\ framesLeft = MaxFrames
  /\ keysSent = <<>>
  /\ detached = FALSE /\ deadline = FALSE /\ ctxDone = FALSE
  /\ raw = TRUE /\ stolen = 0

KeyboardStep == ReadKeys \/ ReadInterrupted \/ ReaderTakes \/ ReaderSent \/ CtrlBracket
PumpStep == ReadFrame \/ ReadEnds \/ LoopTakes \/ LoopSent \/ StopIn \/ PumpReturns \/ Restore

ClientNext ==
  \/ Type \/ ServerSends \/ ServerStalls \/ ServerHangsUp \/ Signal \/ CloseOnSignal
  \/ ReadKeys \/ ReadInterrupted \/ ReaderTakes \/ ReaderSent \/ CtrlBracket
  \/ ReadFrame \/ ReadEnds \/ LoopTakes \/ LoopSent \/ StopIn \/ PumpReturns \/ Restore
  \/ SendSize

ClientSpec == ClientInit /\ [][ClientNext]_clientVars

-----------------------------------------------------------------------------
(* Properties                                                               *)

\* "no keystroke is left to a dead attach": after the terminal was put back, no
\* goroutine of the attach takes what is typed at the prompt.
NoKeyStolen == stolen = 0 /\ (loop = "over" => ~raw /\ reader = "done")

\* A view sends no keystroke and no size, and after the close of a detach only
\* sizes and no keystroke follow.
SentAsAllowed ==
  /\ ~rw => \A i \in DOMAIN keysSent : keysSent[i] \in {"close", "detach"}
  /\ \A i, j \in DOMAIN keysSent : i < j /\ keysSent[i] = "detach" => keysSent[j] # "in"

\* A user who types Ctrl-], in whatever chunk, gets the prompt back from
\* a server that never answers, unless it stops reading: pump waits for the keyboard
\* goroutine also while that is blocked in a write, which stopIn does not end. A signal
\* and the end of the stream do, and bring the prompt back from any server.
DetachTyped ==
  \/ \E i \in DOMAIN keysTyped : keysTyped[i] = "detach"
  \/ reader \in {"before", "closing", "detach"}
PromptReturns ==
  /\ DetachTyped ~> (loop = "over" \/ (link.open /\ ~link.reads))
  /\ ctxDone ~> loop = "over"
  /\ ~link.open ~> loop = "over"
=============================================================================
