------------------------------- MODULE Paste --------------------------------
(***************************************************************************)
(* The paste filter in front of the line editor and the held paste           *)
(* (internal/repl/paste.go). A token stands for a run of bytes: "x" text,    *)
(* "nl" a newline, "ctl" a control byte, "tok" the spelling of a review      *)
(* token, "esc" the bytes both markers begin with, "s" and "e" what makes    *)
(* them a start or an end marker, and "run" and "drop" the two typed         *)
(* safepaste commands. Each token remembers whether it was typed or which    *)
(* paste it came with, and whether it is the end the terminal put there; the *)
(* code does not see that, the properties do.                                *)
(*                                                                           *)
(* The terminal delivers in order, but anyhow cut into reads, and with any   *)
(* pause between two of them.                                                *)
(***************************************************************************)
EXTENDS Naturals, Sequences, FiniteSets, SequencesExt

CONSTANTS
  KeyBursts,       \* what may be typed: sequences of token kinds
  Clips,           \* what may be pasted: sequences of token kinds
  pasteReadSize,   \* tokens one read returns at most
  maxBracketPaste, \* tokens a paste may have
  MaxInputs        \* bound: key presses and pastes of a behaviour

ASSUME PasteAssumption ==
  /\ pasteReadSize \in Nat \ {0} /\ maxBracketPaste \in Nat /\ MaxInputs \in Nat

VARIABLES
  terminal,  \* sent by the terminal and read by nobody
  gone,      \* has the terminal gone?
  read,      \* the outstanding read: "none", "reading", or its result
  acc,       \* read and not decided
  collect,   \* inside a paste?
  overflow, discarded, lastFull,
  out,       \* decided, for the editor
  edit,      \* the line being edited
  pasteText, \* pasteState.text
  executed,  \* lines and pastes that have run
  inputs,    \* bound
  keysIn, keysOut, \* keys typed, keys that reached the editor
  pasteEnded, \* pastes whose end has been read
  pasteExcused, \* pastes the filter cannot be expected to recognize
  rejections \* has anything been rejected?

filterVars == <<acc, collect, overflow, discarded>>
ghosts == <<inputs, keysIn, pasteEnded>>
pasteVars == <<terminal, gone, read, filterVars, lastFull, out, edit, pasteText, executed, ghosts, keysOut, pasteExcused, rejections>>

Token(k, from, n) == [k |-> k, from |-> from, n |-> n, at |-> "in"]
Keyed(kinds) == [i \in 1 .. Len(kinds) |-> Token(kinds[i], "key", 0)]
\* The paste that is input number n; its first and last token are marked.
Tagged(kinds, n) == [i \in 1 .. Len(kinds) |-> Token(kinds[i], "clip", n)]
Opened(toks) == [toks EXCEPT ![1].at = "open"]
Closed(toks) == [toks EXCEPT ![Len(toks)].at = "close"]
Kinds(toks) == [i \in 1 .. Len(toks) |-> toks[i].k]
Typed(toks) == SelectSeq(toks, LAMBDA t : t.from = "key")
Self(k) == Token(k, "self", 0)

StartMark == <<"esc", "s">>
EndMark == <<"esc", "e">>

\* Where a marker begins, or 0.
Index(toks, mark) ==
  LET at == {i \in 1 .. Len(toks) - 1 : <<toks[i].k, toks[i + 1].k>> = mark}
  IN  IF at = {} THEN 0 ELSE CHOOSE i \in at : \A j \in at : i <= j

Before(toks, i) == SubSeq(toks, 1, i - 1)
Following(toks, i) == SubSeq(toks, i + 2, Len(toks))
\* partialBracketSuffix: the last token may be the first half of a start marker.
Partial(toks) == toks # <<>> /\ Last(toks).k = "esc"

-----------------------------------------------------------------------------
(* The terminal                                                             *)

TypeKeys == \E s \in KeyBursts :
  /\ inputs < MaxInputs /\ ~gone
  /\ inputs' = inputs + 1
  /\ terminal' = terminal \o Keyed(s) /\ keysIn' = keysIn \o Keyed(s)
  /\ UNCHANGED <<gone, read, filterVars, lastFull, out, edit, pasteText, executed, keysOut, pasteEnded, pasteExcused, rejections>>

\* A terminal that brackets pastes marks the end of all but a broken one. Excused is
\* the paste with an end marker of its own, and the one that comes while another is
\* unread.
PasteClip == \E s \in Clips :
  /\ inputs < MaxInputs /\ ~gone
  /\ inputs' = inputs + 1
  /\ LET body == Opened(Tagged(StartMark \o s, inputs')) IN
       /\ \/ terminal' = terminal \o body
          \/ terminal' = terminal \o body \o Closed(Tagged(EndMark, inputs'))
       /\ pasteExcused' = IF Index(body, EndMark) > 0 \/ Typed(terminal) # terminal
                     THEN pasteExcused \cup {inputs'} ELSE pasteExcused
  /\ UNCHANGED <<gone, read, filterVars, lastFull, out, edit, pasteText, executed, keysIn, keysOut, pasteEnded, rejections>>

TerminalGone ==
  /\ ~gone /\ gone' = TRUE
  /\ UNCHANGED <<terminal, read, filterVars, lastFull, out, edit, pasteText, executed, ghosts, keysOut, pasteExcused, rejections>>

-----------------------------------------------------------------------------
(* The filter                                                               *)

\* What crunch decides: tokens for the editor, the state it leaves, and what
\* becomes of the held paste: "keep", "clear", or a new text.
Decision(emit, rest, inside, over, disc, text, rej) ==
  [emit |-> emit, acc |-> rest, collect |-> inside, overflow |-> over, discarded |-> disc,
   text |-> text, rejected |-> rej]

Reject(emit) == Decision(emit \o <<Self("rej"), Self("nl")>>, <<>>, FALSE, FALSE, 0, <<>>, TRUE)

\* A paste without control bytes and review tokens: on one line it is text for
\* the editor; on several it is held, without its last newline, and a token
\* that does not end the line stands for it.
finishPaste(emit, body) ==
  LET kinds == {body[i].k : i \in 1 .. Len(body)}
      text == IF body # <<>> /\ Last(body).k = "nl" THEN Front(body) ELSE body
  IN  CASE kinds \cap {"ctl", "esc", "s", "e", "tok"} # {} -> Reject(emit)
        [] kinds \cap {"ctl", "esc", "s", "e", "tok"} = {} /\ "nl" \notin kinds ->
             Decision(emit \o body, <<>>, FALSE, FALSE, 0, <<>>, FALSE)
        [] OTHER -> Decision(IF text = <<>> THEN emit ELSE emit \o <<Self("held")>>,
                             <<>>, FALSE, FALSE, 0, text, FALSE)

\* Inside a paste. Anything after the end marker in the same read, or a read
\* that was full, means the clipboard brought its own end marker. A paste that is
\* too large is dropped as it comes, but for a tail that may begin the end marker.
Collecting(emit, toks, over, disc, full, eof) ==
  LET idx == Index(toks, EndMark)
      large == over \/ Len(toks) + disc > maxBracketPaste
      keep == IF large /\ Len(toks) > 1 THEN <<Last(toks)>> ELSE toks
  IN  IF idx > 0
      THEN IF Following(toks, idx) # <<>> \/ full \/ over \/ idx - 1 + disc > maxBracketPaste
           THEN Reject(emit)
           ELSE finishPaste(emit, Before(toks, idx))
      ELSE IF eof THEN Reject(emit)
      ELSE Decision(emit, keep, TRUE, large, disc + Len(toks) - Len(keep), pasteText, FALSE)

\* Outside one. An end marker is the tail of such a clipboard: nothing of this read
\* is typed input.
crunch(toks, full, eof) ==
  LET start == Index(toks, StartMark)
      plain == IF start > 0 THEN Before(toks, start) ELSE toks
  IN  IF collect THEN Collecting(<<>>, toks, overflow, discarded, full, eof)
      ELSE IF Index(plain, EndMark) > 0 THEN Reject(<<>>)
      ELSE IF start > 0 THEN Collecting(plain, Following(toks, start), FALSE, 0, full, eof)
      ELSE IF Partial(toks) /\ ~eof
      THEN Decision(Front(toks), <<Last(toks)>>, FALSE, overflow, discarded, pasteText, FALSE)
      ELSE Decision(toks, <<>>, FALSE, overflow, discarded, pasteText, FALSE)

Apply(d) ==
  /\ out' = d.emit /\ keysOut' = keysOut \o Typed(d.emit)
  /\ acc' = d.acc /\ collect' = d.collect /\ overflow' = d.overflow /\ discarded' = d.discarded
  /\ pasteText' = d.text
  /\ rejections' = (rejections \/ d.rejected)

\* The editor wants input. At most one read is outstanding; it is started here and
\* ends when something has arrived, as much of it as has.
StartRead ==
  /\ out = <<>> /\ read = [st |-> "none"]
  /\ read' = [st |-> "reading"]
  /\ UNCHANGED <<terminal, gone, filterVars, lastFull, out, edit, pasteText, executed, ghosts, keysOut, pasteExcused, rejections>>

ReadReturns ==
  /\ read = [st |-> "reading"] /\ (terminal # <<>> \/ gone)
  /\ \E n \in 0 .. pasteReadSize :
       /\ n <= Len(terminal) /\ (n = 0 => terminal = <<>>)
       /\ read' = [st |-> "result", toks |-> SubSeq(terminal, 1, n), eof |-> n = 0]
       /\ terminal' = SubSeq(terminal, n + 1, Len(terminal))
       /\ pasteEnded' = pasteEnded \cup {t.n : t \in {u \in Range(read'.toks) : u.at = "close"}}
  /\ UNCHANGED <<gone, filterVars, lastFull, out, edit, pasteText, executed, inputs, keysIn, keysOut, pasteExcused, rejections>>

\* fill takes the result, and the loop of Read decides on what has come so far.
fill ==
  /\ out = <<>> /\ read.st = "result" /\ ~(read.eof /\ acc = <<>> /\ ~collect)
  /\ read' = [st |-> IF read.eof THEN "eof" ELSE "none"]
  /\ lastFull' = (Len(read.toks) = pasteReadSize)
  /\ Apply(crunch(acc \o read.toks, lastFull', read.eof))
  /\ UNCHANGED <<terminal, gone, edit, executed, ghosts, pasteExcused>>

\* The line has been idle. A partial marker goes through once its wait is over and
\* an open paste is rejected; the read stays outstanding, and what arrives later is
\* typed input again. That excuses the pastes of which something has been read.
Timeout ==
  /\ out = <<>> /\ read.st = "reading"
  /\ collect \/ acc # <<>>
  /\ pasteExcused' = pasteExcused \cup {n \in 1 .. inputs : \A t \in Range(terminal) : t.n = n => t.at # "open"}
  /\ Apply(IF collect THEN Reject(<<>>) ELSE Decision(acc, <<>>, FALSE, overflow, discarded, pasteText, FALSE))
  /\ UNCHANGED <<terminal, gone, read, lastFull, edit, executed, ghosts>>

-----------------------------------------------------------------------------
(* The editor and the REPL                                                  *)

Has(line, k) == \E i \in 1 .. Len(line) : line[i].k = k

\* The editor takes a token; a newline submits the line, which is a review
\* token, a safepaste command or a command.
handlePasteLine ==
  /\ out # <<>> /\ out' = Tail(out)
  /\ IF Head(out).k # "nl"
     THEN edit' = Append(edit, Head(out)) /\ UNCHANGED <<pasteText, executed>>
     ELSE /\ edit' = <<>>
          /\ CASE Has(edit, "rej") -> pasteText' = <<>> /\ UNCHANGED executed
               [] ~Has(edit, "rej") /\ Has(edit, "held") -> UNCHANGED <<pasteText, executed>>
               [] Kinds(edit) = <<"drop">> -> pasteText' = <<>> /\ UNCHANGED executed
               [] Kinds(edit) = <<"run">> -> pasteText' = <<>> /\ executed' = Append(executed, pasteText)
               [] OTHER -> UNCHANGED pasteText /\ executed' = Append(executed, edit)
  /\ UNCHANGED <<terminal, gone, read, filterVars, lastFull, ghosts, keysOut, pasteExcused, rejections>>

-----------------------------------------------------------------------------
PasteInit ==
  /\ terminal = <<>> /\ gone = FALSE /\ read = [st |-> "none"]
  /\ acc = <<>> /\ collect = FALSE /\ overflow = FALSE /\ discarded = 0 /\ lastFull = FALSE
  /\ out = <<>> /\ edit = <<>> /\ pasteText = <<>> /\ executed = <<>>
  /\ inputs = 0 /\ keysIn = <<>> /\ keysOut = <<>> /\ rejections = FALSE
  /\ pasteEnded = {} /\ pasteExcused = {}

FilterStep == StartRead \/ ReadReturns \/ fill \/ Timeout \/ handlePasteLine
PasteNext == TypeKeys \/ PasteClip \/ TerminalGone \/ FilterStep

PasteSpec == PasteInit /\ [][PasteNext]_pasteVars

-----------------------------------------------------------------------------
(* Properties                                                               *)

\* A newline of the clipboard never reaches the editor, so a paste submits nothing,
\* however it is cut into reads and whatever is typed before and after it. The filter
\* takes for typing what comes, before the read with the paste's end, of a paste with
\* an end marker of its own, of one that stalled, and of one that came on top of
\* another: their newlines get through, and no other's.
NoPastedNewline == \A i \in 1 .. Len(out) :
  out[i].k = "nl" /\ out[i].from = "clip" => out[i].n \in pasteExcused \ pasteEnded

\* What is held, and what safepaste run then runs, is whole but for its last newline:
\* all that stands between two markers of one clipboard, the terminal's unless it has
\* its own. It is not a part, not two of them, no key typed meanwhile, no control byte
\* and no review token.
Between(toks) ==
  {Before(rest, Index(rest, EndMark)) :
     rest \in {Following(toks, i) : i \in {j \in 1 .. Len(toks) - 1 : <<toks[j].k, toks[j + 1].k>> = StartMark}}}
WholeClip(text) ==
  /\ Typed(text) = <<>>
  /\ \E s \in Clips : \E whole \in Between(Tagged(StartMark \o s \o EndMark, 1)) :
        Kinds(whole) \in {Kinds(text), Kinds(text) \o <<"nl">>}
  /\ Range(Kinds(text)) \subseteq {"x", "nl"}
HeldWhole ==
  /\ pasteText # <<>> => WholeClip(pasteText)
  /\ \A i \in 1 .. Len(executed) : Has(executed[i], "nl") => WholeClip(executed[i])

\* Keys reach the editor in order and none is lost, unless something was rejected.
KeysKept ==
  (~rejections /\ ~collect) =>
     keysOut \o Typed(acc) \o (IF read.st = "result" THEN Typed(read.toks) ELSE <<>>) \o Typed(terminal) = keysIn

\* "A paste with no end marker is rejected after pasteIdleTimeout, so Ctrl-C and
\* Enter work again."
PasteCloses == collect ~> ~collect
=============================================================================
